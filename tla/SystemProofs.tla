---------------------------- MODULE SystemProofs ----------------------------
(***************************************************************************)
(* Proofs about System, for any number of debates, rounds, restarts and    *)
(* retries, any limit and threshold, and any number of hung turns.  First, *)
(* the program plays the debates of Debate; then, what abandoned threads   *)
(* can do to the budget's limit and to the breakers; last, every answer is *)
(* paid for.                                                               *)
(***************************************************************************)
EXTENDS System, FiniteSetTheorems, TLAPS

LEMMA CallsEachType == CallsEach \in Nat /\ CallsEach >= 3 /\ CallsEach = 2 * Rounds + 1
  BY SizesAssumption DEF CallsEach

\* The calls of one debate end before those of a later one begin.
LEMMA CallsInOrder ==
  ASSUME NEW a \in Nat, NEW b \in Nat, a < b, NEW k \in Nat, k >= 1
  PROVE  a * k \in Nat /\ b * k \in Nat /\ a * k + k <= b * k
  <1>1. PICK d \in Nat : b = a + 1 + d
    <2>1. b - a - 1 \in Nat /\ b = a + 1 + (b - a - 1)
      OBVIOUS
    <2>2. QED
      BY <2>1
  <1>2. b * k = a * k + k + d * k
    BY <1>1
  <1>3. d * k \in Nat /\ a * k \in Nat
    OBVIOUS
  <1>4. QED
    BY <1>2, <1>3

\* Quotient and remainder of the division by which calls are told apart.
LEMMA DivisionUnique ==
  ASSUME NEW q \in Nat, NEW k \in Nat, k >= 1, NEW r \in 0..(k - 1)
  PROVE  (q * k + r) \div k = q /\ (q * k + r) % k = r
  <1> DEFINE n == q * k + r
             d == n \div k
             m == n % k
  <1>1. n \in Nat /\ d \in Int /\ m \in 0..(k - 1) /\ n = k * d + m
    OBVIOUS
  <1>2. k * (q - d) = m - r
    BY <1>1
  <1>3. ASSUME q - d >= 1 PROVE FALSE
    <2>1. k * (q - d) >= k
      BY <1>1, <1>3
    <2>2. QED
      BY <1>1, <1>2, <2>1
  <1>4. ASSUME q - d <= -1 PROVE FALSE
    <2>1. k * (q - d) <= -k
      BY <1>1, <1>4
    <2>2. QED
      BY <1>1, <1>2, <2>1
  <1>5. q = d
    BY <1>1, <1>3, <1>4
  <1>6. QED
    BY <1>1, <1>2, <1>5

\* The guarded calls of earlier debates.
Base == (debate - 1) * CallsEach

LEMMA BaseFacts ==
  ASSUME debate \in 1..Debates
  PROVE  /\ Base \in Nat /\ Calls \in Nat /\ Base + CallsEach <= Calls
         /\ debate < Debates => debate * CallsEach = Base + CallsEach
                                /\ Base + 2 * CallsEach <= Calls
         /\ debate = Debates => Base + CallsEach = Calls
  <1>1. debate - 1 \in Nat /\ debate - 1 < Debates /\ Debates \in Nat
    BY SizesAssumption
  <1>2. Base \in Nat /\ Calls \in Nat /\ Base + CallsEach <= Calls
    BY <1>1, CallsInOrder, CallsEachType DEF Base, Calls
  <1>3. debate * CallsEach = Base + CallsEach
    BY CallsEachType DEF Base
  <1>4. debate < Debates => debate * CallsEach + CallsEach <= Calls
    BY <1>1, CallsInOrder, CallsEachType DEF Calls
  <1>5. debate = Debates => Base + CallsEach = Calls
    BY <1>3, CallsEachType DEF Calls
  <1>6. QED
    BY <1>2, <1>3, <1>4, <1>5, CallsEachType

\* Which turn the r-th call of a debate is.
LEMMA TurnFacts ==
  ASSUME debate \in 1..Debates, NEW r \in 0..(CallsEach - 1)
  PROVE  TurnIn(Base + r + 1) = r + 1 /\ DebateOf(Base + r + 1) = debate
  <1>1. debate - 1 \in Nat
    BY SizesAssumption
  <1>2. (Base + r) \div CallsEach = debate - 1 /\ (Base + r) % CallsEach = r
    BY <1>1, CallsEachType, DivisionUnique DEF Base
  <1>3. (Base + r + 1) - 1 = Base + r
    BY BaseFacts
  <1>4. QED
    BY <1>2, <1>3 DEF TurnIn, DebateOf

-----------------------------------------------------------------------------
\* Where the engine's thread is in the calls of all debates; while it routes or has
\* its verdict, the watchdog is already at the next call.
InPlace ==
  /\ debate \in 1..Debates /\ number \in 1..Rounds /\ side \in D!Debaters
  /\ call \in 1..Calls
  /\ pc \in {"turn", "route", "verdict", "done", "aborted"}
  /\ pc = "turn" => call = Base + 2 * number - (IF side = "pro" THEN 1 ELSE 0)
  /\ pc = "route" => call = Base + 2 * number + (IF side = "pro" THEN 0 ELSE 1)
  /\ pc = "verdict" => call = Base + CallsEach

\* The watchdog runs a turn or the verdict, on a worker there is.
Guarded ==
  /\ main = "join" => pc \in {"turn", "verdict"}
  /\ main \in {"start", "join"} => attempt \in 0..MaxRestarts

\* What was relayed, and what the worker being joined was told of it.
Relays ==
  /\ inbox \in [D!Debaters -> Nat \cup {None}]
  /\ asked \in [W!Workers -> Nat \cup {None}]
  /\ main = "join" /\ pc = "turn" => asked[W!Current] = inbox[side]

Spoken == transcript \in Seq(D!Message) /\ (pc = "route" => transcript # <<>>)

PInv == InPlace /\ Guarded /\ Relays /\ Spoken

LEMMA Halves ==
  ASSUME NEW n \in Nat
  PROVE  /\ (2 * n - 1) % 2 = 1 /\ (2 * n) % 2 = 0
         /\ (2 * n - 1 + 1) \div 2 = n /\ (2 * n + 1) \div 2 = n
  OBVIOUS

\* The worker that is joined for a turn is that of the side to move.
LEMMA CurrentTurn ==
  ASSUME InPlace, pc = "turn"
  PROVE  Speaker(call) = side /\ (TurnIn(call) + 1) \div 2 = number
         /\ call < Calls
  <1>1. CASE side = "pro"
    <2> DEFINE r == 2 * number - 2
    <2>1. r \in 0..(CallsEach - 1) /\ call = Base + r + 1 /\ call < Base + CallsEach
      BY <1>1, CallsEachType, BaseFacts, SizesAssumption DEF InPlace
    <2>2. TurnIn(call) = 2 * number - 1
      BY <2>1, TurnFacts DEF InPlace
    <2>3. number \in Nat /\ TurnIn(call) % 2 = 1 /\ (TurnIn(call) + 1) \div 2 = number
      BY <2>2, Halves, SizesAssumption DEF InPlace
    <2>4. call < Calls
      BY <2>1, CallsEachType, BaseFacts DEF InPlace
    <2>5. QED
      BY <1>1, <2>3, <2>4 DEF Speaker
  <1>2. CASE side = "con"
    <2> DEFINE r == 2 * number - 1
    <2>1. r \in 0..(CallsEach - 1) /\ call = Base + r + 1 /\ call < Base + CallsEach
      BY <1>2, CallsEachType, BaseFacts, SizesAssumption DEF InPlace
    <2>2. TurnIn(call) = 2 * number
      BY <2>1, TurnFacts DEF InPlace
    <2>3. number \in Nat /\ TurnIn(call) % 2 # 1 /\ (TurnIn(call) + 1) \div 2 = number
      BY <2>2, Halves, SizesAssumption DEF InPlace
    <2>4. call < Calls
      BY <2>1, CallsEachType, BaseFacts DEF InPlace
    <2>5. QED
      BY <1>2, <2>3, <2>4 DEF Speaker
  <1>3. QED
    BY <1>1, <1>2 DEF InPlace, D!Debaters

-----------------------------------------------------------------------------
\* What the callers do leaves the engine's thread alone.
CallersOnly == UNCHANGED <<main, call, attempt, debateVars, debate, asked>>

LEMMA Kinds ==
  [Next]_vars => \/ Start \/ Return \/ Fail \/ Halt \/ Relay \/ Remind \/ NextDebate
                 \/ CallersOnly
  <1> SUFFICES ASSUME [Next]_vars
               PROVE  \/ Start \/ Return \/ Fail \/ Halt \/ Relay \/ Remind \/ NextDebate
                      \/ CallersOnly
    OBVIOUS
  <1>1. CASE \E c \in Callers : Begin(c) \/ Proceed(c)
    BY <1>1 DEF Begin, Proceed, CallersOnly, watchdogVars, ownVars
  <1>2. ASSUME NEW w \in W!Workers, Finish(w) \/ Exit(w) PROVE CallersOnly
    BY <1>2 DEF Finish, Exit, W!Finish, W!Exit, CallersOnly, ownVars
  <1>3. CASE Terminated \/ UNCHANGED vars
    BY <1>3 DEF Terminated, vars, CallersOnly, watchdogVars, ownVars
  <1>4. QED
    BY <1>1, <1>2, <1>3 DEF Next

LEMMA InitPInv == Init => PInv
  <1> SUFFICES ASSUME Init PROVE PInv
    OBVIOUS
  <1>1. /\ main = "start" /\ call = 1 /\ attempt = 0 /\ debate = 1
        /\ pc = "turn" /\ number = 1 /\ side = "pro" /\ transcript = <<>>
        /\ inbox = [d \in D!Debaters |-> None] /\ asked = [w \in W!Workers |-> None]
    BY SizesAssumption DEF Init, W!Init, D!Init
  <1>2. InPlace
    <2>1. debate \in 1..Debates
      BY <1>1, SizesAssumption
    <2>2. Base = 0
      BY <1>1, CallsEachType DEF Base
    <2>3. QED
      BY <1>1, <2>1, <2>2, BaseFacts, CallsEachType, SizesAssumption DEF InPlace, D!Debaters
  <1>3. Guarded /\ Relays /\ Spoken
    BY <1>1, LimitsAssumption DEF Guarded, Relays, Spoken
  <1>4. QED
    BY <1>2, <1>3 DEF PInv

LEMMA StartPInv == ASSUME PInv, Start PROVE PInv'
  <1> USE DEF PInv
  <1>1. /\ pc \in {"turn", "verdict"} /\ main = "start" /\ main' = "join"
        /\ UNCHANGED <<call, attempt, pc, number, side, transcript, inbox, debate>>
        /\ asked' = [asked EXCEPT ![W!Current] = IF pc = "turn" THEN inbox[side] ELSE None]
    BY DEF Start, W!Start, debateVars
  <1>2. InPlace' /\ Guarded' /\ Spoken'
    BY <1>1 DEF InPlace, Base, Guarded, Spoken
  <1>3. W!Current \in W!Workers /\ W!Current' = W!Current
    BY <1>1 DEF Guarded, InPlace, W!Current, W!Workers
  <1>4. Relays'
    BY <1>1, <1>3 DEF Relays, InPlace
  <1>5. QED
    BY <1>2, <1>4

\* A turn that is recorded is the message that Debate has there.
LEMMA ReturnedTurn ==
  ASSUME PInv, main = "join", pc = "turn", NEW text \in D!Texts
  PROVE  /\ TurnOf(W!Current, text)
               = D!BuildMessage(side, "judge",
                                IF inbox[side] = None THEN "argument" ELSE "rebuttal",
                                text, inbox[side])
         /\ TurnOf(W!Current, text) \in D!Message
         /\ TurnOf(W!Current, text).type # "intervention"
  <1>1. asked[W!Current] = inbox[side] /\ inbox[side] \in Nat \cup {None} /\ side \in D!Debaters
    BY DEF PInv, Relays, InPlace
  <1>2. W!Current[1] = call
    BY DEF W!Current
  <1>3. Speaker(call) = side /\ (TurnIn(call) + 1) \div 2 = number /\ number \in Nat
    BY CurrentTurn, SizesAssumption DEF PInv, InPlace
  <1>4. TurnOf(W!Current, text)
          = D!BuildMessage(side, "judge",
                           IF inbox[side] = None THEN "argument" ELSE "rebuttal",
                           text, inbox[side])
    BY <1>1, <1>2, <1>3 DEF TurnOf, D!BuildMessage
  <1>5. QED
    BY <1>1, <1>3, <1>4 DEF D!BuildMessage, D!Message, D!Types, D!Debaters

LEMMA ReturnPInv == ASSUME PInv, Return PROVE PInv'
  <1> USE DEF PInv
  <1>1. /\ main = "join" /\ attempt' = 0 /\ main' \in {"start", "finished"}
        /\ IF call < Calls THEN call' = call + 1 ELSE call' = call
        /\ UNCHANGED <<debate, asked>>
    BY DEF Return, W!Return, ownVars
  <1>2. call' \in 1..Calls
    BY <1>1, BaseFacts DEF InPlace
  <1>3. CASE pc = "turn"
    <2>1. PICK text \in D!Texts :
             /\ transcript' = Append(transcript, TurnOf(W!Current, text))
             /\ pc' = "route" /\ UNCHANGED <<number, side, inbox>>
      BY <1>3 DEF Return, D!Decide
    <2>2. call' = call + 1 /\ Base' = Base
      BY <1>1, <1>3, CurrentTurn DEF Base
    <2>3. call' = Base' + 2 * number' + (IF side' = "pro" THEN 0 ELSE 1)
      <3>1. side \in {"pro", "con"} /\ number \in Nat /\ Base \in Nat
            /\ call = Base + 2 * number - (IF side = "pro" THEN 1 ELSE 0)
        BY <1>3, BaseFacts, SizesAssumption DEF InPlace, D!Debaters
      <3>2. QED
        BY <2>1, <2>2, <3>1
    <2>7. InPlace'
      BY <1>1, <1>2, <2>1, <2>3 DEF InPlace
    <2>4. Guarded' /\ Relays'
      BY <1>1, <2>1, LimitsAssumption DEF Guarded, Relays
    <2>5. Spoken'
      <3>1. TurnOf(W!Current, text) \in D!Message
        BY <1>1, <1>3, ReturnedTurn
      <3>2. transcript' \in Seq(D!Message) /\ transcript' # <<>>
        BY <2>1, <3>1 DEF Spoken
      <3>3. QED
        BY <3>2 DEF Spoken
    <2>6. QED
      BY <2>7, <2>4, <2>5
  <1>4. CASE pc # "turn"
    <2>1. pc' = "done" /\ UNCHANGED <<number, side, inbox, transcript>>
      BY <1>4 DEF Return, D!Decide
    <2>2. QED
      BY <1>1, <1>2, <2>1, LimitsAssumption DEF InPlace, Guarded, Relays, Spoken, Base
  <1>5. QED
    BY <1>3, <1>4

LEMMA FailPInv == ASSUME PInv, Fail \/ Halt PROVE PInv'
  <1> USE DEF PInv
  <1>1. /\ UNCHANGED <<call, number, side, transcript, inbox, debate, asked>>
        /\ main' # "join"
        /\ pc' \in {pc, "aborted"}
        /\ main' = "start" => attempt' \in 0..MaxRestarts
    <2>1. CASE Fail
      <3>1. /\ UNCHANGED <<call, number, side, transcript, inbox, debate, asked>>
            /\ main = "join" /\ W!Restart /\ pc' \in {pc, "aborted"}
        BY <2>1 DEF Fail, W!Error, W!Timeout, D!GuardFails, D!Abort, ownVars
      <3>2. QED
        BY <3>1, LimitsAssumption DEF W!Restart, Guarded
    <2>2. CASE Halt
      BY <2>2 DEF Halt, W!Fatal, D!BudgetGone, D!Abort, ownVars
    <2>3. QED
      BY <2>1, <2>2
  <1>2. QED
    BY <1>1 DEF InPlace, Guarded, Relays, Spoken, Base

\* Relay and Remind, which deliver the turn and move on.
LEMMA DeliverPInv ==
  ASSUME PInv, pc = "route", NEW made \in Seq(D!Message), D!Deliver(made),
         UNCHANGED <<main, call, debate, asked>>
  PROVE  PInv'
  <1> USE DEF PInv
  <1>1. /\ transcript' = transcript \o made
        /\ inbox' = [inbox EXCEPT ![D!Opponent(side)] = Len(transcript) + 1]
        /\ side' = D!Opponent(side)
        /\ number' = IF side = "con" /\ number < Rounds THEN number + 1 ELSE number
        /\ pc' = IF side = "con" /\ number = Rounds THEN "verdict" ELSE "turn"
        /\ attempt' = attempt
    BY DEF D!Deliver, D!Advance
  <1>2. Base' = Base
    BY DEF Base
  <1>3. InPlace'
    <2>1. number' \in 1..Rounds /\ side' \in D!Debaters /\ number \in 1..Rounds
      BY <1>1, SizesAssumption DEF InPlace, D!Opponent, D!Debaters
    <2>2. pc' = "turn" => call' = Base' + 2 * number' - (IF side' = "pro" THEN 1 ELSE 0)
      <3>1. number \in Nat /\ Rounds \in Nat /\ Base \in Nat /\ side \in {"pro", "con"}
            /\ number <= Rounds
            /\ call = Base + 2 * number + (IF side = "pro" THEN 0 ELSE 1)
        BY BaseFacts, SizesAssumption DEF InPlace, D!Debaters
      <3>2. side = "pro" => side' = "con" /\ number' = number
        BY <1>1 DEF D!Opponent
      <3>3. side = "con" /\ pc' = "turn" => side' = "pro" /\ number' = number + 1
        BY <1>1, <3>1 DEF D!Opponent
      <3>4. QED
        BY <1>2, <3>1, <3>2, <3>3
    <2>3. pc' = "verdict" => call' = Base' + CallsEach
      BY <1>1, <1>2, <2>1, BaseFacts, CallsEachType, SizesAssumption DEF InPlace
    <2>4. QED
      BY <1>1, <2>1, <2>2, <2>3 DEF InPlace
  <1>4. Guarded'
    BY <1>1 DEF Guarded
  <1>5. PICK place \in Nat : place = Len(transcript) + 1
    BY DEF Spoken
  <1>6. Relays'
    <2>1. inbox' \in [D!Debaters -> Nat \cup {None}]
      BY <1>1, <1>5 DEF Relays
    <2>2. main' # "join"
      BY DEF Guarded
    <2>3. QED
      BY <2>1, <2>2 DEF Relays
  <1>7. Spoken'
    BY <1>1 DEF Spoken
  <1>8. QED
    BY <1>3, <1>4, <1>6, <1>7

\* While the engine routes, the last message is the turn being routed.
LEMMA RoutePInv == ASSUME PInv, Relay \/ Remind PROVE PInv'
  <1> USE DEF PInv
  <1> DEFINE relay == D!RelayOf(D!Spoken)
             reminder == D!BuildMessage("judge", D!Spoken.sender, "intervention", "firm", None)
  <1>1. CASE D!InterveneFails
    <2>1. /\ UNCHANGED <<main, call, number, side, transcript, inbox, debate, asked, attempt>>
          /\ pc = "route" /\ pc' = "aborted"
      BY <1>1 DEF Relay, Remind, D!InterveneFails, D!Abort, ownVars
    <2>2. QED
      BY <2>1 DEF InPlace, Guarded, Relays, Spoken, Base
  <1>2. CASE ~D!InterveneFails
    <2>1. /\ pc = "route" /\ UNCHANGED <<main, call, debate, asked>>
          /\ D!Deliver(<<relay>>) \/ D!Deliver(<<relay, reminder>>)
      BY <1>2 DEF Relay, Remind, D!Relay, D!RelayAndIntervene, ownVars
    <2>2. relay \in D!Message /\ reminder \in D!Message
      <3>1. transcript # <<>>
        BY <2>1 DEF Spoken
      <3>2. D!Spoken \in D!Message
        BY <3>1 DEF Spoken, D!Spoken
      <3>3. number \in Nat /\ Len(transcript) \in Nat
        BY SizesAssumption DEF InPlace, Spoken
      <3>4. relay \in D!Message
        BY <3>2, <3>3
        DEF D!RelayOf, D!BuildMessage, D!Message, D!Opponent, D!Debaters, D!Types
      <3>5. reminder \in D!Message
        BY <3>2, <3>3 DEF D!BuildMessage, D!Message, D!Debaters, D!Types, D!Texts
      <3>6. QED
        BY <3>4, <3>5
    <2>3. PICK made \in Seq(D!Message) : D!Deliver(made)
      <3>1. <<relay>> \in Seq(D!Message) /\ <<relay, reminder>> \in Seq(D!Message)
        BY <2>2
      <3>2. QED
        BY <2>1, <3>1
    <2>4. UNCHANGED <<main, call, debate, asked>>
      BY <2>1
    <2>5. QED
      BY <2>1, <2>3, <2>4, DeliverPInv
  <1>3. QED
    BY <1>1, <1>2

LEMMA NextDebatePInv == ASSUME PInv, NextDebate PROVE PInv'
  <1> USE DEF PInv
  <1>1. /\ debate < Debates /\ debate' = debate + 1 /\ main' = "start"
        /\ call' = debate * CallsEach + 1 /\ attempt' = 0
        /\ pc' = "turn" /\ number' = 1 /\ side' = "pro" /\ transcript' = <<>>
        /\ inbox' = [d \in D!Debaters |-> None] /\ asked' = asked
    BY DEF NextDebate
  <1>2. Base' = Base + CallsEach /\ call' = Base' + 1 /\ Base' \in Nat
    BY <1>1, BaseFacts, CallsEachType, SizesAssumption DEF InPlace, Base
  <1>3. call' \in 1..Calls /\ debate' \in 1..Debates
    BY <1>1, <1>2, BaseFacts, CallsEachType, SizesAssumption DEF InPlace
  <1>4. InPlace'
    BY <1>1, <1>2, <1>3, SizesAssumption DEF InPlace, D!Debaters
  <1>5. Guarded' /\ Relays' /\ Spoken'
    BY <1>1, LimitsAssumption DEF Guarded, Relays, Spoken
  <1>6. QED
    BY <1>4, <1>5

LEMMA NextPInv == PInv /\ [Next]_vars => PInv'
  <1> SUFFICES ASSUME PInv, [Next]_vars PROVE PInv'
    OBVIOUS
  <1>1. CASE CallersOnly
    BY <1>1 DEF CallersOnly, debateVars, PInv, InPlace, Base, Guarded, Relays, Spoken, W!Current
  <1>2. QED
    BY <1>1, Kinds, StartPInv, ReturnPInv, FailPInv, RoutePInv, NextDebatePInv

\* One step of the program is one of Debate, begins the next debate, or is not seen there.
LEMMA StepPlays ==
  ASSUME PInv, [Next]_vars
  PROVE  [D!Next \/ NextDebate]_<<debateVars, attempt>>
  <1>1. CASE Start \/ CallersOnly
    BY <1>1 DEF Start, W!Start, CallersOnly
  <1>2. CASE Return
    <2>1. main = "join" /\ attempt' = 0
      BY <1>2 DEF Return, W!Return
    <2>2. CASE pc = "turn"
      <3>1. PICK text \in D!Texts :
               /\ transcript' = Append(transcript, TurnOf(W!Current, text))
               /\ heard' = [heard EXCEPT ![side] = @ \cup ({asked[W!Current]} \ {None})]
               /\ pc' = "route" /\ UNCHANGED <<number, side, inbox, verdict, cause>>
        BY <1>2, <2>2 DEF Return, D!Decide
      <3>2. asked[W!Current] = inbox[side]
        BY <2>1, <2>2 DEF PInv, Relays
      <3>3. transcript' = Append(transcript,
                D!BuildMessage(side, "judge",
                               IF inbox[side] = None THEN "argument" ELSE "rebuttal",
                               text, inbox[side]))
        BY <2>1, <2>2, <3>1, ReturnedTurn
      <3>4. D!Speak(text)
        BY <2>1, <2>2, <3>1, <3>2, <3>3 DEF D!Speak
      <3>5. QED
        BY <3>4 DEF D!Next
    <2>3. CASE pc # "turn"
      BY <1>2, <2>3 DEF Return, D!Next
    <2>4. QED
      BY <2>2, <2>3
  <1>3. CASE Fail \/ Halt
    BY <1>3 DEF Fail, Halt, D!Next
  <1>4. CASE Relay \/ Remind
    <2>1. D!Relay \/ D!RelayAndIntervene("firm") \/ D!InterveneFails
      BY <1>4 DEF Relay, Remind
    <2>2. QED
      BY <2>1 DEF D!Next, D!Texts
  <1>5. CASE NextDebate
    BY <1>5
  <1>6. QED
    BY <1>1, <1>2, <1>3, <1>4, <1>5, Kinds

\* Engine, watchdog, providers and gate together play the debates that Debate describes,
\* one after the other, whatever restarts, late answers and strays there are (engine.py,
\* round.py, watchdog.py).
THEOREM ProgramPlaysDebate == Spec => PlaysDebate
  <1>1. Init => D!Init
    BY DEF Init
  <1>2. Spec => []PInv
    BY InitPInv, NextPInv, PTL DEF Spec
  <1>3. PInv /\ [Next]_vars => [D!Next \/ NextDebate]_<<debateVars, attempt>>
    BY StepPlays
  <1>4. QED
    BY <1>1, <1>2, <1>3, PTL DEF Spec, PlaysDebate

-----------------------------------------------------------------------------
CallTypes ==
  /\ used \in P!Usage
  /\ stage \in [Callers -> P!Stages]
  /\ projected \in [Callers -> P!Usage]
  /\ provider = [c \in Callers |-> ProviderOf(c)]
  /\ failures \in [Providers -> Nat] /\ open \in [Providers -> BOOLEAN]
  /\ box \in [W!Workers -> W!Outcomes \cup {"empty"}]

\* The live threads are those abandoned and the one being joined.
Strays == \A w \in alive : w \in abandoned \/ (main = "join" /\ w = W!Current)

\* A caller that the engine's thread waits for, or that it is itself.
Wanted(c) ==
  \/ main = "join" /\ c = W!Current /\ c \in alive /\ box[c] = "empty"
  \/ pc = "route" /\ c = Self /\ D!ShouldIntervene(D!Spoken.text)

\* Nobody else calls a provider, but threads that were abandoned.
BusyWanted == \A c \in Callers : stage[c] # "idle" => c \in abandoned \/ Wanted(c)

LInv == PInv /\ CallTypes /\ Strays /\ BusyWanted /\ IsFiniteSet(abandoned)

\* A step of one call.
CallStep(c) ==
  \/ P!Begin(c, ProviderOf(c), OneCall)
  \/ P!Veto(c)
  \/ P!Admit(c)
  \/ P!Reject(c)
  \/ P!PassBreaker(c)
  \/ P!Attempt(c)
  \/ P!Answer(c)
  \/ P!Charge(c, OneCall)
  \/ P!Return(c)
  \/ P!FailTransient(c)
  \/ P!FailPermanent(c)
  \/ P!GiveUp(c)
  \/ P!Backoff(c)

\* A step is one of a call, and then nothing is abandoned, or is not seen by any call.
LEMMA CallSteps ==
  ASSUME PInv, [Next]_vars
  PROVE  \/ \E c \in Callers : CallStep(c) /\ abandoned' = abandoned
         \/ UNCHANGED callVars
  <1>1. ASSUME NEW c \in Callers, Begin(c) \/ Proceed(c)
        PROVE  CallStep(c) /\ abandoned' = abandoned
    BY <1>1 DEF Begin, Proceed, CallStep, watchdogVars
  <1>2. W!Workers \subseteq Callers /\ Self \in Callers
    BY LimitsAssumption DEF W!Workers, Callers, Self, PInv, InPlace
  <1>3. ASSUME NEW w \in W!Workers, Finish(w)
        PROVE  w \in Callers /\ CallStep(w) /\ abandoned' = abandoned
    BY <1>2, <1>3 DEF Finish, CallFails, CallStep, W!Finish
  <1>4. CASE Remind
    BY <1>2, <1>4 DEF Remind, CallFails, CallStep
  <1>5. ASSUME NEW w \in W!Workers, Exit(w) PROVE UNCHANGED callVars
    BY <1>5 DEF Exit
  <1>6. CASE Start \/ Return \/ Fail \/ Halt \/ Relay \/ NextDebate \/ Terminated
    BY <1>6 DEF Start, Return, Fail, Halt, Relay, NextDebate, Terminated, vars
  <1>7. CASE UNCHANGED vars
    BY <1>7 DEF vars
  <1>8. QED
    BY <1>1, <1>3, <1>4, <1>5, <1>6, <1>7 DEF Next

LEMMA UsageFacts ==
  /\ OneCall \in P!Usage /\ P!NoUsage \in P!Usage
  /\ \A u \in P!Usage : /\ u.calls \in Nat
                        /\ P!Plus(u, OneCall) \in P!Usage
                        /\ P!Plus(u, OneCall).calls = u.calls + 1
  BY DEF OneCall, P!Usage, P!NoUsage, P!Plus

LEMMA StepCallTypes ==
  ASSUME LInv, [Next]_vars
  PROVE  CallTypes'
  <1> USE DEF LInv
  <1>1. box' \in [W!Workers -> W!Outcomes \cup {"empty"}]
    <2>1. ASSUME NEW w \in W!Workers, Finish(w)
          PROVE  box' \in [W!Workers -> W!Outcomes \cup {"empty"}]
      BY <2>1 DEF Finish, W!Finish, W!Outcomes, CallTypes
    <2>2. ASSUME ~\E w \in W!Workers : Finish(w)
          PROVE  box' = box
      BY <2>2 DEF Next, vars, watchdogVars, Start, W!Start, Return, W!Return, Fail, W!Error,
             W!Timeout, Halt, W!Fatal, Relay, Remind, NextDebate, Begin, Proceed, Exit, W!Exit,
             Terminated
    <2>3. QED
      BY <2>1, <2>2 DEF CallTypes
  <1>2. CASE UNCHANGED callVars
    BY <1>1, <1>2 DEF CallTypes, callVars
  <1>3. ASSUME NEW c \in Callers, CallStep(c)
        PROVE  CallTypes'
    <2> USE UsageFacts DEF CallTypes, P!Goto, P!Stages
    <2>1. CASE P!Begin(c, ProviderOf(c), OneCall)
      BY <1>1, <2>1 DEF P!Begin, P!budgetVars, P!breakerVars
    <2>2. CASE P!Veto(c) \/ P!Admit(c)
      BY <1>1, <2>2 DEF P!Veto, P!Admit, P!Decided, P!breakerVars
    <2>3. CASE P!Reject(c) \/ P!PassBreaker(c) \/ P!FailPermanent(c) \/ P!GiveUp(c) \/ P!Backoff(c)
      BY <1>1, <2>3 DEF P!Reject, P!PassBreaker, P!FailPermanent, P!GiveUp, P!Backoff,
             P!budgetVars, P!breakerVars
    <2>4. CASE P!Attempt(c)
      BY <1>1, <2>4 DEF P!Attempt, P!budgetVars
    <2>5. CASE P!Answer(c)
      BY <1>1, <2>5 DEF P!Answer, P!budgetVars
    <2>6. CASE P!Charge(c, OneCall)
      BY <1>1, <2>6 DEF P!Charge, P!Add, P!breakerVars
    <2>7. CASE P!Return(c)
      BY <1>1, <2>7 DEF P!Return, P!LatchIfExceeded, P!breakerVars
    <2>8. CASE P!FailTransient(c)
      <3>1. open' \in [Providers -> BOOLEAN]
        BY <2>8, Zenon DEF P!FailTransient, P!CountFailure
      <3>2. failures' \in [Providers -> Nat]
        <4>1. failures' = [failures EXCEPT ![provider[c]] = failures[provider[c]] + 1]
          BY <2>8 DEF P!FailTransient, P!CountFailure
        <4>2. failures \in [Providers -> Nat]
          OBVIOUS
        <4>3. \A p : failures[p] \in Nat => failures[p] + 1 \in Nat
          OBVIOUS
        <4>4. QED
          BY <4>1, <4>2, <4>3
      <3>3. stage' \in [Callers -> P!Stages]
        BY <2>8 DEF P!FailTransient
      <3>4. UNCHANGED <<used, projected, provider>>
        BY <2>8 DEF P!FailTransient, P!budgetVars
      <3>5. QED
        BY <1>1, <3>1, <3>2, <3>3, <3>4
    <2>9. QED
      BY <1>3, <2>1, <2>2, <2>3, <2>4, <2>5, <2>6, <2>7, <2>8 DEF CallStep
  <1>4. QED
    BY <1>2, <1>3, CallSteps

-----------------------------------------------------------------------------
\* Threads are abandoned for good, one at a time.
LEMMA StepAbandoned ==
  ASSUME [Next]_vars, IsFiniteSet(abandoned)
  PROVE  abandoned \subseteq abandoned' /\ IsFiniteSet(abandoned')
  <1>1. CASE Fail
    <2>1. abandoned' = abandoned \/ abandoned' = abandoned \cup {W!Current}
      BY <1>1 DEF Fail, W!Error, W!Timeout
    <2>2. QED
      BY <2>1, FS_AddElement
  <1>2. CASE ~Fail
    <2>1. abandoned' = abandoned
      BY <1>2 DEF Next, vars, watchdogVars, Start, W!Start, Return, W!Return, Halt, W!Fatal,
             Relay, Remind, NextDebate, Begin, Proceed, Finish, W!Finish, Exit, W!Exit, Terminated
    <2>2. QED
      BY <2>1
  <1>3. QED
    BY <1>1, <1>2

LEMMA StepStrays == ASSUME LInv, [Next]_vars PROVE Strays'
  <1> USE DEF LInv
  <1>1. CASE Start
    <2>1. main = "start" /\ main' = "join" /\ alive' = alive \cup {W!Current}
          /\ UNCHANGED <<call, attempt, abandoned>>
      BY <1>1 DEF Start, W!Start
    <2>2. QED
      BY <2>1 DEF Strays, W!Current
  <1>2. CASE Return \/ Fail \/ Halt
    <2>1. alive' = alive /\ (W!Current \in alive => W!Current \in abandoned')
          /\ abandoned \subseteq abandoned'
      BY <1>2 DEF Return, W!Return, Fail, W!Error, W!Timeout, Halt, W!Fatal
    <2>2. QED
      BY <2>1 DEF Strays
  <1>3. CASE Relay \/ Remind
    <2>1. /\ UNCHANGED <<main, call, alive, abandoned>> /\ main # "join"
      BY <1>3 DEF Relay, Remind, D!Relay, D!RelayAndIntervene, D!InterveneFails, PInv, Guarded
    <2>2. QED
      BY <2>1 DEF Strays
  <1>4. CASE NextDebate
    <2>1. UNCHANGED <<alive, abandoned>> /\ main # "join"
      BY <1>4 DEF NextDebate, PInv, Guarded
    <2>2. QED
      BY <2>1 DEF Strays
  <1>5. CASE \E c \in Callers : Begin(c) \/ Proceed(c)
    <2>1. UNCHANGED <<main, call, attempt, alive, abandoned>>
      BY <1>5 DEF Begin, Proceed, watchdogVars
    <2>2. QED
      BY <2>1 DEF Strays, W!Current
  <1>6. CASE \E w \in W!Workers : Finish(w) \/ Exit(w)
    <2>1. alive' \subseteq alive /\ UNCHANGED <<main, call, attempt, abandoned>>
      BY <1>6 DEF Finish, Exit, W!Finish, W!Exit
    <2>2. QED
      BY <2>1 DEF Strays, W!Current
  <1>7. CASE Terminated \/ UNCHANGED vars
    BY <1>7 DEF Terminated, vars, watchdogVars, Strays, W!Current
  <1>8. QED
    BY <1>1, <1>2, <1>3, <1>4, <1>5, <1>6, <1>7 DEF Next

\* Steps of the engine's thread on which it stops waiting for whatever it waited for.
LEMMA StepBusy == ASSUME LInv, [Next]_vars PROVE BusyWanted'
  <1> USE DEF LInv
  <1>1. CASE Start \/ Return \/ Fail \/ Halt \/ Relay \/ NextDebate
    <2>1. stage' = stage /\ abandoned \subseteq abandoned'
      BY <1>1, StepAbandoned
      DEF Start, Return, Fail, Halt, Relay, NextDebate, callVars
    <2>2. ASSUME NEW c \in Callers, Wanted(c) PROVE c \in abandoned'
      BY <1>1, <2>2 DEF Start, W!Start, Return, W!Return, Fail, W!Error, W!Timeout, Halt,
         W!Fatal, Relay, D!Relay, NextDebate, Wanted, PInv, Guarded
    <2>3. QED
      BY <2>1, <2>2 DEF BusyWanted
  <1>2. CASE Remind
    <2>1. /\ pc = "route" /\ UNCHANGED abandoned
          /\ \A c \in Callers \ {Self} : stage'[c] = stage[c]
          /\ stage'[Self] = "idle"
      <3>1. Self \in Callers
        BY LimitsAssumption DEF Callers, Self, PInv, InPlace
      <3>2. QED
        BY <1>2, <3>1 DEF Remind, D!RelayAndIntervene, D!InterveneFails, P!Return, P!Veto,
           CallFails, P!Reject, P!FailPermanent, P!GiveUp, P!Goto, CallTypes
    <2>2. main # "join"
      BY <2>1 DEF PInv, Guarded
    <2>3. QED
      BY <2>1, <2>2 DEF BusyWanted, Wanted
  <1>3. ASSUME NEW c \in Callers, Begin(c) \/ Proceed(c) PROVE BusyWanted'
    <2>1. /\ UNCHANGED <<main, call, attempt, box, alive, abandoned, pc, transcript>>
          /\ \A d \in Callers \ {c} : stage'[d] = stage[d]
      BY <1>3 DEF Begin, Proceed, watchdogVars, debateVars, P!Begin, P!Admit, P!PassBreaker,
         P!Attempt, P!Answer, P!Charge, P!FailTransient, P!Backoff, P!Goto, CallTypes
    <2>2. c \in abandoned \/ Wanted(c)
      <3>1. CASE Begin(c)
        BY <3>1 DEF Begin, Strays, Wanted
      <3>2. CASE Proceed(c)
        <4>1. stage[c] # "idle"
          BY <3>2 DEF Proceed, P!Admit, P!PassBreaker, P!Attempt, P!Answer, P!Charge,
             P!FailTransient, P!Backoff
        <4>2. QED
          BY <4>1 DEF BusyWanted
      <3>3. QED
        BY <1>3, <3>1, <3>2
    <2>3. \A d \in Callers : Wanted(d)' <=> Wanted(d)
      BY <2>1 DEF Wanted, W!Current, Self, D!Spoken
    <2>4. QED
      BY <2>1, <2>2, <2>3 DEF BusyWanted
  <1>4. ASSUME NEW w \in W!Workers, Finish(w) PROVE BusyWanted'
    <2>1. /\ UNCHANGED <<main, call, attempt, alive, abandoned, pc, transcript>>
          /\ \A d \in W!Workers \ {w} : box'[d] = box[d]
      BY <1>4 DEF Finish, W!Finish, debateVars, CallTypes
    <2>2. /\ stage'[w] = "idle"
          /\ \A d \in Callers \ {w} : stage'[d] = stage[d]
      <3>1. w \in Callers
        BY LimitsAssumption DEF W!Workers, Callers
      <3>2. QED
        BY <1>4, <3>1 DEF Finish, CallFails, P!Veto, P!Return, P!Reject, P!FailPermanent,
           P!GiveUp, P!Goto, CallTypes
    <2>3. ASSUME NEW d \in Callers \ {w}, Wanted(d) PROVE Wanted(d)'
      <3>1. CASE main = "join"
        <4>1. W!Current \in W!Workers
          BY <3>1 DEF PInv, Guarded, InPlace, W!Current, W!Workers
        <4>2. QED
          BY <2>1, <2>3, <3>1, <4>1 DEF Wanted, W!Current, Self, D!Spoken
      <3>2. CASE main # "join"
        BY <2>1, <2>3, <3>2 DEF Wanted, W!Current, Self, D!Spoken
      <3>3. QED
        BY <3>1, <3>2
    <2>4. QED
      BY <2>1, <2>2, <2>3 DEF BusyWanted
  <1>5. ASSUME NEW w \in W!Workers, Exit(w) PROVE BusyWanted'
    <2>1. /\ UNCHANGED <<main, call, attempt, box, abandoned, pc, transcript, stage>>
          /\ alive' = alive \ {w} /\ box[w] # "empty"
      BY <1>5 DEF Exit, W!Exit, debateVars, callVars
    <2>2. \A d \in Callers : Wanted(d) => Wanted(d)'
      BY <2>1 DEF Wanted, W!Current, Self, D!Spoken
    <2>3. QED
      BY <2>1, <2>2 DEF BusyWanted
  <1>6. CASE Terminated \/ UNCHANGED vars
    BY <1>6 DEF Terminated, vars, watchdogVars, debateVars, callVars, BusyWanted, Wanted,
       W!Current, Self, D!Spoken
  <1>7. QED
    BY <1>1, <1>2, <1>3, <1>4, <1>5, <1>6 DEF Next

LEMMA InitLInv == Init => LInv
  <1> SUFFICES ASSUME Init PROVE LInv
    OBVIOUS
  <1>1. /\ provider = [c \in Callers |-> ProviderOf(c)] /\ stage = [c \in Callers |-> "idle"]
        /\ used = P!NoUsage /\ projected = [c \in Callers |-> P!NoUsage]
        /\ failures = [p \in Providers |-> 0] /\ open = [p \in Providers |-> FALSE]
        /\ box = [w \in W!Workers |-> "empty"] /\ alive = {} /\ abandoned = {}
    BY DEF Init, P!Init, P!InitBudget, W!Init
  <1>2. CallTypes
    BY <1>1, UsageFacts DEF CallTypes, P!Stages
  <1>3. Strays /\ BusyWanted
    BY <1>1 DEF Strays, BusyWanted
  <1>4. QED
    BY <1>1, <1>2, <1>3, InitPInv, FS_EmptySet DEF LInv

LEMMA NextLInv == LInv /\ [Next]_vars => LInv'
  <1> SUFFICES ASSUME LInv, [Next]_vars PROVE LInv'
    OBVIOUS
  <1>1. PInv'
    BY NextPInv DEF LInv
  <1>2. IsFiniteSet(abandoned')
    BY StepAbandoned DEF LInv
  <1>3. QED
    BY <1>1, <1>2, StepCallTypes, StepStrays, StepBusy DEF LInv

-----------------------------------------------------------------------------
LEMMA OneMore ==
  ASSUME NEW T, IsFiniteSet(T), NEW x, NEW S, S \subseteq T \cup {x}
  PROVE  IsFiniteSet(S) /\ Cardinality(S) \in Nat /\ Cardinality(T) \in Nat
         /\ Cardinality(S) <= Cardinality(T) + 1
  <1>1. /\ IsFiniteSet(T \cup {x})
        /\ Cardinality(T \cup {x}) = Cardinality(T) \/ Cardinality(T \cup {x}) = Cardinality(T) + 1
    BY FS_AddElement
  <1>2. Cardinality(T) \in Nat
    BY FS_CardinalityType
  <1>3. /\ IsFiniteSet(S) /\ Cardinality(S) <= Cardinality(T \cup {x})
    BY <1>1, FS_Subset
  <1>4. Cardinality(S) \in Nat
    BY <1>3, FS_CardinalityType
  <1>5. QED
    BY <1>1, <1>2, <1>3, <1>4

LEMMA Fewer ==
  ASSUME NEW T, IsFiniteSet(T), NEW S \in SUBSET T
  PROVE  IsFiniteSet(S) /\ Cardinality(S) \in Nat /\ Cardinality(T) \in Nat
         /\ Cardinality(S) <= Cardinality(T)
  BY FS_Subset, FS_CardinalityType

LEMMA OneLess ==
  ASSUME NEW T, IsFiniteSet(T), NEW x \in T
  PROVE  IsFiniteSet(T \ {x}) /\ Cardinality(T \ {x}) \in Nat
         /\ Cardinality(T) = Cardinality(T \ {x}) + 1
  <1>1. IsFiniteSet(T \ {x}) /\ Cardinality(T \ {x}) = Cardinality(T) - 1
    BY FS_RemoveElement
  <1>2. Cardinality(T) \in Nat /\ Cardinality(T \ {x}) \in Nat
    BY <1>1, FS_CardinalityType
  <1>3. QED
    BY <1>1, <1>2

\* The one caller that may be wanted.
The == IF main = "join" THEN W!Current ELSE Self

Busy == {c \in Callers : stage[c] # "idle"}

LEMMA BusyBound == LInv => Busy \subseteq abandoned \cup {The}
  BY DEF LInv, PInv, Guarded, BusyWanted, Wanted, Busy, The

\* Callers whose call was let through, or that read totals with which it will be.
Passing == {c \in Callers : stage[c] = "checking" /\ projected[c].calls <= MaxCalls}

Committed == P!Admitted \cup Passing

Bound == used.calls + Cardinality(Committed) <= MaxCalls + Cardinality(abandoned)

\* The streaks of an agent whose breaker is closed, and what is under way or failed for
\* good on top of them.
AbandonedAt(p) == {w \in abandoned : ProviderOf(w) = p}
Streaks ==
  \A p \in Providers :
     /\ ~open[p] => failures[p] < Threshold
     /\ failures[p] + Cardinality(P!UnderWay(p)) + Cardinality(LostAt(p))
          <= Threshold + MaxRestarts + Cardinality(AbandonedAt(p))

LEMMA Finite ==
  ASSUME LInv
  PROVE  /\ IsFiniteSet(Busy) /\ Committed \subseteq Busy /\ IsFiniteSet(Committed)
         /\ \A p : P!UnderWay(p) \subseteq Busy /\ IsFiniteSet(P!UnderWay(p))
                  /\ IsFiniteSet(AbandonedAt(p))
  <1>1. IsFiniteSet(Busy)
    BY BusyBound, OneMore DEF LInv
  <1>2. Committed \subseteq Busy
    BY DEF Committed, P!Admitted, Passing, Busy
  <1>3. \A p : P!UnderWay(p) \subseteq Busy /\ AbandonedAt(p) \subseteq abandoned
    BY DEF P!UnderWay, Busy, AbandonedAt
  <1>4. QED
    BY <1>1, <1>2, <1>3, FS_Subset DEF LInv

LEMMA StepBound ==
  ASSUME LInv, LInv', Bound, [Next]_vars
  PROVE  Bound'
  <1> USE DEF LInv
  <1>1. PICK calls \in Nat : calls = used.calls
    BY UsageFacts DEF CallTypes
  <1>2. abandoned \subseteq abandoned' /\ IsFiniteSet(abandoned')
    BY StepAbandoned
  <1>3. /\ Cardinality(abandoned) \in Nat /\ Cardinality(abandoned') \in Nat
        /\ Cardinality(abandoned) <= Cardinality(abandoned')
    BY <1>2, Fewer
  <1>4. IsFiniteSet(Committed) /\ Cardinality(Committed) \in Nat
    BY Finite, FS_CardinalityType
  <1>5. ASSUME Committed' \subseteq Committed, used' = used PROVE Bound'
    <2>1. Cardinality(Committed') \in Nat /\ Cardinality(Committed') <= Cardinality(Committed)
      BY <1>4, <1>5, Fewer
    <2>2. QED
      BY <1>1, <1>3, <1>4, <1>5, <2>1, LimitsAssumption DEF Bound
  <1>6. CASE UNCHANGED callVars
    BY <1>5, <1>6 DEF callVars, Committed, P!Admitted, Passing
  <1>7. ASSUME NEW c \in Callers, CallStep(c), abandoned' = abandoned PROVE Bound'
    <2> USE DEF CallTypes, P!Goto, Committed, P!Admitted, Passing
    <2>1. CASE P!Begin(c, ProviderOf(c), OneCall)
      <3>1. /\ used' = used /\ stage' = [stage EXCEPT ![c] = "checking"]
            /\ projected' = [projected EXCEPT ![c] = P!Plus(used, OneCall)]
        BY <2>1 DEF P!Begin, P!budgetVars
      <3>2. P!Plus(used, OneCall).calls = calls + 1
        BY <1>1, UsageFacts
      <3>3. CASE calls + 1 <= MaxCalls
        <4>1. PICK the, next : the = The' /\ next = Committed'
          OBVIOUS
        <4>2. Busy' \subseteq abandoned' \cup {The'}
          BY DEF LInv, PInv, Guarded, BusyWanted, Wanted, Busy, The
        <4>3. next \subseteq abandoned \cup {the}
          BY <1>7, <4>1, <4>2 DEF Busy
        <4>4. Cardinality(next) \in Nat /\ Cardinality(next) <= Cardinality(abandoned) + 1
          BY <4>3, OneMore
        <4>5. Cardinality(Committed') = Cardinality(next)
          BY <4>1
        <4>6. QED
          BY <1>1, <1>3, <1>7, <3>1, <3>3, <4>4, <4>5, LimitsAssumption DEF Bound
      <3>4. CASE ~(calls + 1 <= MaxCalls)
        BY <1>5, <3>1, <3>2, <3>4
      <3>5. QED
        BY <3>3, <3>4
    <2>2. CASE P!Veto(c)
      <3>1. Committed' \subseteq Committed /\ used' = used
        BY <2>2 DEF P!Veto, P!Decided
      <3>2. QED
        BY <1>5, <3>1
    <2>3. CASE P!Admit(c)
      <3>1. projected[c].calls <= MaxCalls
        <4>1. ~(projected[c].calls > MaxCalls) /\ projected[c] \in P!Usage
          BY <2>3, Zenon DEF P!Admit, P!Exceeds
        <4>2. QED
          BY <4>1, LimitsAssumption, UsageFacts
      <3>2. Committed' \subseteq Committed /\ used' = used
        BY <2>3, <3>1 DEF P!Admit, P!Decided
      <3>3. QED
        BY <1>5, <3>2
    <2>4. CASE P!Reject(c) \/ P!FailPermanent(c) \/ P!GiveUp(c) \/ P!PassBreaker(c) \/ P!Backoff(c)
      <3>1. Committed' \subseteq Committed /\ used' = used
        BY <2>4 DEF P!Reject, P!FailPermanent, P!GiveUp, P!PassBreaker, P!Backoff, P!budgetVars
      <3>2. QED
        BY <1>5, <3>1
    <2>5. CASE P!Attempt(c) \/ P!Answer(c) \/ P!FailTransient(c)
      <3>1. Committed' \subseteq Committed /\ used' = used
        BY <2>5 DEF P!Attempt, P!Answer, P!FailTransient, P!budgetVars
      <3>2. QED
        BY <1>5, <3>1
    <2>6. CASE P!Return(c)
      <3>1. Committed' \subseteq Committed /\ used' = used
        BY <2>6 DEF P!Return, P!LatchIfExceeded
      <3>2. QED
        BY <1>5, <3>1
    <2>7. CASE P!Charge(c, OneCall)
      <3>1. c \in Committed /\ Committed' = Committed \ {c} /\ used' = P!Plus(used, OneCall)
        BY <2>7 DEF P!Charge, P!Add
      <3>2. used'.calls = calls + 1
        BY <1>1, <3>1, UsageFacts
      <3>3. PICK less : less = Committed \ {c}
        OBVIOUS
      <3>4. Cardinality(less) \in Nat /\ Cardinality(Committed) = Cardinality(less) + 1
        BY <1>4, <3>1, <3>3, OneLess
      <3>5. Cardinality(Committed') = Cardinality(less)
        BY <3>1, <3>3
      <3>6. QED
        BY <1>1, <1>3, <1>4, <1>7, <3>2, <3>4, <3>5, LimitsAssumption DEF Bound
    <2>8. QED
      BY <1>7, <2>1, <2>2, <2>3, <2>4, <2>5, <2>6, <2>7 DEF CallStep
  <1>8. QED
    BY <1>6, <1>7, CallSteps

LEMMA FiniteCallers ==
  ASSUME debate \in 1..Debates
  PROVE  IsFiniteSet(W!Workers) /\ IsFiniteSet(Callers) /\ W!Workers \subseteq Callers
  <1>1. Calls \in Nat /\ MaxRestarts \in Nat
    BY BaseFacts, LimitsAssumption
  <1>2. IsFiniteSet(1..Calls) /\ IsFiniteSet(0..(MaxRestarts + 1))
    BY <1>1, FS_Interval
  <1>3. IsFiniteSet(Callers)
    BY <1>2, FS_Product DEF Callers
  <1>4. W!Workers \subseteq Callers
    BY <1>1 DEF Callers, W!Workers
  <1>5. QED
    BY <1>3, <1>4, FS_Subset

\* Next, how many requests to a provider can fail for good before it answers again: not
\* counting threads that were abandoned, only those of one guarded call or one reminder.

\* The threads that have been started so far are of calls and restarts made.
Begun(w) ==
  \/ w[1] < call
  \/ /\ w[1] = call
     /\ main = "start" => w[2] < attempt
     /\ main = "join" => w[2] <= attempt

Born ==
  /\ alive \subseteq W!Workers /\ abandoned \subseteq W!Workers
  /\ \A w \in W!Workers : w \in alive \cup abandoned \/ box[w] # "empty"
                            => w[1] <= Base + CallsEach /\ Begun(w)

\* Whoever's request failed for good calls no provider again.
LostIdle ==
  /\ lost \subseteq Callers
  /\ \A d \in lost : /\ d[1] <= Base + CallsEach
                     /\ stage[d] = "idle"
                     /\ d \in W!Workers => box[d] # "empty"

\* Those of this debate whose request failed for good belong to the call being made,
\* or ended the debate.
LostHere ==
  \A d \in lost \ abandoned :
     d[1] > Base => /\ d[1] = call
                    /\ IF d[2] > MaxRestarts THEN pc = "aborted"
                                             ELSE pc \in {"turn", "verdict", "aborted"}

\* A call that comes to a result had an answer, which is paid for.
Cleared ==
  main = "join" /\ (stage[W!Current] \in {"answered", "recorded"} \/ box[W!Current] = "ok")
     => \A d \in lost \ abandoned : d[1] <= Base

FewLost == \A p \in Providers : Cardinality(LostAt(p) \ abandoned) <= MaxRestarts + 1

VInv == Born /\ LostIdle /\ LostHere /\ Cleared /\ FewLost

LEMMA CallHere ==
  ASSUME PInv, pc \in {"turn", "route", "verdict"}
  PROVE  Base \in Nat /\ call \in Nat /\ Base < call /\ call <= Base + CallsEach
         /\ DebateOf(call) = debate
  <1>1. /\ Base \in Nat /\ number \in Nat /\ 1 <= number /\ number <= Rounds /\ Rounds \in Nat
        /\ call \in Nat /\ CallsEach = 2 * Rounds + 1
    BY BaseFacts, CallsEachType, SizesAssumption DEF PInv, InPlace
  <1>2. Base < call /\ call <= Base + CallsEach
    BY <1>1 DEF PInv, InPlace
  <1>3. call - Base - 1 \in 0..(CallsEach - 1) /\ call = Base + (call - Base - 1) + 1
    BY <1>1, <1>2
  <1>4. PICK r \in 0..(CallsEach - 1) : call = Base + r + 1
    BY <1>3
  <1>5. DebateOf(call) = debate
    BY <1>4, TurnFacts DEF PInv, InPlace
  <1>6. QED
    BY <1>1, <1>2, <1>5

LEMMA CallsBefore ==
  ASSUME debate \in 1..Debates, NEW n \in 1..Calls, DebateOf(n) = debate
  PROVE  n > Base
  <1> DEFINE q == (n - 1) \div CallsEach
             r == (n - 1) % CallsEach
  <1>1. CallsEach \in Nat /\ CallsEach >= 1 /\ Calls \in Nat /\ n - 1 \in Nat
    BY CallsEachType, BaseFacts
  <1>2. q \in Int /\ r \in 0..(CallsEach - 1) /\ n - 1 = CallsEach * q + r
    BY <1>1
  <1>3. debate - 1 = q
    BY <1>2, SizesAssumption DEF DebateOf
  <1>4. Base = CallsEach * q
    BY <1>1, <1>2, <1>3 DEF Base
  <1>5. QED
    BY <1>1, <1>2, <1>4

\* While a call is made, what failed for good at its provider is of that call ...
LEMMA LostAtCall ==
  ASSUME PInv, LostIdle, LostHere, pc \in {"turn", "verdict"}, NEW k \in 0..MaxRestarts
  PROVE  LostAt(ProviderOf(<<call, k>>)) \ abandoned \subseteq {call} \X (0..MaxRestarts)
  <1> SUFFICES ASSUME NEW d \in lost \ abandoned, ProviderOf(d) = ProviderOf(<<call, k>>)
               PROVE  d \in {call} \X (0..MaxRestarts)
    BY DEF LostAt
  <1>1. d \in Callers /\ d[1] \in 1..Calls /\ d[2] \in 0..(MaxRestarts + 1) /\ d = <<d[1], d[2]>>
    BY DEF LostIdle, Callers
  <1>2. DebateOf(d[1]) = debate
    BY CallHere DEF ProviderOf
  <1>3. d[1] > Base
    BY <1>1, <1>2, CallsBefore DEF PInv, InPlace
  <1>4. d[1] = call /\ ~(d[2] > MaxRestarts)
    BY <1>3 DEF LostHere
  <1>5. QED
    BY <1>1, <1>4, LimitsAssumption

\* ... and there is nothing of it when the engine routes.
LEMMA LostAtRoute ==
  ASSUME PInv, LostIdle, LostHere, pc = "route"
  PROVE  LostAt(ProviderOf(Self)) \ abandoned = {}
  <1> SUFFICES ASSUME NEW d \in lost \ abandoned, ProviderOf(d) = ProviderOf(Self)
               PROVE  FALSE
    BY DEF LostAt
  <1>1. d \in Callers /\ d[1] \in 1..Calls
    BY DEF LostIdle, Callers
  <1>2. DebateOf(d[1]) = debate
    BY CallHere DEF ProviderOf, Self
  <1>3. d[1] > Base
    BY <1>1, <1>2, CallsBefore DEF PInv, InPlace
  <1>4. QED
    BY <1>3 DEF LostHere

\* What each step does to the lost: only a request that fails for good adds to them.
LEMMA LostSteps ==
  ASSUME PInv, [Next]_vars
  PROVE  \/ \E c \in Callers : /\ CallStep(c) /\ abandoned' = abandoned
                               /\ lost' \subseteq lost \/ (P!FailPermanent(c) /\ lost' = lost \cup {c})
         \/ UNCHANGED callVars /\ lost' = lost
  <1>1. ASSUME NEW c \in Callers, Begin(c) \/ Proceed(c)
        PROVE  CallStep(c) /\ abandoned' = abandoned /\ lost' \subseteq lost
    BY <1>1 DEF Begin, Proceed, CallStep, watchdogVars, ownVars
  <1>2. W!Workers \subseteq Callers /\ Self \in Callers
    BY LimitsAssumption DEF W!Workers, Callers, Self, PInv, InPlace
  <1>3. ASSUME NEW w \in W!Workers, Finish(w)
        PROVE  w \in Callers /\ CallStep(w) /\ abandoned' = abandoned
               /\ (lost' \subseteq lost \/ (P!FailPermanent(w) /\ lost' = lost \cup {w}))
    BY <1>2, <1>3 DEF Finish, CallFails, CallStep, W!Finish
  <1>4. CASE Remind
    BY <1>2, <1>4 DEF Remind, CallFails, CallStep
  <1>5. ASSUME NEW w \in W!Workers, Exit(w) PROVE UNCHANGED callVars /\ lost' = lost
    BY <1>5 DEF Exit, ownVars
  <1>6. CASE Start \/ Return \/ Fail \/ Halt \/ Relay \/ NextDebate \/ Terminated
    BY <1>6 DEF Start, Return, Fail, Halt, Relay, NextDebate, Terminated, vars, ownVars
  <1>7. CASE UNCHANGED vars
    BY <1>7 DEF vars, ownVars
  <1>8. QED
    BY <1>1, <1>3, <1>4, <1>5, <1>6, <1>7 DEF Next

LEMMA StepBorn == ASSUME LInv, Born, [Next]_vars PROVE Born'
  <1> USE DEF LInv
  <1>0. call \in Nat /\ Base \in Nat /\ (main \in {"start", "join"} => attempt \in Nat)
    BY BaseFacts, LimitsAssumption DEF PInv, InPlace, Guarded
  <1>1. CASE Start
    <2>1. /\ main = "start" /\ main' = "join" /\ alive' = alive \cup {W!Current}
          /\ pc \in {"turn", "verdict"}
          /\ UNCHANGED <<call, attempt, abandoned, box, debate>>
      BY <1>1 DEF Start, W!Start
    <2>2. W!Current \in W!Workers /\ call <= Base + CallsEach /\ Base' = Base
      BY <2>1, CallHere DEF PInv, InPlace, Guarded, W!Current, W!Workers, Base
    <2>3. QED
      BY <1>0, <2>1, <2>2 DEF Born, Begun, W!Current, W!Workers
  <1>2. CASE Return
    <2>1. /\ main = "join" /\ UNCHANGED <<alive, abandoned, box, debate>>
          /\ IF call < Calls THEN call' = call + 1 /\ main' = "start"
                             ELSE call' = call /\ main' = "finished"
      BY <1>2 DEF Return, W!Return, ownVars
    <2>2. Base' = Base
      BY <2>1 DEF Base
    <2>3. QED
      BY <1>0, <2>1, <2>2 DEF Born, Begun, W!Workers
  <1>3. CASE Fail \/ Halt
    <2>1. /\ main = "join" /\ UNCHANGED <<alive, call, box, debate>>
          /\ abandoned' = abandoned \/ abandoned' = abandoned \cup {W!Current}
          /\ main' \in {"start", "gave_up", "halted"} /\ (main' = "start" => attempt' = attempt + 1)
          /\ pc \in {"turn", "verdict"}
      BY <1>3 DEF Fail, W!Error, W!Timeout, W!Restart, Halt, W!Fatal, D!GuardFails, D!BudgetGone,
         ownVars
    <2>2. W!Current \in W!Workers /\ call <= Base + CallsEach /\ Base' = Base
      BY <2>1, CallHere DEF PInv, InPlace, Guarded, W!Current, W!Workers, Base
    <2>3. QED
      BY <1>0, <2>1, <2>2 DEF Born, Begun, W!Current, W!Workers
  <1>4. CASE NextDebate
    <2>1. /\ call' = debate * CallsEach + 1 /\ debate' = debate + 1 /\ debate < Debates
          /\ UNCHANGED <<alive, abandoned, box>>
      BY <1>4 DEF NextDebate
    <2>2. Base' = Base + CallsEach /\ call' = Base + CallsEach + 1
      BY <2>1, BaseFacts, CallsEachType, SizesAssumption DEF PInv, InPlace, Base
    <2>3. QED
      BY <1>0, <2>1, <2>2, CallsEachType DEF Born, Begun, W!Workers
  <1>5. CASE \/ Relay \/ Remind \/ (\E c \in Callers : Begin(c) \/ Proceed(c)) \/ Terminated
             \/ UNCHANGED vars
    <2>1. UNCHANGED <<main, call, attempt, alive, abandoned, box, debate>>
      BY <1>5 DEF Relay, Remind, Begin, Proceed, Terminated, vars, watchdogVars, ownVars,
         D!Relay, D!RelayAndIntervene, D!InterveneFails, D!Deliver, D!Advance
    <2>2. QED
      BY <2>1 DEF Born, Begun, Base
  <1>6. ASSUME NEW v \in W!Workers, Finish(v) \/ Exit(v) PROVE Born'
    <2>1. /\ UNCHANGED <<main, call, attempt, abandoned, debate>>
          /\ alive' \subseteq alive /\ v \in alive
          /\ \A w \in W!Workers \ {v} : box'[w] = box[w]
      BY <1>6 DEF Finish, Exit, W!Finish, W!Exit, CallTypes, ownVars
    <2>2. QED
      BY <2>1 DEF Born, Begun, Base
  <1>7. QED
    BY <1>1, <1>2, <1>3, <1>4, <1>5, <1>6 DEF Next

\* Who calls a provider had not failed there for good.
LEMMA StepLostIdle ==
  ASSUME LInv, Born, LostIdle, LostHere, [Next]_vars
  PROVE  LostIdle'
  <1> USE DEF LInv
  <1>0. W!Workers \subseteq Callers /\ Self \in Callers /\ Self \notin W!Workers
    BY LimitsAssumption DEF W!Workers, Callers, Self, PInv, InPlace
  <1>1. ASSUME NEW c \in Callers, Begin(c) PROVE LostIdle'
    <2>1. c \notin lost
      <3>1. CASE c \in alive /\ box[c] = "empty"
        BY <3>1 DEF Born, LostIdle
      <3>2. CASE c = Self /\ pc = "route"
        <4>1. Self[1] > Base /\ Self[2] > MaxRestarts
          BY <3>2, CallHere, LimitsAssumption DEF Self
        <4>2. Self \notin abandoned
          BY <1>0 DEF Born
        <4>3. QED
          BY <3>2, <4>1, <4>2 DEF LostHere
      <3>3. QED
        BY <1>1, <3>1, <3>2 DEF Begin
    <2>2. /\ UNCHANGED <<box, lost, debate>> /\ \A d \in Callers \ {c} : stage'[d] = stage[d]
      BY <1>1 DEF Begin, P!Begin, P!Goto, watchdogVars, ownVars, CallTypes
    <2>3. QED
      BY <2>1, <2>2 DEF LostIdle, Base
  <1>2. ASSUME NEW c \in Callers, Proceed(c) PROVE LostIdle'
    <2>1. /\ UNCHANGED <<box, debate>> /\ lost' \subseteq lost /\ stage[c] # "idle"
          /\ \A d \in Callers \ {c} : stage'[d] = stage[d]
      BY <1>2 DEF Proceed, P!Admit, P!PassBreaker, P!Attempt, P!Answer, P!Charge, P!FailTransient,
         P!Backoff, P!Goto, watchdogVars, CallTypes
    <2>2. QED
      BY <2>1 DEF LostIdle, Base
  <1>3. ASSUME NEW w \in W!Workers, Finish(w) PROVE LostIdle'
    <2>1. /\ w \in alive /\ lost' \subseteq lost \cup {w} /\ debate' = debate
          /\ \A v \in W!Workers \ {w} : box'[v] = box[v]
          /\ box'[w] # "empty"
      BY <1>3 DEF Finish, CallFails, W!Finish, CallTypes
    <2>2. /\ stage'[w] = "idle"
          /\ \A d \in Callers \ {w} : stage'[d] = stage[d]
      BY <1>0, <1>3 DEF Finish, CallFails, P!Veto, P!Return, P!Reject, P!FailPermanent,
         P!GiveUp, P!Goto, CallTypes
    <2>3. w[1] <= Base + CallsEach
      BY <2>1 DEF Born
    <2>4. QED
      BY <1>0, <2>1, <2>2, <2>3 DEF LostIdle, Base
  <1>4. CASE Remind
    <2>1. /\ pc = "route" /\ lost' \subseteq lost \cup {Self} /\ UNCHANGED <<box, debate>>
      BY <1>4 DEF Remind, CallFails, D!RelayAndIntervene, D!InterveneFails
    <2>2. /\ stage'[Self] = "idle"
          /\ \A d \in Callers \ {Self} : stage'[d] = stage[d]
      BY <1>0, <1>4 DEF Remind, CallFails, P!Veto, P!Return, P!Reject, P!FailPermanent,
         P!GiveUp, P!Goto, CallTypes
    <2>3. Self[1] <= Base + CallsEach
      BY <2>1, CallHere DEF Self
    <2>4. QED
      BY <1>0, <2>1, <2>2, <2>3 DEF LostIdle, Base
  <1>5. CASE NextDebate
    <2>1. UNCHANGED <<box, stage, lost>> /\ debate' = debate + 1 /\ debate < Debates
      BY <1>5 DEF NextDebate, callVars
    <2>2. Base' = Base + CallsEach /\ Base \in Nat
      BY <2>1, BaseFacts, CallsEachType, SizesAssumption DEF PInv, InPlace, Base
    <2>3. \A d \in Callers : d[1] <= Base + CallsEach => d[1] <= Base' + CallsEach
      BY <2>2, CallsEachType DEF Callers
    <2>4. QED
      BY <2>1, <2>3 DEF LostIdle
  <1>6. CASE \/ Start \/ Return \/ Fail \/ Halt \/ Relay \/ (\E w \in W!Workers : Exit(w))
             \/ Terminated \/ UNCHANGED vars
    <2>1. UNCHANGED <<box, stage, lost, debate>>
      BY <1>6 DEF Start, W!Start, Return, W!Return, Fail, W!Error, W!Timeout, Halt, W!Fatal, Relay,
         Exit, W!Exit, Terminated, vars, watchdogVars, callVars, ownVars
    <2>2. QED
      BY <2>1 DEF LostIdle, Base
  <1>7. QED
    BY <1>1, <1>2, <1>3, <1>4, <1>5, <1>6 DEF Next

LEMMA StepLostHere ==
  ASSUME LInv, Born, LostIdle, LostHere, Cleared, [Next]_vars
  PROVE  LostHere'
  <1> USE DEF LInv
  <1>1. CASE Return
    <2>1. main = "join" /\ box[W!Current] = "ok" /\ UNCHANGED <<abandoned, lost, debate>>
      BY <1>1 DEF Return, W!Return, ownVars
    <2>2. \A d \in lost \ abandoned : d[1] <= Base
      BY <2>1 DEF Cleared
    <2>3. \A d \in lost : d[1] \in Int
      BY DEF LostIdle, Callers
    <2>4. Base' = Base /\ Base \in Nat
      BY <2>1, BaseFacts DEF Base, PInv, InPlace
    <2>5. \A d \in lost \ abandoned : ~(d[1] > Base)
      BY <2>2, <2>3, <2>4
    <2>6. QED
      BY <2>1, <2>4, <2>5 DEF LostHere
  <1>2. CASE Start \/ Fail \/ Halt
    <2>1. /\ pc \in {"turn", "verdict"} /\ pc' \in {pc, "aborted"}
          /\ abandoned \subseteq abandoned' /\ UNCHANGED <<call, lost, debate>>
      BY <1>2 DEF Start, W!Start, Fail, W!Error, W!Timeout, Halt, W!Fatal, D!GuardFails, D!Abort,
         D!BudgetGone, debateVars, ownVars
    <2>2. QED
      BY <2>1 DEF LostHere, Base
  <1>3. CASE Relay \/ Remind
    <2>1. /\ pc = "route" /\ UNCHANGED <<call, abandoned, debate>>
          /\ lost' = lost \/ (lost' = lost \cup {Self} /\ pc' = "aborted")
      BY <1>3 DEF Relay, Remind, CallFails, D!Relay, D!RelayAndIntervene, D!InterveneFails,
         D!Abort, ownVars
    <2>2. \A d \in lost \ abandoned : ~(d[1] > Base)
      BY <2>1 DEF LostHere
    <2>3. Self[1] = call /\ Self[2] > MaxRestarts
      BY LimitsAssumption DEF Self
    <2>4. QED
      BY <2>1, <2>2, <2>3 DEF LostHere, Base
  <1>4. CASE NextDebate
    <2>1. debate' = debate + 1 /\ debate < Debates /\ UNCHANGED <<abandoned, lost>>
      BY <1>4 DEF NextDebate
    <2>2. Base' = Base + CallsEach /\ Base' \in Nat
      BY <2>1, BaseFacts, CallsEachType, SizesAssumption DEF PInv, InPlace, Base
    <2>3. \A d \in lost : d[1] \in Int /\ d[1] <= Base + CallsEach
      BY DEF LostIdle, Callers
    <2>4. \A d \in lost : ~(d[1] > Base')
      BY <2>2, <2>3
    <2>5. QED
      BY <2>1, <2>4 DEF LostHere
  <1>5. CASE (\E c \in Callers : Begin(c) \/ Proceed(c)) \/ (\E w \in W!Workers : Exit(w))
             \/ Terminated \/ UNCHANGED vars
    <2>1. lost' \subseteq lost /\ UNCHANGED <<call, pc, abandoned, debate>>
      BY <1>5 DEF Begin, Proceed, Exit, W!Exit, Terminated, vars, watchdogVars, debateVars, ownVars
    <2>2. QED
      BY <2>1 DEF LostHere, Base
  <1>6. ASSUME NEW w \in W!Workers, Finish(w) PROVE LostHere'
    <2>1. lost' \subseteq lost \cup {w} /\ w \in alive /\ UNCHANGED <<call, pc, abandoned, debate>>
      BY <1>6 DEF Finish, CallFails, W!Finish, debateVars
    <2>2. w \notin abandoned => w[1] = call /\ pc \in {"turn", "verdict"}
      BY <2>1 DEF Strays, W!Current, PInv, Guarded
    <2>3. ~(w[2] > MaxRestarts)
      BY LimitsAssumption DEF W!Workers
    <2>4. QED
      BY <2>1, <2>2, <2>3 DEF LostHere, Base
  <1>7. QED
    BY <1>1, <1>2, <1>3, <1>4, <1>5, <1>6 DEF Next

\* An answer to the thread being joined pays for what its provider was asked before, and
\* a thread that starts has no answer yet.
LEMMA StepCleared ==
  ASSUME LInv, Born, LostIdle, LostHere, Cleared, [Next]_vars
  PROVE  Cleared'
  <1> USE DEF LInv
  <1>1. CASE Start
    <2>1. /\ main = "start" /\ UNCHANGED <<call, attempt, box, stage>>
      BY <1>1 DEF Start, W!Start, callVars
    <2>2. W!Current \in W!Workers /\ W!Current \in Callers /\ ~Begun(W!Current)
      BY <2>1, LimitsAssumption
      DEF PInv, InPlace, Guarded, W!Current, W!Workers, Callers, Begun
    <2>3. W!Current \notin abandoned /\ box[W!Current] = "empty"
      BY <2>2 DEF Born
    <2>4. ~Wanted(W!Current)
      BY <2>1, LimitsAssumption DEF Wanted, W!Current, Self, PInv, Guarded
    <2>5. stage[W!Current] = "idle"
      BY <2>2, <2>3, <2>4 DEF BusyWanted
    <2>6. W!Current' = W!Current
      BY <2>1 DEF W!Current
    <2>7. QED
      BY <2>1, <2>3, <2>5, <2>6 DEF Cleared
  <1>2. CASE Return \/ Fail \/ Halt \/ Relay \/ Remind \/ NextDebate
    <2>1. main' # "join"
      BY <1>2 DEF Return, W!Return, Fail, W!Error, W!Timeout, W!Restart, Halt, W!Fatal, Relay,
         Remind, NextDebate, D!Relay, D!RelayAndIntervene, D!InterveneFails, PInv, Guarded
    <2>2. QED
      BY <2>1 DEF Cleared
  \* Steps of a call, on which the engine's thread stays where it is.
  <1>3. ASSUME UNCHANGED <<main, call, attempt, abandoned, debate>>, lost' \subseteq lost,
               main = "join",
               stage'[W!Current] \in {"answered", "recorded"} \/ box'[W!Current] = "ok"
                 => stage[W!Current] \in {"answered", "recorded"} \/ box[W!Current] = "ok"
        PROVE  Cleared'
    BY <1>3 DEF Cleared, W!Current, Base
  <1>4. ASSUME main # "join", main' = main PROVE Cleared'
    BY <1>4 DEF Cleared
  <1>5. ASSUME NEW c \in Callers, Begin(c) \/ Proceed(c) PROVE Cleared'
    <2>1. /\ UNCHANGED <<main, call, attempt, box, abandoned, debate>> /\ lost' \subseteq lost
      BY <1>5 DEF Begin, Proceed, watchdogVars, ownVars
    <2>2. CASE main = "join" /\ P!Answer(c) /\ c = W!Current
      <3>1. pc \in {"turn", "verdict"} /\ attempt \in 0..MaxRestarts
        BY <2>2 DEF PInv, Guarded
      <3>2. lost' = {d \in lost : ProviderOf(d) # ProviderOf(<<call, attempt>>)}
        BY <1>5, <2>2 DEF Begin, Proceed, P!Begin, P!Admit, P!PassBreaker, P!Attempt, P!Answer,
           P!Charge, P!FailTransient, P!Backoff, P!Goto, CallTypes, W!Current
      <3>3. ASSUME NEW d \in lost' \ abandoned', d[1] > Base PROVE FALSE
        <4>1. d \in lost \ abandoned /\ d[1] = call /\ ~(d[2] > MaxRestarts)
          BY <2>1, <3>1, <3>2, <3>3 DEF LostHere
        <4>2. ~(attempt > MaxRestarts)
          BY <3>1, LimitsAssumption
        <4>3. ProviderOf(d) = ProviderOf(<<call, attempt>>)
          BY <4>1, <4>2 DEF ProviderOf
        <4>4. QED
          BY <3>2, <4>3
      <3>4. \A d \in lost' : d[1] \in Int
        BY <2>1 DEF LostIdle, Callers
      <3>5. Base \in Nat /\ Base' = Base
        BY <2>1, BaseFacts DEF PInv, InPlace, Base
      <3>6. \A d \in lost' \ abandoned' : d[1] <= Base'
        BY <3>3, <3>4, <3>5
      <3>7. QED
        BY <3>6 DEF Cleared
    <2>3. CASE main = "join" /\ ~(P!Answer(c) /\ c = W!Current)
      <3>1. W!Current \in Callers
        BY <2>3, LimitsAssumption DEF PInv, InPlace, Guarded, W!Current, Callers
      <3>2. stage'[W!Current] \in {"answered", "recorded"}
              => stage[W!Current] \in {"answered", "recorded"}
        BY <1>5, <2>3, <3>1 DEF Begin, Proceed, P!Begin, P!Admit, P!PassBreaker, P!Attempt,
           P!Answer, P!Charge, P!FailTransient, P!Backoff, P!Goto, CallTypes
      <3>3. QED
        BY <1>3, <2>1, <2>3, <3>2
    <2>4. QED
      BY <1>4, <2>1, <2>2, <2>3
  <1>6. ASSUME NEW w \in W!Workers, Finish(w) PROVE Cleared'
    <2>1. /\ UNCHANGED <<main, call, attempt, abandoned, debate>>
          /\ w \in alive /\ w \in Callers /\ box[w] = "empty"
          /\ \A v \in W!Workers \ {w} : box'[v] = box[v]
          /\ \A d \in Callers \ {w} : stage'[d] = stage[d]
          /\ stage'[w] = "idle"
          /\ box'[w] = "ok" => stage[w] = "recorded"
          /\ lost' = lost \/ (lost' = lost \cup {w} /\ box'[w] # "ok")
      <3>1. w \in Callers
        BY LimitsAssumption DEF W!Workers, Callers
      <3>2. QED
        BY <1>6, <3>1 DEF Finish, CallFails, W!Finish, P!Veto, P!Return, P!Reject,
           P!FailPermanent, P!GiveUp, P!Goto, CallTypes
    <2>2. CASE main = "join"
      <3>1. W!Current \in W!Workers /\ W!Current \in Callers /\ W!Current' = W!Current
        BY <2>1, <2>2, LimitsAssumption
        DEF PInv, InPlace, Guarded, W!Current, W!Workers, Callers
      <3>2. CASE w = W!Current
        <4>1. CASE box'[w] = "ok"
          BY <1>3, <2>1, <2>2, <3>2, <4>1
        <4>2. CASE box'[w] # "ok"
          BY <2>1, <3>1, <3>2, <4>2 DEF Cleared
        <4>3. QED
          BY <4>1, <4>2
      <3>3. CASE w # W!Current
        <4>1. w \in abandoned /\ lost' \ abandoned' \subseteq lost \ abandoned
          BY <2>1, <3>3 DEF Strays
        <4>2. stage'[W!Current] = stage[W!Current] /\ box'[W!Current] = box[W!Current]
          BY <2>1, <3>1, <3>3
        <4>3. Base' = Base
          BY <2>1 DEF Base
        <4>4. QED
          BY <2>1, <3>1, <4>1, <4>2, <4>3 DEF Cleared
      <3>4. QED
        BY <3>2, <3>3
    <2>3. QED
      BY <1>4, <2>1, <2>2
  <1>7. CASE (\E w \in W!Workers : Exit(w)) \/ Terminated \/ UNCHANGED vars
    <2>1. UNCHANGED <<main, call, attempt, box, stage, abandoned, debate, lost>>
      BY <1>7 DEF Exit, W!Exit, Terminated, vars, watchdogVars, callVars, ownVars
    <2>2. QED
      BY <2>1 DEF Cleared, W!Current, Base
  <1>8. QED
    BY <1>1, <1>2, <1>5, <1>6, <1>7 DEF Next

\* The tries of one guarded call.
LEMMA Tries ==
  ASSUME NEW n, NEW S, S \subseteq {n} \X (0..MaxRestarts)
  PROVE  IsFiniteSet(S) /\ Cardinality(S) \in Nat /\ Cardinality(S) <= MaxRestarts + 1
  <1>1. MaxRestarts \in Nat
    BY LimitsAssumption
  <1>2. IsFiniteSet({n}) /\ Cardinality({n}) = 1
    BY FS_Singleton
  <1>3. IsFiniteSet(0..MaxRestarts) /\ Cardinality(0..MaxRestarts) = MaxRestarts + 1
    BY <1>1, FS_Interval
  <1>4. /\ IsFiniteSet({n} \X (0..MaxRestarts))
        /\ Cardinality({n} \X (0..MaxRestarts)) = Cardinality({n}) * Cardinality(0..MaxRestarts)
    BY <1>2, <1>3, FS_Product
  <1>5. Cardinality({n} \X (0..MaxRestarts)) = MaxRestarts + 1
    BY <1>1, <1>2, <1>3, <1>4
  <1>6. QED
    BY <1>4, <1>5, Fewer

LEMMA StepFewLost ==
  ASSUME LInv, Born, LostIdle, LostHere, FewLost, [Next]_vars
  PROVE  FewLost'
  <1> USE DEF LInv
  <1>1. MaxRestarts \in Nat /\ abandoned \subseteq abandoned'
    BY StepAbandoned, LimitsAssumption
  <1>2. ASSUME NEW p \in Providers PROVE IsFiniteSet(LostAt(p) \ abandoned)
    <2>1. IsFiniteSet(Callers) /\ LostAt(p) \ abandoned \subseteq Callers
      BY FiniteCallers DEF PInv, InPlace, LostIdle, LostAt
    <2>2. QED
      BY <2>1, FS_Subset
  \* Providers at which nothing failed for good.
  <1>3. ASSUME NEW p \in Providers, LostAt(p)' \ abandoned' \subseteq LostAt(p) \ abandoned
        PROVE  Cardinality(LostAt(p)' \ abandoned') <= MaxRestarts + 1
    <2>1. PICK next : next = LostAt(p)' \ abandoned'
      OBVIOUS
    <2>2. Cardinality(next) \in Nat /\ Cardinality(LostAt(p) \ abandoned) \in Nat
          /\ Cardinality(next) <= Cardinality(LostAt(p) \ abandoned)
      BY <1>2, <1>3, <2>1, Fewer
    <2>3. Cardinality(LostAt(p) \ abandoned) <= MaxRestarts + 1
      BY DEF FewLost
    <2>4. QED
      BY <1>1, <2>1, <2>2, <2>3
  <1>4. CASE lost' \subseteq lost
    <2>1. \A p \in Providers : LostAt(p)' \ abandoned' \subseteq LostAt(p) \ abandoned
      BY <1>1, <1>4 DEF LostAt
    <2>2. QED
      BY <1>3, <2>1 DEF FewLost
  <1>5. ASSUME NEW w \in W!Workers, Finish(w), lost' = lost \cup {w} PROVE FewLost'
    <2>1. w \in alive /\ abandoned' = abandoned
      BY <1>5 DEF Finish, W!Finish
    <2>2. ASSUME NEW p \in Providers
          PROVE  Cardinality(LostAt(p)' \ abandoned') <= MaxRestarts + 1
      <3>1. CASE p # ProviderOf(w) \/ w \in abandoned
        <4>1. LostAt(p)' \ abandoned' \subseteq LostAt(p) \ abandoned
          BY <1>5, <2>1, <3>1 DEF LostAt
        <4>2. QED
          BY <1>3, <4>1
      <3>2. CASE p = ProviderOf(w) /\ w \notin abandoned
        <4>1. w = <<call, attempt>> /\ pc \in {"turn", "verdict"} /\ attempt \in 0..MaxRestarts
          BY <2>1, <3>2 DEF Strays, PInv, Guarded, W!Current
        <4>2. LostAt(p) \ abandoned \subseteq {call} \X (0..MaxRestarts)
          BY <3>2, <4>1, LostAtCall
        <4>3. PICK next : next = LostAt(p)' \ abandoned'
          OBVIOUS
        <4>4. next \subseteq (LostAt(p) \ abandoned) \cup {w}
          BY <1>5, <2>1, <4>3 DEF LostAt
        <4>5. next \subseteq {call} \X (0..MaxRestarts)
          BY <4>1, <4>2, <4>4
        <4>6. Cardinality(next) <= MaxRestarts + 1
          BY <4>5, Tries
        <4>7. QED
          BY <4>3, <4>6
      <3>3. QED
        BY <3>1, <3>2
    <2>3. QED
      BY <2>2 DEF FewLost
  <1>6. CASE Remind /\ lost' = lost \cup {Self}
    <2>1. pc = "route" /\ abandoned' = abandoned /\ UNCHANGED call
      BY <1>6 DEF Remind, D!RelayAndIntervene, D!InterveneFails
    <2>2. ASSUME NEW p \in Providers
          PROVE  Cardinality(LostAt(p)' \ abandoned') <= MaxRestarts + 1
      <3>1. CASE p # ProviderOf(Self)
        <4>1. LostAt(p)' \ abandoned' \subseteq LostAt(p) \ abandoned
          BY <1>6, <2>1, <3>1 DEF LostAt
        <4>2. QED
          BY <1>3, <4>1
      <3>2. CASE p = ProviderOf(Self)
        <4>1. LostAt(p) \ abandoned = {}
          BY <2>1, <3>2, LostAtRoute
        <4>2. PICK next, self : next = LostAt(p)' \ abandoned' /\ self = Self
          OBVIOUS
        <4>3. next \subseteq {} \cup {self}
          BY <1>6, <2>1, <4>1, <4>2 DEF LostAt
        <4>4. Cardinality(next) \in Nat /\ Cardinality(next) <= Cardinality({}) + 1
          BY <4>3, OneMore, FS_EmptySet
        <4>5. QED
          BY <1>1, <4>2, <4>4, FS_EmptySet
      <3>3. QED
        BY <3>1, <3>2
    <2>3. QED
      BY <2>2 DEF FewLost
  <1>7. QED
    <2>1. \/ lost' \subseteq lost
          \/ \E w \in W!Workers : Finish(w) /\ lost' = lost \cup {w}
          \/ Remind /\ lost' = lost \cup {Self}
      BY DEF Next, vars, ownVars, Start, Return, Fail, Halt, Relay, Remind, NextDebate, Begin,
         Proceed, Finish, CallFails, Exit, Terminated
    <2>2. QED
      BY <1>4, <1>5, <1>6, <2>1

LEMMA StepVInv == ASSUME LInv, VInv, [Next]_vars PROVE VInv'
  BY StepBorn, StepLostIdle, StepLostHere, StepCleared, StepFewLost DEF VInv

LEMMA InitVInv == Init => VInv
  <1> SUFFICES ASSUME Init PROVE VInv
    OBVIOUS
  <1>1. /\ alive = {} /\ abandoned = {} /\ lost = {} /\ main = "start"
        /\ box = [w \in W!Workers |-> "empty"]
    BY DEF Init, W!Init
  <1>2. \A p : LostAt(p) \ abandoned = {}
    BY <1>1 DEF LostAt
  <1>3. FewLost
    BY <1>2, FS_EmptySet, LimitsAssumption DEF FewLost
  <1>4. QED
    BY <1>1, <1>3 DEF VInv, Born, LostIdle, LostHere, Cleared

\* The requests in vain at a provider that are under way or failed for good are of one
\* call, but for those of abandoned threads.
FewVain ==
  \A p \in Providers :
     /\ Cardinality(P!UnderWay(p)) \in Nat /\ Cardinality(LostAt(p)) \in Nat
     /\ Cardinality(AbandonedAt(p)) \in Nat
     /\ Cardinality(P!UnderWay(p)) + Cardinality(LostAt(p))
          <= MaxRestarts + 1 + Cardinality(AbandonedAt(p))

LEMMA FewInVain == LInv /\ VInv => FewVain
  <1> SUFFICES ASSUME LInv, VInv, NEW p \in Providers
               PROVE  /\ Cardinality(P!UnderWay(p)) \in Nat /\ Cardinality(LostAt(p)) \in Nat
                      /\ Cardinality(AbandonedAt(p)) \in Nat
                      /\ Cardinality(P!UnderWay(p)) + Cardinality(LostAt(p))
                           <= MaxRestarts + 1 + Cardinality(AbandonedAt(p))
    BY DEF FewVain
  <1> USE DEF LInv, VInv
  <1> DEFINE under == P!UnderWay(p)
             lostThere == LostAt(p)
             few == (under \cup lostThere) \ abandoned
  <1>1. /\ IsFiniteSet(under) /\ Cardinality(under) \in Nat
        /\ IsFiniteSet(AbandonedAt(p)) /\ Cardinality(AbandonedAt(p)) \in Nat
    BY Finite, FS_CardinalityType
  <1>2. IsFiniteSet(lostThere) /\ Cardinality(lostThere) \in Nat
    <2>1. IsFiniteSet(Callers) /\ lostThere \subseteq Callers
      BY FiniteCallers DEF PInv, InPlace, LostIdle, LostAt
    <2>2. QED
      BY <2>1, Fewer
  <1>3. under \cap lostThere = {}
    BY DEF P!UnderWay, LostAt, LostIdle
  <1>4. \A c \in under : c \in Callers /\ ProviderOf(c) = p /\ (c \in abandoned \/ Wanted(c))
    BY DEF P!UnderWay, BusyWanted, CallTypes
  <1>5. IsFiniteSet(few) /\ Cardinality(few) \in Nat /\ Cardinality(few) <= MaxRestarts + 1
    <2>1. CASE under \subseteq abandoned
      <3>1. few \subseteq lostThere \ abandoned /\ lostThere \ abandoned \subseteq lostThere
        BY <2>1
      <3>2. IsFiniteSet(lostThere \ abandoned)
        BY <1>2, <3>1, FS_Subset
      <3>3. /\ IsFiniteSet(few) /\ Cardinality(few) \in Nat
            /\ Cardinality(lostThere \ abandoned) \in Nat
            /\ Cardinality(few) <= Cardinality(lostThere \ abandoned)
        BY <3>1, <3>2, Fewer
      <3>4. Cardinality(lostThere \ abandoned) <= MaxRestarts + 1
        BY DEF FewLost
      <3>5. QED
        BY <3>3, <3>4, LimitsAssumption
    <2>2. ASSUME NEW c \in under, c \notin abandoned, main = "join"
          PROVE  IsFiniteSet(few) /\ Cardinality(few) \in Nat /\ Cardinality(few) <= MaxRestarts + 1
      <3>1. pc \in {"turn", "verdict"} /\ attempt \in 0..MaxRestarts
        BY <2>2 DEF PInv, Guarded
      <3>2. \A d \in under \ abandoned : d = <<call, attempt>>
        BY <1>4, <3>1 DEF Wanted, W!Current
      <3>3. lostThere \ abandoned \subseteq {call} \X (0..MaxRestarts)
        BY <1>4, <2>2, <3>1, <3>2, LostAtCall
      <3>4. few \subseteq {call} \X (0..MaxRestarts)
        BY <3>1, <3>2, <3>3
      <3>5. QED
        BY <3>4, Tries
    <2>3. ASSUME NEW c \in under, c \notin abandoned, main # "join"
          PROVE  IsFiniteSet(few) /\ Cardinality(few) \in Nat /\ Cardinality(few) <= MaxRestarts + 1
      <3>1. pc = "route" /\ \A d \in under \ abandoned : d = Self
        BY <1>4, <2>3 DEF Wanted
      <3>2. lostThere \ abandoned = {}
        BY <1>4, <2>3, <3>1, LostAtRoute
      <3>3. few \subseteq {} \cup {Self}
        BY <3>1, <3>2
      <3>4. IsFiniteSet(few) /\ Cardinality(few) \in Nat /\ Cardinality(few) <= 0 + 1
        BY <3>3, OneMore, FS_EmptySet
      <3>5. QED
        BY <3>4, LimitsAssumption
    <2>4. QED
      BY <2>1, <2>2, <2>3
  <1>6. under \cup lostThere \subseteq AbandonedAt(p) \cup few
    BY <1>4 DEF AbandonedAt, LostAt
  <1>7. /\ IsFiniteSet(AbandonedAt(p) \cup few)
        /\ Cardinality(AbandonedAt(p) \cup few)
             = Cardinality(AbandonedAt(p)) + Cardinality(few) - Cardinality(AbandonedAt(p) \cap few)
        /\ Cardinality(AbandonedAt(p) \cap few) \in Nat
    BY <1>1, <1>5, FS_Union, FS_Intersection, FS_CardinalityType
  <1>8. /\ Cardinality(under \cup lostThere) \in Nat
        /\ Cardinality(under \cup lostThere) <= Cardinality(AbandonedAt(p) \cup few)
        /\ Cardinality(AbandonedAt(p) \cup few) \in Nat
    BY <1>6, <1>7, Fewer
  <1>9. Cardinality(under \cup lostThere) = Cardinality(under) + Cardinality(lostThere)
    <2>1. Cardinality(under \cup lostThere)
            = Cardinality(under) + Cardinality(lostThere) - Cardinality(under \cap lostThere)
      BY <1>1, <1>2, FS_Union
    <2>2. Cardinality(under \cap lostThere) = 0
      BY <1>3, FS_EmptySet
    <2>3. QED
      BY <1>1, <1>2, <2>1, <2>2
  <1>10. Cardinality(under) + Cardinality(lostThere) <= MaxRestarts + 1 + Cardinality(AbandonedAt(p))
    BY <1>1, <1>2, <1>5, <1>7, <1>8, <1>9, LimitsAssumption
  <1>11. QED
    BY <1>1, <1>2, <1>10

LEMMA StepStreaks ==
  ASSUME LInv, LInv', VInv, VInv', Streaks, [Next]_vars
  PROVE  Streaks'
  <1> USE DEF LInv
  <1>0. FewVain /\ FewVain'
    BY FewInVain, PTL
  <1>1. abandoned \subseteq abandoned' /\ IsFiniteSet(abandoned')
    BY StepAbandoned
  <1>2. ASSUME NEW p \in Providers
        PROVE  /\ failures[p] \in Nat
               /\ Cardinality(AbandonedAt(p)) \in Nat /\ Cardinality(AbandonedAt(p)') \in Nat
               /\ Cardinality(AbandonedAt(p)) <= Cardinality(AbandonedAt(p)')
               /\ IsFiniteSet(P!UnderWay(p)) /\ Cardinality(P!UnderWay(p)) \in Nat
               /\ IsFiniteSet(LostAt(p)) /\ Cardinality(LostAt(p)) \in Nat
    <2>1. AbandonedAt(p) \subseteq AbandonedAt(p)' /\ AbandonedAt(p)' \subseteq abandoned'
      BY <1>1 DEF AbandonedAt
    <2>2. PICK next : next = AbandonedAt(p)'
      OBVIOUS
    <2>3. IsFiniteSet(next)
      BY <1>1, <2>1, <2>2, FS_Subset
    <2>4. Cardinality(next) \in Nat /\ Cardinality(AbandonedAt(p)) \in Nat
          /\ Cardinality(AbandonedAt(p)) <= Cardinality(next)
      BY <2>1, <2>2, <2>3, Fewer
    <2>5. Cardinality(next) = Cardinality(AbandonedAt(p)')
      BY <2>2
    <2>6. IsFiniteSet(P!UnderWay(p)) /\ Cardinality(P!UnderWay(p)) \in Nat
      BY Finite, FS_CardinalityType
    <2>7. IsFiniteSet(Callers) /\ LostAt(p) \in SUBSET Callers
      BY FiniteCallers DEF PInv, InPlace, VInv, LostIdle, LostAt
    <2>8. IsFiniteSet(LostAt(p)) /\ Cardinality(LostAt(p)) \in Nat
      BY <2>7, Fewer
    <2>9. QED
      BY <2>4, <2>5, <2>6, <2>8 DEF CallTypes
  \* Steps on which no request fails and none is let through.
  <1>3. ASSUME NEW p \in Providers, failures'[p] \in Nat, failures'[p] <= failures[p],
               ~open'[p] => ~open[p] \/ failures'[p] = 0,
               P!UnderWay(p)' \subseteq P!UnderWay(p), LostAt(p)' \subseteq LostAt(p)
        PROVE  /\ ~open'[p] => failures'[p] < Threshold
               /\ failures'[p] + Cardinality(P!UnderWay(p)') + Cardinality(LostAt(p)')
                     <= Threshold + MaxRestarts + Cardinality(AbandonedAt(p)')
    <2>1. PICK next, left : next = P!UnderWay(p)' /\ left = LostAt(p)'
      OBVIOUS
    <2>2. Cardinality(next) \in Nat /\ Cardinality(next) <= Cardinality(P!UnderWay(p))
      BY <1>2, <1>3, <2>1, Fewer
    <2>3. Cardinality(left) \in Nat /\ Cardinality(left) <= Cardinality(LostAt(p))
      BY <1>2, <1>3, <2>1, Fewer
    <2>4. /\ Cardinality(P!UnderWay(p)') = Cardinality(next)
          /\ Cardinality(LostAt(p)') = Cardinality(left)
      BY <2>1
    <2>5. ~open'[p] => failures'[p] < Threshold
      BY <1>2, <1>3, LimitsAssumption DEF Streaks
    <2>6. failures[p] + Cardinality(P!UnderWay(p)) + Cardinality(LostAt(p))
            <= Threshold + MaxRestarts + Cardinality(AbandonedAt(p))
      BY DEF Streaks
    <2>7. QED
      BY <1>2, <1>3, <2>2, <2>3, <2>4, <2>5, <2>6, LimitsAssumption
  <1>4. ASSUME failures' = failures, open' = open, lost' \subseteq lost,
               \A p \in Providers : P!UnderWay(p)' \subseteq P!UnderWay(p)
        PROVE  Streaks'
    <2>1. ASSUME NEW p \in Providers
          PROVE  /\ ~open'[p] => failures'[p] < Threshold
                 /\ failures'[p] + Cardinality(P!UnderWay(p)') + Cardinality(LostAt(p)')
                       <= Threshold + MaxRestarts + Cardinality(AbandonedAt(p)')
      <3>1. failures'[p] \in Nat /\ failures'[p] <= failures[p]
        BY <1>2, <1>4
      <3>2. LostAt(p)' \subseteq LostAt(p)
        BY <1>4 DEF LostAt
      <3>3. QED
        BY <1>3, <1>4, <3>1, <3>2
    <2>2. QED
      BY <2>1 DEF Streaks
  <1>5. CASE UNCHANGED callVars /\ lost' = lost
    <2>1. \A p \in Providers : P!UnderWay(p)' \subseteq P!UnderWay(p)
      BY <1>5 DEF callVars, P!UnderWay
    <2>2. QED
      BY <1>4, <1>5, <2>1 DEF callVars
  <1>6. ASSUME NEW c \in Callers, CallStep(c), abandoned' = abandoned, lost' \subseteq lost
        PROVE  Streaks'
    <2> DEFINE at == provider[c]
    <2> USE DEF CallTypes, P!Goto
    <2>0. at = ProviderOf(c) /\ \A p : LostAt(p)' \subseteq LostAt(p)
      BY <1>6 DEF LostAt
    <2>1. CASE \/ P!Begin(c, ProviderOf(c), OneCall) \/ P!Veto(c) \/ P!Admit(c) \/ P!Reject(c)
               \/ P!Attempt(c) \/ P!Charge(c, OneCall) \/ P!Return(c)
               \/ P!FailPermanent(c) \/ P!GiveUp(c)
      <3>1. \A p \in Providers : P!UnderWay(p)' \subseteq P!UnderWay(p)
        BY <2>1 DEF P!Begin, P!Veto, P!Admit, P!Decided, P!Reject, P!Attempt, P!Charge, P!Return,
           P!FailPermanent, P!GiveUp, P!UnderWay
      <3>2. failures' = failures /\ open' = open
        BY <2>1 DEF P!Begin, P!Veto, P!Admit, P!Decided, P!Reject, P!Attempt, P!Charge, P!Return,
           P!FailPermanent, P!GiveUp, P!breakerVars
      <3>3. QED
        BY <1>4, <1>6, <3>1, <3>2
    <2>2. CASE P!PassBreaker(c) \/ P!Backoff(c)
      <3>1. failures' = failures /\ open' = open /\ ~open[at] /\ provider' = provider
            /\ stage' = [stage EXCEPT ![c] = "ready"]
        BY <2>2 DEF P!PassBreaker, P!Backoff, P!breakerVars
      <3>2. ASSUME NEW p \in Providers
            PROVE  /\ ~open'[p] => failures'[p] < Threshold
                   /\ failures'[p] + Cardinality(P!UnderWay(p)') + Cardinality(LostAt(p)')
                         <= Threshold + MaxRestarts + Cardinality(AbandonedAt(p)')
        <4>1. CASE p = at
          <5>1. failures'[p] = failures[p] /\ failures[p] < Threshold
            BY <3>1, <4>1 DEF Streaks
          <5>2. /\ Cardinality(P!UnderWay(p)') \in Nat /\ Cardinality(LostAt(p)') \in Nat
                /\ Cardinality(P!UnderWay(p)') + Cardinality(LostAt(p)')
                     <= MaxRestarts + 1 + Cardinality(AbandonedAt(p)')
            BY <1>0 DEF FewVain
          <5>3. QED
            BY <1>2, <5>1, <5>2, LimitsAssumption
        <4>2. CASE p # at
          <5>1. /\ failures'[p] \in Nat /\ failures'[p] <= failures[p]
                /\ P!UnderWay(p)' \subseteq P!UnderWay(p)
            BY <1>2, <3>1, <4>2 DEF P!UnderWay
          <5>2. QED
            BY <1>3, <2>0, <3>1, <5>1
        <4>3. QED
          BY <4>1, <4>2
      <3>3. QED
        BY <3>2 DEF Streaks
    <2>3. CASE P!Answer(c)
      <3>1. /\ \A p \in Providers : failures'[p] = (IF p = at THEN 0 ELSE failures[p])
            /\ \A p \in Providers : P!UnderWay(p)' \subseteq P!UnderWay(p)
        BY <2>3 DEF P!Answer, P!UnderWay
      <3>2. \A p \in Providers : p # at => open'[p] = open[p]
        BY <2>3 DEF P!Answer
      <3>3. ASSUME NEW p \in Providers
            PROVE  /\ ~open'[p] => failures'[p] < Threshold
                   /\ failures'[p] + Cardinality(P!UnderWay(p)') + Cardinality(LostAt(p)')
                         <= Threshold + MaxRestarts + Cardinality(AbandonedAt(p)')
        <4>1. failures'[p] \in Nat /\ failures'[p] <= failures[p]
              /\ (p = at => failures'[p] = 0)
          BY <1>2, <3>1
        <4>2. QED
          BY <1>3, <2>0, <3>1, <3>2, <4>1
      <3>4. QED
        BY <3>3 DEF Streaks
    <2>4. CASE P!FailTransient(c)
      <3>1. /\ \A p \in Providers : failures'[p] = (IF p = at THEN failures[p] + 1 ELSE failures[p])
            /\ \A p \in Providers : P!UnderWay(p)' = (IF p = at THEN P!UnderWay(p) \ {c}
                                                                ELSE P!UnderWay(p))
            /\ c \in P!UnderWay(at)
        BY <2>4 DEF P!FailTransient, P!CountFailure, P!UnderWay
      <3>2. \A p \in Providers : open'[p] = IF p = at THEN open[p] \/ failures'[p] >= Threshold
                                                    ELSE open[p]
        BY <2>4, Zenon DEF P!FailTransient, P!CountFailure
      <3>3. ASSUME NEW p \in Providers, p = at
            PROVE  /\ ~open'[p] => failures'[p] < Threshold
                   /\ failures'[p] + Cardinality(P!UnderWay(p)') + Cardinality(LostAt(p)')
                         <= Threshold + MaxRestarts + Cardinality(AbandonedAt(p)')
        <4>1. ~open'[p] => ~(failures'[p] >= Threshold)
          BY <3>2, <3>3, Zenon
        <4>2. ~open'[p] => failures'[p] < Threshold
          BY <1>2, <3>1, <4>1, LimitsAssumption
        <4>3. PICK less, left : less = P!UnderWay(p) \ {c} /\ left = LostAt(p)'
          OBVIOUS
        <4>4. Cardinality(less) \in Nat /\ Cardinality(P!UnderWay(p)) = Cardinality(less) + 1
          BY <1>2, <3>1, <3>3, <4>3, OneLess
        <4>5. Cardinality(left) \in Nat /\ Cardinality(left) <= Cardinality(LostAt(p))
          BY <1>2, <2>0, <4>3, Fewer
        <4>6. /\ Cardinality(P!UnderWay(p)') = Cardinality(less)
              /\ Cardinality(LostAt(p)') = Cardinality(left)
          BY <3>1, <3>3, <4>3
        <4>7. failures[p] + Cardinality(P!UnderWay(p)) + Cardinality(LostAt(p))
                <= Threshold + MaxRestarts + Cardinality(AbandonedAt(p))
          BY DEF Streaks
        <4>8. QED
          BY <1>2, <3>1, <3>3, <4>2, <4>4, <4>5, <4>6, <4>7, LimitsAssumption
      <3>4. ASSUME NEW p \in Providers, p # at
            PROVE  /\ ~open'[p] => failures'[p] < Threshold
                   /\ failures'[p] + Cardinality(P!UnderWay(p)') + Cardinality(LostAt(p)')
                         <= Threshold + MaxRestarts + Cardinality(AbandonedAt(p)')
        <4>1. /\ failures'[p] \in Nat /\ failures'[p] <= failures[p]
              /\ P!UnderWay(p)' \subseteq P!UnderWay(p)
          BY <1>2, <3>1, <3>4
        <4>2. open'[p] = open[p]
          BY <3>2, <3>4, Zenon
        <4>3. QED
          BY <1>3, <2>0, <4>1, <4>2
      <3>5. QED
        BY <3>3, <3>4 DEF Streaks
    <2>5. QED
      BY <1>6, <2>1, <2>2, <2>3, <2>4 DEF CallStep
  \* A request that fails for good is no longer under way but lost.
  <1>7. ASSUME NEW c \in Callers, P!FailPermanent(c), lost' = lost \cup {c} PROVE Streaks'
    <2> DEFINE at == provider[c]
    <2>1. at = ProviderOf(c) /\ failures' = failures /\ open' = open
      BY <1>7 DEF P!FailPermanent, P!breakerVars, CallTypes
    <2>2. /\ \A p \in Providers : P!UnderWay(p)' = (IF p = at THEN P!UnderWay(p) \ {c}
                                                              ELSE P!UnderWay(p))
          /\ c \in P!UnderWay(at)
      BY <1>7 DEF P!FailPermanent, P!Goto, P!UnderWay, CallTypes
    <2>3. \A p : LostAt(p)' \subseteq (IF p = at THEN LostAt(p) \cup {c} ELSE LostAt(p))
      BY <1>7, <2>1 DEF LostAt
    <2>4. ASSUME NEW p \in Providers
          PROVE  /\ ~open'[p] => failures'[p] < Threshold
                 /\ failures'[p] + Cardinality(P!UnderWay(p)') + Cardinality(LostAt(p)')
                       <= Threshold + MaxRestarts + Cardinality(AbandonedAt(p)')
      <3>1. failures'[p] = failures[p] /\ open'[p] = open[p]
        BY <2>1
      <3>2. CASE p # at
        BY <1>2, <1>3, <2>2, <2>3, <3>1, <3>2
      <3>3. CASE p = at
        <4>1. PICK less, left : less = P!UnderWay(p) \ {c} /\ left = LostAt(p)'
          OBVIOUS
        <4>2. Cardinality(less) \in Nat /\ Cardinality(P!UnderWay(p)) = Cardinality(less) + 1
          BY <1>2, <2>2, <3>3, <4>1, OneLess
        <4>3. left \subseteq LostAt(p) \cup {c}
          BY <2>3, <3>3, <4>1
        <4>4. Cardinality(left) \in Nat /\ Cardinality(left) <= Cardinality(LostAt(p)) + 1
          BY <1>2, <4>3, OneMore
        <4>5. /\ Cardinality(P!UnderWay(p)') = Cardinality(less)
              /\ Cardinality(LostAt(p)') = Cardinality(left)
          BY <2>2, <3>3, <4>1
        <4>6. /\ ~open[p] => failures[p] < Threshold
              /\ failures[p] + Cardinality(P!UnderWay(p)) + Cardinality(LostAt(p))
                   <= Threshold + MaxRestarts + Cardinality(AbandonedAt(p))
          BY DEF Streaks
        <4>7. QED
          BY <1>2, <3>1, <4>2, <4>4, <4>5, <4>6, LimitsAssumption
      <3>4. QED
        BY <3>2, <3>3
    <2>5. QED
      BY <2>4 DEF Streaks
  <1>8. QED
    BY <1>5, <1>6, <1>7, LostSteps

LEMMA InitCounts == Init => Bound /\ Streaks
  <1> SUFFICES ASSUME Init PROVE Bound /\ Streaks
    OBVIOUS
  <1>1. /\ used = P!NoUsage /\ stage = [c \in Callers |-> "idle"] /\ abandoned = {}
        /\ failures = [p \in Providers |-> 0] /\ lost = {}
    BY DEF Init, P!Init, P!InitBudget, W!Init
  <1>2. used.calls = 0
    BY <1>1 DEF P!NoUsage
  <1>3. Committed = {}
    BY <1>1 DEF Committed, P!Admitted, Passing
  <1>4. \A p : P!UnderWay(p) = {} /\ AbandonedAt(p) = {} /\ LostAt(p) = {}
    BY <1>1 DEF P!UnderWay, AbandonedAt, LostAt
  <1>5. Cardinality({}) = 0
    BY FS_EmptySet
  <1>6. Bound
    BY <1>1, <1>2, <1>3, <1>5, LimitsAssumption DEF Bound
  <1>7. Streaks
    BY <1>1, <1>4, <1>5, LimitsAssumption DEF Streaks
  <1>8. QED
    BY <1>6, <1>7

\* All the conjuncts together.
THEOREM LimitsHold == Spec => [](LInv /\ VInv /\ Bound /\ Streaks)
  <1>1. Init => LInv /\ VInv /\ Bound /\ Streaks
    BY InitLInv, InitVInv, InitCounts
  <1>2. LInv /\ VInv /\ Bound /\ Streaks /\ [Next]_vars => (LInv /\ VInv /\ Bound /\ Streaks)'
    BY NextLInv, StepVInv, StepBound, StepStreaks
  <1>3. QED
    BY <1>1, <1>2, PTL DEF Spec

\* Only abandoned threads can take the recorded calls past the limit, each by one at
\* most, in all debates of a sitting together (limiter.py, watchdog.py).
THEOREM OvershootByTheAbandoned == Spec => []OvershootIsAbandoned
  <1>1. LInv /\ Bound => OvershootIsAbandoned
    <2> SUFFICES ASSUME LInv, Bound PROVE OvershootIsAbandoned
      OBVIOUS
    <2>1. P!Admitted \in SUBSET Committed /\ IsFiniteSet(Committed)
      BY Finite DEF Committed
    <2>2. /\ Cardinality(P!Admitted) \in Nat /\ Cardinality(Committed) \in Nat
          /\ Cardinality(P!Admitted) <= Cardinality(Committed)
      BY <2>1, Fewer
    <2>3. used.calls \in Nat /\ Cardinality(abandoned) \in Nat
      BY UsageFacts, FS_CardinalityType DEF LInv, CallTypes
    <2>4. QED
      BY <2>2, <2>3, LimitsAssumption DEF Bound, OvershootIsAbandoned
  <1>2. QED
    BY <1>1, LimitsHold, PTL

\* The requests in a row that an agent's provider was sent for nothing, failed or under
\* way, are bounded by the breaker's threshold, the restarts and the threads abandoned
\* there (resilience.py, circuit.py, watchdog.py).
THEOREM UnpaidIsBounded == Spec => []UnpaidBounded
  <1>1. Streaks => UnpaidBounded
    BY DEF Streaks, UnpaidBounded, AbandonedAt
  <1>2. QED
    BY <1>1, LimitsHold, PTL

-----------------------------------------------------------------------------
LEMMA OverTheLimit ==
  ASSUME NEW u \in P!Usage, u.calls > MaxCalls
  PROVE  P!Exceeds(u)
  BY DEF P!Exceeds

LEMMA StepSpent ==
  ASSUME LInv, Exhausted, [Next]_vars
  PROVE  Exhausted' /\ sent' = sent
  <1> USE DEF LInv, CallTypes
  <1>1. CASE UNCHANGED callVars
    BY <1>1 DEF callVars, Exhausted
  <1>2. ASSUME NEW c \in Callers, CallStep(c) PROVE Exhausted' /\ sent' = sent
    <2>1. /\ used.calls >= MaxCalls
          /\ \A d \in Callers : \/ stage[d] \in {"idle", "recorded"}
                                \/ stage[d] = "checking" /\ P!Exceeds(projected[d])
      BY DEF Exhausted
    <2>2. CASE P!Begin(c, ProviderOf(c), OneCall)
      <3>1. /\ used' = used /\ sent' = sent
            /\ stage' = [stage EXCEPT ![c] = "checking"]
            /\ projected' = [projected EXCEPT ![c] = P!Plus(used, OneCall)]
        BY <2>2 DEF P!Begin, P!Goto, P!budgetVars
      <3>2. P!Plus(used, OneCall) \in P!Usage /\ P!Plus(used, OneCall).calls > MaxCalls
        BY <2>1, UsageFacts, LimitsAssumption
      <3>3. P!Exceeds(projected'[c])
        BY <3>1, <3>2, OverTheLimit
      <3>4. \A d \in Callers \ {c} : stage'[d] = stage[d] /\ projected'[d] = projected[d]
        BY <3>1
      <3>5. stage'[c] = "checking"
        BY <3>1
      <3>6. ASSUME NEW d \in Callers
            PROVE  \/ stage'[d] \in {"idle", "recorded"}
                   \/ stage'[d] = "checking" /\ P!Exceeds(projected'[d])
        <4>1. CASE d = c
          BY <3>3, <3>5, <4>1
        <4>2. CASE d # c
          BY <2>1, <3>4, <4>2
        <4>3. QED
          BY <4>1, <4>2
      <3>7. QED
        BY <2>1, <3>1, <3>6 DEF Exhausted
    <2>3. CASE P!Veto(c) \/ P!Return(c)
      <3>1. /\ used' = used /\ sent' = sent /\ stage'[c] = "idle"
            /\ \A d \in Callers \ {c} : stage'[d] = stage[d] /\ projected'[d] = projected[d]
        BY <2>3 DEF P!Veto, P!Decided, P!Return, P!LatchIfExceeded, P!Goto
      <3>2. ASSUME NEW d \in Callers
            PROVE  \/ stage'[d] \in {"idle", "recorded"}
                   \/ stage'[d] = "checking" /\ P!Exceeds(projected'[d])
        <4>1. CASE d = c
          BY <3>1, <4>1
        <4>2. CASE d # c
          BY <2>1, <3>1, <4>2
        <4>3. QED
          BY <4>1, <4>2
      <3>3. QED
        BY <2>1, <3>1, <3>2 DEF Exhausted
    <2>4. ~P!Admit(c)
      BY <2>1 DEF P!Admit
    <2>5. ~(\/ P!Reject(c) \/ P!PassBreaker(c) \/ P!Attempt(c) \/ P!Answer(c) \/ P!Charge(c, OneCall)
           \/ P!FailTransient(c) \/ P!FailPermanent(c) \/ P!GiveUp(c) \/ P!Backoff(c))
      BY <2>1 DEF P!Reject, P!PassBreaker, P!Attempt, P!Answer, P!Charge, P!FailTransient,
         P!FailPermanent, P!GiveUp, P!Backoff
    <2>6. QED
      BY <1>2, <2>2, <2>3, <2>4, <2>5 DEF CallStep
  <1>3. QED
    BY <1>1, <1>2, CallSteps

\* Once the budget is spent and nobody is past the gate, no thread and no later debate
\* sends another request (limiter.py, sdk.py).
THEOREM SpentIsFinal == Spec => SpentForGood
  <1>1. LInv /\ [Next]_vars => [Exhausted => Exhausted' /\ sent' = sent]_vars
    BY StepSpent
  <1>2. QED
    BY <1>1, LimitsHold, PTL DEF Spec, SpentForGood

-----------------------------------------------------------------------------
\* What has been paid for: calls recorded and not returned yet, and workers that left
\* a result or whose answer was refused.
Recorded == {c \in Callers : stage[c] = "recorded"}
Given    == {w \in W!Workers : box[w] = "ok" \/ w \in refused}
Paid     == Cardinality(Recorded) + Cardinality(Given) + Cardinality(Reminders) <= used.calls

RefusedFailed == refused \subseteq {w \in W!Workers : box[w] = "error"}

\* The results the engine was given are of workers of earlier calls, all different.
Taken == {results[i] : i \in DOMAIN results}
InTurn ==
  /\ results \in Seq(W!Workers)
  /\ \A i \in DOMAIN results :
        /\ box[results[i]] = "ok"
        /\ results[i][1] < call \/ (main = "finished" /\ results[i][1] <= call)
  /\ Cardinality(Taken) = Len(results)
  /\ call <= Base + CallsEach + 1
  /\ main = "finished" => call = Calls

LEMMA StepRefused == ASSUME LInv, RefusedFailed, [Next]_vars PROVE RefusedFailed'
  <1>1. ASSUME NEW w \in W!Workers, Finish(w) PROVE RefusedFailed'
    <2>1. /\ box[w] = "empty"
          /\ \/ refused' = refused
             \/ refused' = refused \cup {w} /\ box' = [box EXCEPT ![w] = "error"]
      BY <1>1 DEF Finish, W!Finish
    <2>2. /\ box \in [W!Workers -> W!Outcomes \cup {"empty"}]
          /\ \A v \in W!Workers \ {w} : box'[v] = box[v]
      BY <1>1 DEF Finish, W!Finish, LInv, CallTypes
    <2>3. QED
      BY <2>1, <2>2 DEF RefusedFailed
  <1>2. CASE ~\E w \in W!Workers : Finish(w)
    <2>1. UNCHANGED <<box, refused>>
      BY <1>2 DEF Next, vars, watchdogVars, ownVars, Start, W!Start, Return, W!Return, Fail,
         W!Error, W!Timeout, Halt, W!Fatal, Relay, Remind, NextDebate, Begin, Proceed, Exit,
         W!Exit, Terminated
    <2>2. QED
      BY <2>1 DEF RefusedFailed
  <1>3. QED
    BY <1>1, <1>2

LEMMA Appended ==
  ASSUME NEW S, NEW q \in Seq(S), NEW x \in S
  PROVE  /\ Append(q, x) \in Seq(S) /\ Len(Append(q, x)) = Len(q) + 1
         /\ {Append(q, x)[i] : i \in DOMAIN Append(q, x)} = {q[i] : i \in DOMAIN q} \cup {x}
  <1> DEFINE a == Append(q, x)
  <1>1. /\ a \in Seq(S) /\ Len(a) = Len(q) + 1 /\ Len(q) \in Nat
        /\ DOMAIN q = 1..Len(q) /\ DOMAIN a = 1..(Len(q) + 1)
        /\ a[Len(q) + 1] = x /\ \A i \in 1..Len(q) : a[i] = q[i]
    OBVIOUS
  <1>2. \A i \in DOMAIN a : i \in DOMAIN q \/ i = Len(q) + 1
    BY <1>1
  <1>3. \A i \in DOMAIN q : i \in DOMAIN a /\ a[i] = q[i]
    BY <1>1
  <1>4. Len(q) + 1 \in DOMAIN a
    BY <1>1
  <1>5. QED
    BY <1>1, <1>2, <1>3, <1>4

LEMMA StepInTurn == ASSUME LInv, LInv', InTurn, [Next]_vars PROVE InTurn'
  <1>1. CASE Return
    <2>1. /\ main = "join" /\ box[W!Current] = "ok"
          /\ results' = Append(results, W!Current)
          /\ IF call < Calls THEN call' = call + 1 /\ main' = "start"
                             ELSE main' = "finished" /\ call' = call
          /\ UNCHANGED <<box, debate>>
      BY <1>1 DEF Return, W!Return, ownVars
    <2>2. /\ W!Current \in W!Workers /\ W!Current[1] = call
          /\ call \in 1..Calls /\ Calls \in Nat /\ Base \in Nat /\ Base' = Base
      BY <2>1, BaseFacts DEF LInv, PInv, InPlace, Guarded, W!Current, W!Workers, Base
    <2>3. PICK last \in W!Workers : last = W!Current
      BY <2>2
    <2>4. /\ results' \in Seq(W!Workers) /\ Len(results') = Len(results) + 1
          /\ Taken' = Taken \cup {last}
      BY <2>1, <2>3, Appended DEF InTurn, Taken
    <2>5. \A i \in DOMAIN results : results[i][1] < call
      BY <2>1 DEF InTurn
    <2>6. last \notin Taken
      BY <2>2, <2>3, <2>5 DEF Taken
    <2>7. IsFiniteSet(Taken) /\ Cardinality(Taken \cup {last}) = Cardinality(Taken) + 1
      <3>1. IsFiniteSet(W!Workers)
        BY FiniteCallers DEF LInv, PInv, InPlace
      <3>2. Taken \subseteq W!Workers
        BY DEF InTurn, Taken
      <3>3. IsFiniteSet(Taken)
        BY <3>1, <3>2, FS_Subset
      <3>4. QED
        BY <2>6, <3>3, FS_AddElement
    <2>8. Cardinality(Taken') = Len(results')
      BY <2>4, <2>7 DEF InTurn
    <2>9. call' <= Base' + CallsEach + 1
      <3>1. pc \in {"turn", "verdict"} /\ number \in 1..Rounds /\ Rounds \in Nat
        BY <2>1, SizesAssumption DEF LInv, PInv, InPlace, Guarded
      <3>2. call <= Base + CallsEach
        BY <2>2, <3>1, CallsEachType DEF LInv, PInv, InPlace
      <3>3. QED
        BY <2>1, <2>2, <3>2, CallsEachType
    <2>10. ASSUME NEW i \in DOMAIN results'
           PROVE  /\ box'[results'[i]] = "ok"
                  /\ results'[i][1] < call' \/ (main' = "finished" /\ results'[i][1] <= call')
      <3>1. results'[i] = last \/ \E j \in DOMAIN results : results'[i] = results[j]
        BY <2>4 DEF Taken
      <3>2. last[1] = call /\ box[last] = "ok" /\ box' = box
        BY <2>1, <2>2, <2>3
      <3>3. CASE results'[i] = last
        BY <2>1, <2>2, <3>2, <3>3
      <3>4. CASE \E j \in DOMAIN results : results'[i] = results[j]
        <4>1. PICK j \in DOMAIN results : results'[i] = results[j]
          BY <3>4
        <4>2. box[results[j]] = "ok" /\ results[j][1] < call /\ results[j][1] \in Int
          BY <2>5 DEF InTurn, W!Workers
        <4>3. QED
          BY <2>1, <2>2, <3>2, <4>1, <4>2
      <3>5. QED
        BY <3>1, <3>3, <3>4
    <2>11. QED
      BY <2>1, <2>2, <2>4, <2>8, <2>9, <2>10 DEF InTurn
  <1>2. CASE NextDebate
    <2>1. /\ debate < Debates /\ main' = "start" /\ call' = debate * CallsEach + 1
          /\ debate' = debate + 1 /\ UNCHANGED <<box, results>>
      BY <1>2 DEF NextDebate
    <2>2. /\ call' = Base + CallsEach + 1 /\ Base' = Base + CallsEach
          /\ Base \in Nat /\ Base + 2 * CallsEach <= Calls /\ call \in Nat
      BY <2>1, BaseFacts, CallsEachType, SizesAssumption DEF LInv, PInv, InPlace, Base
    <2>3. main # "finished" /\ call <= call'
      BY <2>2, CallsEachType DEF InTurn
    <2>4. \A i \in DOMAIN results : results[i][1] < call' /\ box'[results[i]] = "ok"
      <3>1. \A i \in DOMAIN results : results[i][1] \in Int
        BY DEF InTurn, W!Workers
      <3>2. QED
        BY <2>1, <2>2, <2>3, <3>1, CallsEachType DEF InTurn
    <2>5. Cardinality(Taken') = Len(results')
      BY <2>1 DEF InTurn, Taken
    <2>6. call' <= Base' + CallsEach + 1
      BY <2>2, CallsEachType
    <2>7. QED
      BY <2>1, <2>4, <2>5, <2>6 DEF InTurn
  <1>3. CASE ~Return /\ ~NextDebate
    <2>1. /\ UNCHANGED <<results, call, debate>>
          /\ main = "finished" <=> main' = "finished"
      BY <1>3 DEF Next, vars, watchdogVars, ownVars, Start, W!Start, Fail, W!Error, W!Timeout,
         W!Restart, Halt, W!Fatal, Relay, Remind, Begin, Proceed, Finish, W!Finish, Exit, W!Exit,
         Terminated
    <2>2. \A w \in W!Workers : box[w] = "ok" => box'[w] = "ok"
      <3>1. ASSUME NEW v \in W!Workers, Finish(v), NEW w \in W!Workers, box[w] = "ok"
            PROVE  box'[w] = "ok"
        BY <3>1 DEF Finish, W!Finish, LInv, CallTypes
      <3>2. (\E v \in W!Workers : Finish(v)) \/ box' = box
        BY <1>3 DEF Next, vars, watchdogVars, Start, W!Start, Fail, W!Error, W!Timeout,
           Halt, W!Fatal, Relay, Remind, Begin, Proceed, Exit, W!Exit, Terminated
      <3>3. QED
        BY <3>1, <3>2
    <2>3. \A i \in DOMAIN results : results[i] \in W!Workers
      BY DEF InTurn
    <2>4. Base' = Base /\ Taken' = Taken
      BY <2>1 DEF Base, Taken
    <2>5. QED
      BY <2>1, <2>2, <2>3, <2>4 DEF InTurn
  <1>4. QED
    BY <1>1, <1>2, <1>3

Interventions(q) == {i \in DOMAIN q : q[i].type = "intervention"}

LEMMA InterventionsGrow ==
  ASSUME NEW q \in Seq(D!Message), NEW m \in D!Message, m.type # "intervention",
         NEW r \in D!Message, r.type = "intervention"
  PROVE  /\ IsFiniteSet(Interventions(q))
         /\ Interventions(Append(q, m)) = Interventions(q)
         /\ Interventions(q \o <<m>>) = Interventions(q)
         /\ Interventions(q \o <<m, r>>) = Interventions(q) \cup {Len(q) + 2}
         /\ Len(q) + 2 \notin Interventions(q)
  <1>1. Len(q) \in Nat /\ DOMAIN q = 1..Len(q)
    OBVIOUS
  <1>2. IsFiniteSet(Interventions(q))
    <2>1. IsFiniteSet(1..Len(q))
      BY <1>1, FS_Interval
    <2>2. Interventions(q) \subseteq 1..Len(q)
      BY <1>1 DEF Interventions
    <2>3. QED
      BY <2>1, <2>2, FS_Subset
  <1>3. Interventions(Append(q, m)) = Interventions(q)
    <2> DEFINE a == Append(q, m)
    <2>1. DOMAIN a = 1..(Len(q) + 1) /\ a[Len(q) + 1] = m /\ \A i \in 1..Len(q) : a[i] = q[i]
      OBVIOUS
    <2>2. QED
      BY <1>1, <2>1 DEF Interventions
  <1>4. q \o <<m>> = Append(q, m)
    OBVIOUS
  <1>5. Interventions(q \o <<m, r>>) = Interventions(q) \cup {Len(q) + 2}
    <2> DEFINE a == q \o <<m, r>>
    <2>1. /\ DOMAIN a = 1..(Len(q) + 2) /\ a[Len(q) + 1] = m /\ a[Len(q) + 2] = r
          /\ \A i \in 1..Len(q) : a[i] = q[i]
      OBVIOUS
    <2>2. \A i \in 1..(Len(q) + 2) : i \in 1..Len(q) \/ i = Len(q) + 1 \/ i = Len(q) + 2
      BY <1>1
    <2>3. \A i \in 1..Len(q) : i \in 1..(Len(q) + 2)
      BY <1>1
    <2>4. QED
      BY <1>1, <2>1, <2>2, <2>3 DEF Interventions
  <1>6. QED
    BY <1>1, <1>2, <1>3, <1>4, <1>5 DEF Interventions

\* The reminders of a debate grow by one when the judge's call came through.
LEMMA StepReminders ==
  ASSUME LInv, [Next]_vars
  PROVE  /\ IsFiniteSet(Reminders)
         /\ Remind /\ P!Return(Self)
              => Cardinality(Reminders') = Cardinality(Reminders) + 1
         /\ ~(Remind /\ P!Return(Self))
              => Cardinality(Reminders') = Cardinality(Reminders) \/ Cardinality(Reminders') = 0
  <1> USE DEF LInv, PInv
  <1>1. transcript \in Seq(D!Message) /\ Reminders = Interventions(transcript)
        /\ Reminders' = Interventions(transcript')
    BY DEF Spoken, Reminders, Interventions
  <1> DEFINE relay == D!RelayOf(D!Spoken)
             reminder == D!BuildMessage("judge", D!Spoken.sender, "intervention", "firm", None)
  <1>2. ASSUME pc = "route"
        PROVE  /\ relay \in D!Message /\ relay.type # "intervention"
               /\ reminder \in D!Message /\ reminder.type = "intervention"
    <2>1. transcript # <<>>
      BY <1>2 DEF Spoken
    <2>2. D!Spoken \in D!Message
      BY <2>1 DEF Spoken, D!Spoken
    <2>3. number \in Nat /\ Len(transcript) \in Nat
      BY SizesAssumption DEF InPlace, Spoken
    <2>4. relay \in D!Message
      BY <2>2, <2>3 DEF D!RelayOf, D!BuildMessage, D!Message, D!Opponent, D!Debaters, D!Types
    <2>5. reminder \in D!Message
      BY <2>2, <2>3 DEF D!BuildMessage, D!Message, D!Debaters, D!Types, D!Texts
    <2>6. QED
      BY <2>4, <2>5 DEF D!RelayOf, D!BuildMessage
  <1>3. IsFiniteSet(Reminders)
    <2>1. IsFiniteSet(1..Len(transcript))
      BY <1>1, FS_Interval
    <2>2. Reminders \subseteq 1..Len(transcript)
      BY <1>1 DEF Reminders
    <2>3. QED
      BY <2>1, <2>2, FS_Subset
  <1>4. ASSUME Remind, P!Return(Self)
        PROVE  Cardinality(Reminders') = Cardinality(Reminders) + 1
    <2>1. pc = "route" /\ transcript' = transcript \o <<relay, reminder>>
      <3>1. ~P!Veto(Self) /\ ~CallFails(Self)
        BY <1>4 DEF P!Return, P!Veto, CallFails, P!Reject, P!FailPermanent, P!GiveUp
      <3>2. QED
        BY <1>4, <3>1 DEF Remind, D!RelayAndIntervene, D!Deliver
    <2>2. /\ Reminders' = Reminders \cup {Len(transcript) + 2}
          /\ Len(transcript) + 2 \notin Reminders
      BY <1>1, <1>2, <2>1, InterventionsGrow
    <2>3. PICK next, place : next = Reminders' /\ place = Len(transcript) + 2
      OBVIOUS
    <2>4. next = Reminders \cup {place} /\ place \notin Reminders
      BY <2>2, <2>3
    <2>5. Cardinality(next) = Cardinality(Reminders) + 1
      BY <1>3, <2>4, FS_AddElement
    <2>6. QED
      BY <2>3, <2>5
  <1>5. ASSUME ~(Remind /\ P!Return(Self))
        PROVE  Cardinality(Reminders') = Cardinality(Reminders) \/ Cardinality(Reminders') = 0
    <2>1. CASE Return
      <3>1. CASE pc = "turn"
        <4>1. main = "join"
          BY <2>1 DEF Return, W!Return
        <4>2. PICK text \in D!Texts : transcript' = Append(transcript, TurnOf(W!Current, text))
          BY <2>1, <3>1 DEF Return, D!Decide
        <4>3. PICK turn \in D!Message : turn = TurnOf(W!Current, text) /\ turn.type # "intervention"
          BY <3>1, <4>1, ReturnedTurn
        <4>4. PICK r \in D!Message : r.type = "intervention"
          <5>1. [sender |-> "pro", recipient |-> "pro", type |-> "intervention", round |-> 0,
                 text |-> "firm", rebuts |-> None] \in D!Message
            BY DEF D!Message, D!Debaters, D!Types, D!Texts
          <5>2. QED
            BY <5>1
        <4>5. Reminders' = Reminders
          BY <1>1, <4>2, <4>3, <4>4, InterventionsGrow
        <4>6. QED
          BY <4>5
      <3>2. CASE pc # "turn"
        BY <2>1, <3>2 DEF Return, D!Decide, Reminders
      <3>3. QED
        BY <3>1, <3>2
    <2>2. CASE Relay
      <3>1. pc = "route" /\ transcript' = transcript \o <<relay>>
        BY <2>2 DEF Relay, D!Relay, D!Deliver
      <3>2. Reminders' = Reminders
        BY <1>1, <1>2, <3>1, InterventionsGrow
      <3>3. QED
        BY <3>2
    <2>3. CASE NextDebate
      <3>1. transcript' = <<>>
        BY <2>3 DEF NextDebate
      <3>2. Reminders' = {}
        BY <3>1 DEF Reminders
      <3>3. QED
        BY <3>2, FS_EmptySet
    <2>4. CASE ~Return /\ ~Relay /\ ~NextDebate
      <3>1. transcript' = transcript
        BY <1>5, <2>4 DEF Next, vars, debateVars, Start, Fail, D!GuardFails, D!Abort, Halt,
           D!BudgetGone, Remind, D!InterveneFails, Begin, Proceed, Finish, Exit, Terminated
      <3>2. QED
        BY <3>1 DEF Reminders
    <2>5. QED
      BY <2>1, <2>2, <2>3, <2>4
  <1>6. QED
    BY <1>3, <1>4, <1>5

LEMMA StepPaid ==
  ASSUME LInv, LInv', RefusedFailed, Paid, [Next]_vars
  PROVE  Paid'
  <1> USE DEF LInv, CallTypes, P!Goto
  <1>1. PICK calls \in Nat : calls = used.calls
    BY UsageFacts
  <1>2. /\ IsFiniteSet(W!Workers) /\ IsFiniteSet(Callers) /\ W!Workers \subseteq Callers
        /\ Self \in Callers
    BY FiniteCallers, LimitsAssumption DEF PInv, InPlace, Callers, Self
  <1>3. /\ IsFiniteSet(Recorded) /\ Cardinality(Recorded) \in Nat
        /\ IsFiniteSet(Given) /\ Cardinality(Given) \in Nat
    <2>1. Recorded \subseteq Callers /\ Given \subseteq W!Workers
      BY DEF Recorded, Given
    <2>2. QED
      BY <1>2, <2>1, FS_Subset, FS_CardinalityType
  <1>4. /\ Cardinality(Reminders) \in Nat
        /\ Remind /\ P!Return(Self)
             => Cardinality(Reminders') = Cardinality(Reminders) + 1
        /\ ~(Remind /\ P!Return(Self))
             => Cardinality(Reminders') \in Nat
                /\ Cardinality(Reminders') <= Cardinality(Reminders)
    BY StepReminders, FS_CardinalityType
  \* Steps that pay for nothing and are given nothing.
  <1>5. ASSUME Recorded' = Recorded, Given' = Given, used' = used,
               ~(Remind /\ P!Return(Self))
        PROVE  Paid'
    BY <1>1, <1>3, <1>4, <1>5 DEF Paid
  <1>6. ASSUME NEW c \in Callers, Begin(c) \/ Proceed(c), ~Remind PROVE Paid'
    <2>1. Given' = Given
      BY <1>6 DEF Begin, Proceed, watchdogVars, ownVars, Given
    <2>2. CASE P!Charge(c, OneCall)
      <3>1. c \notin Recorded /\ Recorded' = Recorded \cup {c} /\ used' = P!Plus(used, OneCall)
        BY <2>2 DEF P!Charge, P!Add, Recorded
      <3>2. used'.calls = calls + 1
        BY <1>1, <3>1, UsageFacts
      <3>3. Cardinality(Recorded') = Cardinality(Recorded) + 1
        BY <1>3, <3>1, FS_AddElement
      <3>4. Cardinality(Given') = Cardinality(Given)
        BY <2>1
      <3>5. QED
        BY <1>1, <1>3, <1>4, <1>6, <3>2, <3>3, <3>4 DEF Paid
    <2>3. CASE ~P!Charge(c, OneCall)
      <3>1. Recorded' = Recorded /\ used' = used
        BY <1>6, <2>3 DEF Begin, Proceed, P!Begin, P!Admit, P!Decided, P!PassBreaker, P!Attempt,
           P!Answer, P!FailTransient, P!Backoff, P!budgetVars, Recorded
      <3>2. QED
        BY <1>5, <1>6, <2>1, <3>1
    <2>4. QED
      BY <2>2, <2>3
  <1>7. ASSUME NEW w \in W!Workers, Finish(w), ~Remind PROVE Paid'
    <2>1. /\ box[w] = "empty" /\ w \notin refused /\ w \in Callers
      BY <1>2, <1>7 DEF Finish, W!Finish, RefusedFailed
    <2>2. CASE P!Return(w)
      <3>1. /\ w \in Recorded /\ Recorded' = Recorded \ {w} /\ used' = used
        BY <2>1, <2>2 DEF P!Return, P!LatchIfExceeded, Recorded
      <3>2. \/ W!Finish(w, "error") /\ refused' = refused \cup {w}
            \/ W!Finish(w, "ok") /\ refused' = refused
        BY <1>7, <2>2 DEF Finish, P!Veto, CallFails, P!Return, P!Reject, P!FailPermanent, P!GiveUp
      <3>3. w \notin Given /\ Given' = Given \cup {w}
        BY <2>1, <3>2 DEF W!Finish, Given
      <3>4. Cardinality(Given') = Cardinality(Given) + 1
        BY <1>3, <3>3, FS_AddElement
      <3>5. PICK less : less = Recorded \ {w}
        OBVIOUS
      <3>6. Cardinality(less) \in Nat /\ Cardinality(Recorded) = Cardinality(less) + 1
        BY <1>3, <3>1, <3>5, OneLess
      <3>7. Cardinality(Recorded') = Cardinality(less)
        BY <3>1, <3>5
      <3>8. QED
        BY <1>1, <1>3, <1>4, <1>7, <3>1, <3>4, <3>6, <3>7 DEF Paid
    <2>3. CASE ~P!Return(w)
      <3>1. /\ stage[w] # "recorded" /\ used' = used /\ refused' = refused
            /\ stage' = [stage EXCEPT ![w] = "idle"]
            /\ W!Finish(w, "fatal") \/ W!Finish(w, "error")
        BY <1>7, <2>3 DEF Finish, P!Veto, P!Decided, CallFails, P!Reject, P!FailPermanent,
           P!GiveUp, P!budgetVars
      <3>2. Recorded' = Recorded
        BY <2>1, <3>1 DEF Recorded
      <3>3. Given' = Given
        BY <2>1, <3>1 DEF W!Finish, Given
      <3>4. QED
        BY <1>5, <1>7, <3>1, <3>2, <3>3
    <2>4. QED
      BY <2>2, <2>3
  <1>8. CASE Remind
    <2>1. Given' = Given
      BY <1>8 DEF Remind, ownVars, Given
    <2>2. CASE P!Return(Self)
      <3>1. Self \in Recorded /\ Recorded' = Recorded \ {Self} /\ used' = used
        BY <1>2, <2>2 DEF P!Return, P!LatchIfExceeded, Recorded
      <3>2. PICK less : less = Recorded \ {Self}
        OBVIOUS
      <3>3. Cardinality(less) \in Nat /\ Cardinality(Recorded) = Cardinality(less) + 1
        BY <1>3, <3>1, <3>2, OneLess
      <3>4. Cardinality(Recorded') = Cardinality(less) /\ Cardinality(Given') = Cardinality(Given)
        BY <2>1, <3>1, <3>2
      <3>5. QED
        BY <1>1, <1>3, <1>4, <1>8, <2>2, <3>1, <3>3, <3>4 DEF Paid
    <2>3. CASE ~P!Return(Self)
      <3>1. /\ stage[Self] # "recorded" /\ used' = used
            /\ stage' = [stage EXCEPT ![Self] = "idle"]
        BY <1>8, <2>3 DEF Remind, P!Veto, P!Decided, CallFails, P!Reject, P!FailPermanent,
           P!GiveUp, P!budgetVars
      <3>2. Recorded' = Recorded
        BY <1>2, <3>1 DEF Recorded
      <3>3. QED
        BY <1>5, <2>1, <2>3, <3>1, <3>2
    <2>4. QED
      BY <2>2, <2>3
  <1>9. CASE \/ Start \/ Return \/ Fail \/ Halt \/ Relay \/ NextDebate
             \/ (\E w \in W!Workers : Exit(w)) \/ Terminated \/ UNCHANGED vars
    <2>1. UNCHANGED <<stage, used, box, refused>>
      BY <1>9 DEF vars, watchdogVars, callVars, ownVars, Start, W!Start, Return, W!Return, Fail,
         W!Error, W!Timeout, Halt, W!Fatal, Relay, NextDebate, Exit, W!Exit, Terminated
    <2>2. Recorded' = Recorded /\ Given' = Given
      BY <2>1 DEF Recorded, Given
    <2>3. QED
      <3>1. CASE P!Return(Self)
        BY <1>2, <2>1, <3>1 DEF P!Return
      <3>2. CASE ~P!Return(Self)
        BY <1>5, <2>1, <2>2, <3>2
      <3>3. QED
        BY <3>1, <3>2
  <1>10. QED
    BY <1>6, <1>7, <1>8, <1>9 DEF Next

LEMMA InitPaid == Init => RefusedFailed /\ InTurn /\ Paid
  <1> SUFFICES ASSUME Init PROVE RefusedFailed /\ InTurn /\ Paid
    OBVIOUS
  <1>1. /\ used = P!NoUsage /\ stage = [c \in Callers |-> "idle"] /\ refused = {}
        /\ box = [w \in W!Workers |-> "empty"] /\ results = <<>> /\ transcript = <<>>
        /\ call = 1 /\ main = "start" /\ debate = 1
    BY DEF Init, P!Init, P!InitBudget, W!Init, D!Init
  <1>2. Recorded = {} /\ Given = {} /\ Reminders = {} /\ Taken = {}
    BY <1>1 DEF Recorded, Given, Reminders, Taken
  <1>3. Cardinality({}) = 0 /\ used.calls = 0
    BY <1>1, FS_EmptySet DEF P!NoUsage
  <1>4. RefusedFailed
    BY <1>1 DEF RefusedFailed
  <1>5. InTurn
    <2>1. call <= Base + CallsEach + 1
      BY <1>1, CallsEachType DEF Base
    <2>2. results \in Seq(W!Workers) /\ Len(results) = 0 /\ DOMAIN results = {}
      BY <1>1
    <2>3. QED
      BY <1>1, <1>2, <1>3, <2>1, <2>2 DEF InTurn
  <1>6. Paid
    BY <1>2, <1>3 DEF Paid
  <1>7. QED
    BY <1>4, <1>5, <1>6

\* Every answer that was used or refused is in the budget (resilience.py, debater.py).
THEOREM EverythingIsPaid == Spec => []AllPaid
  <1> DEFINE Inv == LInv /\ VInv /\ Bound /\ Streaks
             More == RefusedFailed /\ InTurn /\ Paid
  <1>1. LInv /\ LInv' /\ More /\ [Next]_vars => More'
    BY StepRefused, StepInTurn, StepPaid
  <1>2. Inv => LInv
    OBVIOUS
  <1>3. Spec => [](LInv /\ More)
    <2>1. Init => More
      BY InitPaid
    <2>2. Spec => []Inv
      BY LimitsHold
    <2> HIDE DEF Inv, More
    <2>3. QED
      BY <1>1, <1>2, <2>1, <2>2, PTL DEF Spec
  <1>4. LInv /\ More => AllPaid
    <2> SUFFICES ASSUME LInv, More PROVE AllPaid
      OBVIOUS
    <2>1. IsFiniteSet(W!Workers) /\ IsFiniteSet(Callers)
      BY FiniteCallers DEF LInv, PInv, InPlace
    <2>2. Taken \cap refused = {} /\ Taken \cup refused \subseteq Given
      BY DEF InTurn, Taken, RefusedFailed, Given
    <2>3. /\ Recorded \subseteq Callers /\ Given \subseteq W!Workers
          /\ Taken \subseteq Given /\ refused \subseteq Given
      BY <2>2 DEF Recorded, Given
    <2>4. /\ IsFiniteSet(Recorded) /\ IsFiniteSet(Given)
          /\ IsFiniteSet(Taken) /\ IsFiniteSet(refused)
      BY <2>1, <2>3, FS_Subset
    <2>5. Cardinality(Taken \cup refused)
            = Cardinality(Taken) + Cardinality(refused) - Cardinality(Taken \cap refused)
      BY <2>4, FS_Union
    <2>6. Cardinality(Taken \cap refused) = 0
      BY <2>2, FS_EmptySet
    <2>7. Cardinality(Taken \cup refused) <= Cardinality(Given)
      BY <2>2, <2>4, FS_Subset
    <2>8. IsFiniteSet(Reminders)
      <3>1. transcript \in Seq(D!Message)
        BY DEF LInv, PInv, Spoken
      <3>2. IsFiniteSet(1..Len(transcript)) /\ Reminders \subseteq 1..Len(transcript)
        BY <3>1, FS_Interval DEF Reminders
      <3>3. QED
        BY <3>2, FS_Subset
    <2>9. /\ Cardinality(Recorded) \in Nat /\ Cardinality(Given) \in Nat
          /\ Cardinality(Taken) \in Nat /\ Cardinality(refused) \in Nat
          /\ Cardinality(Reminders) \in Nat /\ used.calls \in Nat
      BY <2>4, <2>8, FS_CardinalityType, UsageFacts DEF LInv, CallTypes
    <2>10. Len(results) = Cardinality(Taken)
      BY DEF InTurn
    <2>11. QED
      BY <2>5, <2>6, <2>7, <2>9, <2>10 DEF Paid, AllPaid
  <1>5. QED
    <2> HIDE DEF More
    <2>1. QED
      BY <1>3, <1>4, PTL
=============================================================================
