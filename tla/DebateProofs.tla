---------------------------- MODULE DebateProofs ----------------------------
(***************************************************************************)
(* Proofs about Debate, for any number of rounds and restarts.  The        *)
(* messages of a debate form an ever growing sequence, so each property    *)
(* follows from what the last message is while a turn is routed, and from  *)
(* which relay each side was given last.                                   *)
(***************************************************************************)
EXTENDS MCDebate, FiniteSetTheorems, TLAPS

\* The guard of the step in progress has a try left.
TriesLeft == pc \in {"turn", "route", "verdict"} => attempt <= MaxRestarts

\* While a turn is routed it is the last message, said by the side whose turn it is.
RoutesLast ==
    pc = "route" =>
        /\ Len(transcript) # 0
        /\ IsTurn(Spoken) /\ Spoken.sender = side /\ Spoken.recipient = "judge"
        /\ Spoken.round = number

\* Before the next turn the last one has been relayed.
NoneUnrouted == pc = "turn" => \A i \in DebateText : i < Len(transcript)

Shape == TypeOK /\ TriesLeft /\ RoutesLast /\ NoneUnrouted

\* What Deliver is given: the relay, alone or with a reminder to the speaker.
Made(made) ==
    \/ /\ ~ShouldIntervene(Spoken.text)
       /\ made = <<RelayOf(Spoken)>>
    \/ /\ ShouldIntervene(Spoken.text)
       /\ \E text \in Texts :
             made = <<RelayOf(Spoken),
                      BuildMessage("judge", Spoken.sender, "intervention", text, None)>>

Delivered == pc = "route" /\ \E made \in Seq(Message) : Made(made) /\ Deliver(made)

\* Steps that say nothing: failures, the ruling, stuttering.
Quiet ==
    /\ transcript' = transcript /\ inbox' = inbox
    /\ number' = number /\ side' = side
    /\ pc' = pc \/ pc' = "aborted" \/ (pc = "verdict" /\ pc' = "done")
-----------------------------------------------------------------------------
LEMMA BuiltMessage ==
  ASSUME number \in Nat, NEW from \in Debaters \cup {"judge"}, NEW to \in Debaters \cup {"judge"},
         NEW type \in Types, NEW text \in Texts, NEW rebuts \in Nat \cup {None}
  PROVE  BuildMessage(from, to, type, text, rebuts) \in Message
  BY DEF BuildMessage, Message

LEMMA Lengthened ==
  ASSUME NEW s \in Seq(Message), NEW m \in Message, NEW k \in Message
  PROVE  /\ Append(s, m) \in Seq(Message)
         /\ Len(Append(s, m)) = Len(s) + 1 /\ Append(s, m)[Len(s) + 1] = m
         /\ s \o <<m>> \in Seq(Message)
         /\ Len(s \o <<m>>) = Len(s) + 1 /\ (s \o <<m>>)[Len(s) + 1] = m
         /\ s \o <<m, k>> \in Seq(Message) /\ Len(s \o <<m, k>>) = Len(s) + 2
         /\ (s \o <<m, k>>)[Len(s) + 1] = m /\ (s \o <<m, k>>)[Len(s) + 2] = k
         /\ \A i \in 1..Len(s) :
               Append(s, m)[i] = s[i] /\ (s \o <<m>>)[i] = s[i] /\ (s \o <<m, k>>)[i] = s[i]
  OBVIOUS

\* What the debater says.
LEMMA SpeakFacts ==
  ASSUME Shape, NEW text \in Texts, Speak(text)
  PROVE  /\ transcript' \in Seq(Message)
         /\ Len(transcript') = Len(transcript) + 1
         /\ \A i \in 1..Len(transcript) : transcript'[i] = transcript[i]
         /\ LET m == transcript'[Len(transcript) + 1]
            IN  /\ m.sender = side /\ m.recipient = "judge" /\ IsTurn(m)
                /\ m.type = IF inbox[side] = None THEN "argument" ELSE "rebuttal"
                /\ m.rebuts = inbox[side] /\ m.round = number
         /\ inbox' = inbox /\ number' = number /\ side' = side
         /\ pc = "turn" /\ pc' = "route"
  <1> DEFINE type == IF inbox[side] = None THEN "argument" ELSE "rebuttal"
             m == BuildMessage(side, "judge", type, text, inbox[side])
  <1> USE DEF Shape, TypeOK
  <1>1. m \in Message
    BY BuiltMessage DEF Types
  <1>2. transcript' = Append(transcript, m)
    BY DEF Speak
  <1>3. /\ m.sender = side /\ m.recipient = "judge" /\ IsTurn(m)
        /\ m.type = type /\ m.rebuts = inbox[side] /\ m.round = number
    BY DEF BuildMessage, IsTurn
  <1> HIDE DEF m
  <1> QED
    BY <1>1, <1>2, <1>3, Lengthened DEF Speak

LEMMA RelayIsMessage ==
  ASSUME Shape, pc = "route"
  PROVE  /\ RelayOf(Spoken) \in Message
         /\ RelayOf(Spoken) =
               [sender |-> "judge", recipient |-> Opponent(side), type |-> "relay",
                round |-> number, text |-> Spoken.text, rebuts |-> Len(transcript)]
  <1>1. /\ Spoken \in Message /\ Opponent(side) \in Debaters
        /\ Spoken.sender = side /\ Spoken.round = number
        /\ number \in Nat /\ Len(transcript) \in Nat
    BY DEF Shape, TypeOK, RoutesLast, Spoken, Opponent, Debaters
  <1>2. Spoken.text \in Texts
    BY <1>1 DEF Message
  <1>3. RelayOf(Spoken) =
           [sender |-> "judge", recipient |-> Opponent(side), type |-> "relay",
            round |-> number, text |-> Spoken.text, rebuts |-> Len(transcript)]
    BY <1>1 DEF RelayOf, BuildMessage
  <1> QED
    BY <1>1, <1>2, <1>3 DEF Message, Types

\* What the judge adds to it.
LEMMA DeliverFacts ==
  ASSUME Shape, Delivered
  PROVE  /\ transcript' \in Seq(Message)
         /\ Len(transcript') \in {Len(transcript) + 1, Len(transcript) + 2}
         /\ \A i \in 1..Len(transcript) : transcript'[i] = transcript[i]
         /\ transcript'[Len(transcript) + 1] =
               [sender |-> "judge", recipient |-> Opponent(side), type |-> "relay",
                round |-> number, text |-> Spoken.text, rebuts |-> Len(transcript)]
         /\ Len(transcript') = Len(transcript) + 2 =>
               LET m == transcript'[Len(transcript) + 2]
               IN  m.sender = "judge" /\ m.recipient = side /\ m.type = "intervention"
         /\ ShouldIntervene(Spoken.text) <=> Len(transcript') = Len(transcript) + 2
         /\ inbox' = [inbox EXCEPT ![Opponent(side)] = Len(transcript) + 1]
         /\ pc = "route" /\ Advance
  <1> USE DEF Shape, TypeOK
  <1>1. /\ Spoken \in Message /\ side \in Debaters /\ Opponent(side) \in Debaters
        /\ Spoken.sender = side /\ Spoken.round = number
    BY DEF Delivered, RoutesLast, Spoken, Opponent, Debaters
  <1>2. /\ RelayOf(Spoken) \in Message
        /\ RelayOf(Spoken) =
              [sender |-> "judge", recipient |-> Opponent(side), type |-> "relay",
               round |-> number, text |-> Spoken.text, rebuts |-> Len(transcript)]
    BY RelayIsMessage DEF Delivered
  <1>3. PICK made \in Seq(Message) : Made(made) /\ Deliver(made)
    BY DEF Delivered
  <1>4. transcript' = transcript \o made
    BY <1>3 DEF Deliver
  <1>5. CASE ~ShouldIntervene(Spoken.text) /\ made = <<RelayOf(Spoken)>>
    BY <1>2, <1>3, <1>4, <1>5, Lengthened DEF Deliver, Delivered
  <1>6. CASE /\ ShouldIntervene(Spoken.text)
             /\ \E text \in Texts :
                   made = <<RelayOf(Spoken),
                            BuildMessage("judge", Spoken.sender, "intervention", text, None)>>
    <2>1. PICK text \in Texts :
             made = <<RelayOf(Spoken),
                      BuildMessage("judge", Spoken.sender, "intervention", text, None)>>
      BY <1>6
    <2> DEFINE m == BuildMessage("judge", Spoken.sender, "intervention", text, None)
    <2>2. m \in Message
      BY <1>1, BuiltMessage DEF Types
    <2>3. m.sender = "judge" /\ m.recipient = side /\ m.type = "intervention"
      BY <1>1 DEF BuildMessage
    <2> HIDE DEF m
    <2> QED
      BY <1>2, <1>3, <1>4, <1>6, <2>1, <2>2, <2>3, Lengthened DEF Deliver, Delivered, m
  <1> QED
    BY <1>3, <1>5, <1>6 DEF Made

\* No step says more than a turn or what the judge makes of it.
LEMMA StepCases ==
  ASSUME Shape, [Next]_vars
  PROVE  (\E text \in Texts : Speak(text)) \/ Delivered \/ Quiet
  <1> USE DEF Abort
  <1>1. CASE Relay
    <2>1. <<RelayOf(Spoken)>> \in Seq(Message)
      BY <1>1, RelayIsMessage DEF Relay
    <2> QED
      BY <1>1, <2>1 DEF Relay, Delivered, Made
  <1>2. ASSUME NEW text \in Texts, RelayAndIntervene(text) PROVE Delivered
    <2> DEFINE m == BuildMessage("judge", Spoken.sender, "intervention", text, None)
    <2>1. <<RelayOf(Spoken), m>> \in Seq(Message)
      <3>1. number \in Nat /\ Spoken.sender \in Debaters
        BY <1>2 DEF Shape, TypeOK, RoutesLast, RelayAndIntervene
      <3>2. m \in Message
        BY <3>1, BuiltMessage DEF Types
      <3> QED
        BY <1>2, <3>2, RelayIsMessage DEF RelayAndIntervene
    <2> QED
      BY <1>2, <2>1 DEF RelayAndIntervene, Delivered, Made
  <1>3. CASE GuardFails \/ BudgetGone \/ InterveneFails
    BY <1>3 DEF GuardFails, BudgetGone, InterveneFails, Quiet, vars
  <1>4. CASE (\E winner \in Debaters : Decide(winner)) \/ Terminated \/ UNCHANGED vars
    BY <1>4 DEF Decide, Terminated, Quiet, vars
  <1> QED
    BY <1>1, <1>2, <1>3, <1>4 DEF Next
-----------------------------------------------------------------------------
LEMMA InitShape == Init => Shape
  <1> SUFFICES ASSUME Init PROVE Shape
    OBVIOUS
  <1>1. transcript \in Seq(Message) /\ Len(transcript) = 0
    BY DEF Init
  <1>2. TypeOK
    BY <1>1, RoundsAssumption, RestartsAssumption DEF Init, TypeOK, Debaters
  <1> QED
    BY <1>1, <1>2, RestartsAssumption
       DEF Init, Shape, TriesLeft, RoutesLast, NoneUnrouted, DebateText

LEMMA StepTurns ==
  ASSUME Shape, [Next]_vars
  PROVE  /\ transcript' \in Seq(Message) /\ inbox' \in [Debaters -> Nat \cup {None}]
         /\ number' \in Nat /\ side' \in Debaters
         /\ RoutesLast' /\ NoneUnrouted'
  <1> USE DEF Shape, TypeOK
  <1>1. ASSUME NEW text \in Texts, Speak(text)
        PROVE  /\ transcript' \in Seq(Message) /\ inbox' \in [Debaters -> Nat \cup {None}]
               /\ number' \in Nat /\ side' \in Debaters
               /\ RoutesLast' /\ NoneUnrouted'
    BY <1>1, SpeakFacts DEF RoutesLast, NoneUnrouted, Spoken
  <1>2. ASSUME Delivered
        PROVE  /\ transcript' \in Seq(Message) /\ inbox' \in [Debaters -> Nat \cup {None}]
               /\ number' \in Nat /\ side' \in Debaters
               /\ RoutesLast' /\ NoneUnrouted'
    <2>1. transcript' \in Seq(Message) /\ inbox' \in [Debaters -> Nat \cup {None}]
      BY <1>2, DeliverFacts
    <2>2. number' \in Nat /\ side' \in Debaters /\ pc' # "route"
      BY <1>2, DeliverFacts DEF Advance, Opponent, Debaters
    <2>3. ASSUME NEW i \in DebateText' PROVE i < Len(transcript')
      <3>1. ~IsTurn(transcript'[Len(transcript) + 1])
        BY <1>2, DeliverFacts DEF IsTurn
      <3>2. Len(transcript') = Len(transcript) + 2 => ~IsTurn(transcript'[Len(transcript) + 2])
        BY <1>2, DeliverFacts DEF IsTurn
      <3> QED
        BY <1>2, <3>1, <3>2, DeliverFacts DEF DebateText
    <2> QED
      BY <2>1, <2>2, <2>3 DEF RoutesLast, NoneUnrouted
  <1>3. CASE Quiet
    BY <1>3 DEF Quiet, RoutesLast, NoneUnrouted, DebateText, Spoken
  <1> QED
    BY <1>1, <1>2, <1>3, StepCases

\* The rest of the type invariant.
Others ==
    /\ pc \in {"turn", "route", "verdict", "done", "aborted"}
    /\ heard \in [Debaters -> SUBSET Nat]
    /\ attempt \in 0..(MaxRestarts + 1)
    /\ verdict \in {None} \cup [winner : Debaters, scored : SUBSET Nat]
    /\ cause \in {None, "failure", "budget"}
    /\ TriesLeft

LEMMA StepOthers == Shape /\ [Next]_vars => Others'
  <1> SUFFICES ASSUME Shape, [Next]_vars PROVE Others'
    OBVIOUS
  <1> USE RestartsAssumption DEF Shape, TypeOK, TriesLeft, Others, Abort
  <1>1. ASSUME NEW text \in Texts, Speak(text) PROVE Others'
    BY <1>1 DEF Speak
  <1>2. ASSUME NEW text \in Texts, RelayAndIntervene(text) PROVE Others'
    BY <1>2 DEF RelayAndIntervene, Deliver, Advance
  <1>3. CASE GuardFails
    BY <1>3 DEF GuardFails
  <1>4. CASE BudgetGone
    BY <1>4 DEF BudgetGone
  <1>5. CASE Relay
    BY <1>5 DEF Relay, Deliver, Advance
  <1>6. CASE InterveneFails
    BY <1>6 DEF InterveneFails
  <1>7. ASSUME NEW winner \in Debaters, Decide(winner) PROVE Others'
    BY <1>7 DEF Decide, DebateText
  <1>8. CASE Terminated \/ UNCHANGED vars
    BY <1>8 DEF Terminated, vars
  <1> QED
    BY <1>1, <1>2, <1>3, <1>4, <1>5, <1>6, <1>7, <1>8 DEF Next

LEMMA StepShape == Shape /\ [Next]_vars => Shape'
  BY StepOthers, StepTurns DEF Shape, TypeOK, Others

\* Type correctness (engine.py, round.py, protocol/message.py): in particular no call
\* is tried more than MaxRestarts + 1 times.
THEOREM TypeCorrect == Spec => []TypeOK
  <1>1. Shape => TypeOK
    BY DEF Shape
  <1> QED
    BY <1>1, InitShape, StepShape, PTL DEF Spec
-----------------------------------------------------------------------------
Grows ==
    /\ transcript \in Seq(Message) /\ transcript' \in Seq(Message)
    /\ Len(transcript) <= Len(transcript')
    /\ \A i \in 1..Len(transcript) : transcript'[i] = transcript[i]

LEMMA StepGrows == ASSUME Shape, [Next]_vars PROVE Grows
  BY StepCases, SpeakFacts, DeliverFacts DEF Grows, Quiet, Shape, TypeOK

\* What was said stays said.
LEMMA Kept ==
  ASSUME Grows
  PROVE  /\ \A i \in 1..Len(transcript) : i \in DebateText' <=> i \in DebateText
         /\ \A i \in 1..Len(transcript) : RelaysTurn(i) => RelaysTurn(i)'
         /\ DebateText \subseteq DebateText' /\ DebateText \subseteq 1..Len(transcript)
  <1> USE DEF Grows
  <1>1. /\ \A i \in 1..Len(transcript) : i \in DebateText' <=> i \in DebateText
        /\ DebateText \subseteq DebateText' /\ DebateText \subseteq 1..Len(transcript)
    BY DEF DebateText
  <1>2. ASSUME NEW i \in 1..Len(transcript), RelaysTurn(i) PROVE RelaysTurn(i)'
    <2>1. i - 1 \in DebateText' /\ i - 1 \in 1..Len(transcript)
      BY <1>1, <1>2 DEF RelaysTurn
    <2>2. transcript'[i - 1] = transcript[i - 1] /\ transcript'[i] = transcript[i]
      BY <2>1
    <2> QED
      BY <1>2, <2>1, <2>2 DEF RelaysTurn
  <1> QED
    BY <1>1, <1>2

\* The relay that is being delivered.
LEMMA DeliversRelay ==
  ASSUME Shape, Delivered, NEW n \in Nat, n = Len(transcript)
  PROVE  /\ RelaysTurn(n + 1)'
         /\ n \in DebateText /\ transcript[n] = Spoken
         /\ DebateText' = DebateText
  <1>1. n \in Nat \ {0} /\ n \in DebateText /\ transcript[n] = Spoken
    BY DEF Shape, TypeOK, RoutesLast, Delivered, Spoken, DebateText
  <1>2. Grows
    BY DeliverFacts DEF Grows, Shape, TypeOK
  <1>3. transcript'[n] = Spoken /\ n \in DebateText'
    BY <1>1, <1>2, Kept DEF Grows
  <1>4. Spoken.sender = side /\ Spoken.round = number
    BY DEF Shape, RoutesLast, Delivered
  <1>5. transcript'[n + 1] =
           [sender |-> "judge", recipient |-> Opponent(side), type |-> "relay",
            round |-> number, text |-> Spoken.text, rebuts |-> n]
    BY DeliverFacts
  <1>6. RelaysTurn(n + 1)'
    BY <1>1, <1>3, <1>4, <1>5 DEF RelaysTurn
  <1>7. ASSUME NEW i \in DebateText' PROVE i \in DebateText
    <2>1. ~IsTurn(transcript'[n + 1])
      BY <1>5 DEF IsTurn
    <2>2. Len(transcript') = n + 2 => ~IsTurn(transcript'[n + 2])
      BY DeliverFacts DEF IsTurn
    <2>3. i \in 1..Len(transcript)
      BY <1>1, <1>7, <2>1, <2>2, DeliverFacts DEF DebateText
    <2> QED
      BY <1>2, <2>3, Kept
  <1> QED
    BY <1>1, <1>2, <1>6, <1>7, Kept
-----------------------------------------------------------------------------
LEMMA InitRouted == Init => Routed /\ IntervenesOnConcession
  BY DEF Init, Routed, IntervenesOnConcession, DebateText

LEMMA StepRouted == Shape /\ Routed /\ [Next]_vars => Routed'
  <1> SUFFICES ASSUME Shape, Routed, [Next]_vars PROVE Routed'
    OBVIOUS
  <1>1. Grows /\ \E n \in Nat : n = Len(transcript)
    BY StepGrows DEF Shape, TypeOK
  <1> PICK n \in Nat : n = Len(transcript)
    BY <1>1
  <1>2. ASSUME NEW text \in Texts, Speak(text) PROVE Routed'
    <2>1. /\ IsTurn(transcript'[n + 1]) /\ transcript'[n + 1].sender \in Debaters
          /\ transcript'[n + 1].recipient = "judge" /\ Len(transcript') = n + 1
      BY <1>2, SpeakFacts DEF Shape, TypeOK
    <2>2. transcript'[n + 1].type # "relay"
      BY <2>1 DEF IsTurn
    <2>3. ASSUME NEW i \in 1..n
          PROVE  /\ IsTurn(transcript'[i]) <=> transcript'[i].sender \in Debaters
                 /\ IsTurn(transcript'[i]) <=> transcript'[i].recipient = "judge"
                 /\ transcript'[i].type = "relay" => RelaysTurn(i)'
      BY <1>1, Kept DEF Routed, Grows
    <2>4. ASSUME NEW i \in DebateText', i < n + 1 PROVE transcript'[i + 1].type = "relay"
      <3>1. i \in DebateText
        BY <1>1, <2>1, <2>4, Kept DEF DebateText
      <3>2. i < n
        BY <1>2, <3>1, SpeakFacts DEF Shape, NoneUnrouted
      <3> QED
        BY <1>1, <3>1, <3>2 DEF Routed, Grows, DebateText
    <2> QED
      BY <1>1, <2>1, <2>2, <2>3, <2>4 DEF Routed
  <1>3. CASE Delivered
    <2>1. /\ RelaysTurn(n + 1)' /\ DebateText' = DebateText
          /\ transcript'[n + 1].type = "relay"
          /\ transcript'[n + 1].sender = "judge" /\ transcript'[n + 1].recipient \in Debaters
      BY <1>3, DeliverFacts, DeliversRelay DEF Shape, TypeOK, Opponent, Debaters
    <2>2. Len(transcript') = n + 2 =>
             /\ transcript'[n + 2].type = "intervention"
             /\ transcript'[n + 2].sender = "judge" /\ transcript'[n + 2].recipient \in Debaters
      BY <1>3, DeliverFacts DEF Shape, TypeOK
    <2>3. ASSUME NEW i \in 1..n
          PROVE  /\ IsTurn(transcript'[i]) <=> transcript'[i].sender \in Debaters
                 /\ IsTurn(transcript'[i]) <=> transcript'[i].recipient = "judge"
                 /\ transcript'[i].type = "relay" => RelaysTurn(i)'
      BY <1>1, Kept DEF Routed, Grows
    <2>4. ASSUME NEW i \in n + 1..Len(transcript')
          PROVE  /\ IsTurn(transcript'[i]) <=> transcript'[i].sender \in Debaters
                 /\ IsTurn(transcript'[i]) <=> transcript'[i].recipient = "judge"
                 /\ transcript'[i].type = "relay" => RelaysTurn(i)'
      <3>1. i = n + 1 \/ (i = n + 2 /\ Len(transcript') = n + 2)
        BY <1>1, <1>3, DeliverFacts
      <3> QED
        BY <2>1, <2>2, <3>1 DEF IsTurn, Debaters
    <2>5. ASSUME NEW i \in DebateText' PROVE transcript'[i + 1].type = "relay"
      <3>1. i \in 1..n /\ i \in DebateText
        BY <1>1, <2>1, <2>5, Kept
      <3> QED
        BY <1>1, <2>1, <3>1 DEF Routed, Grows
    <2> QED
      BY <1>1, <2>3, <2>4, <2>5 DEF Routed, Grows
  <1>4. CASE Quiet
    BY <1>4 DEF Quiet, Routed, DebateText, RelaysTurn
  <1> QED
    BY <1>2, <1>3, <1>4, StepCases

\* Child, father, child (router.py): no debater's message reaches the other side but
\* in a verbatim relay, and Router.route meets nothing it has to reject.
THEOREM AlwaysRouted == Spec => []Routed
  <1>1. Spec => []Shape
    BY InitShape, StepShape, PTL DEF Spec
  <1> QED
    BY <1>1, InitRouted, StepRouted, PTL DEF Spec
-----------------------------------------------------------------------------
LEMMA StepIntervenes ==
  Shape /\ IntervenesOnConcession /\ [Next]_vars => IntervenesOnConcession'
  <1> SUFFICES ASSUME Shape, IntervenesOnConcession, [Next]_vars
               PROVE  IntervenesOnConcession'
    OBVIOUS
  <1>1. Grows /\ \E n \in Nat : n = Len(transcript)
    BY StepGrows DEF Shape, TypeOK
  <1> PICK n \in Nat : n = Len(transcript)
    BY <1>1
  <1>2. ASSUME NEW i \in 1..n, transcript'[i].type = "intervention"
        PROVE  /\ RelaysTurn(i - 1)'
               /\ ShouldIntervene(transcript'[i - 2].text)
               /\ transcript'[i].recipient = transcript'[i - 2].sender
    <2>1. /\ RelaysTurn(i - 1) /\ ShouldIntervene(transcript[i - 2].text)
          /\ transcript[i].recipient = transcript[i - 2].sender
      BY <1>1, <1>2 DEF Grows, IntervenesOnConcession
    <2>2. i - 2 \in 1..n /\ i - 1 \in 1..n
      BY <2>1 DEF RelaysTurn, DebateText
    <2> QED
      BY <1>1, <2>1, <2>2, Kept DEF Grows
  <1>3. ASSUME NEW i \in DebateText, i < n, ShouldIntervene(transcript'[i].text)
        PROVE  i + 2 <= n /\ transcript'[i + 2].type = "intervention"
    <2>1. i \in 1..n /\ transcript'[i] = transcript[i]
      BY <1>1 DEF Grows, DebateText
    <2>2. i + 2 <= n /\ transcript[i + 2].type = "intervention"
      BY <1>3, <2>1 DEF IntervenesOnConcession
    <2> QED
      BY <1>1, <2>1, <2>2 DEF Grows
  <1>4. ASSUME NEW text \in Texts, Speak(text) PROVE IntervenesOnConcession'
    <2>1. Len(transcript') = n + 1 /\ transcript'[n + 1].type # "intervention"
      BY <1>4, SpeakFacts DEF IsTurn
    <2>2. ASSUME NEW i \in DebateText', i < n + 1 PROVE i \in DebateText /\ i < n
      <3>1. i \in DebateText
        BY <1>1, <2>2, Kept DEF DebateText
      <3> QED
        BY <1>4, <3>1, SpeakFacts DEF Shape, NoneUnrouted
    <2>3. ASSUME NEW i \in 1..Len(transcript'), transcript'[i].type = "intervention"
          PROVE  i \in 1..n
      BY <2>1, <2>3
    <2>4. ASSUME NEW i \in DebateText', ShouldIntervene(transcript'[i].text),
                 i < Len(transcript')
          PROVE  i + 2 <= Len(transcript') /\ transcript'[i + 2].type = "intervention"
      <3>1. i \in DebateText /\ i < n
        BY <2>1, <2>2, <2>4
      <3> QED
        BY <1>3, <2>1, <2>4, <3>1 DEF DebateText
    <2> QED
      BY <1>2, <2>3, <2>4 DEF IntervenesOnConcession
  <1>5. CASE Delivered
    <2>1. /\ RelaysTurn(n + 1)' /\ DebateText' = DebateText /\ n \in DebateText
          /\ transcript[n] = Spoken /\ transcript'[n] = Spoken
          /\ transcript'[n + 1].type = "relay"
      BY <1>1, <1>5, DeliverFacts, DeliversRelay DEF Grows, DebateText
    <2>2. Spoken.sender = side
      BY <1>5 DEF Shape, RoutesLast, Delivered
    <2>3. /\ Len(transcript') \in {n + 1, n + 2}
          /\ ShouldIntervene(Spoken.text) <=> Len(transcript') = n + 2
          /\ Len(transcript') = n + 2 =>
                transcript'[n + 2].type = "intervention" /\ transcript'[n + 2].recipient = side
      BY <1>5, DeliverFacts
    <2>4. ASSUME NEW i \in 1..Len(transcript'), transcript'[i].type = "intervention"
          PROVE  /\ RelaysTurn(i - 1)'
                 /\ ShouldIntervene(transcript'[i - 2].text)
                 /\ transcript'[i].recipient = transcript'[i - 2].sender
      <3>1. CASE i \in 1..n
        BY <1>2, <2>4, <3>1
      <3>2. CASE i \notin 1..n
        <4>1. i = n + 2 /\ Len(transcript') = n + 2
          BY <2>1, <2>3, <2>4, <3>2
        <4> QED
          BY <2>1, <2>2, <2>3, <4>1
      <3> QED
        BY <3>1, <3>2
    <2>5. ASSUME NEW i \in DebateText', ShouldIntervene(transcript'[i].text)
          PROVE  i + 2 <= Len(transcript') /\ transcript'[i + 2].type = "intervention"
      <3>1. i \in DebateText /\ i \in 1..n
        BY <2>1 DEF DebateText
      <3>2. CASE i < n
        BY <1>3, <2>3, <2>5, <3>1, <3>2
      <3>3. CASE i = n
        BY <2>1, <2>3, <2>5, <3>3
      <3> QED
        BY <3>1, <3>2, <3>3
    <2> QED
      BY <2>4, <2>5 DEF IntervenesOnConcession
  <1>6. CASE Quiet
    BY <1>6 DEF Quiet, IntervenesOnConcession, DebateText, RelaysTurn
  <1> QED
    BY <1>4, <1>5, <1>6, StepCases

\* Anti-agreement (router.py): every routed concession, and nothing else, is followed
\* by an intervention addressed to the side that conceded.
THEOREM AlwaysIntervenes == Spec => []IntervenesOnConcession
  <1>1. Spec => []Shape
    BY InitShape, StepShape, PTL DEF Spec
  <1> QED
    BY <1>1, InitRouted, StepIntervenes, PTL DEF Spec
-----------------------------------------------------------------------------
\* Message m of the given log answers the latest of the given turns.
Answers(m, turns, log) ==
    IF turns = {}
      THEN m.type = "argument" /\ m.rebuts = None
      ELSE /\ m.type = "rebuttal"
           /\ \E j \in turns :
                 /\ \A k \in turns : k <= j
                 /\ m.rebuts = j + 1
                 /\ log[j + 1].type = "relay"

\* The turn at place i answers the opponent's latest one.
Responds(i) ==
    Answers(transcript[i],
            {j \in TurnsOf(Opponent(transcript[i].sender)) : j < i}, transcript)

\* What d was given last is the relay of the opponent's latest turn.
HoldsLatest(d) ==
    LET turns == TurnsOf(Opponent(d))
    IN  IF turns = {}
          THEN inbox[d] = None
          ELSE \E j \in turns :
                  /\ \A k \in turns : k <= j
                  /\ inbox[d] = j + 1
                  /\ j < Len(transcript) /\ transcript[j + 1].type = "relay"

\* That holds for both sides at a turn, and for the speaker while it is routed.
InboxCurrent ==
    \A d \in Debaters : pc = "turn" \/ (pc = "route" /\ d = side) => HoldsLatest(d)

LEMMA TurnsKept ==
  ASSUME Grows, NEW d \in Debaters
  PROVE  /\ TurnsOf(d) \subseteq 1..Len(transcript)
         /\ \A i \in 1..Len(transcript) : i \in TurnsOf(d)' <=> i \in TurnsOf(d)
  BY Kept DEF Grows, TurnsOf

LEMMA RespondsKept ==
  ASSUME Grows, NEW i \in DebateText, transcript[i].sender \in Debaters, Responds(i)
  PROVE  Responds(i)'
  <1> PICK d \in Debaters : d = Opponent(transcript[i].sender)
    BY DEF Opponent, Debaters
  <1> DEFINE earlier == {j \in TurnsOf(d) : j < i}
             earlier1 == {j \in TurnsOf(d)' : j < i}
  <1>1. i \in 1..Len(transcript) /\ transcript'[i] = transcript[i]
    BY DEF Grows, DebateText
  <1>2. \A j \in TurnsOf(d)' : j \in Nat /\ j > 0
    BY DEF TurnsOf, DebateText
  <1>3. earlier1 = earlier
    BY <1>1, <1>2, TurnsKept DEF Grows
  <1>4. \A j \in earlier : transcript'[j + 1] = transcript[j + 1]
    BY <1>1, TurnsKept DEF Grows
  <1>5. Answers(transcript[i], earlier, transcript)
    BY DEF Responds
  <1>6. Answers(transcript'[i], earlier1, transcript')
    <2> HIDE DEF earlier, earlier1
    <2> QED
      BY <1>1, <1>3, <1>4, <1>5 DEF Answers
  <1> QED
    BY <1>1, <1>6 DEF Responds

LEMMA InitMutual == Init => MutualResponse /\ InboxCurrent
  BY DEF Init, MutualResponse, InboxCurrent, HoldsLatest, TurnsOf, DebateText

LEMMA HoldsKept ==
  ASSUME Grows, NEW d \in Debaters, HoldsLatest(d), inbox'[d] = inbox[d],
         TurnsOf(Opponent(d))' = TurnsOf(Opponent(d))
  PROVE  HoldsLatest(d)'
  <1>1. Opponent(d) \in Debaters
    BY DEF Opponent, Debaters
  <1>2. \A j \in TurnsOf(Opponent(d)) :
           j < Len(transcript) => transcript'[j + 1] = transcript[j + 1]
    BY <1>1, TurnsKept DEF Grows
  <1>3. \A j \in TurnsOf(Opponent(d)) : j < Len(transcript) => j < Len(transcript')
    BY <1>1, TurnsKept DEF Grows
  <1> QED
    BY <1>2, <1>3 DEF HoldsLatest

LEMMA StepMutual ==
  Shape /\ Routed /\ MutualResponse /\ InboxCurrent /\ [Next]_vars
    => MutualResponse' /\ InboxCurrent'
  <1> SUFFICES ASSUME Shape, Routed, MutualResponse, InboxCurrent, [Next]_vars
               PROVE  MutualResponse' /\ InboxCurrent'
    OBVIOUS
  <1>1. Grows /\ \E n \in Nat : n = Len(transcript)
    BY StepGrows DEF Shape, TypeOK
  <1> PICK n \in Nat : n = Len(transcript)
    BY <1>1
  <1>own. PICK own \in Debaters : own = side
    BY DEF Shape, TypeOK
  <1>opp. PICK d \in Debaters : d = Opponent(own) /\ own = Opponent(d) /\ d # own
    BY DEF Opponent, Debaters
  <1>2. ASSUME NEW i \in DebateText PROVE Responds(i)'
    <2>1. i \in 1..Len(transcript) /\ IsTurn(transcript[i])
      BY DEF DebateText
    <2>2. transcript[i].sender \in Debaters
      BY <2>1 DEF Routed
    <2>3. Responds(i)
      BY DEF MutualResponse, Responds, Answers
    <2> QED
      BY <1>1, <2>2, <2>3, RespondsKept
  <1>3. ASSUME NEW text \in Texts, Speak(text) PROVE MutualResponse' /\ InboxCurrent'
    <2>2. /\ Len(transcript') = n + 1 /\ transcript'[n + 1].sender = own
          /\ transcript'[n + 1].type =
                (IF inbox[own] = None THEN "argument" ELSE "rebuttal")
          /\ transcript'[n + 1].rebuts = inbox[own]
          /\ inbox' = inbox /\ side' = own /\ pc = "turn" /\ pc' = "route"
      BY <1>own, <1>3, SpeakFacts
    <2>3. TurnsOf(d)' = TurnsOf(d)
      <3>1. n + 1 \notin TurnsOf(d)'
        BY <1>opp, <2>2 DEF TurnsOf
      <3>2. TurnsOf(d) \subseteq 1..n /\ TurnsOf(d)' \subseteq 1..(n + 1)
        BY <2>2 DEF TurnsOf, DebateText
      <3>3. ASSUME NEW j PROVE j \in TurnsOf(d)' <=> j \in TurnsOf(d)
        BY <1>1, <3>1, <3>2, TurnsKept
      <3> QED
        BY <3>3
    <2>4. HoldsLatest(own) /\ inbox[own] \in Nat \cup {None}
      BY <1>own, <2>2 DEF InboxCurrent, Shape, TypeOK
    <2>5. HoldsLatest(own)'
      BY <1>1, <1>opp, <2>2, <2>3, <2>4, HoldsKept
    <2>6. InboxCurrent'
      BY <2>2, <2>5 DEF InboxCurrent
    <2>7. Responds(n + 1)'
      <3> DEFINE turns == TurnsOf(d)
      <3>1. {j \in TurnsOf(Opponent(transcript[n + 1].sender)) : j < n + 1}' = turns
        <4>1. TurnsOf(Opponent(transcript[n + 1].sender))' = TurnsOf(d)'
          BY <1>opp, <2>2 DEF TurnsOf
        <4>2. TurnsOf(d) \subseteq 1..n
          BY DEF TurnsOf, DebateText
        <4> QED
          BY <2>3, <4>1, <4>2
      <3>2. Answers(transcript'[n + 1], turns, transcript')
        <4>1. CASE turns = {}
          <5>1. inbox[own] = None
            BY <1>opp, <2>4, <4>1 DEF HoldsLatest
          <5> QED
            BY <2>2, <4>1, <5>1 DEF Answers
        <4>2. CASE turns # {}
          <5>1. PICK j \in turns : /\ \A k \in turns : k <= j
                                   /\ inbox[own] = j + 1
                                   /\ j < n /\ transcript[j + 1].type = "relay"
            BY <1>opp, <2>4, <4>2 DEF HoldsLatest
          <5>2. j \in 1..n
            BY DEF TurnsOf, DebateText
          <5>3. transcript'[j + 1].type = "relay" /\ j + 1 \in Nat
            BY <1>1, <5>1, <5>2 DEF Grows
          <5>4. inbox[own] # None
            BY <5>1, <5>3, NoneAssumption
          <5> HIDE DEF turns
          <5> QED
            BY <2>2, <4>2, <5>1, <5>3, <5>4 DEF Answers
        <4> QED
          BY <4>1, <4>2
      <3> QED
        BY <3>1, <3>2 DEF Responds
    <2>8. ASSUME NEW i \in DebateText' PROVE Responds(i)'
      <3>1. i \in DebateText \/ i = n + 1
        BY <1>1, <2>2, Kept DEF DebateText
      <3> QED
        BY <1>2, <2>7, <3>1
    <2> QED
      BY <2>6, <2>8 DEF MutualResponse, Responds, Answers
  <1>4. CASE Delivered
    <2>1. DebateText' = DebateText /\ n \in DebateText /\ transcript[n] = Spoken
      BY <1>4, DeliversRelay
    <2>2. /\ Spoken.sender = own /\ pc = "route"
          /\ transcript'[n + 1].type = "relay" /\ n < Len(transcript')
          /\ inbox' = [inbox EXCEPT ![d] = n + 1] /\ inbox \in [Debaters -> Nat \cup {None}]
      <3>1. transcript'[n + 1].type = "relay" /\ n < Len(transcript')
        BY <1>4, DeliverFacts
      <3>2. inbox' = [inbox EXCEPT ![d] = n + 1] /\ pc = "route"
        BY <1>4, <1>own, <1>opp, DeliverFacts
      <3>3. Spoken.sender = own
        BY <1>own, <3>2 DEF Shape, RoutesLast
      <3> QED
        BY <3>1, <3>2, <3>3 DEF Shape, TypeOK
    <2>3. TurnsOf(d)' = TurnsOf(d) /\ TurnsOf(own)' = TurnsOf(own)
      BY <1>1, <2>1 DEF TurnsOf, Grows, DebateText
    <2>4. HoldsLatest(own)'
      <3>1. HoldsLatest(own) /\ inbox'[own] = inbox[own]
        BY <1>own, <1>opp, <2>2 DEF InboxCurrent
      <3>2. TurnsOf(Opponent(own))' = TurnsOf(Opponent(own))
        BY <1>opp, <2>3
      <3> QED
        BY <1>1, <3>1, <3>2, HoldsKept
    <2>5. HoldsLatest(d)'
      <3>1. \A k \in TurnsOf(own) : k <= n
        BY <2>1 DEF TurnsOf, DebateText
      <3>2. n \in TurnsOf(own) /\ inbox'[d] = n + 1
        BY <1>opp, <2>1, <2>2 DEF TurnsOf
      <3>3. TurnsOf(Opponent(d))' = TurnsOf(own)
        BY <1>opp, <2>3
      <3> QED
        BY <2>2, <3>1, <3>2, <3>3 DEF HoldsLatest
    <2>6. InboxCurrent'
      BY <1>own, <1>opp, <2>4, <2>5 DEF InboxCurrent, Debaters
    <2> QED
      BY <1>2, <2>1, <2>6 DEF MutualResponse, Responds, Answers
  <1>5. CASE Quiet
    BY <1>5 DEF Quiet, MutualResponse, InboxCurrent, HoldsLatest, DebateText, TurnsOf
  <1> QED
    BY <1>3, <1>4, <1>5, StepCases

\* Mutual response (round.py): every turn answers the relay of the opponent's latest
\* turn, and only a turn that comes before all of them argues on the motion.
THEOREM AlwaysResponds == Spec => []MutualResponse
  <1>1. Spec => []Shape
    BY InitShape, StepShape, PTL DEF Spec
  <1>2. Spec => []Routed
    BY AlwaysRouted
  <1> QED
    BY <1>1, <1>2, InitMutual, StepMutual, PTL DEF Spec
-----------------------------------------------------------------------------
\* How often d has spoken up to place i, and altogether.
UpTo(d, i) == Cardinality({j \in TurnsOf(d) : j <= i})
Count(d) == Cardinality(TurnsOf(d))

RoundLabels ==
    \A i \in DebateText :
        /\ UpTo(transcript[i].sender, i) = transcript[i].round
        /\ UpTo("pro", i) = transcript[i].round

\* The number of the round and the side tell how often each side has spoken.
Counted ==
    /\ pc \in {"turn", "route"} => number \in 1..Rounds
    /\ pc = "turn" =>
          /\ Count("con") = number - 1
          /\ Count("pro") = IF side = "con" THEN number ELSE number - 1
    /\ pc = "route" =>
          /\ Count("con") = IF side = "con" THEN number ELSE number - 1
          /\ Count("pro") = number
    /\ pc \in {"verdict", "done"} => \A d \in Debaters : Count(d) = Rounds

LEMMA EqualVoiceFollows == Routed /\ RoundLabels /\ Counted => EqualVoice
  <1> SUFFICES ASSUME Routed, RoundLabels, Counted PROVE EqualVoice
    OBVIOUS
  <1>1. ASSUME NEW i \in DebateText
        PROVE  LET m    == transcript[i]
                   upTo == [d \in Debaters |-> Cardinality({j \in TurnsOf(d) : j <= i})]
               IN  upTo[m.sender] = m.round /\ upTo["pro"] = m.round
    <2>1. transcript[i].sender \in Debaters /\ "pro" \in Debaters
      BY DEF Routed, DebateText, Debaters
    <2> QED
      BY <2>1 DEF RoundLabels, UpTo
  <1> QED
    BY <1>1 DEF EqualVoice, Counted, Count

LEMMA InitCounted == Init => RoundLabels /\ Counted
  <1> SUFFICES ASSUME Init PROVE RoundLabels /\ Counted
    OBVIOUS
  <1>1. DebateText = {} /\ \A d \in Debaters : TurnsOf(d) = {}
    BY DEF Init, DebateText, TurnsOf
  <1>2. \A d \in Debaters : Count(d) = 0
    BY <1>1, FS_EmptySet DEF Count
  <1> QED
    BY <1>1, <1>2, RoundsAssumption DEF Init, RoundLabels, Counted, Debaters

LEMMA TurnsFinite ==
  ASSUME transcript \in Seq(Message), NEW d
  PROVE  /\ IsFiniteSet(TurnsOf(d)) /\ Count(d) \in Nat
         /\ TurnsOf(d) \subseteq 1..Len(transcript)
  <1>1. TurnsOf(d) \subseteq 1..Len(transcript)
    BY DEF TurnsOf, DebateText
  <1>2. IsFiniteSet(1..Len(transcript))
    BY FS_Interval
  <1>3. IsFiniteSet(TurnsOf(d))
    BY <1>1, <1>2, FS_Subset
  <1> QED
    BY <1>1, <1>3, FS_CardinalityType DEF Count

LEMMA StepCounted ==
  Shape /\ Routed /\ RoundLabels /\ Counted /\ [Next]_vars => RoundLabels' /\ Counted'
  <1> SUFFICES ASSUME Shape, Routed, RoundLabels, Counted, [Next]_vars
               PROVE  RoundLabels' /\ Counted'
    OBVIOUS
  <1>1. Grows /\ \E n \in Nat : n = Len(transcript)
    BY StepGrows DEF Shape, TypeOK
  <1> PICK n \in Nat : n = Len(transcript)
    BY <1>1
  <1>2. ASSUME NEW i \in DebateText
        PROVE  /\ UpTo(transcript[i].sender, i)' = transcript'[i].round
               /\ UpTo("pro", i)' = transcript'[i].round
    <2>1. i \in 1..n /\ transcript'[i] = transcript[i]
      BY <1>1 DEF Grows, DebateText
    <2>2. PICK s \in Debaters : s = transcript[i].sender
      BY <2>1 DEF Routed, DebateText
    <2>3. ASSUME NEW d \in Debaters PROVE UpTo(d, i)' = UpTo(d, i)
      <3>1. ASSUME NEW j PROVE (j \in TurnsOf(d)' /\ j <= i) <=> (j \in TurnsOf(d) /\ j <= i)
        BY <1>1, <2>1, TurnsKept DEF TurnsOf, DebateText
      <3>2. {j \in TurnsOf(d) : j <= i}' = {j \in TurnsOf(d) : j <= i}
        BY <3>1
      <3> QED
        BY <3>2 DEF UpTo
    <2>4. UpTo(s, i) = transcript[i].round /\ UpTo("pro", i) = transcript[i].round
      BY <2>2 DEF RoundLabels
    <2>5. UpTo(s, i)' = transcript'[i].round /\ UpTo("pro", i)' = transcript'[i].round
      BY <2>1, <2>3, <2>4 DEF Debaters
    <2>6. UpTo(transcript[i].sender, i)' = UpTo(s, i)'
      BY <2>1, <2>2 DEF UpTo, TurnsOf
    <2> QED
      BY <2>5, <2>6
  <1>3. ASSUME NEW text \in Texts, Speak(text) PROVE RoundLabels' /\ Counted'
    <2>1. PICK own \in Debaters : own = side
      BY DEF Shape, TypeOK
    <2>2. /\ Len(transcript') = n + 1 /\ transcript'[n + 1].sender = own
          /\ transcript'[n + 1].round = number /\ IsTurn(transcript'[n + 1])
          /\ number' = number /\ side' = side /\ pc = "turn" /\ pc' = "route"
      BY <1>3, <2>1, SpeakFacts
    <2>3. \A d \in Debaters : /\ IsFiniteSet(TurnsOf(d)) /\ Count(d) \in Nat
                              /\ TurnsOf(d) \subseteq 1..n
      BY <1>1, TurnsFinite DEF Grows
    <2>4. \A j \in DebateText' : j \in DebateText \/ j = n + 1
      BY <1>1, <2>2, Kept DEF DebateText
    <2>5. ASSUME NEW d \in Debaters
          PROVE  TurnsOf(d)' = TurnsOf(d) \cup (IF d = own THEN {n + 1} ELSE {})
      <3>1. n + 1 \in TurnsOf(d)' <=> d = own
        BY <2>2 DEF TurnsOf, DebateText
      <3>2. \A j \in TurnsOf(d)' : j \in 1..n \/ j = n + 1
        BY <2>2 DEF TurnsOf, DebateText
      <3>3. ASSUME NEW j PROVE j \in TurnsOf(d)' <=> j \in TurnsOf(d) \/ (j = n + 1 /\ d = own)
        BY <1>1, <2>3, <3>1, <3>2, TurnsKept
      <3> QED
        BY <3>3
    <2>6. ASSUME NEW d \in Debaters PROVE Count(d)' = Count(d) + (IF d = own THEN 1 ELSE 0)
      <3>1. n + 1 \notin TurnsOf(d)
        BY <2>3
      <3>2. CASE d = own
        <4>1. TurnsOf(d)' = TurnsOf(d) \cup {n + 1}
          BY <2>5, <3>2
        <4>2. Cardinality(TurnsOf(d) \cup {n + 1}) = Cardinality(TurnsOf(d)) + 1
          BY <2>3, <3>1, FS_AddElement
        <4> QED
          BY <3>2, <4>1, <4>2 DEF Count
      <3>3. CASE d # own
        <4>1. TurnsOf(d)' = TurnsOf(d)
          BY <2>5, <3>3
        <4> QED
          BY <2>3, <3>3, <4>1 DEF Count
      <3> QED
        BY <3>2, <3>3
    <2>7. Counted'
      BY <2>1, <2>2, <2>3, <2>6, RoundsAssumption DEF Counted, Debaters, Shape, TypeOK
    <2>8. ASSUME NEW d \in Debaters PROVE UpTo(d, n + 1)' = Count(d)'
      <3>1. \A j \in TurnsOf(d)' : j <= n + 1
        BY <2>2 DEF TurnsOf, DebateText
      <3>2. {j \in TurnsOf(d) : j <= n + 1}' = TurnsOf(d)'
        BY <3>1
      <3> QED
        BY <3>2 DEF UpTo, Count
    <2>9. Count(own)' = number /\ Count("pro")' = number
      BY <2>1, <2>2, <2>3, <2>6 DEF Counted, Debaters, Shape, TypeOK
    <2>10. UpTo(transcript[n + 1].sender, n + 1)' = UpTo(own, n + 1)'
      BY <2>2 DEF UpTo, TurnsOf
    <2>11. ASSUME NEW i \in DebateText'
           PROVE  /\ UpTo(transcript[i].sender, i)' = transcript'[i].round
                  /\ UpTo("pro", i)' = transcript'[i].round
      <3>1. CASE i \in DebateText
        BY <1>2, <3>1
      <3>2. CASE i = n + 1
        <4>1. UpTo(own, i)' = number /\ UpTo("pro", i)' = number
          BY <2>8, <2>9, <3>2 DEF Debaters
        <4> QED
          BY <2>2, <2>10, <3>2, <4>1
      <3> QED
        BY <2>4, <3>1, <3>2
    <2> QED
      BY <2>7, <2>11 DEF RoundLabels
  <1>4. CASE Delivered
    <2>1. DebateText' = DebateText /\ pc = "route" /\ Advance
      BY <1>4, DeliverFacts, DeliversRelay
    <2>2. ASSUME NEW d \in Debaters PROVE Count(d)' = Count(d)
      <3>1. TurnsOf(d)' = TurnsOf(d)
        BY <1>1, <2>1 DEF TurnsOf, Grows, DebateText
      <3> QED
        BY <3>1 DEF Count
    <2>3. Counted'
      BY <2>1, <2>2, RoundsAssumption
         DEF Counted, Advance, Opponent, Debaters, Shape, TypeOK
    <2> QED
      BY <1>2, <2>1, <2>3 DEF RoundLabels
  <1>5. CASE Quiet
    BY <1>5 DEF Quiet, RoundLabels, Counted, UpTo, Count, DebateText, TurnsOf
  <1> QED
    BY <1>3, <1>4, <1>5, StepCases

\* Equal voice (engine.py): both sides have spoken equally often in every complete
\* round, and a ruling is asked for after Rounds turns of each and not before.
THEOREM AlwaysEqualVoice == Spec => []EqualVoice
  <1>1. Spec => []Shape
    BY InitShape, StepShape, PTL DEF Spec
  <1>2. Spec => []Routed
    BY AlwaysRouted
  <1>3. Spec => [](RoundLabels /\ Counted)
    BY <1>1, <1>2, InitCounted, StepCounted, PTL DEF Spec
  <1> QED
    BY <1>2, <1>3, EqualVoiceFollows, PTL
-----------------------------------------------------------------------------
\* There is an n-th turn for every n up to their number.
Numbered ==
    \A n \in 1..Cardinality(DebateText) : \E i \in DebateText : Ordinal(i) = n

\* Before a turn the side to move was given the relay of the latest turn of all.
GivenLatest ==
    pc = "turn" =>
        IF inbox[side] = None
          THEN DebateText = {}
          ELSE /\ inbox[side] \in 1..Len(transcript)
               /\ \A j \in DebateText : j < inbox[side]

\* A turn answers what was said before it.
AnswersEarlier ==
    \A i \in DebateText :
        transcript[i].rebuts = None \/ (transcript[i].rebuts \in Nat /\ transcript[i].rebuts <= i)

Order == Numbered /\ GivenLatest /\ AnswersEarlier

LEMMA TextFinite ==
  ASSUME transcript \in Seq(Message)
  PROVE  /\ IsFiniteSet(DebateText) /\ Cardinality(DebateText) \in Nat
         /\ DebateText \subseteq 1..Len(transcript)
         /\ \A i : /\ IsFiniteSet({j \in DebateText : j <= i}) /\ Ordinal(i) \in Nat
                   /\ Ordinal(i) <= Cardinality(DebateText)
  <1>1. DebateText \subseteq 1..Len(transcript)
    BY DEF DebateText
  <1>2. IsFiniteSet(1..Len(transcript))
    BY FS_Interval
  <1>3. IsFiniteSet(DebateText) /\ Cardinality(DebateText) \in Nat
    BY <1>1, <1>2, FS_Subset, FS_CardinalityType
  <1>4. ASSUME NEW i
        PROVE  /\ IsFiniteSet({j \in DebateText : j <= i}) /\ Ordinal(i) \in Nat
               /\ Ordinal(i) <= Cardinality(DebateText)
    <2>1. {j \in DebateText : j <= i} \in SUBSET DebateText
      OBVIOUS
    <2> QED
      BY <1>3, <2>1, FS_Subset, FS_CardinalityType DEF Ordinal
  <1> QED
    BY <1>1, <1>3, <1>4

\* What a new turn does to the numbering of the turns.
LEMMA TurnAdded ==
  ASSUME Shape, NEW text \in Texts, Speak(text), NEW n \in Nat, n = Len(transcript)
  PROVE  /\ DebateText' = DebateText \cup {n + 1} /\ n + 1 \notin DebateText
         /\ Cardinality(DebateText') = Cardinality(DebateText) + 1
         /\ \A i \in 1..n : Ordinal(i)' = Ordinal(i)
         /\ Ordinal(n + 1)' = Cardinality(DebateText) + 1
  <1>1. Grows /\ transcript \in Seq(Message) /\ transcript' \in Seq(Message)
    BY SpeakFacts DEF Grows, Shape, TypeOK
  <1>2. Len(transcript') = n + 1 /\ IsTurn(transcript'[n + 1])
    BY SpeakFacts
  <1>3. DebateText' = DebateText \cup {n + 1} /\ n + 1 \notin DebateText
    <2>1. ASSUME NEW i PROVE i \in DebateText' <=> i \in DebateText \/ i = n + 1
      BY <1>1, <1>2, Kept DEF DebateText
    <2> QED
      BY <2>1 DEF DebateText
  <1>4. Cardinality(DebateText') = Cardinality(DebateText) + 1
    BY <1>1, <1>3, TextFinite, FS_AddElement
  <1>5. ASSUME NEW i \in 1..n PROVE Ordinal(i)' = Ordinal(i)
    <2>1. {j \in DebateText : j <= i}' = {j \in DebateText : j <= i}
      BY <1>3
    <2> QED
      BY <2>1 DEF Ordinal
  <1>6. Ordinal(n + 1)' = Cardinality(DebateText')
    <2>1. \A j \in DebateText' : j <= n + 1
      BY <1>2 DEF DebateText
    <2>2. {j \in DebateText : j <= n + 1}' = DebateText'
      BY <2>1
    <2> QED
      BY <2>2 DEF Ordinal
  <1> QED
    BY <1>3, <1>4, <1>5, <1>6

LEMMA InitOrder == Init => Order
  <1> SUFFICES ASSUME Init PROVE Order
    OBVIOUS
  <1>1. DebateText = {} /\ Cardinality(DebateText) = 0
    BY FS_EmptySet DEF Init, DebateText
  <1> QED
    BY <1>1 DEF Init, Order, Numbered, GivenLatest, AnswersEarlier, Debaters

LEMMA StepOrder == Shape /\ Order /\ [Next]_vars => Order'
  <1> SUFFICES ASSUME Shape, Order, [Next]_vars PROVE Order'
    OBVIOUS
  <1>1. Grows /\ \E n \in Nat : n = Len(transcript)
    BY StepGrows DEF Shape, TypeOK
  <1> PICK n \in Nat : n = Len(transcript)
    BY <1>1
  <1>2. ASSUME DebateText' = DebateText
        PROVE  Numbered' /\ AnswersEarlier'
    <2>1. \A i : Ordinal(i)' = Ordinal(i)
      BY <1>2 DEF Ordinal
    <2>2. \A i \in DebateText : transcript'[i] = transcript[i]
      BY <1>1 DEF Grows, DebateText
    <2> QED
      BY <1>2, <2>1, <2>2 DEF Order, Numbered, AnswersEarlier
  <1>3. ASSUME NEW text \in Texts, Speak(text) PROVE Order'
    <2>1. /\ DebateText' = DebateText \cup {n + 1} /\ n + 1 \notin DebateText
          /\ Cardinality(DebateText') = Cardinality(DebateText) + 1
          /\ \A i \in 1..n : Ordinal(i)' = Ordinal(i)
          /\ Ordinal(n + 1)' = Cardinality(DebateText) + 1
      BY <1>3, TurnAdded
    <2>2. Cardinality(DebateText) \in Nat /\ DebateText \subseteq 1..n
      BY <1>1, TextFinite DEF Grows
    <2>3. ASSUME NEW k \in 1..Cardinality(DebateText')
          PROVE  \E i \in DebateText' : Ordinal(i)' = k
      <3>1. CASE k = Cardinality(DebateText) + 1
        BY <2>1, <3>1
      <3>2. CASE k # Cardinality(DebateText) + 1
        <4>1. k \in 1..Cardinality(DebateText)
          BY <2>1, <2>2, <3>2
        <4>2. PICK i \in DebateText : Ordinal(i) = k
          BY <4>1 DEF Order, Numbered
        <4> QED
          BY <2>1, <2>2, <4>2
      <3> QED
        BY <3>1, <3>2
    <2>4. transcript'[n + 1].rebuts = inbox[side] /\ pc = "turn" /\ pc' = "route"
      BY <1>3, SpeakFacts
    <2>5. inbox[side] = None \/ (inbox[side] \in Nat /\ inbox[side] <= n + 1)
      BY <2>4 DEF Order, GivenLatest
    <2>6. \A i \in DebateText : transcript'[i] = transcript[i]
      BY <1>1, <2>2 DEF Grows
    <2>7. AnswersEarlier'
      BY <2>1, <2>4, <2>5, <2>6 DEF Order, AnswersEarlier
    <2> QED
      BY <2>3, <2>4, <2>7 DEF Order, Numbered, GivenLatest
  <1>4. CASE Delivered
    <2>1. DebateText' = DebateText
      BY <1>4, DeliversRelay
    <2>2. /\ inbox' = [inbox EXCEPT ![Opponent(side)] = n + 1] /\ side' = Opponent(side)
          /\ inbox \in [Debaters -> Nat \cup {None}] /\ Opponent(side) \in Debaters
      BY <1>4, DeliverFacts DEF Advance, Shape, TypeOK, Opponent, Debaters
    <2>3. inbox'[side'] = n + 1 /\ n + 1 # None
      BY <2>2, NoneAssumption
    <2>4. n + 1 \in 1..Len(transcript') /\ \A j \in DebateText : j < n + 1
      BY <1>4, DeliverFacts DEF DebateText
    <2>5. GivenLatest'
      BY <2>1, <2>3, <2>4 DEF GivenLatest
    <2> QED
      BY <1>2, <2>1, <2>5 DEF Order
  <1>5. CASE Quiet
    <2>1. DebateText' = DebateText
      BY <1>5 DEF Quiet, DebateText
    <2>2. GivenLatest'
      BY <1>5, <2>1 DEF Quiet, GivenLatest, Order
    <2> QED
      BY <1>2, <2>1, <2>2 DEF Order
  <1> QED
    BY <1>3, <1>4, <1>5, StepCases

\* As long as no turn is added, the abstract turns stay what they are.
LEMMA TurnsStay ==
  ASSUME Shape, Order, Grows, DebateText' = DebateText
  PROVE  AbstractTurns' = AbstractTurns
  <1>1. \A i : Ordinal(i)' = Ordinal(i)
    BY DEF Ordinal
  <1>2. \A n : PlaceOf(n)' = PlaceOf(n)
    BY <1>1 DEF PlaceOf
  <1>3. \A p : TurnRelayedAt(p)' = TurnRelayedAt(p)
    BY DEF TurnRelayedAt
  <1>4. ASSUME NEW n \in 1..Cardinality(DebateText)
        PROVE  AbstractTurn(transcript[PlaceOf(n)])' = AbstractTurn(transcript[PlaceOf(n)])
    <2>1. PlaceOf(n) \in DebateText
      BY DEF Order, Numbered, PlaceOf
    <2>2. transcript'[PlaceOf(n)] = transcript[PlaceOf(n)]
      BY <2>1 DEF Grows, DebateText
    <2> QED
      BY <1>2, <1>3, <2>2 DEF AbstractTurn
  <1> QED
    BY <1>4 DEF AbstractTurns

\* Every turn was taken by one of the sides.
LEMMA BothSides ==
  ASSUME Routed, transcript \in Seq(Message)
  PROVE  /\ Cardinality(DebateText) = Count("pro") + Count("con")
         /\ Count("pro") \in Nat /\ Count("con") \in Nat
  <1>1. DebateText = TurnsOf("pro") \cup TurnsOf("con") /\ TurnsOf("pro") \cap TurnsOf("con") = {}
    BY DEF Routed, DebateText, TurnsOf, Debaters
  <1>2. \A d : IsFiniteSet(TurnsOf(d)) /\ Count(d) \in Nat
    BY TurnsFinite
  <1>3. Cardinality(TurnsOf("pro") \cup TurnsOf("con")) =
           Count("pro") + Count("con") - Cardinality(TurnsOf("pro") \cap TurnsOf("con"))
    BY <1>2, FS_Union DEF Count
  <1>4. Cardinality(TurnsOf("pro") \cap TurnsOf("con")) = 0
    BY <1>1, FS_EmptySet, Zenon
  <1>5. Cardinality(TurnsOf("pro") \cup TurnsOf("con")) = Cardinality(DebateText)
    BY <1>1, Zenon
  <1> QED
    BY <1>2, <1>3, <1>4, <1>5

\* Both sides together have taken all turns when the ruling is asked for.
LEMMA AllTurnsTaken ==
  ASSUME Shape, Routed, Counted, pc = "verdict"
  PROVE  Len(AbstractTurns) = 2 * Rounds
  <1>1. Cardinality(DebateText) = Count("pro") + Count("con")
    BY BothSides DEF Shape, TypeOK
  <1>2. Cardinality(DebateText) = 2 * Rounds
    BY <1>1, RoundsAssumption DEF Counted, Debaters
  <1> QED
    BY <1>2, RoundsAssumption DEF AbstractTurns

LEMMA AppendedFunction ==
  ASSUME NEW c \in Nat, NEW f, NEW g, NEW e,
         f = [k \in 1..c |-> f[k]], g = [k \in 1..(c + 1) |-> g[k]],
         \A k \in 1..c : g[k] = f[k], g[c + 1] = e
  PROVE  Len(f) = c /\ g = Append(f, e)
  OBVIOUS

\* A turn is appended to the abstract ones, and answers the one before it.
LEMMA TurnsAppend ==
  ASSUME Shape, Routed, Counted, Order, NEW text \in Texts, Speak(text)
  PROVE  /\ AbstractTurns' = Append(AbstractTurns,
                [speaker |-> IF Len(AbstractTurns) % 2 = 0 THEN "pro" ELSE "con",
                 answers |-> Len(AbstractTurns)])
         /\ Len(AbstractTurns) < 2 * Rounds
  <1> USE DEF Order
  <1>1. Grows /\ \E n \in Nat : n = Len(transcript)
    BY SpeakFacts DEF Grows, Shape, TypeOK
  <1> PICK n \in Nat : n = Len(transcript)
    BY <1>1
  <1>2. /\ IsFiniteSet(DebateText) /\ DebateText \subseteq 1..n
        /\ \E c \in Nat : c = Cardinality(DebateText)
    BY <1>1, TextFinite DEF Grows
  <1> PICK c \in Nat : c = Cardinality(DebateText)
    BY <1>2
  <1>3. /\ DebateText' = DebateText \cup {n + 1} /\ n + 1 \notin DebateText
        /\ Cardinality(DebateText') = c + 1
        /\ \A i \in 1..n : Ordinal(i)' = Ordinal(i)
        /\ Ordinal(n + 1)' = c + 1
    BY TurnAdded
  <1>4. \A i \in DebateText : Ordinal(i) \in Nat /\ Ordinal(i) <= c
    BY <1>1, TextFinite DEF Grows
  <1>5. /\ transcript'[n + 1].sender = side /\ transcript'[n + 1].rebuts = inbox[side]
        /\ pc = "turn" /\ side \in Debaters
    BY SpeakFacts DEF Shape, TypeOK
  <1>6. ASSUME NEW k \in 1..c
        PROVE  AbstractTurn(transcript[PlaceOf(k)])' = AbstractTurn(transcript[PlaceOf(k)])
    <2>1. \A i : (i \in DebateText' /\ Ordinal(i)' = k) <=> (i \in DebateText /\ Ordinal(i) = k)
      <3>1. ASSUME NEW i
            PROVE  (i \in DebateText' /\ Ordinal(i)' = k) <=> (i \in DebateText /\ Ordinal(i) = k)
        <4>1. CASE i \in DebateText
          BY <1>2, <1>3, <4>1
        <4>2. CASE i = n + 1
          BY <1>2, <1>3, <4>2
        <4>3. CASE i \notin DebateText /\ i # n + 1
          BY <1>3, <4>3
        <4> QED
          BY <4>1, <4>2, <4>3
      <3> QED
        BY <3>1
    <2>2. PlaceOf(k)' = PlaceOf(k)
      BY <2>1 DEF PlaceOf
    <2>3. PICK i \in DebateText : i = PlaceOf(k)
      BY DEF Numbered, PlaceOf
    <2>4. i \in 1..n /\ transcript'[i] = transcript[i]
      BY <1>1, <1>2 DEF Grows
    <2>5. PICK p : p = transcript[i].rebuts
      OBVIOUS
    <2>6. p = None \/ (p \in Nat /\ p <= n)
      BY <2>4, <2>5 DEF AnswersEarlier
    <2>7. TurnRelayedAt(p)' = TurnRelayedAt(p)
      <3>1. CASE p = None
        BY <3>1 DEF TurnRelayedAt
      <3>2. CASE p \in Nat /\ p <= n
        <4>1. {j \in DebateText' : j < p} = {j \in DebateText : j < p}
          BY <1>3, <3>2
        <4> QED
          BY <4>1 DEF TurnRelayedAt
      <3> QED
        BY <2>6, <3>1, <3>2
    <2> QED
      BY <2>2, <2>3, <2>4, <2>5, <2>7 DEF AbstractTurn
  <1>7. PlaceOf(c + 1)' = n + 1
    <2>1. ASSUME NEW i \in DebateText' PROVE Ordinal(i)' = c + 1 <=> i = n + 1
      BY <1>2, <1>3, <1>4
    <2>2. n + 1 \in DebateText'
      BY <1>3
    <2> QED
      BY <2>1, <2>2 DEF PlaceOf
  <1>8. TurnRelayedAt(inbox[side])' = c
    <2>1. inbox' = inbox /\ side' = side
      BY SpeakFacts
    <2>2. CASE inbox[side] = None
      BY <1>5, <2>1, <2>2, FS_EmptySet DEF TurnRelayedAt, GivenLatest
    <2>3. CASE inbox[side] # None
      <3>1. PICK p \in 1..n : p = inbox[side] /\ \A j \in DebateText : j < p
        BY <1>5, <2>3 DEF GivenLatest
      <3>2. {j \in DebateText' : j < p} = DebateText
        BY <1>3, <3>1
      <3> QED
        BY <2>1, <2>3, <3>1, <3>2 DEF TurnRelayedAt
    <2> QED
      BY <2>2, <2>3
  <1>9. c = (IF side = "pro" THEN 2 * number - 2 ELSE 2 * number - 1) /\ number \in 1..Rounds
    <2>1. c = Count("pro") + Count("con")
      BY <1>1, BothSides DEF Grows
    <2> QED
      BY <1>5, <2>1 DEF Counted, Debaters
  <1>10. AbstractTurn(transcript[PlaceOf(c + 1)])' = [speaker |-> side, answers |-> c]
    <2>1. transcript'[PlaceOf(c + 1)'] = transcript'[n + 1]
      BY <1>7
    <2>2. TurnRelayedAt(transcript[PlaceOf(c + 1)].rebuts)' = TurnRelayedAt(inbox[side])'
      <3>1. inbox' = inbox /\ side' = side
        BY SpeakFacts
      <3> QED
        BY <1>5, <2>1, <3>1 DEF TurnRelayedAt
    <2> QED
      BY <1>5, <1>8, <2>1, <2>2 DEF AbstractTurn
  <1>11. /\ AbstractTurns = [k \in 1..c |-> AbstractTurn(transcript[PlaceOf(k)])]
         /\ AbstractTurns' = [k \in 1..(c + 1) |-> AbstractTurn(transcript[PlaceOf(k)])']
    BY <1>3 DEF AbstractTurns
  <1>12. side = IF c % 2 = 0 THEN "pro" ELSE "con"
    BY <1>5, <1>9 DEF Debaters, Shape, TypeOK
  <1>13. Len(AbstractTurns) = c
    BY <1>2, <1>11
  <1>14. AbstractTurns' = Append(AbstractTurns, [speaker |-> side, answers |-> c])
    BY <1>2, <1>6, <1>10, <1>11, AppendedFunction
  <1> QED
    BY <1>9, <1>12, <1>13, <1>14, RoundsAssumption
\* Debate implements Exchange, step by step: a turn is a turn, the ruling is the ruling,
\* an abort is a failure, and what the judge and the watchdog do is not seen.
LEMMA StepKeepsPromise ==
  ASSUME Shape, Routed, Counted, Order, [Next]_vars
  PROVE  [Promise!Next]_(Promise!vars)
  <1> USE DEF Promise!Next, Promise!vars
  <1>1. ASSUME NEW text \in Texts, Speak(text) PROVE Promise!Next
    <2>1. AbstractOutcome = "open" /\ AbstractOutcome' = AbstractOutcome
      BY <1>1 DEF Speak, AbstractOutcome
    <2> QED
      BY <1>1, <2>1, TurnsAppend DEF Promise!Speak, Promise!Speaker
  <1>2. AbstractTurns' = AbstractTurns \/ \E text \in Texts : Speak(text)
    <2>1. Delivered \/ Quiet => DebateText' = DebateText
      BY DeliversRelay DEF Quiet, DebateText, Shape, TypeOK
    <2> QED
      BY <2>1, StepCases, StepGrows, TurnsStay
  <1>3. ASSUME AbstractTurns' = AbstractTurns, NEW winner \in Debaters, Decide(winner)
        PROVE  Promise!Next
    <2>1. AbstractOutcome = "open" /\ AbstractOutcome' \in {"pro", "con"}
      BY <1>3 DEF Decide, AbstractOutcome, Debaters
    <2>2. Len(AbstractTurns) = 2 * Rounds
      BY <1>3, AllTurnsTaken DEF Decide
    <2> QED
      BY <1>3, <2>1, <2>2 DEF Promise!Decide
  <1>4. ASSUME AbstractTurns' = AbstractTurns, pc \in {"turn", "route", "verdict"}, pc' = "aborted"
        PROVE  Promise!Next
    BY <1>4 DEF AbstractOutcome, Promise!Fail
  <1>5. ASSUME AbstractTurns' = AbstractTurns, pc \in {"turn", "route", "verdict"},
               pc' \in {"turn", "route", "verdict"}
        PROVE  UNCHANGED Promise!vars
    BY <1>5 DEF AbstractOutcome
  <1>6. CASE GuardFails \/ BudgetGone
    BY <1>2, <1>4, <1>5, <1>6, <1>1 DEF GuardFails, BudgetGone, Abort
  <1>7. CASE InterveneFails
    BY <1>2, <1>4, <1>7, <1>1 DEF InterveneFails, Abort
  <1>8. CASE Relay \/ \E text \in Texts : RelayAndIntervene(text)
    BY <1>1, <1>2, <1>5, <1>8 DEF Relay, RelayAndIntervene, Deliver, Advance
  <1>9. CASE Terminated \/ UNCHANGED vars
    BY <1>1, <1>2, <1>9 DEF Terminated, vars, AbstractOutcome
  <1> QED
    BY <1>1, <1>2, <1>3, <1>6, <1>7, <1>8, <1>9 DEF Next

\* The promise of a debate (engine.py, round.py): Debate implements Exchange.
THEOREM PromiseKept == Spec => KeepsPromise
  <1>1. Init => Promise!Init
    <2> SUFFICES ASSUME Init PROVE Promise!Init
      OBVIOUS
    <2>1. DebateText = {} /\ Cardinality(DebateText) = 0
      BY FS_EmptySet DEF Init, DebateText
    <2> QED
      BY <2>1 DEF Init, Promise!Init, AbstractTurns, AbstractOutcome
  <1>2. Spec => []Shape
    BY InitShape, StepShape, PTL DEF Spec
  <1>3. Spec => []Routed
    BY AlwaysRouted
  <1>4. Spec => []Counted
    BY <1>2, <1>3, InitCounted, StepCounted, PTL DEF Spec
  <1>5. Spec => []Order
    BY <1>2, InitOrder, StepOrder, PTL DEF Spec
  <1>6. Shape /\ Routed /\ Counted /\ Order /\ [Next]_vars => [Promise!Next]_(Promise!vars)
    BY StepKeepsPromise
  <1> QED
    BY <1>1, <1>2, <1>3, <1>4, <1>5, <1>6, PTL DEF Spec, KeepsPromise, Promise!Spec
=============================================================================
