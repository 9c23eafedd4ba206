------------------------------- MODULE Debate -------------------------------
(***************************************************************************)
(* One run of the debate engine: Engine.run plays Rounds exchanges through *)
(* Round.play and Router.route and closes with the judge's verdict.  Only  *)
(* the engine's own thread is modelled here; an attempt at a guarded turn  *)
(* is one step that yields the debater's message or fails.  Module         *)
(* Watchdog opens that step.                                               *)
(*                                                                         *)
(* A message is identified by its place in the transcript: message ids are *)
(* fresh UUIDs, and no property looks at an id that never gets there.      *)
(***************************************************************************)
EXTENDS Integers, Sequences, FiniteSets

CONSTANTS
    Rounds,       \* config.debate.rounds_per_side
    MaxRestarts,  \* config.watchdog.max_restarts
    None          \* Python's None

\* The schema asks for at least one round, but the override of
\* DebateSDK.run_debate is copied into the config without validation.
ASSUME RoundsAssumption   == Rounds \in Nat
ASSUME RestartsAssumption == MaxRestarts \in Nat
ASSUME NoneAssumption     == None \notin Nat

Debaters == {"pro", "con"}
Opponent(d) == IF d = "pro" THEN "con" ELSE "pro"

\* All that routing reads of a text is whether it concedes.
Texts == {"firm", "conceding"}
ShouldIntervene(text) == text = "conceding"

Types == {"argument", "rebuttal", "relay", "intervention"}
Message ==
    [sender : Debaters \cup {"judge"}, recipient : Debaters \cup {"judge"},
     type : Types, round : Nat, text : Texts, rebuts : Nat \cup {None}]

VARIABLES
    pc,          \* where Engine.run stands
    number,      \* the round being played
    side,        \* the debater whose turn it is
    transcript,  \* Transcript._messages
    inbox,       \* Round._to_pro and Round._to_con: the last relay to each side
    heard,       \* history: the messages quoted in the prompts of each side's turns
    attempt,     \* Watchdog.run: failures of the guarded call so far
    verdict,     \* the verdict and the messages it was based on
    cause        \* what ended an aborted run

vars == <<pc, number, side, transcript, inbox, heard, attempt, verdict, cause>>

IsTurn(m) == m.type \in {"argument", "rebuttal"}

\* Transcript.debate_text: the places of the debaters' own turns.
DebateText == {i \in 1..Len(transcript) : IsTurn(transcript[i])}

\* Transcript.count_turns
TurnsOf(d) == {i \in DebateText : transcript[i].sender = d}

BuildMessage(from, to, type, text, rebuts) ==
    [sender |-> from, recipient |-> to, type |-> type, round |-> number,
     text |-> text, rebuts |-> rebuts]

Init ==
    /\ pc = IF Rounds = 0 THEN "verdict" ELSE "turn"
    /\ number = 1
    /\ side = "pro"
    /\ transcript = <<>>
    /\ inbox = [d \in Debaters |-> None]
    /\ heard = [d \in Debaters |-> {}]
    /\ attempt = 0
    /\ verdict = None
    /\ cause = None

-----------------------------------------------------------------------------
(***************************************************************************)
(* The guarded turn: argue on the motion when nothing was relayed to this  *)
(* side yet, otherwise rebut the last relay.  The prompt quotes that relay *)
(* and nothing else.                                                       *)
(***************************************************************************)
Speak(text) ==
    /\ pc = "turn"
    /\ LET incoming == inbox[side]
           type     == IF incoming = None THEN "argument" ELSE "rebuttal"
       IN  /\ transcript' =
                 Append(transcript, BuildMessage(side, "judge", type, text, incoming))
           /\ heard' = [heard EXCEPT ![side] = @ \cup ({incoming} \ {None})]
    /\ attempt' = 0
    /\ pc' = "route"
    /\ UNCHANGED <<number, side, inbox, verdict, cause>>

Abort(reason) ==
    /\ pc' = "aborted"
    /\ cause' = reason
    /\ UNCHANGED <<number, side, transcript, inbox, heard, verdict>>

\* Mutant: one restart too many.
GuardFailsOnceMore ==
    /\ pc \in {"turn", "verdict"}
    /\ attempt' = attempt + 1
    /\ IF attempt > MaxRestarts
          THEN Abort("failure")
          ELSE UNCHANGED <<pc, number, side, transcript, inbox, heard, verdict, cause>>

\* The guarded call (a turn or the verdict) raises: run it again, until the
\* restarts are used up.
GuardFails ==
    /\ pc \in {"turn", "verdict"}
    /\ attempt' = attempt + 1
    /\ IF attempt' > MaxRestarts
          THEN Abort("failure")
          ELSE UNCHANGED <<pc, number, side, transcript, inbox, heard, verdict, cause>>

\* BudgetExceededError is the engine's one fatal error: no restart.
BudgetGone ==
    /\ pc \in {"turn", "verdict"}
    /\ Abort("budget")
    /\ UNCHANGED attempt

-----------------------------------------------------------------------------
Spoken == transcript[Len(transcript)]

\* Mutant: the relay goes back to its author.
EchoOf(m) == BuildMessage("judge", m.sender, "relay", m.text, Len(transcript))

\* JudgeAgent.relay: the same text to the other side.
RelayOf(m) ==
    BuildMessage("judge", Opponent(m.sender), "relay", m.text, Len(transcript))

\* Mutant: range(1, rounds_per_side).
AdvanceOneRoundShort ==
    /\ side' = Opponent(side)
    /\ number' = IF side = "con" /\ number < Rounds THEN number + 1 ELSE number
    /\ pc' = IF side = "con" /\ number + 1 >= Rounds THEN "verdict" ELSE "turn"

\* The loops of Engine.run and Round.play move on to the next turn.
Advance ==
    /\ side' = Opponent(side)
    /\ number' = IF side = "con" /\ number < Rounds THEN number + 1 ELSE number
    /\ pc' = IF side = "con" /\ number = Rounds THEN "verdict" ELSE "turn"

\* Mutant: _deliver with its two sides swapped.
DeliverBack(made) ==
    /\ transcript' = transcript \o made
    /\ inbox' = [inbox EXCEPT ![side] = Len(transcript) + 1]
    /\ Advance
    /\ UNCHANGED <<heard, attempt, verdict, cause>>

\* The end of Round._turn: record what the router made of the turn, deliver
\* the relay and only the relay, and go on.
Deliver(made) ==
    /\ transcript' = transcript \o made
    /\ inbox' = [inbox EXCEPT ![Opponent(side)] = Len(transcript) + 1]
    /\ Advance
    /\ UNCHANGED <<heard, attempt, verdict, cause>>

Relay ==
    /\ pc = "route"
    /\ ~ShouldIntervene(Spoken.text)
    /\ Deliver(<<RelayOf(Spoken)>>)

\* Mutant: the other side is reminded.
RemindOpponent(text) ==
    /\ pc = "route"
    /\ ShouldIntervene(Spoken.text)
    /\ Deliver(<<RelayOf(Spoken),
                 BuildMessage("judge", Opponent(Spoken.sender), "intervention", text, None)>>)

\* The reminder is a model call of the judge, addressed to the conceding side.
RelayAndIntervene(text) ==
    /\ pc = "route"
    /\ ShouldIntervene(Spoken.text)
    /\ Deliver(<<RelayOf(Spoken),
                 BuildMessage("judge", Spoken.sender, "intervention", text, None)>>)

\* Router.route runs outside the guard: what that model call raises ends the
\* run, and the relay that was built before it is lost.
InterveneFails ==
    /\ pc = "route"
    /\ ShouldIntervene(Spoken.text)
    /\ \E reason \in {"failure", "budget"} : Abort(reason)
    /\ UNCHANGED attempt

-----------------------------------------------------------------------------
Decide(winner) ==
    /\ pc = "verdict"
    /\ verdict' = [winner |-> winner, scored |-> DebateText]
    /\ attempt' = 0
    /\ pc' = "done"
    /\ UNCHANGED <<number, side, transcript, inbox, heard, cause>>

Terminated == pc \in {"done", "aborted"} /\ UNCHANGED vars

Next ==
    \/ \E text \in Texts : Speak(text) \/ RelayAndIntervene(text)
    \/ GuardFails
    \/ BudgetGone
    \/ Relay
    \/ InterveneFails
    \/ \E winner \in Debaters : Decide(winner)
    \/ Terminated

Spec == Init /\ [][Next]_vars

-----------------------------------------------------------------------------
\* Every variable has its type; identities of messages are places in the
\* transcript (protocol/message.py).
TypeOK ==
    /\ pc \in {"turn", "route", "verdict", "done", "aborted"}
    /\ number \in Nat
    /\ side \in Debaters
    /\ transcript \in Seq(Message)
    /\ inbox \in [Debaters -> Nat \cup {None}]
    /\ heard \in [Debaters -> SUBSET Nat]
    /\ attempt \in 0..(MaxRestarts + 1)
    /\ verdict \in {None} \cup [winner : Debaters, scored : SUBSET Nat]
    /\ cause \in {None, "failure", "budget"}

\* Place i holds the verbatim relay, to the other side, of the turn before it.
RelaysTurn(i) ==
    /\ i - 1 \in DebateText
    /\ LET turn == transcript[i - 1]
       IN  transcript[i] =
              [sender |-> "judge", recipient |-> Opponent(turn.sender), type |-> "relay",
               round |-> turn.round, text |-> turn.text, rebuts |-> i - 1]

\* Child, father, child (router.py): turns go to the judge and to nobody else,
\* all that reaches a debater comes from the judge, each relay carries the turn
\* before it verbatim to the other side, and no turn but the last is unrelayed.
\* In particular Router.route never meets a message it has to reject.
Routed ==
    /\ \A i \in 1..Len(transcript) :
          LET m == transcript[i]
          IN  /\ IsTurn(m) <=> m.sender \in Debaters
              /\ IsTurn(m) <=> m.recipient = "judge"
              /\ m.type = "relay" => RelaysTurn(i)
    /\ \A i \in DebateText :
          i < Len(transcript) => transcript[i + 1].type = "relay"

\* Mutual response (round.py): a turn answers the relay of the opponent's
\* latest turn, and it argues on the bare motion only when the opponent has not
\* spoken yet.
MutualResponse ==
    \A i \in DebateText :
        LET m       == transcript[i]
            earlier == {j \in TurnsOf(Opponent(m.sender)) : j < i}
        IN  IF earlier = {}
              THEN m.type = "argument" /\ m.rebuts = None
              ELSE /\ m.type = "rebuttal"
                   /\ \E j \in earlier :
                         /\ \A k \in earlier : k <= j
                         /\ m.rebuts = j + 1
                         /\ transcript[j + 1].type = "relay"

\* Equal voice (engine.py, Transcript.count_turns): the turn labelled round r is
\* its side's r-th turn, con speaks in round r only after pro did, and a ruling
\* is only asked for when both sides have had all their turns.
EqualVoice ==
    /\ \A i \in DebateText :
          LET m    == transcript[i]
              upTo == [d \in Debaters |-> Cardinality({j \in TurnsOf(d) : j <= i})]
          IN  /\ upTo[m.sender] = m.round
              /\ upTo["pro"] = m.round
    /\ pc \in {"verdict", "done"} =>
          \A d \in Debaters : Cardinality(TurnsOf(d)) = Rounds

\* Anti-agreement (router.py): the judge intervenes on a turn exactly when it
\* concedes, right behind its relay, and addresses the side that conceded.
IntervenesOnConcession ==
    /\ \A i \in 1..Len(transcript) :
          transcript[i].type = "intervention" =>
              /\ RelaysTurn(i - 1)
              /\ ShouldIntervene(transcript[i - 2].text)
              /\ transcript[i].recipient = transcript[i - 2].sender
    /\ \A i \in DebateText :
          ShouldIntervene(transcript[i].text) /\ i < Len(transcript) =>
              i + 2 <= Len(transcript) /\ transcript[i + 2].type = "intervention"

\* "The judge intervenes and reminds them to defend their assigned side"
\* (README.md): a side that speaks after a reminder was addressed to it has been
\* shown that reminder.  The code never delivers one (round.py, _turn).
InterventionHeard ==
    \A i \in 1..Len(transcript) :
        LET d == transcript[i].recipient
        IN  /\ transcript[i].type = "intervention"
            /\ \E k \in TurnsOf(d) : k > i
            => i \in heard[d]

\* "If a process/agent hangs or crashes, it is killed and restarted" (prd.md):
\* no failure but the budget's ends a debate before the restarts are used up.
\* The judge's reminder is a model call outside the guard (round.py, _turn).
RestartedBeforeGivingUp ==
    pc = "aborted" /\ cause = "failure" => attempt > MaxRestarts
=============================================================================
