------------------------------ MODULE MCDebate ------------------------------
(***************************************************************************)
(* The refinement of Exchange by Debate, for model checking and for the    *)
(* proof: the abstract turns are the debaters' own messages, and the       *)
(* message a turn rebuts is replaced by the turn that relay carries.       *)
(***************************************************************************)
EXTENDS Debate

\* How many turns there are up to place i, and the place of the n-th turn.
Ordinal(i) == Cardinality({j \in DebateText : j <= i})
PlaceOf(n) == CHOOSE i \in DebateText : Ordinal(i) = n

\* The ordinal of the turn that the relay at place p carries.
TurnRelayedAt(p) ==
    IF p = None THEN 0 ELSE Cardinality({j \in DebateText : j < p})

\* A debater's message as Exchange sees it.
AbstractTurn(m) == [speaker |-> m.sender, answers |-> TurnRelayedAt(m.rebuts)]

AbstractTurns ==
    [n \in 1..Cardinality(DebateText) |-> AbstractTurn(transcript[PlaceOf(n)])]

AbstractOutcome ==
    CASE pc = "aborted" -> "failed"
      [] pc = "done"    -> verdict.winner
      [] OTHER          -> "open"

Promise == INSTANCE Exchange WITH turns <- AbstractTurns, outcome <- AbstractOutcome

\* The engine keeps the promise of Exchange: strict alternation, every turn an
\* answer to the one before it, a ruling only over a complete debate.
KeepsPromise == Promise!Spec
=============================================================================
