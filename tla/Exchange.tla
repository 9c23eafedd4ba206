------------------------------ MODULE Exchange ------------------------------
(***************************************************************************)
(* What a debate promises, without judge, relays, retries or prompts: pro  *)
(* and con take turns, each turn answers the one before it (0 stands for   *)
(* the motion), and only when all turns were taken is there a winner.  A   *)
(* debate may fail at any time before that, but never yields a winner and  *)
(* a failure, nor a winner that changes.                                   *)
(***************************************************************************)
EXTENDS Integers, Sequences

CONSTANT Rounds

VARIABLES
    turns,    \* the turns taken, in order
    outcome   \* "open", "failed" or the winner

vars == <<turns, outcome>>

Init == turns = <<>> /\ outcome = "open"

Speaker == IF Len(turns) % 2 = 0 THEN "pro" ELSE "con"

Speak ==
    /\ outcome = "open"
    /\ Len(turns) < 2 * Rounds
    /\ turns' = Append(turns, [speaker |-> Speaker, answers |-> Len(turns)])
    /\ UNCHANGED outcome

Decide ==
    /\ outcome = "open"
    /\ Len(turns) = 2 * Rounds
    /\ outcome' \in {"pro", "con"}
    /\ UNCHANGED turns

Fail ==
    /\ outcome = "open"
    /\ outcome' = "failed"
    /\ UNCHANGED turns

Next == Speak \/ Decide \/ Fail

Spec == Init /\ [][Next]_vars
=============================================================================
