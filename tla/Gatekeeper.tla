----------------------------- MODULE Gatekeeper -----------------------------
(***************************************************************************)
(* The budget that every model call and web search of a DebateSDK shares:  *)
(* Gatekeeper.check compares the recorded usage plus an estimate with the  *)
(* limits before a request, Gatekeeper.record adds the actual usage after  *)
(* it.  Both call other methods on their way, so CPython may switch        *)
(* threads inside them: a check first reads the totals and then decides, a *)
(* record first adds and then latches.  A check reads calls, tokens and    *)
(* cost one after the other; they are taken together here, as a record in  *)
(* between would only raise the later ones.  Money is an integer: tokens   *)
(* times an integer rate.                                                  *)
(***************************************************************************)
EXTENDS Integers

CONSTANTS MaxCalls, MaxTokens, MaxUsd, InRate, OutRate

ASSUME LimitsAssumption ==
    MaxCalls \in Nat /\ MaxTokens \in Nat /\ MaxUsd \in Nat
ASSUME RatesAssumption == InRate \in Nat /\ OutRate \in Nat

VARIABLES
    used,     \* Budget: the usage recorded so far
    blocked   \* Gatekeeper._blocked

budgetVars == <<used, blocked>>

Usage == [calls : Nat, input : Nat, output : Nat]
NoUsage == [calls |-> 0, input |-> 0, output |-> 0]

Plus(u, v) ==
    [calls  |-> u.calls + v.calls,
     input  |-> u.input + v.input,
     output |-> u.output + v.output]

Tokens(u) == u.input + u.output
Usd(u) == u.input * InRate + u.output * OutRate

\* Mutant: the call limit is one too high.
ExceedsLate(u) ==
    u.calls > MaxCalls + 1 \/ Tokens(u) > MaxTokens \/ Usd(u) > MaxUsd

\* Gatekeeper._first_violation
Exceeds(u) ==
    u.calls > MaxCalls \/ Tokens(u) > MaxTokens \/ Usd(u) > MaxUsd

InitBudget == used = NoUsage /\ blocked = FALSE

\* Mutant: the usage reported has tokens only, the call itself is not counted.
AddTokens(usage) == used' = Plus(used, [usage EXCEPT !.calls = 0]) /\ UNCHANGED blocked

\* The two halves of Gatekeeper.record.  The first is Budget.add, which calls
\* nothing and so is not interrupted.
Add(usage) == used' = Plus(used, usage) /\ UNCHANGED blocked

\* Mutant: the latch looks at the totals as if one call less were recorded.
LatchStale ==
    blocked' = (blocked \/ Exceeds([used EXCEPT !.calls = @ - 1])) /\ UNCHANGED used

LatchIfExceeded == blocked' = (blocked \/ Exceeds(used)) /\ UNCHANGED used

BudgetTypeOK == used \in Usage /\ blocked \in BOOLEAN
=============================================================================
