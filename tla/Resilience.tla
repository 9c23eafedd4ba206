----------------------------- MODULE Resilience -----------------------------
(***************************************************************************)
(* ResilientProvider.complete, called by several threads at once: the      *)
(* engine's own thread (the judge's interventions), the watchdog's current *)
(* worker and the workers it abandoned, which keep running.  Each provider *)
(* has its own circuit breaker; all share one gatekeeper.                  *)
(*                                                                         *)
(* A caller's step ends where CPython may switch threads: at a call, at a  *)
(* log line's write, while it waits for an answer and while it backs off.  *)
(***************************************************************************)
EXTENDS Gatekeeper, FiniteSets

CONSTANTS
    Callers,     \* threads
    Providers,   \* one per agent
    Retries,     \* config.timeouts.retries
    Threshold,   \* config.timeouts.circuit_breaker_threshold
    Estimates,   \* the usage a call may be estimated at
    Actuals,     \* the usage an answer may report
    MaxSent      \* bound: no call starts once this many requests were sent

ASSUME CallersAssumption == IsFiniteSet(Callers) /\ Callers # {}
ASSUME RetryAssumption ==
    Retries \in Nat /\ Threshold \in Nat \ {0} /\ MaxSent \in Nat
ASSUME UsageAssumption ==
    /\ Estimates \subseteq Usage /\ Actuals \subseteq Usage
    /\ \A u \in Estimates \cup Actuals : u.calls = 1

VARIABLES
    stage,      \* where each caller is in complete
    provider,   \* the provider it calls
    projected,  \* while it is checked: the totals it read plus its estimate
    tries,      \* its failed attempts
    failures,   \* CircuitBreaker._failures of each provider
    open,       \* CircuitBreaker._open
    sent,       \* history: requests sent to the backend
    late        \* history: requests sent to a provider since its breaker opened

callVars    == <<stage, provider, projected, tries>>
breakerVars == <<failures, open, late>>
vars        == <<budgetVars, callVars, breakerVars, sent>>

Stages == {"idle", "checking", "admitted", "ready", "sent", "answered",
           "recorded", "failed"}

Goto(c, s) == stage' = [stage EXCEPT ![c] = s]

Init ==
    /\ InitBudget
    /\ stage = [c \in Callers |-> "idle"]
    /\ provider \in [Callers -> Providers]
    /\ projected = [c \in Callers |-> NoUsage]
    /\ tries = [c \in Callers |-> 0]
    /\ failures = [p \in Providers |-> 0]
    /\ open = [p \in Providers |-> FALSE]
    /\ late = [p \in Providers |-> 0]
    /\ sent = 0

-----------------------------------------------------------------------------
\* complete: Gatekeeper.check reads the totals ...
Begin(c, p, estimate) ==
    /\ stage[c] = "idle"
    /\ sent < MaxSent
    /\ Goto(c, "checking")
    /\ provider' = [provider EXCEPT ![c] = p]
    /\ projected' = [projected EXCEPT ![c] = Plus(used, estimate)]
    /\ tries' = [tries EXCEPT ![c] = 0]
    /\ UNCHANGED <<budgetVars, breakerVars, sent>>

\* ... and decides.  It never looks at blocked.
Decided(c) ==
    /\ projected' = [projected EXCEPT ![c] = NoUsage]
    /\ UNCHANGED <<used, provider, tries, breakerVars, sent>>

Veto(c) ==
    /\ stage[c] = "checking"
    /\ Exceeds(projected[c])
    /\ blocked' = TRUE
    /\ Goto(c, "idle")
    /\ Decided(c)

Admit(c) ==
    /\ stage[c] = "checking"
    /\ ~Exceeds(projected[c])
    /\ Goto(c, "admitted")
    /\ Decided(c)
    /\ UNCHANGED blocked

\* An open breaker rejects the call.
Reject(c) ==
    /\ stage[c] = "admitted"
    /\ open[provider[c]]
    /\ Goto(c, "idle")
    /\ UNCHANGED <<budgetVars, provider, projected, tries, breakerVars, sent>>

\* Mutant: the breaker is not consulted.
PassAnyBreaker(c) ==
    /\ stage[c] = "admitted"
    /\ Goto(c, "ready")
    /\ UNCHANGED <<budgetVars, provider, projected, tries, breakerVars, sent>>

PassBreaker(c) ==
    /\ stage[c] = "admitted"
    /\ ~open[provider[c]]
    /\ Goto(c, "ready")
    /\ UNCHANGED <<budgetVars, provider, projected, tries, breakerVars, sent>>

-----------------------------------------------------------------------------
\* _attempt_loop: send a request.  The breaker is not looked at here.
Attempt(c) ==
    /\ stage[c] = "ready"
    /\ Goto(c, "sent")
    /\ sent' = sent + 1
    /\ late' = [late EXCEPT ![provider[c]] = IF open[provider[c]] THEN @ + 1 ELSE @]
    /\ UNCHANGED <<budgetVars, provider, projected, tries, failures, open>>

\* Mutant: record_success closes the breaker but keeps the streak.
AnswerKeepsStreak(c) ==
    /\ stage[c] = "sent"
    /\ Goto(c, "answered")
    /\ open' = [open EXCEPT ![provider[c]] = FALSE]
    /\ late' = [late EXCEPT ![provider[c]] = 0]
    /\ UNCHANGED <<budgetVars, provider, projected, tries, failures, sent>>

\* The answer comes in time: record_success.
Answer(c) ==
    /\ stage[c] = "sent"
    /\ Goto(c, "answered")
    /\ failures' = [failures EXCEPT ![provider[c]] = 0]
    /\ open' = [open EXCEPT ![provider[c]] = FALSE]
    /\ late' = [late EXCEPT ![provider[c]] = 0]
    /\ UNCHANGED <<budgetVars, provider, projected, tries, sent>>

\* Gatekeeper.record
Charge(c, actual) ==
    /\ stage[c] = "answered"
    /\ Goto(c, "recorded")
    /\ Add(actual)
    /\ UNCHANGED <<provider, projected, tries, breakerVars, sent>>

Return(c) ==
    /\ stage[c] = "recorded"
    /\ LatchIfExceeded
    /\ Goto(c, "idle")
    /\ UNCHANGED <<provider, projected, tries, breakerVars, sent>>

-----------------------------------------------------------------------------
\* record_failure
CountFailure(p) ==
    /\ failures' = [failures EXCEPT ![p] = @ + 1]
    /\ open' = [open EXCEPT ![p] = @ \/ failures'[p] >= Threshold]

\* A transient error or a timeout.  A request that timed out runs on on its pool
\* thread (Future.cancel has no effect on a running call); nobody sees its answer.
FailTransient(c) ==
    /\ stage[c] = "sent"
    /\ Goto(c, "failed")
    /\ tries' = [tries EXCEPT ![c] = @ + 1]
    /\ CountFailure(provider[c])
    /\ UNCHANGED <<budgetVars, provider, projected, late, sent>>

\* Any other error passes through: neither retried nor counted.
FailPermanent(c) ==
    /\ stage[c] = "sent"
    /\ Goto(c, "idle")
    /\ UNCHANGED <<budgetVars, provider, projected, tries, breakerVars, sent>>

\* Mutant: range(self._retries + 2).
LastTryLate(c) == tries[c] = Retries + 2

LastTry(c) == tries[c] = Retries + 1

\* Mutant: only an open breaker ends the loop.
GiveUpOnOpen(c) ==
    /\ stage[c] = "failed"
    /\ open[provider[c]]
    /\ Goto(c, "idle")
    /\ UNCHANGED <<budgetVars, provider, projected, tries, breakerVars, sent>>

GiveUp(c) ==
    /\ stage[c] = "failed"
    /\ open[provider[c]] \/ LastTry(c)
    /\ Goto(c, "idle")
    /\ UNCHANGED <<budgetVars, provider, projected, tries, breakerVars, sent>>

\* Mutant: only the last try ends the loop.
BackoffDespiteBreaker(c) ==
    /\ stage[c] = "failed"
    /\ ~LastTry(c)
    /\ Goto(c, "ready")
    /\ UNCHANGED <<budgetVars, provider, projected, tries, breakerVars, sent>>

\* Sleep, then attempt again.
Backoff(c) ==
    /\ stage[c] = "failed"
    /\ ~open[provider[c]] /\ ~LastTry(c)
    /\ Goto(c, "ready")
    /\ UNCHANGED <<budgetVars, provider, projected, tries, breakerVars, sent>>

-----------------------------------------------------------------------------
\* What a caller does once its call is under way.
Step(c) ==
    \/ Veto(c)
    \/ Admit(c)
    \/ Reject(c)
    \/ PassBreaker(c)
    \/ Attempt(c)
    \/ Answer(c)
    \/ \E actual \in Actuals : Charge(c, actual)
    \/ Return(c)
    \/ FailTransient(c)
    \/ FailPermanent(c)
    \/ GiveUp(c)
    \/ Backoff(c)

Next ==
    \E c \in Callers :
        \/ \E p \in Providers, estimate \in Estimates : Begin(c, p, estimate)
        \/ Step(c)

Spec == Init /\ [][Next]_vars

\* Waiting for an answer is bounded by the request timeout and a pause by the
\* backoff; callers need not start calls.
FairSpec == Spec /\ \A c \in Callers : WF_vars(Step(c))
-----------------------------------------------------------------------------
\* Every variable has its type; a call fails at most once more than it retries
\* (resilience.py, _attempt_loop), and has a further try left when it sends.
TypeOK ==
    /\ BudgetTypeOK
    /\ stage \in [Callers -> Stages]
    /\ provider \in [Callers -> Providers]
    /\ projected \in [Callers -> Usage]
    /\ tries \in [Callers -> 0..(Retries + 1)]
    /\ \A c \in Callers : stage[c] \in {"ready", "sent"} => tries[c] <= Retries
    /\ failures \in [Providers -> Nat]
    /\ open \in [Providers -> BOOLEAN]
    /\ late \in [Providers -> Nat]
    /\ sent \in Nat

\* Callers whose call the gate has let through and not yet recorded.
Admitted == {c \in Callers :
                stage[c] \in {"admitted", "ready", "sent", "answered", "failed"}}

\* The gate's real guarantee (limiter.py): concurrent callers can pass on the
\* same totals, so recorded calls plus calls under way may pass the limit, but
\* by less than the number of callers; with one caller the limit is hard.
OvershootBound ==
    used.calls + Cardinality(Admitted) <= MaxCalls + Cardinality(Callers) - 1

\* Once recorded usage exceeds a limit the gate is latched (limiter.py, record),
\* as soon as the caller that went over has left record.
ExceededIsLatched ==
    Exceeds(used) => blocked \/ \E c \in Callers : stage[c] = "recorded"

\* The breaker is open exactly while the streak of failures is at the threshold
\* or above (circuit.py), whatever order the outcomes of several callers come in.
BreakerStreak ==
    \A p \in Providers : open[p] <=> failures[p] >= Threshold

\* Callers that may still send a request to p without asking the breaker.
Pending(p) == {c \in Callers : provider[c] = p /\ stage[c] = "ready"}

\* "While open, rejects calls immediately" (circuit.py) holds up to the callers
\* that were past the breaker's test or backing off when it opened: each of the
\* others sends at most one more request.
HammeringBounded ==
    \A p \in Providers :
        open[p] => late[p] + Cardinality(Pending(p)) < Cardinality(Callers)

\* Callers that may still close p's breaker.
UnderWay(p) == {c \in Callers : provider[c] = p /\ stage[c] \in {"ready", "sent"}}

\* The breaker has no half-open state (circuit.py): once it is open and nobody's
\* request is under way, no call ever reaches that provider again.
DeadStaysDead ==
    [][\A p \in Providers :
          open[p] /\ UnderWay(p) = {} => open'[p] /\ UnderWay(p)' = {}]_vars

\* Every call to complete ends, by an answer or an error (resilience.py).
EveryCallEnds == \A c \in Callers : stage[c] # "idle" ~> stage[c] = "idle"

=============================================================================
