-------------------------- MODULE ResilienceProofs --------------------------
(***************************************************************************)
(* Proofs about Resilience, for any number of callers and providers and    *)
(* any limits, retries and threshold.  Each safety property needs its own  *)
(* strengthening: a call that will be let through counts as let through    *)
(* from the moment it read the totals, and a closed breaker has no late    *)
(* requests.                                                               *)
(***************************************************************************)
EXTENDS Resilience, FiniteSetTheorems, TLAPS

\* A call that was not attempted yet has not failed yet.
FreshTries == \A c \in Callers : stage[c] \in {"checking", "admitted"} => tries[c] = 0

\* Callers that read totals with which the gate will let them pass.
Passing == {c \in Callers : stage[c] = "checking" /\ projected[c].calls <= MaxCalls}

Committed == Admitted \cup Passing

CommittedBound ==
    used.calls + Cardinality(Committed) <= MaxCalls + Cardinality(Callers) - 1

ClosedHasNoneLate == \A p \in Providers : ~open[p] => late[p] = 0

LEMMA PlusFacts ==
  \A u, v \in Usage : Plus(u, v) \in Usage /\ Plus(u, v).calls = u.calls + v.calls
  BY DEF Usage, Plus

LEMMA NoUsageFacts == NoUsage \in Usage /\ NoUsage.calls = 0
  BY DEF Usage, NoUsage

LEMMA WithinCalls == ASSUME NEW u \in Usage, ~Exceeds(u) PROVE u.calls <= MaxCalls
  <1>1. ~(u.calls > MaxCalls)
    BY Zenon DEF Exceeds
  <1> QED
    BY <1>1, LimitsAssumption DEF Usage
-----------------------------------------------------------------------------
LEMMA InitType == Init => TypeOK /\ FreshTries
  <1> SUFFICES ASSUME Init PROVE TypeOK /\ FreshTries
    OBVIOUS
  <1>1. BudgetTypeOK /\ projected \in [Callers -> Usage]
    BY NoUsageFacts DEF Init, InitBudget, BudgetTypeOK
  <1> QED
    BY <1>1, RetryAssumption DEF Init, TypeOK, FreshTries, Stages

LEMMA StepType == TypeOK /\ FreshTries /\ [Next]_vars => TypeOK' /\ FreshTries'
  <1> SUFFICES ASSUME TypeOK, FreshTries, [Next]_vars PROVE TypeOK' /\ FreshTries'
    OBVIOUS
  <1> USE RetryAssumption, UsageAssumption, PlusFacts, NoUsageFacts
      DEF TypeOK, BudgetTypeOK, FreshTries, Stages, Goto
  <1>1. ASSUME NEW c \in Callers, NEW p \in Providers, NEW estimate \in Estimates,
               Begin(c, p, estimate)
        PROVE  TypeOK' /\ FreshTries'
    BY <1>1 DEF Begin, budgetVars, breakerVars
  <1>2. ASSUME NEW c \in Callers, Veto(c) \/ Admit(c)
        PROVE  TypeOK' /\ FreshTries'
    BY <1>2 DEF Veto, Admit, Decided, breakerVars
  <1>3. ASSUME NEW c \in Callers, Reject(c) \/ PassBreaker(c) \/ FailPermanent(c) \/ GiveUp(c)
        PROVE  TypeOK' /\ FreshTries'
    BY <1>3 DEF Reject, PassBreaker, FailPermanent, GiveUp, budgetVars, breakerVars
  <1>4. ASSUME NEW c \in Callers, Attempt(c) PROVE TypeOK' /\ FreshTries'
    BY <1>4 DEF Attempt, budgetVars
  <1>5. ASSUME NEW c \in Callers, Answer(c) PROVE TypeOK' /\ FreshTries'
    BY <1>5 DEF Answer, budgetVars
  <1>6. ASSUME NEW c \in Callers, NEW actual \in Actuals, Charge(c, actual)
        PROVE  TypeOK' /\ FreshTries'
    BY <1>6 DEF Charge, Add, breakerVars
  <1>7. ASSUME NEW c \in Callers, Return(c) PROVE TypeOK' /\ FreshTries'
    <2>1. blocked' \in BOOLEAN
      BY <1>7 DEF Return, LatchIfExceeded
    <2> QED
      BY <1>7, <2>1 DEF Return, LatchIfExceeded, breakerVars
  <1>8. ASSUME NEW c \in Callers, FailTransient(c) PROVE TypeOK' /\ FreshTries'
    BY <1>8 DEF FailTransient, CountFailure, budgetVars
  <1>9. ASSUME NEW c \in Callers, Backoff(c) PROVE TypeOK' /\ FreshTries'
    BY <1>9 DEF Backoff, LastTry, budgetVars, breakerVars
  <1>10. CASE UNCHANGED vars
    BY <1>10 DEF vars, budgetVars, callVars, breakerVars
  <1> QED
    BY <1>1, <1>2, <1>3, <1>4, <1>5, <1>6, <1>7, <1>8, <1>9, <1>10 DEF Next, Step

\* Type correctness (resilience.py): in particular a call sends no request once it
\* has failed retries + 1 times.
THEOREM TypeCorrect == Spec => []TypeOK
  <1>1. Spec => [](TypeOK /\ FreshTries)
    BY InitType, StepType, PTL DEF Spec
  <1> QED
    BY <1>1, PTL
-----------------------------------------------------------------------------
LEMMA NextBreaker ==
  [Next]_vars => \/ \E c \in Callers : Answer(c) \/ FailTransient(c)
                 \/ (failures' = failures /\ open' = open)
  <1> SUFFICES ASSUME Next PROVE \/ \E c \in Callers : Answer(c) \/ FailTransient(c)
                                 \/ (failures' = failures /\ open' = open)
    BY DEF vars, breakerVars
  <1>1. PICK c \in Callers :
           (\E p \in Providers, estimate \in Estimates : Begin(c, p, estimate)) \/ Step(c)
    BY DEF Next
  <1>2. CASE \E p \in Providers, estimate \in Estimates : Begin(c, p, estimate)
    BY <1>2 DEF Begin, breakerVars
  <1>3. CASE Step(c)
    <2> USE DEF breakerVars
    <2>1. CASE Veto(c) \/ Admit(c)
      BY <2>1 DEF Veto, Admit, Decided
    <2>2. CASE Reject(c) \/ PassBreaker(c) \/ FailPermanent(c) \/ GiveUp(c) \/ Backoff(c)
      BY <2>2 DEF Reject, PassBreaker, FailPermanent, GiveUp, Backoff
    <2>3. CASE Attempt(c)
      BY <2>3 DEF Attempt
    <2>4. CASE (\E actual \in Actuals : Charge(c, actual)) \/ Return(c)
      BY <2>4 DEF Charge, Return
    <2> QED
      BY <1>3, <2>1, <2>2, <2>3, <2>4 DEF Step
  <1> QED
    BY <1>1, <1>2, <1>3

LEMMA InitBreaker == Init => BreakerStreak /\ ClosedHasNoneLate /\ HammeringBounded
  BY RetryAssumption DEF Init, BreakerStreak, ClosedHasNoneLate, HammeringBounded

\* The streak and the flag of every breaker move together.
LEMMA StepStreak == TypeOK /\ BreakerStreak /\ [Next]_vars => BreakerStreak'
  <1> SUFFICES ASSUME TypeOK, BreakerStreak, [Next]_vars PROVE BreakerStreak'
    OBVIOUS
  <1>1. ASSUME NEW c \in Callers, Answer(c) PROVE BreakerStreak'
    BY <1>1, RetryAssumption DEF Answer, TypeOK, BreakerStreak
  <1>2. ASSUME NEW c \in Callers, FailTransient(c) PROVE BreakerStreak'
    <2> DEFINE p == provider[c]
    <2>1. p \in Providers
      BY DEF TypeOK
    <2>2. failures'[p] = failures[p] + 1 /\ \A q \in Providers \ {p} : failures'[q] = failures[q]
      BY <1>2, <2>1 DEF FailTransient, CountFailure, TypeOK
    <2>3. open'[p] = (open[p] \/ failures'[p] >= Threshold)
      BY <1>2, <2>1, Zenon DEF FailTransient, CountFailure, TypeOK
    <2>4. \A q \in Providers \ {p} : open'[q] = open[q]
      BY <1>2, <2>1, Zenon DEF FailTransient, CountFailure, TypeOK
    <2>5. open[p] => failures[p] >= Threshold
      BY <2>1, Zenon DEF BreakerStreak
    <2>6. failures[p] >= Threshold => failures'[p] >= Threshold
      BY <2>1, <2>2, RetryAssumption DEF TypeOK
    <2>7. open'[p] <=> failures'[p] >= Threshold
      BY <2>3, <2>5, <2>6, Zenon
    <2>8. ASSUME NEW q \in Providers \ {p} PROVE open'[q] <=> failures'[q] >= Threshold
      BY <2>2, <2>4 DEF BreakerStreak
    <2> QED
      BY <2>7, <2>8, Zenon DEF BreakerStreak
  <1>3. CASE failures' = failures /\ open' = open
    BY <1>3 DEF BreakerStreak
  <1> QED
    BY <1>1, <1>2, <1>3, NextBreaker

\* The flag of every breaker tells the length of its streak (circuit.py), in whatever
\* order the outcomes of any number of callers come in.
THEOREM StreakCorrect == Spec => []BreakerStreak
  <1>1. Spec => [](TypeOK /\ FreshTries)
    BY InitType, StepType, PTL DEF Spec
  <1> QED
    BY <1>1, InitBreaker, StepStreak, PTL DEF Spec
-----------------------------------------------------------------------------
LEMMA CallerSets ==
  /\ Cardinality(Callers) \in Nat \ {0}
  /\ \A S \in SUBSET Callers :
        /\ IsFiniteSet(S)
        /\ Cardinality(S) \in Nat
        /\ Cardinality(S) <= Cardinality(Callers)
        /\ S # Callers => Cardinality(S) < Cardinality(Callers)
        /\ \A c \in S : Cardinality(S \ {c}) = Cardinality(S) - 1
        /\ \A T \in SUBSET S : Cardinality(T) <= Cardinality(S)
  BY CallersAssumption, FS_CardinalityType, FS_Subset, FS_EmptySet, FS_RemoveElement

\* Steps that neither send nor see an outcome.
LEMMA NobodyLate ==
  ASSUME TypeOK, ClosedHasNoneLate, HammeringBounded, open' = open, late' = late,
         \A p \in Providers : open[p] => Pending(p)' \subseteq Pending(p)
  PROVE  ClosedHasNoneLate' /\ HammeringBounded'
  <1>1. ASSUME NEW p \in Providers, open[p]
        PROVE  late[p] + Cardinality(Pending(p)') < Cardinality(Callers)
    <2>1. Pending(p) \in SUBSET Callers /\ Pending(p)' \in SUBSET Pending(p)
      BY <1>1 DEF Pending
    <2>2. /\ Cardinality(Pending(p)) \in Nat /\ Cardinality(Pending(p)') \in Nat
          /\ Cardinality(Pending(p)') <= Cardinality(Pending(p))
      BY <2>1, CallerSets
    <2>3. late[p] + Cardinality(Pending(p)) < Cardinality(Callers)
      BY <1>1 DEF HammeringBounded
    <2> QED
      BY <2>2, <2>3, CallerSets DEF TypeOK
  <1> QED
    BY <1>1 DEF ClosedHasNoneLate, HammeringBounded

LEMMA StepHammering ==
  TypeOK /\ ClosedHasNoneLate /\ HammeringBounded /\ [Next]_vars
    => ClosedHasNoneLate' /\ HammeringBounded'
  <1> SUFFICES ASSUME TypeOK, ClosedHasNoneLate, HammeringBounded, [Next]_vars
               PROVE  ClosedHasNoneLate' /\ HammeringBounded'
    OBVIOUS
  <1>1. ASSUME NEW c \in Callers, NEW p \in Providers, NEW estimate \in Estimates,
               Begin(c, p, estimate)
        PROVE  ClosedHasNoneLate' /\ HammeringBounded'
    <2>1. \A q \in Providers : Pending(q)' \subseteq Pending(q)
      BY <1>1 DEF Begin, Goto, Pending, TypeOK
    <2> QED
      BY <1>1, <2>1, NobodyLate DEF Begin, breakerVars
  <1>2. ASSUME NEW c \in Callers, Veto(c) \/ Admit(c)
        PROVE  ClosedHasNoneLate' /\ HammeringBounded'
    <2>1. \A q \in Providers : Pending(q)' \subseteq Pending(q)
      BY <1>2 DEF Veto, Admit, Decided, Goto, Pending, TypeOK
    <2> QED
      BY <1>2, <2>1, NobodyLate DEF Veto, Admit, Decided, breakerVars
  <1>3. ASSUME NEW c \in Callers, Reject(c) \/ FailPermanent(c) \/ GiveUp(c) \/ Return(c)
        PROVE  ClosedHasNoneLate' /\ HammeringBounded'
    <2>1. \A q \in Providers : Pending(q)' \subseteq Pending(q)
      BY <1>3 DEF Reject, FailPermanent, GiveUp, Return, Goto, Pending, TypeOK
    <2> QED
      BY <1>3, <2>1, NobodyLate DEF Reject, FailPermanent, GiveUp, Return, breakerVars
  <1>4. ASSUME NEW c \in Callers, PassBreaker(c) \/ Backoff(c)
        PROVE  ClosedHasNoneLate' /\ HammeringBounded'
    <2>1. \A q \in Providers : open[q] => Pending(q)' \subseteq Pending(q)
      BY <1>4 DEF PassBreaker, Backoff, Goto, Pending, TypeOK
    <2> QED
      BY <1>4, <2>1, NobodyLate DEF PassBreaker, Backoff, breakerVars
  <1>5. ASSUME NEW c \in Callers, NEW actual \in Actuals, Charge(c, actual)
        PROVE  ClosedHasNoneLate' /\ HammeringBounded'
    <2>1. \A q \in Providers : Pending(q)' \subseteq Pending(q)
      BY <1>5 DEF Charge, Goto, Pending, TypeOK
    <2> QED
      BY <1>5, <2>1, NobodyLate DEF Charge, breakerVars
  <1>6. ASSUME NEW c \in Callers, Attempt(c)
        PROVE  ClosedHasNoneLate' /\ HammeringBounded'
    <2>1. PICK p \in Providers : p = provider[c] /\ open' = open
      BY <1>6 DEF Attempt, TypeOK
    <2>2. \A q \in Providers \ {p} : late'[q] = late[q] /\ Pending(q)' = Pending(q)
      BY <1>6, <2>1 DEF Attempt, Goto, Pending, TypeOK
    <2>3. late'[p] = (IF open[p] THEN late[p] + 1 ELSE late[p])
      BY <1>6, <2>1 DEF Attempt, TypeOK
    <2>4. c \in Pending(p) /\ Pending(p)' = Pending(p) \ {c}
      BY <1>6, <2>1 DEF Attempt, Goto, Pending, TypeOK
    <2>5. Pending(p) \in SUBSET Callers
      BY DEF Pending
    <2>6. /\ Cardinality(Pending(p)) \in Nat
          /\ Cardinality(Pending(p)') = Cardinality(Pending(p)) - 1
      BY <2>4, <2>5, CallerSets
    <2>7. ClosedHasNoneLate'
      BY <2>1, <2>2, <2>3 DEF ClosedHasNoneLate
    <2>8. open[p] => late'[p] + Cardinality(Pending(p)') < Cardinality(Callers)
      BY <2>1, <2>3, <2>6, CallerSets DEF HammeringBounded, TypeOK
    <2>9. ASSUME NEW q \in Providers, open'[q]
          PROVE  late'[q] + Cardinality(Pending(q)') < Cardinality(Callers)
      <3>1. CASE q = p
        BY <2>1, <2>8, <2>9, <3>1
      <3>2. CASE q # p
        <4>1. late'[q] = late[q] /\ Pending(q)' = Pending(q) /\ open[q]
          BY <2>1, <2>2, <2>9, <3>2
        <4> QED
          BY <4>1 DEF HammeringBounded
      <3> QED
        BY <3>1, <3>2
    <2> QED
      BY <2>7, <2>9 DEF HammeringBounded
  <1>7. ASSUME NEW c \in Callers, Answer(c)
        PROVE  ClosedHasNoneLate' /\ HammeringBounded'
    <2> DEFINE p == provider[c]
    <2>1. p \in Providers /\ late'[p] = 0 /\ open'[p] = FALSE
      BY <1>7 DEF Answer, TypeOK
    <2>2. \A q \in Providers \ {p} :
             late'[q] = late[q] /\ open'[q] = open[q] /\ Pending(q)' = Pending(q)
      BY <1>7 DEF Answer, Goto, Pending, TypeOK
    <2> QED
      BY <2>1, <2>2 DEF ClosedHasNoneLate, HammeringBounded
  <1>8. ASSUME NEW c \in Callers, FailTransient(c)
        PROVE  ClosedHasNoneLate' /\ HammeringBounded'
    <2> DEFINE p == provider[c]
    <2>1. p \in Providers /\ late' = late
      BY <1>8 DEF FailTransient, TypeOK
    <2>2. \A q \in Providers : Pending(q)' = Pending(q) /\ c \notin Pending(q)
      BY <1>8 DEF FailTransient, Goto, Pending, TypeOK
    <2>3. \A q \in Providers \ {p} : open'[q] = open[q]
      BY <1>8, <2>1, Zenon DEF FailTransient, CountFailure, TypeOK
    <2>4. open'[p] = (open[p] \/ failures'[p] >= Threshold)
      BY <1>8, <2>1, Zenon DEF FailTransient, CountFailure, TypeOK
    <2>5. ClosedHasNoneLate'
      BY <2>1, <2>3, <2>4, Zenon DEF ClosedHasNoneLate
    <2>6. late[p] + Cardinality(Pending(p)) < Cardinality(Callers)
      <3>1. CASE open[p]
        BY <2>1, <3>1 DEF HammeringBounded
      <3>2. CASE ~open[p]
        <4>1. late[p] = 0
          BY <2>1, <3>2 DEF ClosedHasNoneLate
        <4>2. Pending(p) \in SUBSET Callers /\ Pending(p) # Callers
          BY <2>1, <2>2 DEF Pending
        <4> QED
          BY <4>1, <4>2, CallerSets
      <3> QED
        BY <3>1, <3>2
    <2>7. ASSUME NEW q \in Providers, open'[q]
          PROVE  late'[q] + Cardinality(Pending(q)') < Cardinality(Callers)
      <3>1. CASE q = p
        BY <2>1, <2>2, <2>6, <3>1
      <3>2. CASE q # p
        <4>1. open[q]
          BY <2>3, <2>7, <3>2
        <4> QED
          BY <2>1, <2>2, <4>1 DEF HammeringBounded
      <3> QED
        BY <3>1, <3>2
    <2> QED
      BY <2>5, <2>7 DEF HammeringBounded
  <1>9. CASE UNCHANGED vars
    <2>1. \A q \in Providers : Pending(q)' \subseteq Pending(q)
      BY <1>9 DEF vars, callVars, Pending
    <2> QED
      BY <1>9, <2>1, NobodyLate DEF vars, breakerVars
  <1> QED
    BY <1>1, <1>2, <1>3, <1>4, <1>5, <1>6, <1>7, <1>8, <1>9 DEF Next, Step

\* Once a breaker is open each caller but one sends at most one more request to that
\* provider before it closes again (resilience.py, complete and _attempt_loop).
THEOREM HammeringIsBounded == Spec => []HammeringBounded
  <1>1. Spec => [](TypeOK /\ FreshTries)
    BY InitType, StepType, PTL DEF Spec
  <1> QED
    BY <1>1, InitBreaker, StepHammering, PTL DEF Spec
-----------------------------------------------------------------------------
LEMMA InitCommitted == Init => CommittedBound
  <1> SUFFICES ASSUME Init PROVE CommittedBound
    OBVIOUS
  <1>1. used.calls = 0
    BY NoUsageFacts DEF Init, InitBudget
  <1>2. Committed = {}
    BY DEF Init, Committed, Admitted, Passing
  <1> QED
    BY <1>1, <1>2, FS_EmptySet, CallerSets, LimitsAssumption DEF CommittedBound

\* Steps that record nothing and let nobody in.
LEMMA NobodyAdmitted ==
  ASSUME TypeOK, CommittedBound, used' = used, Committed' \subseteq Committed
  PROVE  CommittedBound'
  <1>1. Committed \in SUBSET Callers /\ Committed' \in SUBSET Committed
    BY DEF Committed, Admitted, Passing
  <1>2. /\ Cardinality(Committed) \in Nat /\ Cardinality(Committed') \in Nat
        /\ Cardinality(Committed') <= Cardinality(Committed)
    BY <1>1, CallerSets
  <1>3. used.calls \in Nat
    BY DEF TypeOK, BudgetTypeOK, Usage
  <1> QED
    BY <1>2, <1>3, CallerSets, LimitsAssumption DEF CommittedBound

LEMMA StepCommitted == TypeOK /\ CommittedBound /\ [Next]_vars => CommittedBound'
  <1> SUFFICES ASSUME TypeOK, CommittedBound, [Next]_vars PROVE CommittedBound'
    OBVIOUS
  <1> USE DEF Committed, Admitted, Passing, Goto
  <1>1. ASSUME NEW c \in Callers, NEW p \in Providers, NEW estimate \in Estimates,
               Begin(c, p, estimate)
        PROVE  CommittedBound'
    <2>1. used' = used /\ used \in Usage /\ estimate \in Usage /\ estimate.calls = 1
      BY <1>1, UsageAssumption DEF Begin, budgetVars, TypeOK, BudgetTypeOK
    <2>2. projected'[c].calls = used.calls + 1
      BY <1>1, <2>1, PlusFacts DEF Begin, TypeOK
    <2>3. CASE used.calls + 1 <= MaxCalls
      <3>1. Committed' \in SUBSET Callers
        OBVIOUS
      <3>2. Cardinality(Committed') \in Nat /\ Cardinality(Committed') <= Cardinality(Callers)
        BY <3>1, CallerSets
      <3> QED
        BY <2>1, <2>3, <3>2, CallerSets, LimitsAssumption DEF CommittedBound, Usage
    <2>4. CASE ~(used.calls + 1 <= MaxCalls)
      <3>1. Committed' \subseteq Committed
        BY <1>1, <2>2, <2>4 DEF Begin, TypeOK
      <3> QED
        BY <2>1, <3>1, NobodyAdmitted
    <2> QED
      BY <2>3, <2>4
  <1>2. ASSUME NEW c \in Callers, Veto(c) PROVE CommittedBound'
    <2>1. used' = used /\ Committed' \subseteq Committed
      BY <1>2 DEF Veto, Decided, TypeOK
    <2> QED
      BY <2>1, NobodyAdmitted
  <1>3. ASSUME NEW c \in Callers, Admit(c) PROVE CommittedBound'
    <2>1. c \in Passing
      BY <1>3, WithinCalls DEF Admit, TypeOK
    <2>2. used' = used /\ Committed' \subseteq Committed
      BY <1>3, <2>1 DEF Admit, Decided, TypeOK
    <2> QED
      BY <2>2, NobodyAdmitted
  <1>4. ASSUME NEW c \in Callers, Reject(c) \/ PassBreaker(c) \/ FailPermanent(c) \/ GiveUp(c)
        PROVE  CommittedBound'
    <2>1. used' = used /\ Committed' \subseteq Committed
      BY <1>4 DEF Reject, PassBreaker, FailPermanent, GiveUp, TypeOK, budgetVars
    <2> QED
      BY <2>1, NobodyAdmitted
  <1>5. ASSUME NEW c \in Callers, Attempt(c) \/ Answer(c) \/ FailTransient(c) \/ Backoff(c)
        PROVE  CommittedBound'
    <2>1. used' = used /\ Committed' \subseteq Committed
      BY <1>5 DEF Attempt, Answer, FailTransient, Backoff, TypeOK, budgetVars
    <2> QED
      BY <2>1, NobodyAdmitted
  <1>6. ASSUME NEW c \in Callers, NEW actual \in Actuals, Charge(c, actual)
        PROVE  CommittedBound'
    <2>1. used \in Usage /\ actual \in Usage /\ actual.calls = 1
      BY UsageAssumption DEF TypeOK, BudgetTypeOK
    <2>2. used.calls \in Nat /\ used'.calls = used.calls + 1
      BY <1>6, <2>1, PlusFacts DEF Charge, Add, Usage
    <2>3. c \in Committed /\ Committed' = Committed \ {c} /\ Committed \in SUBSET Callers
      BY <1>6 DEF Charge, TypeOK
    <2>4. /\ Cardinality(Committed) \in Nat
          /\ Cardinality(Committed') = Cardinality(Committed) - 1
      BY <2>3, CallerSets
    <2> QED
      BY <2>2, <2>4, CallerSets, LimitsAssumption DEF CommittedBound
  <1>7. ASSUME NEW c \in Callers, Return(c) PROVE CommittedBound'
    <2>1. used' = used /\ Committed' \subseteq Committed
      BY <1>7 DEF Return, LatchIfExceeded, TypeOK
    <2> QED
      BY <2>1, NobodyAdmitted
  <1>8. CASE UNCHANGED vars
    <2>1. used' = used /\ Committed' \subseteq Committed
      BY <1>8 DEF vars, budgetVars, callVars
    <2> QED
      BY <2>1, NobodyAdmitted
  <1> QED
    BY <1>1, <1>2, <1>3, <1>4, <1>5, <1>6, <1>7, <1>8 DEF Next, Step

\* Recorded calls and calls under way together pass the call limit by less than the
\* number of callers (limiter.py): one caller alone keeps the limit.
THEOREM OvershootIsBounded == Spec => []OvershootBound
  <1>1. Spec => [](TypeOK /\ FreshTries)
    BY InitType, StepType, PTL DEF Spec
  <1>2. TypeOK /\ CommittedBound => OvershootBound
    <2> SUFFICES ASSUME TypeOK, CommittedBound PROVE OvershootBound
      OBVIOUS
    <2>1. Admitted \in SUBSET Committed /\ Committed \in SUBSET Callers
      BY DEF Committed, Admitted, Passing
    <2>2. /\ Cardinality(Committed) \in Nat /\ Cardinality(Admitted) \in Nat
          /\ Cardinality(Admitted) <= Cardinality(Committed)
      BY <2>1, CallerSets
    <2>3. used.calls \in Nat
      BY DEF TypeOK, BudgetTypeOK, Usage
    <2> QED
      BY <2>2, <2>3, CallerSets, LimitsAssumption DEF CommittedBound, OvershootBound
  <1> QED
    BY <1>1, <1>2, InitCommitted, StepCommitted, PTL DEF Spec
-----------------------------------------------------------------------------
\* The latch and the totals, step by step.
LEMMA StepLatched == TypeOK /\ ExceededIsLatched /\ [Next]_vars => ExceededIsLatched'
  <1> SUFFICES ASSUME TypeOK, ExceededIsLatched, [Next]_vars PROVE ExceededIsLatched'
    OBVIOUS
  <1>1. ASSUME NEW c \in Callers, NEW p \in Providers, NEW estimate \in Estimates,
               Begin(c, p, estimate)
        PROVE  ExceededIsLatched'
    BY <1>1 DEF Begin, Goto, budgetVars, TypeOK, ExceededIsLatched, Exceeds
  <1>2. ASSUME NEW c \in Callers, Veto(c) PROVE ExceededIsLatched'
    BY <1>2 DEF Veto, ExceededIsLatched
  <1>3. ASSUME NEW c \in Callers,
               \/ Admit(c) \/ Reject(c) \/ PassBreaker(c) \/ Attempt(c) \/ Answer(c)
               \/ FailTransient(c) \/ FailPermanent(c) \/ GiveUp(c) \/ Backoff(c)
        PROVE  ExceededIsLatched'
    <2>1. used' = used /\ blocked' = blocked
      BY <1>3 DEF Admit, Decided, Reject, PassBreaker, Attempt, Answer, FailTransient,
                  FailPermanent, GiveUp, Backoff, budgetVars
    <2>2. ASSUME NEW d \in Callers, stage[d] = "recorded" PROVE stage'[d] = "recorded"
      BY <1>3, <2>2 DEF Admit, Reject, PassBreaker, Attempt, Answer, FailTransient,
                        FailPermanent, GiveUp, Backoff, Goto, TypeOK
    <2>3. Exceeds(used)' = Exceeds(used)
      BY <2>1 DEF Exceeds
    <2> QED
      BY <2>1, <2>2, <2>3, Zenon DEF ExceededIsLatched
  <1>4. ASSUME NEW c \in Callers, NEW actual \in Actuals, Charge(c, actual)
        PROVE  ExceededIsLatched'
    <2>1. stage'[c] = "recorded"
      BY <1>4 DEF Charge, Goto, TypeOK
    <2> QED
      BY <2>1 DEF ExceededIsLatched
  <1>5. ASSUME NEW c \in Callers, Return(c) PROVE ExceededIsLatched'
    <2>1. used' = used /\ blocked' = (blocked \/ Exceeds(used))
      BY <1>5 DEF Return, LatchIfExceeded
    <2>2. Exceeds(used)' = Exceeds(used)
      BY <2>1 DEF Exceeds
    <2> QED
      BY <2>1, <2>2, Zenon DEF ExceededIsLatched
  <1>6. CASE UNCHANGED vars
    BY <1>6 DEF vars, budgetVars, callVars, ExceededIsLatched, Exceeds
  <1> QED
    BY <1>1, <1>2, <1>3, <1>4, <1>5, <1>6 DEF Next, Step

\* Recorded usage over a limit leaves the gate latched (limiter.py, record), however
\* the records of several callers interleave.
THEOREM ExceededLatches == Spec => []ExceededIsLatched
  <1>1. Spec => [](TypeOK /\ FreshTries)
    BY InitType, StepType, PTL DEF Spec
  <1>2. Init => ExceededIsLatched
    <2> SUFFICES ASSUME Init PROVE ~Exceeds(used)
      BY DEF ExceededIsLatched
    <2> QED
      BY LimitsAssumption, RatesAssumption
         DEF Init, InitBudget, NoUsage, Exceeds, Tokens, Usd
  <1> QED
    BY <1>1, <1>2, StepLatched, PTL DEF Spec
-----------------------------------------------------------------------------
\* A provider whose breaker is open and whom no call under way can reach.
Dead(p) == open[p] /\ UnderWay(p) = {}

LEMMA StepDead ==
  ASSUME TypeOK, [Next]_vars, NEW p \in Providers, Dead(p)
  PROVE  open'[p] /\ UnderWay(p)' = {}
  <1> USE DEF TypeOK, Goto, Dead, UnderWay
  <1>1. ASSUME NEW c \in Callers, NEW q \in Providers, NEW estimate \in Estimates,
               Begin(c, q, estimate)
        PROVE  open'[p] /\ UnderWay(p)' = {}
    BY <1>1 DEF Begin, breakerVars
  <1>2. ASSUME NEW c \in Callers, Veto(c) \/ Admit(c) PROVE open'[p] /\ UnderWay(p)' = {}
    BY <1>2 DEF Veto, Admit, Decided, breakerVars
  <1>3. ASSUME NEW c \in Callers, Reject(c) \/ FailPermanent(c) \/ GiveUp(c) \/ Return(c)
        PROVE  open'[p] /\ UnderWay(p)' = {}
    BY <1>3 DEF Reject, FailPermanent, GiveUp, Return, breakerVars
  <1>4. ASSUME NEW c \in Callers, PassBreaker(c) \/ Backoff(c)
        PROVE  open'[p] /\ UnderWay(p)' = {}
    BY <1>4 DEF PassBreaker, Backoff, breakerVars
  <1>5. ASSUME NEW c \in Callers, Attempt(c) PROVE open'[p] /\ UnderWay(p)' = {}
    BY <1>5 DEF Attempt
  <1>6. ASSUME NEW c \in Callers, Answer(c) \/ FailTransient(c)
        PROVE  open'[p] /\ UnderWay(p)' = {}
    <2>1. provider[c] # p /\ provider[c] \in Providers
      BY <1>6 DEF Answer, FailTransient
    <2>2. UnderWay(p)' = {}
      BY <1>6 DEF Answer, FailTransient
    <2>3. open'[p] = open[p]
      BY <1>6, <2>1, Zenon DEF Answer, FailTransient, CountFailure
    <2> QED
      BY <2>2, <2>3
  <1>7. ASSUME NEW c \in Callers, NEW actual \in Actuals, Charge(c, actual)
        PROVE  open'[p] /\ UnderWay(p)' = {}
    BY <1>7 DEF Charge, breakerVars
  <1>8. CASE UNCHANGED vars
    BY <1>8 DEF vars, callVars, breakerVars
  <1> QED
    BY <1>1, <1>2, <1>3, <1>4, <1>5, <1>6, <1>7, <1>8 DEF Next, Step

\* An open breaker that no request under way can close stays open for good, and no
\* call reaches its provider again (circuit.py): there is no half-open state.
THEOREM DeadProvidersStayDead == Spec => DeadStaysDead
  <1>1. Spec => [](TypeOK /\ FreshTries)
    BY InitType, StepType, PTL DEF Spec
  <1>2. TypeOK /\ [Next]_vars =>
           [\A p \in Providers :
               open[p] /\ UnderWay(p) = {} => open'[p] /\ UnderWay(p)' = {}]_vars
    BY StepDead DEF Dead
  <1> QED
    BY <1>1, <1>2, PTL DEF Spec, DeadStaysDead
=============================================================================
