--------------------------- MODULE WebSearchProofs ---------------------------
(***************************************************************************)
(* Proofs about WebSearch, for any number of threads and queries and any   *)
(* limit.  A query that is not cached yet was answered only to threads     *)
(* that are about to cache it; a thread that read totals with which it     *)
(* will pass the gate counts as past it.                                   *)
(***************************************************************************)
EXTENDS WebSearch, FiniteSetTheorems, TLAPS

Step(t) ==
  \/ \E q \in Queries : Hit(t, q) \/ Miss(t, q)
  \/ Check(t) \/ Veto(t) \/ Fetch(t) \/ FetchFails(t) \/ FetchRaises(t)
  \/ Fetched(t) \/ Record(t) \/ Parse(t) \/ ParseRaises(t)

LEMMA Steps == [Next]_vars => (\E t \in Threads : Step(t)) \/ UNCHANGED vars
  BY DEF Next, Step

LEMMA UsageFacts ==
  /\ OneCall \in Usage /\ NoUsage \in Usage /\ NoUsage.calls = 0
  /\ \A u \in Usage : /\ u.calls \in Nat
                      /\ Plus(u, OneCall) \in Usage
                      /\ Plus(u, OneCall).calls = u.calls + 1
  BY DEF OneCall, Usage, NoUsage, Plus

LEMMA ThreadSets ==
  ASSUME NEW S \in SUBSET Threads
  PROVE  /\ IsFiniteSet(S) /\ Cardinality(S) \in Nat
         /\ Cardinality(Threads) \in Nat /\ Cardinality(S) <= Cardinality(Threads)
         /\ \A T \in SUBSET S : Cardinality(T) \in Nat /\ Cardinality(T) <= Cardinality(S)
         /\ \A t \in S : Cardinality(S \ {t}) = Cardinality(S) - 1
         /\ \A t : t \notin S => Cardinality(S \cup {t}) = Cardinality(S) + 1
         /\ S # Threads => Cardinality(S) < Cardinality(Threads)
  <1>1. IsFiniteSet(S) /\ Cardinality(S) \in Nat /\ Cardinality(Threads) \in Nat
        /\ Cardinality(S) <= Cardinality(Threads)
        /\ (S # Threads => Cardinality(S) < Cardinality(Threads))
    BY ThreadsAssumption, FS_Subset, FS_CardinalityType
  <1>2. \A T \in SUBSET S : Cardinality(T) \in Nat /\ Cardinality(T) <= Cardinality(S)
    BY <1>1, FS_Subset, FS_CardinalityType
  <1>3. \A t \in S : Cardinality(S \ {t}) = Cardinality(S) - 1
    BY <1>1, FS_RemoveElement
  <1>4. \A t : t \notin S => Cardinality(S \cup {t}) = Cardinality(S) + 1
    BY <1>1, FS_AddElement
  <1>5. QED
    BY <1>1, <1>2, <1>3, <1>4

-----------------------------------------------------------------------------
LEMMA InitType == Init => TypeOK
  <1> SUFFICES ASSUME Init PROVE TypeOK
    OBVIOUS
  <1>1. BudgetTypeOK /\ projected \in [Threads -> Usage]
    BY UsageFacts DEF Init, InitBudget, BudgetTypeOK
  <1>2. QED
    BY <1>1 DEF Init, TypeOK, Stages, Outcomes

LEMMA StepType == ASSUME TypeOK, [Next]_vars PROVE TypeOK'
  <1> USE UsageFacts DEF TypeOK, BudgetTypeOK, Stages, Outcomes, Goto, End
  <1>1. ASSUME NEW t \in Threads, NEW q \in Queries, Hit(t, q) \/ Miss(t, q) PROVE TypeOK'
    BY <1>1 DEF Hit, Miss, budgetVars
  <1>2. ASSUME NEW t \in Threads, Check(t) \/ Fetch(t) PROVE TypeOK'
    BY <1>2 DEF Check, Fetch, budgetVars
  <1>3. ASSUME NEW t \in Threads, Veto(t) PROVE TypeOK'
    BY <1>3 DEF Veto
  <1>4. ASSUME NEW t \in Threads, FetchFails(t) \/ FetchRaises(t) PROVE TypeOK'
    BY <1>4 DEF FetchFails, FetchRaises, budgetVars
  <1>5. ASSUME NEW t \in Threads, Fetched(t) PROVE TypeOK'
    <2>1. at' \in [Threads -> Stages] /\ UNCHANGED <<used, blocked, cache, query, projected, outcome>>
      BY <1>5 DEF Fetched, budgetVars
    <2>2. answered' \in [Queries -> Nat]
      BY <1>5 DEF Fetched
    <2>3. QED
      BY <2>1, <2>2
  <1>6. ASSUME NEW t \in Threads, Record(t) PROVE TypeOK'
    <2>1. used' \in Usage /\ UNCHANGED <<blocked, cache, query, projected, outcome, answered>>
      BY <1>6 DEF Record, Add
    <2>2. at' \in [Threads -> Stages]
      BY <1>6 DEF Record
    <2>3. QED
      BY <2>1, <2>2
  <1>7. ASSUME NEW t \in Threads, Parse(t) \/ ParseRaises(t) PROVE TypeOK'
    <2>1. blocked' \in BOOLEAN /\ used' = used
      BY <1>7 DEF Parse, ParseRaises, LatchIfExceeded
    <2>2. cache' \subseteq Queries
      BY <1>7 DEF Parse, ParseRaises
    <2>3. QED
      BY <1>7, <2>1, <2>2 DEF Parse, ParseRaises
  <1>8. CASE UNCHANGED vars
    BY <1>8 DEF vars, budgetVars, searchVars
  <1>9. QED
    BY <1>1, <1>2, <1>3, <1>4, <1>5, <1>6, <1>7, <1>8, Steps DEF Step

\* Type correctness of the search tool (web_search.py).
THEOREM TypeCorrect == Spec => []TypeOK
  BY InitType, StepType, PTL DEF Spec

-----------------------------------------------------------------------------
\* Threads that hold a well-formed answer for q and have not cached it yet.
Holding(q) == {t \in Threads : query[t] = q /\ at[t] \in {"fetched", "recorded"}}

Uncached == \A q \in Queries : q \notin cache => answered[q] <= Cardinality(Holding(q))
Cached   == \A q \in cache : answered[q] + Cardinality(Fetching(q)) <= Cardinality(Threads)

LEMMA StepAnswered ==
  ASSUME TypeOK, TypeOK', Uncached, Cached, [Next]_vars
  PROVE  Uncached' /\ Cached'
  <1> USE DEF TypeOK, Goto, End
  \* Nothing is answered or cached, and threads hold what they held.
  <1>1. ASSUME NEW q \in Queries, answered'[q] = answered[q], q \in cache' <=> q \in cache,
               Holding(q) \subseteq Holding(q)',
               q \in cache => Fetching(q)' \subseteq Fetching(q)
        PROVE  /\ q \notin cache' => answered'[q] <= Cardinality(Holding(q)')
               /\ q \in cache' => answered'[q] + Cardinality(Fetching(q)') <= Cardinality(Threads)
    <2>1. PICK h, f : h = Holding(q)' /\ f = Fetching(q)'
      OBVIOUS
    <2>2. Cardinality(Holding(q)') = Cardinality(h) /\ Cardinality(Fetching(q)') = Cardinality(f)
      BY <2>1
    <2>3. h \in SUBSET Threads /\ f \in SUBSET Threads /\ Fetching(q) \in SUBSET Threads
          /\ Holding(q) \in SUBSET h
      BY <1>1, <2>1 DEF Holding, Fetching
    <2>4. Cardinality(Holding(q)) \in Nat /\ Cardinality(h) \in Nat
          /\ Cardinality(Holding(q)) <= Cardinality(h)
      BY <2>3, ThreadSets
    <2>5. q \in cache => /\ Cardinality(f) \in Nat /\ Cardinality(Fetching(q)) \in Nat
                         /\ Cardinality(f) <= Cardinality(Fetching(q))
      BY <1>1, <2>1, <2>3, ThreadSets
    <2>6. answered[q] \in Nat /\ Cardinality(Threads) \in Nat
      BY <2>3, ThreadSets
    <2>7. QED
      BY <1>1, <2>2, <2>4, <2>5, <2>6 DEF Uncached, Cached
  <1>2. ASSUME answered' = answered, cache' = cache,
               \A q \in Queries : /\ Holding(q) \subseteq Holding(q)'
                                  /\ q \in cache => Fetching(q)' \subseteq Fetching(q)
        PROVE  Uncached' /\ Cached'
    BY <1>1, <1>2 DEF Uncached, Cached
  <1>3. ASSUME NEW t \in Threads, NEW q \in Queries, Hit(t, q) \/ Miss(t, q)
        PROVE  Uncached' /\ Cached'
    <2>1. \A r \in Queries : /\ Holding(r) \subseteq Holding(r)'
                             /\ r \in cache => Fetching(r)' \subseteq Fetching(r)
      BY <1>3 DEF Hit, Miss, Holding, Fetching
    <2>2. answered' = answered /\ cache' = cache
      BY <1>3 DEF Hit, Miss
    <2>3. QED
      BY <1>2, <2>1, <2>2
  <1>4. ASSUME NEW t \in Threads,
               Check(t) \/ Veto(t) \/ Fetch(t) \/ FetchFails(t) \/ FetchRaises(t)
               \/ Record(t) \/ ParseRaises(t)
        PROVE  Uncached' /\ Cached'
    <2>1. \A r \in Queries : Holding(r) \subseteq Holding(r)' /\ Fetching(r)' \subseteq Fetching(r)
      BY <1>4 DEF Check, Veto, Fetch, FetchFails, FetchRaises, Record, ParseRaises, Holding, Fetching
    <2>2. answered' = answered /\ cache' = cache
      BY <1>4 DEF Check, Veto, Fetch, FetchFails, FetchRaises, Record, ParseRaises
    <2>3. QED
      BY <1>2, <2>1, <2>2
  <1>5. ASSUME NEW t \in Threads, Fetched(t) PROVE Uncached' /\ Cached'
    <2>1. CASE at' = [at EXCEPT ![t] = "malformed"]
      <3>1. answered' = answered /\ cache' = cache /\ query' = query /\ at[t] = "fetching"
        BY <1>5, <2>1 DEF Fetched
      <3>2. \A r \in Queries : Holding(r) \subseteq Holding(r)' /\ Fetching(r)' \subseteq Fetching(r)
        BY <2>1, <3>1 DEF Holding, Fetching
      <3>3. QED
        BY <1>2, <3>1, <3>2
    <2>2. CASE at' # [at EXCEPT ![t] = "malformed"]
      <3>1. /\ at[t] = "fetching" /\ at' = [at EXCEPT ![t] = "fetched"]
            /\ answered' = [answered EXCEPT ![query[t]] = @ + 1]
            /\ cache' = cache /\ query' = query
        BY <1>5, <2>2 DEF Fetched
      <3>2. PICK q \in Queries : q = query[t]
        OBVIOUS
      <3>3. ASSUME NEW r \in Queries
            PROVE  /\ r \notin cache' => answered'[r] <= Cardinality(Holding(r)')
                   /\ r \in cache' => answered'[r] + Cardinality(Fetching(r)') <= Cardinality(Threads)
        <4>1. CASE r = q
          <5>1. /\ t \notin Holding(r) /\ Holding(r)' = Holding(r) \cup {t}
                /\ t \in Fetching(r) /\ Fetching(r)' = Fetching(r) \ {t}
                /\ answered'[r] = answered[r] + 1
            BY <3>1, <3>2, <4>1 DEF Holding, Fetching
          <5>2. Holding(r) \in SUBSET Threads /\ Fetching(r) \in SUBSET Threads
            BY DEF Holding, Fetching
          <5>3. /\ Cardinality(Holding(r)') = Cardinality(Holding(r)) + 1
                /\ Cardinality(Fetching(r)') = Cardinality(Fetching(r)) - 1
            BY <5>1, <5>2, ThreadSets
          <5>4. /\ Cardinality(Holding(r)) \in Nat /\ Cardinality(Fetching(r)) \in Nat
                /\ answered[r] \in Nat /\ Cardinality(Threads) \in Nat
            BY <5>2, ThreadSets
          <5>5. QED
            BY <3>1, <5>1, <5>3, <5>4 DEF Uncached, Cached
        <4>2. CASE r # q
          <5>1. /\ Holding(r) \subseteq Holding(r)' /\ Fetching(r)' \subseteq Fetching(r)
                /\ answered'[r] = answered[r] /\ (r \in cache' <=> r \in cache)
            BY <3>1, <3>2, <4>2 DEF Holding, Fetching
          <5>2. QED
            BY <1>1, <5>1
        <4>3. QED
          BY <4>1, <4>2
      <3>4. QED
        BY <3>1, <3>3 DEF Uncached, Cached
    <2>3. QED
      BY <2>1, <2>2
  <1>6. ASSUME NEW t \in Threads, Parse(t) PROVE Uncached' /\ Cached'
    <2>1. /\ at[t] = "recorded" /\ at' = [at EXCEPT ![t] = "idle"]
          /\ cache' = cache \cup {query[t]} /\ answered' = answered /\ query' = query
      BY <1>6 DEF Parse
    <2>2. PICK q \in Queries : q = query[t]
      OBVIOUS
    <2>3. \A r \in Queries : Fetching(r)' = Fetching(r)
      BY <2>1 DEF Fetching
    <2>4. ASSUME NEW r \in Queries
          PROVE  /\ r \notin cache' => answered'[r] <= Cardinality(Holding(r)')
                 /\ r \in cache' => answered'[r] + Cardinality(Fetching(r)') <= Cardinality(Threads)
      <3>1. CASE r = q /\ q \notin cache
        <4>1. Holding(r) \cap Fetching(r) = {} /\ Holding(r) \cup Fetching(r) \in SUBSET Threads
              /\ Holding(r) \in SUBSET Threads /\ Fetching(r) \in SUBSET Threads
          BY DEF Holding, Fetching
        <4>2. Cardinality(Holding(r) \cup Fetching(r))
                = Cardinality(Holding(r)) + Cardinality(Fetching(r))
                  - Cardinality(Holding(r) \cap Fetching(r))
          BY <4>1, ThreadSets, FS_Union
        <4>3. Cardinality(Holding(r) \cap Fetching(r)) = 0
          BY <4>1, FS_EmptySet
        <4>4. Cardinality(Holding(r) \cup Fetching(r)) <= Cardinality(Threads)
          BY <4>1, ThreadSets
        <4>5. /\ Cardinality(Holding(r)) \in Nat /\ Cardinality(Fetching(r)) \in Nat
              /\ Cardinality(Threads) \in Nat
          BY <4>1, ThreadSets
        <4>6. answered[r] \in Nat /\ answered[r] <= Cardinality(Holding(r))
          BY <3>1 DEF Uncached
        <4>7. r \in cache' /\ answered'[r] = answered[r] /\ Fetching(r)' = Fetching(r)
          BY <2>1, <2>2, <2>3, <3>1
        <4>8. QED
          BY <4>2, <4>3, <4>4, <4>5, <4>6, <4>7
      <3>2. CASE q \in cache \/ r # q
        <4>1. (r \in cache' <=> r \in cache) /\ answered'[r] = answered[r]
          BY <2>1, <2>2, <3>2
        <4>2. r \notin cache => Holding(r) \subseteq Holding(r)'
          BY <2>1, <2>2, <3>2 DEF Holding
        <4>3. CASE r \in cache
          BY <2>3, <4>1, <4>3 DEF Cached
        <4>4. CASE r \notin cache
          BY <1>1, <2>3, <4>1, <4>2, <4>4
        <4>5. QED
          BY <4>3, <4>4
      <3>3. QED
        BY <3>1, <3>2
    <2>5. cache' \subseteq Queries
      OBVIOUS
    <2>6. QED
      BY <2>4, <2>5 DEF Uncached, Cached
  <1>7. CASE UNCHANGED vars
    <2>1. /\ answered' = answered /\ cache' = cache
          /\ \A q \in Queries : /\ Holding(q) \subseteq Holding(q)'
                                /\ Fetching(q)' \subseteq Fetching(q)
      BY <1>7 DEF vars, searchVars, Holding, Fetching
    <2>2. QED
      BY <1>2, <2>1
  <1>8. QED
    BY <1>3, <1>4, <1>5, <1>6, <1>7, Steps DEF Step

\* Of well-formed answers to a query there are never more than threads (web_search.py,
\* search).
THEOREM AnswersAreBounded == Spec => []AnsweredOncePerThread
  <1>1. Init => Uncached /\ Cached
    <2> SUFFICES ASSUME Init PROVE Uncached /\ Cached
      OBVIOUS
    <2>1. cache = {} /\ \A q \in Queries : answered[q] = 0 /\ Holding(q) \in SUBSET Threads
      BY DEF Init, Holding
    <2>2. \A q \in Queries : Cardinality(Holding(q)) \in Nat
      BY <2>1, ThreadSets
    <2>3. QED
      BY <2>1, <2>2 DEF Uncached, Cached
  <1>2. TypeOK /\ TypeOK' /\ Uncached /\ Cached /\ [Next]_vars => (Uncached /\ Cached)'
    BY StepAnswered
  <1>3. TypeOK /\ Uncached /\ Cached => AnsweredOncePerThread
    <2> SUFFICES ASSUME TypeOK, Uncached, Cached, NEW q \in Queries
                 PROVE  /\ answered[q] <= Cardinality(Threads)
                        /\ q \in cache => answered[q] + Cardinality(Fetching(q)) <= Cardinality(Threads)
      BY DEF AnsweredOncePerThread
    <2>1. Holding(q) \in SUBSET Threads /\ Fetching(q) \in SUBSET Threads
      BY DEF Holding, Fetching
    <2>2. /\ Cardinality(Holding(q)) \in Nat /\ Cardinality(Holding(q)) <= Cardinality(Threads)
          /\ Cardinality(Fetching(q)) \in Nat /\ Cardinality(Threads) \in Nat
      BY <2>1, ThreadSets
    <2>3. answered[q] \in Nat
      BY DEF TypeOK
    <2>4. QED
      BY <2>2, <2>3 DEF Uncached, Cached
  <1>4. QED
    BY <1>1, <1>2, <1>3, TypeCorrect, PTL DEF Spec

-----------------------------------------------------------------------------
\* Threads whose answer was recorded and is being parsed.
Parsing == {t \in Threads : at[t] \in {"recorded", "unusable"}}

Charged == IsFiniteSet(cache) /\ Cardinality(cache) + Cardinality(Parsing) <= used.calls

\* Threads that were let through, or read totals with which they will be.
Passing   == {t \in Threads : at[t] = "checking" /\ projected[t].calls <= MaxCalls}
Requested == {t \in Threads : at[t] \in {"fetching", "fetched", "malformed"}}
Committed == Requested \cup Passing

Bound == used.calls + Cardinality(Committed) <= MaxCalls + Cardinality(Threads) - 1

LEMMA StepCharged ==
  ASSUME TypeOK, Charged, [Next]_vars
  PROVE  Charged'
  <1> USE DEF TypeOK, Goto, End
  <1>1. Parsing \in SUBSET Threads
    BY DEF Parsing
  <1>2. PICK calls \in Nat : calls = used.calls
    BY UsageFacts DEF BudgetTypeOK
  <1>3. Cardinality(Parsing) \in Nat /\ Cardinality(cache) \in Nat
    BY <1>1, ThreadSets, FS_CardinalityType DEF Charged
  <1>4. ASSUME NEW t \in Threads, NEW q \in Queries, Hit(t, q) \/ Miss(t, q) PROVE Charged'
    <2>1. Parsing' = Parsing /\ cache' = cache /\ used' = used
      BY <1>4 DEF Hit, Miss, budgetVars, Parsing
    <2>2. QED
      BY <2>1 DEF Charged
  <1>5. ASSUME NEW t \in Threads,
               Check(t) \/ Veto(t) \/ Fetch(t) \/ FetchFails(t) \/ FetchRaises(t) \/ Fetched(t)
        PROVE  Charged'
    <2>1. Parsing' = Parsing /\ cache' = cache /\ used' = used
      BY <1>5 DEF Check, Veto, Fetch, FetchFails, FetchRaises, Fetched, budgetVars, Parsing
    <2>2. QED
      BY <2>1 DEF Charged
  <1>6. ASSUME NEW t \in Threads, Record(t) PROVE Charged'
    <2>1. t \notin Parsing /\ Parsing' = Parsing \cup {t} /\ cache' = cache
          /\ used' = Plus(used, OneCall)
      BY <1>6 DEF Record, Add, Parsing
    <2>2. used'.calls = calls + 1
      BY <1>2, <2>1, UsageFacts DEF BudgetTypeOK
    <2>3. Cardinality(Parsing') = Cardinality(Parsing) + 1
      BY <1>1, <2>1, ThreadSets
    <2>4. QED
      BY <1>2, <1>3, <2>1, <2>2, <2>3 DEF Charged
  <1>7. ASSUME NEW t \in Threads, Parse(t) \/ ParseRaises(t) PROVE Charged'
    <2>1. PICK q : q = query[t]
      OBVIOUS
    <2>2. /\ t \in Parsing /\ Parsing' = Parsing \ {t} /\ used' = used
          /\ cache' = cache \/ cache' = cache \cup {q}
      BY <1>7, <2>1 DEF Parse, ParseRaises, LatchIfExceeded, Parsing
    <2>3. IsFiniteSet(cache') /\ Cardinality(cache') <= Cardinality(cache) + 1
      <3>1. /\ IsFiniteSet(cache \cup {q})
            /\ Cardinality(cache \cup {q}) = Cardinality(cache)
               \/ Cardinality(cache \cup {q}) = Cardinality(cache) + 1
        BY FS_AddElement DEF Charged
      <3>2. CASE cache' = cache
        BY <1>3, <3>2 DEF Charged
      <3>3. CASE cache' = cache \cup {q}
        BY <1>3, <3>1, <3>3
      <3>4. QED
        BY <2>2, <3>2, <3>3
    <2>4. Cardinality(cache') \in Nat
      BY <2>3, FS_CardinalityType
    <2>5. Cardinality(Parsing') = Cardinality(Parsing) - 1
      BY <1>1, <2>2, ThreadSets
    <2>6. QED
      BY <1>2, <1>3, <2>2, <2>3, <2>4, <2>5 DEF Charged
  <1>8. CASE UNCHANGED vars
    <2>1. Parsing' = Parsing /\ cache' = cache /\ used' = used
      BY <1>8 DEF vars, searchVars, budgetVars, Parsing
    <2>2. QED
      BY <2>1 DEF Charged
  <1>9. QED
    BY <1>4, <1>5, <1>6, <1>7, <1>8, Steps DEF Step

LEMMA StepBound ==
  ASSUME TypeOK, TypeOK', Bound, [Next]_vars
  PROVE  Bound'
  <1> USE DEF TypeOK, Goto, End
  <1>1. Committed \in SUBSET Threads
    BY DEF Committed, Requested, Passing
  <1>2. PICK calls \in Nat : calls = used.calls
    BY UsageFacts DEF BudgetTypeOK
  <1>3. Cardinality(Committed) \in Nat /\ Cardinality(Threads) \in Nat
    BY <1>1, ThreadSets
  <1>4. ASSUME used' = used, Committed' \subseteq Committed PROVE Bound'
    <2>1. Cardinality(Committed') \in Nat /\ Cardinality(Committed') <= Cardinality(Committed)
      BY <1>1, <1>4, ThreadSets
    <2>2. QED
      BY <1>2, <1>3, <1>4, <2>1, LimitsAssumption DEF Bound
  <1>5. ASSUME NEW t \in Threads, NEW q \in Queries, Hit(t, q) \/ Miss(t, q) PROVE Bound'
    <2>1. Committed' \subseteq Committed /\ used' = used
      BY <1>5 DEF Hit, Miss, budgetVars, Committed, Requested, Passing
    <2>2. QED
      BY <1>4, <2>1
  <1>6. ASSUME NEW t \in Threads,
               Veto(t) \/ FetchFails(t) \/ FetchRaises(t) \/ Fetched(t) \/ Parse(t) \/ ParseRaises(t)
        PROVE  Bound'
    <2>1. Committed' \subseteq Committed
      BY <1>6 DEF Veto, FetchFails, FetchRaises, Fetched, Parse, ParseRaises, Committed,
         Requested, Passing
    <2>2. used' = used
      BY <1>6 DEF Veto, FetchFails, FetchRaises, Fetched, Parse, ParseRaises, LatchIfExceeded,
         budgetVars
    <2>3. QED
      BY <1>4, <2>1, <2>2
  <1>7. ASSUME NEW t \in Threads, Check(t) PROVE Bound'
    <2>1. /\ used' = used /\ at[t] = "miss" /\ at' = [at EXCEPT ![t] = "checking"]
          /\ projected' = [projected EXCEPT ![t] = Plus(used, OneCall)]
      BY <1>7 DEF Check, budgetVars
    <2>2. Plus(used, OneCall).calls = calls + 1
      BY <1>2, UsageFacts DEF BudgetTypeOK
    <2>3. t \notin Committed /\ Committed' \subseteq Committed \cup {t}
      BY <2>1 DEF Committed, Requested, Passing
    <2>4. CASE calls + 1 <= MaxCalls
      <3>1. Cardinality(Committed) < Cardinality(Threads)
        BY <1>1, <2>3, ThreadSets
      <3>2. Cardinality(Committed \cup {t}) = Cardinality(Committed) + 1
            /\ Committed \cup {t} \in SUBSET Threads
        BY <1>1, <2>3, ThreadSets
      <3>3. Cardinality(Committed') \in Nat
            /\ Cardinality(Committed') <= Cardinality(Committed) + 1
        BY <2>3, <3>2, ThreadSets
      <3>4. QED
        BY <1>2, <1>3, <2>1, <2>4, <3>1, <3>3, LimitsAssumption DEF Bound
    <2>5. CASE ~(calls + 1 <= MaxCalls)
      <3>1. Committed' \subseteq Committed
        BY <2>1, <2>2, <2>5 DEF Committed, Requested, Passing
      <3>2. QED
        BY <1>4, <2>1, <3>1
    <2>6. QED
      BY <2>4, <2>5
  <1>8. ASSUME NEW t \in Threads, Fetch(t) PROVE Bound'
    <2>1. projected[t].calls <= MaxCalls
      <3>1. ~(projected[t].calls > MaxCalls) /\ projected[t] \in Usage
        BY <1>8, Zenon DEF Fetch, Exceeds
      <3>2. QED
        BY <3>1, LimitsAssumption, UsageFacts
    <2>2. Committed' \subseteq Committed /\ used' = used
      BY <1>8, <2>1 DEF Fetch, budgetVars, Committed, Requested, Passing
    <2>3. QED
      BY <1>4, <2>2
  <1>9. ASSUME NEW t \in Threads, Record(t) PROVE Bound'
    <2>1. t \in Committed /\ Committed' = Committed \ {t} /\ used' = Plus(used, OneCall)
      BY <1>9 DEF Record, Add, Committed, Requested, Passing
    <2>2. used'.calls = calls + 1
      BY <1>2, <2>1, UsageFacts DEF BudgetTypeOK
    <2>3. Cardinality(Committed') = Cardinality(Committed) - 1
      BY <1>1, <2>1, ThreadSets
    <2>4. QED
      BY <1>2, <1>3, <2>2, <2>3, LimitsAssumption DEF Bound
  <1>10. CASE UNCHANGED vars
    <2>1. Committed' \subseteq Committed /\ used' = used
      BY <1>10 DEF vars, searchVars, budgetVars, Committed, Requested, Passing
    <2>2. QED
      BY <1>4, <2>1
  <1>11. QED
    BY <1>5, <1>6, <1>7, <1>8, <1>9, <1>10, Steps DEF Step

LEMMA InitCounts == Init => Charged /\ Bound
  <1> SUFFICES ASSUME Init PROVE Charged /\ Bound
    OBVIOUS
  <1>1. used.calls = 0 /\ cache = {} /\ Parsing = {} /\ Committed = {}
    BY UsageFacts DEF Init, InitBudget, Parsing, Committed, Requested, Passing
  <1>2. IsFiniteSet({}) /\ Cardinality({}) = 0
    BY FS_EmptySet
  <1>3. Cardinality(Threads) \in Nat /\ Cardinality(Threads) >= 1
    BY <1>2, ThreadsAssumption, ThreadSets
  <1>4. QED
    BY <1>1, <1>2, <1>3, LimitsAssumption DEF Charged, Bound

\* Whatever is cached or about to be parsed has been recorded (web_search.py, search).
THEOREM CacheIsPaid == Spec => []CachedIsCharged
  <1>1. TypeOK /\ Charged => CachedIsCharged
    <2> SUFFICES ASSUME TypeOK, Charged PROVE CachedIsCharged
      OBVIOUS
    <2>1. Cardinality(cache) \in Nat /\ Cardinality(Parsing) \in Nat /\ used.calls \in Nat
      BY ThreadSets, FS_CardinalityType, UsageFacts DEF Charged, Parsing, TypeOK, BudgetTypeOK
    <2>2. QED
      BY <2>1 DEF Charged, CachedIsCharged, Parsing
  <1>2. Spec => []Charged
    <2>1. TypeOK /\ Charged /\ [Next]_vars => Charged'
      BY StepCharged
    <2>2. QED
      BY InitCounts, <2>1, TypeCorrect, PTL DEF Spec
  <1>3. QED
    BY <1>1, <1>2, TypeCorrect, PTL

\* Searches pass the limit by less than the number of threads (limiter.py).
THEOREM SearchesBounded == Spec => []SearchOvershoot
  <1>1. TypeOK /\ Bound => SearchOvershoot
    <2> SUFFICES ASSUME TypeOK, Bound PROVE SearchOvershoot
      OBVIOUS
    <2>1. Committed \in SUBSET Threads /\ Requested \in SUBSET Committed
      BY DEF Committed, Requested, Passing
    <2>2. /\ Cardinality(Committed) \in Nat /\ Cardinality(Requested) \in Nat
          /\ Cardinality(Requested) <= Cardinality(Committed)
          /\ Cardinality(Threads) \in Nat /\ used.calls \in Nat
      BY <2>1, ThreadSets, UsageFacts DEF TypeOK, BudgetTypeOK
    <2>3. QED
      BY <2>2, LimitsAssumption DEF Bound, SearchOvershoot, Requested
  <1>2. Spec => []Bound
    <2>1. TypeOK /\ TypeOK' /\ Bound /\ [Next]_vars => Bound'
      BY StepBound
    <2>2. QED
      BY InitCounts, <2>1, TypeCorrect, PTL DEF Spec
  <1>3. QED
    BY <1>1, <1>2, TypeCorrect, PTL
=============================================================================
