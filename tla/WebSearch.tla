----------------------------- MODULE WebSearch ------------------------------
(***************************************************************************)
(* WebSearchTool.search: the one web tool that both debaters share, called *)
(* by the watchdog's current worker and by the workers it abandoned.  The  *)
(* cache is looked up before the request and filled after it, without a    *)
(* lock.  A query stands for its results; the sanitizer is not modelled.   *)
(***************************************************************************)
EXTENDS Gatekeeper, FiniteSets

CONSTANTS
    Threads,     \* the threads that search
    Queries      \* one per side and topic

ASSUME ThreadsAssumption == IsFiniteSet(Threads) /\ Threads # {}

VARIABLES
    cache,      \* WebSearchTool._cache: the queries it holds
    at,         \* where each thread is in search
    query,      \* what it searches for
    projected,  \* while it is checked: the totals it read plus its call
    outcome,    \* what its last search gave: results, nothing, or an exception
    answered    \* history: the well-formed answers to each query

searchVars  == <<at, query, projected, outcome>>
vars == <<budgetVars, cache, searchVars, answered>>

Stages   == {"idle", "miss", "checking", "fetching", "fetched", "malformed",
             "recorded", "unusable"}
Outcomes == {"none", "results", "empty", "raised"}

OneCall == [calls |-> 1, input |-> 0, output |-> 0]

Goto(t, s) == at' = [at EXCEPT ![t] = s]

Init ==
    /\ InitBudget
    /\ cache = {}
    /\ at = [t \in Threads |-> "idle"]
    /\ query \in [Threads -> Queries]
    /\ projected = [t \in Threads |-> NoUsage]
    /\ outcome = [t \in Threads |-> "none"]
    /\ answered = [q \in Queries |-> 0]

\* The search is over.
End(t, what) ==
    /\ Goto(t, "idle")
    /\ outcome' = [outcome EXCEPT ![t] = what]
    /\ projected' = [projected EXCEPT ![t] = NoUsage]
    /\ UNCHANGED query

-----------------------------------------------------------------------------
\* A cached query costs nothing: no request, no charge.
Hit(t, q) ==
    /\ at[t] = "idle"
    /\ q \in cache
    /\ outcome' = [outcome EXCEPT ![t] = "results"]
    /\ query' = [query EXCEPT ![t] = q]
    /\ UNCHANGED <<budgetVars, cache, at, projected, answered>>

Miss(t, q) ==
    /\ at[t] = "idle"
    /\ q \notin cache
    /\ Goto(t, "miss")
    /\ query' = [query EXCEPT ![t] = q]
    /\ UNCHANGED <<budgetVars, cache, projected, outcome, answered>>

\* The egress policy accepts the endpoint and the gate reads the totals ...
Check(t) ==
    /\ at[t] = "miss"
    /\ Goto(t, "checking")
    /\ projected' = [projected EXCEPT ![t] = Plus(used, OneCall)]
    /\ UNCHANGED <<budgetVars, cache, query, outcome, answered>>

\* ... and vetoes: the search degrades to no results, the gate stays latched.
Veto(t) ==
    /\ at[t] = "checking"
    /\ Exceeds(projected[t])
    /\ blocked' = TRUE
    /\ End(t, "empty")
    /\ UNCHANGED <<used, cache, answered>>

\* _fetch: the request goes out.
Fetch(t) ==
    /\ at[t] = "checking"
    /\ ~Exceeds(projected[t])
    /\ Goto(t, "fetching")
    /\ UNCHANGED <<budgetVars, cache, query, projected, outcome, answered>>

\* Mutant: the handler only logs, so search returns Python's None.
FetchFailsWithNone(t) ==
    /\ at[t] = "fetching"
    /\ End(t, "None")
    /\ UNCHANGED <<budgetVars, cache, answered>>

\* A transport, status or JSON error degrades: not recorded and not cached.
FetchFails(t) ==
    /\ at[t] = "fetching"
    /\ End(t, "empty")
    /\ UNCHANGED <<budgetVars, cache, answered>>

\* The answer is JSON, but not an object: resp.json().get is outside _DEGRADE.
FetchRaises(t) ==
    /\ at[t] = "fetching"
    /\ End(t, "raised")
    /\ UNCHANGED <<budgetVars, cache, answered>>

\* "results" is there: a list of objects, or something parse_results cannot
\* iterate over or read.
Fetched(t) ==
    /\ at[t] = "fetching"
    /\ \/ Goto(t, "fetched") /\ answered' = [answered EXCEPT ![query[t]] = @ + 1]
       \/ Goto(t, "malformed") /\ UNCHANGED answered
    /\ UNCHANGED <<budgetVars, cache, query, projected, outcome>>

\* Mutant: only usable answers are recorded.
RecordUsable(t) ==
    /\ \/ at[t] = "fetched" /\ Goto(t, "recorded") /\ Add(OneCall)
       \/ at[t] = "malformed" /\ Goto(t, "unusable") /\ UNCHANGED budgetVars
    /\ UNCHANGED <<cache, query, projected, outcome, answered>>

\* Gatekeeper.record, before the answer is parsed.
Record(t) ==
    /\ \/ at[t] = "fetched" /\ Goto(t, "recorded")
       \/ at[t] = "malformed" /\ Goto(t, "unusable")
    /\ Add(OneCall)
    /\ UNCHANGED <<cache, query, projected, outcome, answered>>

\* Mutant: the answer is cached under no query.
ParseUncached(t) ==
    /\ at[t] = "recorded"
    /\ LatchIfExceeded
    /\ End(t, "results")
    /\ UNCHANGED <<cache, answered>>

\* parse_results, cache and return.
Parse(t) ==
    /\ at[t] = "recorded"
    /\ LatchIfExceeded
    /\ cache' = cache \cup {query[t]}
    /\ End(t, "results")
    /\ UNCHANGED answered

\* parse_results raises on null results or on an entry that is no object; the
\* call was paid, nothing is cached.
ParseRaises(t) ==
    /\ at[t] = "unusable"
    /\ LatchIfExceeded
    /\ End(t, "raised")
    /\ UNCHANGED <<cache, answered>>

-----------------------------------------------------------------------------
Next ==
    \E t \in Threads :
        \/ \E q \in Queries : Hit(t, q) \/ Miss(t, q)
        \/ Check(t)
        \/ Veto(t)
        \/ Fetch(t)
        \/ FetchFails(t)
        \/ FetchRaises(t)
        \/ Fetched(t)
        \/ Record(t)
        \/ Parse(t)
        \/ ParseRaises(t)

Spec == Init /\ [][Next]_vars

-----------------------------------------------------------------------------
\* Every variable has its type; a search that does not raise gives a list, if an empty
\* one (web_search.py).
TypeOK ==
    /\ BudgetTypeOK
    /\ cache \subseteq Queries
    /\ at \in [Threads -> Stages]
    /\ query \in [Threads -> Queries]
    /\ projected \in [Threads -> Usage]
    /\ outcome \in [Threads -> Outcomes]
    /\ answered \in [Queries -> Nat]

\* Threads past the look-up of q that may still bring a well-formed answer.
Fetching(q) ==
    {t \in Threads : query[t] = q /\ at[t] \in {"miss", "checking", "fetching"}}

\* What the unlocked cache guarantees (web_search.py, search): of well-formed
\* answers for one query there are never more than threads, because each thread
\* caches its answer before it looks the query up again.
AnsweredOncePerThread ==
    \A q \in Queries :
        /\ answered[q] <= Cardinality(Threads)
        /\ q \in cache => answered[q] + Cardinality(Fetching(q)) <= Cardinality(Threads)

\* Nothing is cached or handed on before it was paid for (web_search.py, search):
\* there are at least as many recorded calls as cached queries and answers being
\* parsed, whatever order the threads come in.
CachedIsCharged ==
    used.calls >= Cardinality(cache)
                  + Cardinality({t \in Threads : at[t] \in {"recorded", "unusable"}})

\* The gate's guarantee for searches: recorded calls plus requests under way pass
\* the limit by less than the number of threads (limiter.py).
SearchOvershoot ==
    used.calls + Cardinality({t \in Threads : at[t] \in {"fetching", "fetched", "malformed"}})
        <= MaxCalls + Cardinality(Threads) - 1

-----------------------------------------------------------------------------
\* What the documentation says, and the code does not do.

\* "Any failure degrades to an empty result list (logged) so the debate continues"
\* (web_search.py:6-8).
FailuresDegrade == \A t \in Threads : outcome[t] # "raised"
=============================================================================
