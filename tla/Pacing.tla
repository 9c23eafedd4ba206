-------------------------------- MODULE Pacing --------------------------------
(***************************************************************************)
(* The clocks of a guarded call, at the values config.yaml gives them: how *)
(* long ResilientProvider waits for an answer and pauses before a retry,   *)
(* against how long Watchdog waits for the whole turn.  The provider goes  *)
(* down once, for some time; while it is down it refuses a request at once *)
(* (a rate limit) or leaves it unanswered, otherwise it answers within     *)
(* Latency.  One agent's turns are followed, one after the other, with the *)
(* threads abandoned on the way; budget and content are in other modules.  *)
(*                                                                         *)
(* Time passes in units (of ten seconds, for the values of config.yaml),   *)
(* and only when nothing is due.                                           *)
(***************************************************************************)
EXTENDS Integers, FiniteSets

CONSTANTS
    Search,       \* config.search.request_seconds, the limit of each network operation
    Request,      \* config.timeouts.request_seconds
    Retries,      \* config.timeouts.retries
    Backoff,      \* config.timeouts.backoff_seconds
    Threshold,    \* config.timeouts.circuit_breaker_threshold
    Keepalive,    \* config.watchdog.keepalive_seconds
    MaxRestarts,  \* config.watchdog.max_restarts
    Latency,      \* the longest a provider that is up takes to answer
    Searches,     \* how long a search can take: no limit of the program bounds it
    Window,       \* the provider's rate window, in which it refuses requests
    Turns,        \* bound on the turns followed
    Longest       \* bound on the length of the outage

\* What config/schema.py asks of the configuration, with times in whole units.
TimeoutsConfig == Request > 0 /\ Retries >= 0 /\ Backoff >= 0 /\ Threshold >= 1
WatchdogConfig == Keepalive > 0 /\ MaxRestarts >= 0
SearchConfig   == Search > 0

ASSUME UnitsAssumption ==
    {Search, Request, Retries, Backoff, Threshold, Keepalive, MaxRestarts} \subseteq Int
ASSUME ConfigAssumption == TimeoutsConfig /\ WatchdogConfig /\ SearchConfig
ASSUME WorldAssumption ==
    /\ Latency \in 0..(Request - 1) /\ Searches \subseteq Nat /\ Window \in Nat
    /\ Turns \in Nat \ {0} /\ Longest \in Nat

Workers == (1..Turns) \X (0..MaxRestarts)

VARIABLES
    main,      \* where the engine's thread is in Watchdog.run
    turn,      \* the turn it is in
    attempt,   \* its failed attempts at it
    patience,  \* how long it still waits for the thread it joins
    stage,     \* where each thread is in ResilientProvider.complete
    left,      \* how long it stays there
    tries,     \* its failed requests
    failures,  \* CircuitBreaker._failures
    open,      \* CircuitBreaker._open
    outage,    \* "ahead", "on" or "over"
    lasted,    \* history: for how long the provider was down
    hung,      \* history: whether it left a request unanswered
    slow       \* history: whether a search took longer than one operation may

engineVars  == <<main, turn, attempt, patience>>
threadVars  == <<stage, left, tries>>
breakerVars == <<failures, open>>
worldVars   == <<outage, lasted, hung, slow>>
vars        == <<engineVars, threadVars, breakerVars, worldVars>>

Current == <<turn, attempt>>

Init ==
    /\ main = "start" /\ turn = 1 /\ attempt = 0 /\ patience = 0
    /\ stage = [w \in Workers |-> "none"]
    /\ left = [w \in Workers |-> 0]
    /\ tries = [w \in Workers |-> 0]
    /\ failures = 0 /\ open = FALSE
    /\ outage = "ahead" /\ lasted = 0 /\ hung = FALSE /\ slow = FALSE

-----------------------------------------------------------------------------
Enter(w, s, time) ==
    /\ stage' = [stage EXCEPT ![w] = s]
    /\ left' = [left EXCEPT ![w] = time]

\* WebSearchTool._fetch: the timeout given to httpx limits the connection and each read,
\* not the search, which takes as long as the service lets it.
Research(w, time) ==
    /\ Enter(w, "searching", time)
    /\ slow' = (slow \/ time > Search)

\* A fresh thread, joined with the whole keepalive.  It first looks for evidence,
\* unless that is in the cache.
Start ==
    /\ main = "start"
    /\ main' = "join"
    /\ patience' = Keepalive
    /\ \E time \in Searches : Research(Current, time)
    /\ UNCHANGED <<turn, attempt, tries, breakerVars, outage, lasted, hung>>

\* complete asks the breaker, once.
Begin(w) ==
    /\ stage[w] = "searching" /\ left[w] = 0
    /\ Enter(w, IF open THEN "error" ELSE "ready", 0)
    /\ UNCHANGED <<engineVars, tries, breakerVars, worldVars>>

\* _call_with_timeout: a request that is going to be answered ...
Send(w) ==
    /\ stage[w] = "ready" /\ outage # "on"
    /\ \E time \in 0..Latency : Enter(w, "answering", time)
    /\ UNCHANGED <<engineVars, tries, breakerVars, worldVars>>

\* ... or is not.
Hang(w) ==
    /\ stage[w] = "ready" /\ outage = "on"
    /\ Enter(w, "hanging", Request)
    /\ hung' = TRUE
    /\ UNCHANGED <<engineVars, tries, breakerVars, outage, lasted, slow>>

\* Mutant: the pauses do not grow.
EvenPause(n) == Backoff

\* The pause after the n-th failed request.
PauseAfter(n) == Backoff * n

\* Mutant: the breaker opens one failure early.
OpensEarly(n) == n >= Threshold - 1

\* CircuitBreaker.record_failure
Opens(n) == n >= Threshold

\* Mutant: range(self._retries + 2).
LastTryLate(n) == n = Retries + 2

LastTry(n) == n = Retries + 1

\* The handler of _attempt_loop: count the failure, then give up or pause.
Failed(w) ==
    /\ tries' = [tries EXCEPT ![w] = @ + 1]
    /\ failures' = failures + 1
    /\ open' = (open \/ Opens(failures'))
    /\ IF open' \/ LastTry(tries'[w])
         THEN Enter(w, "error", 0)
         ELSE Enter(w, "pausing", PauseAfter(tries'[w]))
    /\ UNCHANGED <<engineVars, worldVars>>

Refused(w) == stage[w] = "ready" /\ outage = "on" /\ Failed(w)

TimesOut(w) == stage[w] = "hanging" /\ left[w] = 0 /\ Failed(w)

Resume(w) ==
    /\ stage[w] = "pausing" /\ left[w] = 0
    /\ Enter(w, "ready", 0)
    /\ UNCHANGED <<engineVars, tries, breakerVars, worldVars>>

Answer(w) ==
    /\ stage[w] = "answering" /\ left[w] = 0
    /\ Enter(w, "ok", 0)
    /\ failures' = 0 /\ open' = FALSE
    /\ UNCHANGED <<engineVars, tries, worldVars>>

-----------------------------------------------------------------------------
\* The join returns the turn: on to the next one.
Return ==
    /\ main = "join" /\ stage[Current] = "ok"
    /\ IF turn < Turns
         THEN turn' = turn + 1 /\ main' = "start"
         ELSE main' = "finished" /\ UNCHANGED turn
    /\ attempt' = 0
    /\ UNCHANGED <<patience, threadVars, breakerVars, worldVars>>

\* It raises, or its time is up: restart or give up.
Fail ==
    /\ main = "join"
    /\ \/ stage[Current] = "error"
       \/ patience = 0 /\ stage[Current] # "ok"
    /\ attempt' = attempt + 1
    /\ main' = IF attempt' > MaxRestarts THEN "gave_up" ELSE "start"
    /\ UNCHANGED <<turn, patience, threadVars, breakerVars, worldVars>>

-----------------------------------------------------------------------------
Ended == main \in {"finished", "gave_up"}

OutageBegins ==
    /\ outage = "ahead" /\ ~Ended
    /\ outage' = "on"
    /\ UNCHANGED <<engineVars, threadVars, breakerVars, lasted, hung, slow>>

OutageEnds ==
    /\ outage = "on"
    /\ outage' = "over"
    /\ UNCHANGED <<engineVars, threadVars, breakerVars, lasted, hung, slow>>

Timed == {w \in Workers : stage[w] \in {"searching", "hanging", "answering", "pausing"}}

\* Nothing is due: the engine's thread waits, and so do all others.
Waiting ==
    /\ main = "join" /\ patience > 0 /\ Current \in Timed
    /\ \A w \in Workers : stage[w] # "ready"
    /\ \A w \in Timed : left[w] > 0

Tick ==
    /\ Waiting
    /\ patience' = patience - 1
    /\ left' = [w \in Workers |-> IF w \in Timed THEN left[w] - 1 ELSE left[w]]
    /\ outage = "on" => lasted < Longest
    /\ lasted' = IF outage = "on" THEN lasted + 1 ELSE lasted
    /\ UNCHANGED <<main, turn, attempt, stage, tries, breakerVars, outage, hung, slow>>

Next ==
    \/ Start
    \/ Return
    \/ Fail
    \/ \E w \in Workers :
          Begin(w) \/ Send(w) \/ Hang(w) \/ Refused(w) \/ TimesOut(w) \/ Resume(w) \/ Answer(w)
    \/ OutageBegins
    \/ OutageEnds
    \/ Tick
    \/ Ended /\ UNCHANGED vars

Spec == Init /\ [][Next]_vars
-----------------------------------------------------------------------------
\* Every variable has its type (watchdog.py, resilience.py).
TypeOK ==
    /\ main \in {"start", "join", "finished", "gave_up"}
    /\ turn \in 1..Turns
    /\ attempt \in 0..(MaxRestarts + 1)
    /\ patience \in 0..Keepalive
    /\ stage \in [Workers -> {"none", "searching", "ready", "hanging", "answering", "pausing",
                             "ok", "error"}]
    /\ left \in [Workers -> Nat]
    /\ tries \in [Workers -> 0..(Retries + 1)]
    /\ failures \in Nat /\ open \in BOOLEAN
    /\ outage \in {"ahead", "on", "over"}
    /\ lasted \in 0..Longest /\ hung \in BOOLEAN /\ slow \in BOOLEAN

\* How long the first n pauses of a call take together.
Paused(n) == Backoff * ((n * (n + 1)) \div 2)

\* A call can fail n times while the provider is down for less than that time: from the
\* first request to the last it makes all its pauses but the last one.
CanFail(n, time) == n = 0 \/ Paused(n - 1) < time

\* The values give a turn enough retries and time for a rate window: neither the attempts
\* nor the breaker's threshold are used up in it, and a call that was refused all through
\* it is answered before the turn is over.
RateHeadroom ==
    /\ Window < Paused(Retries) /\ Window < Paused(Threshold - 1)
    /\ \A n \in 0..Retries :
          CanFail(n, Window + 1) => Search + Paused(n) + Latency < Keepalive

\* The values give a turn and one restart of it enough retries and time for an outage
\* shorter than the keepalive.  The restart starts when less than the time of a search is
\* left of the outage; its failures and those of the abandoned thread do not open the
\* breaker, and if its last request in the outage hangs, it is still answered in time.
OutageHeadroom ==
    /\ MaxRestarts >= 1
    /\ Search + Latency < Keepalive
    /\ Keepalive <= Paused(Retries)
    /\ \A m, n \in 0..(Retries + 1) :
          CanFail(m, Keepalive) /\ CanFail(n, Search) => m + n < Threshold
    /\ \A n \in 0..(Retries + 1) :
          CanFail(n, Search) =>
              Search - 1 + Request + PauseAfter(n) + Latency < Keepalive

\* "Allow in-turn backoff to wait out a rate window" (config.yaml, by the values of
\* the sections timeouts and watchdog): as long as requests are only refused and no search
\* takes longer than one of its operations may, no thread is given up, by its own retries
\* or by the watchdog, within a rate window.  After a longer search it may be.
RateWindowInTurn == attempt > 0 /\ ~hung /\ ~slow => lasted > Window

\* An outage shorter than the keepalive costs a turn at most one restart and never ends
\* a debate, whether requests are refused or hang, and however the failures of threads
\* abandoned meanwhile add to the streak that opens the breaker (config.yaml: "headroom
\* for pacing"), again as long as no search takes longer than one of its operations may.
OutageWeathered == lasted < Keepalive /\ ~slow => attempt <= 1 /\ main # "gave_up"
=============================================================================
