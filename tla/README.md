# TLA+ models and proofs of the debate program

The program stages a debate between two language-model agents, *pro* and *con*, under a
third, the *judge*. All messages pass through the judge, who relays each turn to the other
side, steps in when a side concedes, and gives a verdict without ties at the end. Around
that loop stand a watchdog with worker threads, a budget gate, retries with a circuit
breaker, a web search with a cache, and a rolling log. Paths below are relative to
`src/src/debate/` unless they start with `src/`.

The modules are small state machines, one per component, and one, `System`, that puts the
components of a model call together. TLC checks them on small instances; for nine of them,
`System` among them, TLAPS proves the safety properties for every value of the constants, in
`Pacing` for all values that leave enough headroom.

## 1. Inventory

### Components, state and operations

| Component | Source | State | Operations | Module |
|---|---|---|---|---|
| debate loop | `orchestration/engine.py`, `round.py`, `router.py`, `transcript.py`, `agents/` | round and side to move, transcript, last relay to each side | guarded turn, route (relay, intervene), deliver, verdict | `Debate` |
| watchdog | `orchestration/watchdog.py` | restarts so far; per attempt a thread and a box | start, join with deadline, restart, give up, re-raise a fatal error | `Watchdog` |
| gatekeeper | `gatekeeper/limiter.py`, `budget.py` | recorded calls and tokens, `_blocked` | `check`, `record` | `Gatekeeper` |
| resilient provider | `llm/resilience.py`, `llm/circuit.py` | per agent: failure streak and open flag | `complete`: check, breaker, attempts with timeout, backoff, record | `Resilience` |
| web search | `tools/web_search.py` | cache | `search`: look up, egress veto, check, request, record, parse, cache | `WebSearch` |
| verdict | `agents/judge.py`, `protocol/verdict.py` | none | `_parse_verdict`, `_break_tie`, validators | `Verdict` |
| FIFO log | `observability/fifo_logger.py` | current file, its line count, next number; files on disk | `log`, roll, prune, resume after a restart | `FifoLogger` |
| session | `sdk.py`, `ui/actions.py`, `ui/menu.py` | overrides, last result | open, configure, run, view, leave | `Session` |
| assembly | `bootstrap.py`, `llm/factory.py`, `__main__.py` | none | builds the objects, looks the key up | `Session` (start, missing key), `System` (what is shared by whom) |
| vendor adapters | `llm/anthropic.py`, `openai.py`, `groq.py`, `mock.py` | none | one blocking request | environment of `Resilience` and `Pacing` |
| configuration, secrets | `config/` | read once | validation | the `ASSUME`s; ranges of three sections in `Pacing`, failed load in `Session` |
| pacing (no class of its own: the clocks of watchdog and provider together) | `config.yaml`, `watchdog.py`, `llm/resilience.py` | deadline of the turn, timeout or pause of each thread | wait, time out, pause, resume | `Pacing` |
| text filters | `security/moderation.py`, `sanitizer.py`, `observability/redaction.py` | none | regular expressions | not modelled |
| egress policy | `security/egress.py` | none | checks one endpoint | taken as passed |
| personas, prompts | `agents/pro.py`, `con_agent.py`, `prompts/` | none | wording | not modelled |
| scripts | `src/scripts/` | none | developer tools | not modelled |

### How they interact

The menu (main thread) calls `Actions`, which calls `DebateSDK.run_debate`. It builds an
`Engine` for each debate, but the gatekeeper, the web tool and the logger live as long as
the SDK. `Engine.run` plays its rounds on the main thread. Each turn, and the verdict, is
handed to `Watchdog.run`, which runs it on a new daemon thread and joins that thread with a
deadline. Inside the thread the debater searches the web once and then calls its
`ResilientProvider`, which asks the gatekeeper, asks the breaker, and sends the request from
a pool thread so that it can stop waiting for it. The judge's interventions call the
provider on the main thread, outside the watchdog.

### What is hard

* *Abandoned threads.* Python threads cannot be stopped. A turn that overran its deadline
  goes on beside its restart, in later turns and even in the next debate, sharing the
  gatekeeper, breaker, web cache and logger without any lock.
* *Check, then act.* The gate reads totals that leave out calls under way; the cache is
  looked up before and filled after a request; the logger tests, writes and counts
  separately.
* *Stale reads.* The breaker is asked once per call, not once per attempt.
* *Partial failure.* Part of a turn may have happened (a paid search, a recorded message)
  when a later part raises.
* *Restart of the process.* The log directory outlives the process, which may have ended in
  the middle of a roll.
* *Time.* The watchdog's deadline and the provider's timeouts and pauses are configured apart
  from each other; whether an outage ends a debate depends on how they add up. The timeout of a
  search limits each of its network operations and not the search.
* *Limits.* Restarts, attempts, lines, files, calls and score ranges are each open to an
  off-by-one.

### What makes each component correct

* Debate: turns alternate and are equal in number, each answers the opponent's latest one as
  the judge relayed it, the judge steps in exactly on concessions, and there is one outcome.
* Watchdog: a late result never takes the place of a later one, restarts are neither lost nor
  exceeded, a hang is contained, a fatal error is final.
* Gate, provider, search: the overshoot of a limit is bounded by the number of threads, the
  breaker's flag and streak agree, every call ends, and nothing is cached before it is paid.
* Log: caps on lines and files, with what remains of them under threads and crashes.
* Verdict: a scored reply never trips the no-tie rule, and only a tie is decided by the
  declared winner.
* Session: a result belongs to a complete, paid debate; the budget is shared and never reset, and
  once it is spent no call that was not past the gate before adds to a debate.
* All together: whatever threads hang or are late, the program plays the debates of `Debate`;
  only abandoned threads take it past the budget's limit, and only they and the restarts of a
  turn take an agent's unpaid requests past the breaker's threshold; every answer is paid; a
  spent budget ends all requests. As long as no search exceeds the timeout of one of its
  operations, an outage shorter than the keepalive costs a turn one restart at most and ends no
  debate.

## 2. Modules

| Module | Contents |
|---|---|
| `Exchange` | abstract specification of a debate: alternate turns, each answering the one before, then one outcome |
| `Debate` | the engine's thread, one step per guarded attempt, routing or verdict |
| `MCDebate` | refinement mapping of `Debate` to `Exchange` |
| `Watchdog` | the joining thread and all worker threads of a run |
| `Gatekeeper` | totals, latch, test and the halves of `record`; extended by the next two |
| `Resilience`, `MCResilience` | several callers in `complete`, one breaker per provider; values for usage |
| `WebSearch` | several threads in `search`, one cache |
| `FifoLogger` | several threads in `log`, and restarts of the process |
| `Verdict` | one parse of one reply |
| `Session` | menu, overrides, debates of one sitting |
| `System` | `Debate`, `Watchdog`, `Resilience` and `Gatekeeper` composed: engine, worker threads, providers and gate over several debates |
| `Pacing`, `MCPacing` | the clocks of a guarded call, against an outage of the provider; that the values of `config.yaml` have the headroom the proofs ask for |
| `DebateProofs`, `WatchdogProofs`, `ResilienceProofs`, `WebSearchProofs`, `FifoLoggerProofs`, `OutcomeProofs` (of `Verdict` and `Session`), `SystemProofs`, `PacingProofs` | theorems and their proofs |

`System` takes `Debate`, `Watchdog` and `Resilience` by `INSTANCE` and conjoins their actions;
they share the variables, so nothing is modelled twice. `PlaysDebate` is the statement that
the composition implements `Debate`, and `KeepsPromise` that `Debate` implements `Exchange`.

### Correspondence with the code

**Debate.** `pc` is the place in `Engine.run`/`Round._turn`: `turn` (in the guard), `route`
(the turn is recorded, `Router.route` runs), `verdict`, and the two ends. A guarded attempt is
one step: `Speak` if it returns, `GuardFails` if it raises or overruns, `BudgetGone` for the
one fatal error. `Relay`, `RelayAndIntervene` and `InterveneFails` are the outcomes of
`Router.route` together with the recording and delivery that follow it in `_turn`. A message
is named by its place in the transcript; of its text only "concedes or not" is kept, which is
all that routing looks at. `heard` is a history variable: which relays a side was shown.

**Watchdog.** A worker is the pair of the guarded call and the attempt. `Start`, `Return`,
`Fatal`, `Error` and `Timeout` are the branches of `run` and `_guarded`; `Finish` and `Exit`
are the worker's last statement and its end, between which the deadline may pass.

**Gatekeeper, Resilience.** A caller's step ends where CPython may switch threads: at a call of
a Python function, at I/O, while waiting. `check` is therefore a read (`Begin`; its three totals
are taken together, as a record in between would only raise the later ones) and a decision
(`Veto`, `Admit`), `record` an addition (`Charge`) and a latch (`Return`); updates of a
breaker's two fields, which make no calls, are one step. This describes the CPython with a
global lock that the project is built for, not the free-threaded build. A request that timed
out has no step of its own later: its pool thread touches nothing the program reads. Money is
an integer, tokens times rates.

**WebSearch.** `Hit`/`Miss` look the query up, `Check`/`Veto`/`Fetch` pass the gate,
`FetchFails` covers the errors that degrade, `FetchRaises` and `ParseRaises` those that do not,
`Fetched`/`Record`/`Parse` the good path. A query stands for its results.

**FifoLogger.** One action per statement of `log`, `_target`, `_roll` and `_prune` that touches
shared state; `Restart` ends the process anywhere and runs the next one's `__init__`.

**Verdict.** Scores are counted in half points, the tie-break delta, so all arithmetic is exact;
the range is the real one, 0 to 100. NaN is a value because `json.loads` accepts it.

**Session.** `Open` and `OpenFails` are `main` up to the menu, `Keyless` the engine that finds
no key, `Leave` the menu's exit. A debate is the turns it has done, the calls it has paid and the
one it is making: `Ask` is the gate's check, `Record` the charge when the answer has come,
`CallFails` the answer that does not come, and `Use` what becomes of the paid one. Between any
two of these the watchdog may give the thread up (`Abandon`). It then goes on by itself, in
whatever debate (`StrayAsks`, `StrayRecords`, `StrayFails`, `StrayEnds`), so that a debate's call
let through below the limit may be recorded when others have spent the budget.

**System.** Guarded calls are numbered through all debates of the sitting; a worker is, as in
`Watchdog`, a call and an attempt. Callers of a provider are the workers and the engine's own
thread (`Self`), which asks the judge for a reminder while it routes. A worker begins one call
(`Begin`), proceeds inside `complete` (`Proceed`) and leaves its box filled (`Finish`): with
"fatal" after a veto, "error" after a failed call or an answer that the moderator or the
parser refuses, "ok" otherwise. `asked` is the relay the closure of a turn holds from the start
(`round.py:55`); the turn that is recorded rebuts that one, whatever was relayed since.
`Engine.from_config` builds providers anew, hence breakers by agent and debate, but the budget
stays (`NextDebate`); so do abandoned threads, which may send and charge in later debates.
There are two history variables: `refused`, the answers that came and were not used, and `lost`,
the requests that failed for good since their provider last answered, which its breaker does not
count. There is no web tool: it is absent without a search key.

**Pacing.** Time is counted in units of ten seconds, and passes (`Tick`) only while nothing is
due. The provider goes down once, at any time and for any time up to a bound; while it is down a
request is refused at once or left unanswered. One agent's turns are followed with the threads
abandoned on the way, all at one breaker. A worker first searches (`Research`). `httpx` applies
`search.request_seconds` to the connection and to each read and write, so nothing in the program
bounds a search: it takes any of `Searches`, and the history variable `slow` keeps whether one
took longer than a single operation may. The run has the values of `src/config.yaml`; the proofs
have any.

## 3. Runs

| Run | Bounds | Distinct states | Shows |
|---|---|---|---|
| `debate` | 3 rounds, 1 restart | 8 379 | routing, mutual response, equal voice, interventions; `Debate` implements `Exchange` |
| `watchdog` | 2 calls, 2 restarts | 91 835 | no stale results, restarts exact, fatal is final, every run ends |
| `resilience` | 3 callers, 1 provider, 1 retry, threshold 2, 4 requests | 174 408 | overshoot, latch, breaker, end of every call |
| `web_search` | 2 threads, 2 queries, 2 calls | 27 452 | cache, charging and overshoot |
| `logger` | 2 threads, 2 files, 2 lines, 9 entries, 3 restarts | 2 693 226 | the documented caps for one thread, and what threads and restarts leave of them |
| `verdict` | 1 point outside the range | 763 850 | the tie break over every reply |
| `session` | 3 debates, 9 calls, rounds 0, 1 and 2, 2 abandoned threads at once | 300 288 | results are complete and paid, budget exhausted for good |
| `system` | 2 debates of 1 round, 1 restart, 1 retry, threshold 1, 3 calls, 1 hung worker | 650 194 | the composition implements `Debate`; overshoot, unpaid requests, payment, end of requests |
| `pacing` | `config.yaml` in units of 10 s, 2 turns, outage up to 300 s, searches of 0, 10, 20 and 40 s | 1 777 398 | without a search over 20 s, a rate window is waited out in the turn and an outage shorter than the keepalive costs one restart at most |
| `debate_reminder`, `debate_guard`, `web_search_degrade` | | stop at the first counterexample | the divergences of section 5 |

**Why the bounds are enough.** Three rounds have a first, a middle and a last one, with an
opening argument, rebuttals and an early and a late concession; one restart gives both a
restarted and an abandoned turn. Two guarded calls with three threads each let a thread of the
first call end during the second. Three callers make "all but one" differ from "one" in
`HammeringBounded` and `OvershootBound`; a threshold of 2 is crossed by two callers or by one
that retries, and four requests suffice to open, close and reopen a breaker or to leave it
open with callers backing off. Two queries and two threads give every overlap of two
searches. Two files of two lines roll over several times within nine entries.

In `system` a turn that hangs in the first debate may reach into the second one, three calls run
out within the first debate or early in the second, and one failure opens a breaker while an
abandoned request to it is under way. The same properties were checked with a threshold of 2,
two hung workers and four calls. In `pacing` the values are the configured ones; a provider that
is up answers within ten seconds, its rate window is a minute (the "token-per-minute bucket" of
the file), an outage of up to 300 s is twice the keepalive, and a search of 40 s is one that
connects and reads at its timeouts. As long as searches keep to 20 s the properties are tight: an outage of exactly the keepalive
(150 s) can end the debate, and `RateWindowInTurn` holds for windows of up to 90 s but not for
100 s. `MCPacing` assumes that the values meet the two conditions of the proofs, so TLC evaluates
them on the run. Both were tried on a dozen variations of single values (threshold, keepalive,
timeouts, restarts, latency, window): each property held where its condition does, and failed
where it does not.

For the modules with proofs the bound limits only TLC, not the result. `MaxSent`, `MaxEntries`,
`MaxCrashes`, `MaxRuns`, `MaxStrays`, `Margin`, `Debates`, `MaxHangs`, `Turns` and `Longest` are
bounds of the models, `Latency`, `Window` and `Searches` describe the services; the other constants are
configuration.

**Deadlock** is checked for `Debate`, `Watchdog`, `Session`, `System` and `Pacing`, whose ends
stutter explicitly. Elsewhere it is off because callers may stop calling and a bound may stop new
calls or entries; a single parse simply ends.

**Fairness.** `HangIsContained` assumes weak fairness of the joining thread only: the operating
system schedules it, and its join has a deadline (`watchdog.py:68`). Workers are not fair: a
provider may stall for ever. `EveryCallEnds` assumes weak fairness of each caller's steps once
its call is under way: waiting for an answer ends with the answer or the request timeout
(`resilience.py:121`), and a pause ends with the backoff. Nothing obliges a caller to begin.

## 4. Proofs

All proofs assume only the named `ASSUME`s: natural rounds, restarts, retries and limits, at
least one round and one debate in `System`, a positive threshold, finite non-empty sets of
threads, positive caps of the log, that each model call counts as one call, that the marks for
"no verdict", "no number" and the like are none of the values they are told from, and, in
`Pacing`, what `config/schema.py` asks of the values. They cover every safety property of the
passing runs, both refinements included. Two theorems have a hypothesis besides, which the
values of `config.yaml` meet: `RateHeadroom` and `OutageHeadroom` in `Pacing`. The two properties
themselves speak of behaviours without a search longer than `Search`; for others they do not hold
(section 5).

**DebateProofs.** `Shape` strengthens the type: while a turn is routed it is the last message
and was said by the side to move; before a turn nothing is unrouted. With it every step is
seen to be one of three: a turn is appended, a relay with or without a reminder is appended,
or nothing is said. Then

* `AlwaysRouted`, `AlwaysIntervenes`: properties of the appended messages, since earlier ones
  never change (`Kept`).
* `AlwaysResponds` needs `InboxCurrent`: what a side was given last is the relay of the
  opponent's latest turn. While a turn is being routed this holds for the speaker alone, as
  the opponent's inbox is one turn behind.
* `AlwaysEqualVoice` needs `Counted`, which ties the number of turns of each side to the round
  number, the side to move and the place in the loop.
* `PromiseKept`: every step of `Debate` appends one abstract turn, sets the abstract outcome, or
  stutters (`StepKeepsPromise`). The abstract turns are the debaters' messages by their ordinals,
  and a relay stands for the turn it carries. So `Order` is needed: the ordinals have no gap
  (`Numbered`), a turn only answers what was said before it (`AnswersEarlier`), which keeps the
  abstract turns unchanged when the transcript grows, and what the side to move was given was
  relayed after the latest turn of all (`GivenLatest`), which makes its turn an answer to the
  one before it. The properties above give the rest.

**WatchdogProofs.** The inductive invariant `IInv` adds to the type how results, boxes and
threads are ordered (`InOrder`, `OneResultPerCall`), that every earlier attempt of the current
call failed or was abandoned (`EarlierSpent`, `GaveUpAtTheEnd`), and that a fatal outcome that
was waited for belongs to the current attempt (`FatalIsCurrent`).

**ResilienceProofs.** Each property has its own strengthening.

* `OvershootIsBounded`: callers that have read totals with which they will pass are already
  committed. `CommittedBound` counts them with the admitted ones: when the last of them reads,
  all the others may be committed, so the overshoot is at most callers minus one.
* `HammeringIsBounded`: the caller whose failure opens the breaker is not itself about to
  send, so fewer than all callers are; each of them uses up its place by sending. A closed
  breaker has no late requests (`ClosedHasNoneLate`).
* `StreakCorrect`, `ExceededLatches` and `DeadProvidersStayDead` are inductive over the type.

**WebSearchProofs.** `AnswersAreBounded` counts an uncached query's answers by the threads that
still hold one (`Uncached`); when one of them caches it, those that hold an answer and those
still fetching are different threads, so both together are at most all (`Cached`).
`CacheIsPaid` is inductive with the threads that are parsing; `SearchesBounded` goes like
`OvershootIsBounded`.

**FifoLoggerProofs.** `Shape` says who knows a file's number: a process gives each number once, a file of
this process belongs to one rolling thread, and what a thread holds fits its step in `log`.

* `LinesCapped` needs `Counted`. Lines that threads are about to write count as written. A
  thread that has made its file but not yet reset the counter will, by the reset, let whatever
  file is current then be filled once more; it pays for that by not being `Settled`. With m
  settled threads the current file stays within `Budget(m)`, that is m times `MaxLines` and one
  line for each pair of threads that pass the test together.
* `FilesStayBounded` rests on two invariants about the past. A file that is written to though a
  newer one was switched to is the fault of a thread that switched late; each such thread has one
  at most, and the last one to switch in time has none (`Ranked`), so there are fewer of them
  than threads (`StaleFew`). For each thread that deletes, the files there can be when it is done
  are those its scan kept, those others wrote to after they were overtaken, and one for each
  thread that rolls meanwhile (`Covers`). The thread that is done last may then replace the
  files found by the other threads; a restart finds all files at once and begins anew, with N
  more for the threads of the next process (`Cap`). Who is to blame and what was found are
  bound by quantifiers in the invariants, so the model has no history variables for them.
* `FilesStayCapped` and `NewestKept` follow from `Solo`, the exact state of the directory at each
  step of the only thread that logs: numbers without a gap (`Gapless`), deletions from the
  oldest (`Oldest`), all files but the newest full (`Filled`), restarts included.

**OutcomeProofs.** For `Verdict`, `BrokenTie` says all that matters of the tie break for any two
numbers: it keeps scores in the range there and others out, and separates equal ones. The
invariant is that the verdict, if there is one, is what the reply calls for. For `Session`, the
invariant adds to the type that a debate has paid at least one call for each of its turns, the
turn that may be made of an answer not yet used included (`DoneIsPaid`), and that the recorded calls with
those of the abandoned threads past the gate and of the debate fit the limit and the threads that
can run at once (`InRoom`). `ExhaustionIsFinal` is a matter of single steps: without a call past
the gate a debate gets no further, and with the budget spent none gets past it.

**SystemProofs.** Three invariants, one on top of the other.

* `ProgramPlaysDebate` needs `PInv`. `InPlace` ties the number of the guarded call, which runs
  on through all debates, to the round, the side and the place in the loop; the speaker that a
  thread takes from its number is then the side to move (`CurrentTurn`, by uniqueness of
  quotient and remainder). `Relays` says that the thread being joined was started with the
  relay that is still the last one: it is the only thread whose answer is recorded, and nothing
  is delivered while it is joined. Each step is then a step of `Debate`, starts the next debate,
  or changes nothing that `Debate` sees (`StepPlays`).
* The limits need `BusyWanted`: whoever is inside a provider was abandoned or is the one caller
  that the engine waits for. So all callers but one are abandoned threads (`BusyBound`), and a
  caller that the gate lets through, even on totals that are out of date, has at most those
  ahead of it. `Bound` and `Streaks` count them. For the breaker, a request is only sent, or sent
  again, past a closed one, when the streak is below the threshold. For the requests lost for
  good, `VInv` says that a caller makes one such at most (`LostIdle`: its call is over), that all
  since the provider's last answer by threads that were not abandoned are of one guarded call or
  one reminder (`LostHere`), since a guarded call that succeeds clears them (`Cleared`), and so
  are no more than its failed attempts (`FewLost`). The last attempt of all is either lost or
  under way, so restarts and abandoned threads are as many as the property says.
* `SpentIsFinal` looks at one step at a time: with the budget spent, whoever begins a call reads
  totals with which it is vetoed.
* `EverythingIsPaid` counts, besides the answers used or refused, the calls recorded and not yet
  returned (`Paid`), and shows that no result is given twice (`InTurn`).

**PacingProofs.** `Clocked` holds for any values. Besides the types it says which threads have
not begun (`Fresh`), that nothing fails before the outage (`Ahead`), and how the clocks go
together: a thread with n failures has made n - 1 pauses while the provider was down
(`Spaced`), and, as long as no request hangs, it was waited for as long as its search, its
pauses and one answer at most (`InTime`).

* `WindowsWaitedOut` needs `RateHeadroom`: the window is shorter than all the pauses together
  and than those before the failure that opens the breaker, and a call that fails all through
  it is answered within the keepalive. Then, while the window lasts, every turn is at its first
  attempt and the streak is that of the current thread alone (`Punctual`): by `Spaced` it has
  too few failures to give up, by `InTime` the engine still waits.
  Both theorems are about a history without a slow search; once there was one, `slow` stays.
* `OutagesWeathered` needs `OutageHeadroom` and an account of where all the threads are while
  the outage is shorter than the keepalive (`Weathered`). A thread is given up after the whole
  keepalive, so the restart begins when the outage is nearly over: less than a search's time is
  left of it (`OnTime`). Only threads of the current turn are busy until it ends (`Places`), and
  the streak is that of the abandoned thread and its restart (`Streak`). The first has failed as
  often as its pauses allow in an outage of that length, the second only as often as they do at
  its end (`SpacedLate`); together that is below the threshold (`StrikesBounded`), so the
  breaker stays closed and no call uses up its retries. After its last failure the restart is a
  pause and an answer away from its result (`Recovers`), which is within the keepalive, so there
  is no second one (`FailsOnce`). That the abandoned thread may answer later, in a later turn,
  is harmless: it only resets the streak.

**Only model-checked**: the two liveness properties, as fairness is outside the prover's reach.

## 5. Where the code differs from its documents

Three differences are kept as runs whose counterexample shows them:

* `debate_reminder`: `src/README.md:24-25` says that the judge reminds a conceding debater. The
  intervention is recorded but never delivered (`round.py:58-61`), so no prompt contains it.
* `debate_guard`: `src/prd.md:211-212` says that a crash is followed by a restart. The judge's
  model call for a reminder is outside the guard (`round.py:58`), and its first failure ends the
  debate. The relay built before it is lost.
* `web_search_degrade`: `web_search.py:6-8` says that any failure degrades to no results. JSON
  of another shape raises (`web_search.py:76`, `88`).

Others were met while modelling; the models follow the code in each of them:

* The gate "blocks the run before [ceilings] are exceeded" (`limiter.py:19`). Two threads pass on
  the same totals; `OvershootBound` and `OvershootIsAbandoned` are what does hold.
* The turn's deadline is to "allow in-turn backoff to wait out a rate window"
  (`src/config.yaml:35`), but pauses of 10, 20, ... 50 s add up to the deadline of 150 s: the
  fifth retry is only made by a thread that was just abandoned, beside its restart.
* A search is to be "bounded by a timeout" (`web_search.py:5-6`), which bounds each network
  operation of it and not the search (`web_search.py:86`). After a search of 40 s and a rate window
  of a minute, the first retry that is answered comes in at the deadline of 150 s, and the turn is
  abandoned; with slow searches an outage of less than 150 s may also open the breaker and end the
  debate. TLC finds both if `~slow` is left out of the two properties of `Pacing`, which are
  about turns without such a search.
* Restarts do not help against an outage of 150 s or more: the failures of the abandoned threads
  and of their restarts count for one breaker, which opens, and the remaining restarts are
  rejected at once. The debate ends with most of its restart time unused.
* Token and cost limits can be passed by a single caller, because the estimate counts four
  characters per token (`resilience.py:133-138`; `src/prd.md:218-219`).
* An open breaker "rejects calls immediately" (`circuit.py:3-5`), but is asked once per call and
  not before each retry (`resilience.py:64-88`).
* Retries and late answers are neither checked nor recorded (`resilience.py:62-63`, `117-130`).
  Permanent errors do not count for the breaker either (`resilience.py:80`); what bounds them is
  the restarts of a turn.
* `blocked` is to halt the run (`limiter.py:5-6`, `43-45`), but nobody reads it.
* A hung worker is called killed (`src/README.md:355`, `src/docs/architecture.md:132-133`); it
  is abandoned and runs on (`watchdog.py:66-70`). A fatal error in it is never seen.
* Failed searches are not cached, so there may be more than one live request per side
  (`round.py:10-12`; `web_search.py:71-73`).
* The log's caps (`fifo_logger.py:3-5`) hold for one thread; there is no lock.
* A scored reply is rejected if its highlights are an object of prose (`judge.py:115`,
  `verdict.py:40`).
* Overrides "for the next run" stay in force (`menu.py:18`, `actions.py:25`), as the prompt
  "blank = keep current" suggests they should.
* After a failed debate the menu goes on showing the earlier result (`actions.py:44`).
* The budget is one per SDK and so per sitting, not per debate (`sdk.py:38-43`).
* `security.enable_moderation`, `security.banned_terms_file` and `search.provider` are validated
  and never read.
* A `config.yaml` that is not YAML raises `yaml.YAMLError`, which `__main__.py` does not catch; the
  model's `OpenFails` ends the program either way.
* The moderator's word cap cannot be reached: a turn is cut to it first (`debater.py:129`).

## 6. Not modelled

A worker thread that ends by an exception outside `Exception` (an interpreter shutting down)
would leave its box empty; the watchdog would count that as a failure. It has no action.

That nobody reads `blocked`, that an object of prose among the highlights spoils a verdict, and
that refused rounds leave the topic behind are in the models, but no property is about them: no
text of the repository says what should happen instead.

Real time is in `Pacing` alone; the other modules know that a deadline may pass, not when.
`System` has no web tool and no log, whose state does not reach the debate; a search counts
against the same budget, which `WebSearch` and `Session` show separately. The web tool is
modelled with its cache on, as configured. Wording, prompts, redaction and sanitizing are left
out because no decision in the modelled code depends on more of a text than its concession, its
shape and whether the moderator refuses it. Vendor adapters are the environment. The egress
policy is a check of one constant and taken as passed. Configuration is read once; the modules
assume what the schema checks, except where an override bypasses it (`Session`, and `Rounds = 0`
in `Debate`). The scripts are no part of the program.

## 7. Plan

The order was: the debate's promise first, then what runs beside it and can disturb it, then the
pieces around it, then all together and against the clock, with the proofs after what TLC had
found to hold. What is left:

1. *Searches and model calls on one gate*: the web tool inside `System`; the overshoot is then
   bounded by the abandoned threads still, as a thread searches before it calls its provider.
2. *Stateless parts*: the moderation of a turn as an operator, if it comes to carry decisions
   worth checking.
