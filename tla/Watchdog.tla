------------------------------ MODULE Watchdog ------------------------------
(***************************************************************************)
(* Watchdog.run, as Engine.run uses it: one guarded call after the other   *)
(* (the turns, then the verdict), each on a daemon thread of its own that  *)
(* the engine's thread joins with a deadline.  A thread that overruns is   *)
(* not stopped, only no longer waited for; it may end at any later time or *)
(* never.  What the engine does between two guarded calls is in Debate.    *)
(***************************************************************************)
EXTENDS Integers, Sequences, FiniteSets

CONSTANTS
    Calls,        \* how many guarded calls the engine makes
    MaxRestarts   \* config.watchdog.max_restarts

ASSUME CallsAssumption    == Calls \in Nat \ {0}
ASSUME RestartsAssumption == MaxRestarts \in Nat

\* The thread of the a-th restart of call n.
Workers == (1..Calls) \X (0..MaxRestarts)

VARIABLES
    main,       \* where the engine's thread is in Watchdog.run
    call,       \* the guarded call it is in
    attempt,    \* Watchdog.run: failed attempts at it
    box,        \* what each thread left for the joining thread
    alive,      \* the threads that have started and not ended
    abandoned,  \* the threads no longer waited for
    results     \* the threads whose results the engine was given

vars == <<main, call, attempt, box, alive, abandoned, results>>

Current == <<call, attempt>>
Outcomes == {"ok", "error", "fatal"}

Init ==
    /\ main = "start"
    /\ call = 1
    /\ attempt = 0
    /\ box = [w \in Workers |-> "empty"]
    /\ alive = {}
    /\ abandoned = {}
    /\ results = <<>>

-----------------------------------------------------------------------------
\* _guarded: a fresh box and a fresh thread.
Start ==
    /\ main = "start"
    /\ alive' = alive \cup {Current}
    /\ main' = "join"
    /\ UNCHANGED <<call, attempt, box, abandoned, results>>

\* The worker's last statement puts the result or the error into its own box;
\* the thread is alive for a moment longer.
Finish(w, outcome) ==
    /\ w \in alive
    /\ box[w] = "empty"
    /\ box' = [box EXCEPT ![w] = outcome]
    /\ UNCHANGED <<main, call, attempt, alive, abandoned, results>>

Exit(w) ==
    /\ w \in alive
    /\ box[w] # "empty"
    /\ alive' = alive \ {w}
    /\ UNCHANGED <<main, call, attempt, box, abandoned, results>>

-----------------------------------------------------------------------------
\* Mutant: any thread of this call that left a result will do.
ReturnAny ==
    /\ main = "join"
    /\ \E a \in 0..attempt :
          /\ box[<<call, a>>] = "ok"
          /\ results' = Append(results, <<call, a>>)
    /\ attempt' = 0
    /\ IF call < Calls
         THEN call' = call + 1 /\ main' = "start"
         ELSE main' = "finished" /\ UNCHANGED call
    /\ UNCHANGED <<box, alive, abandoned>>

\* The join ends with the thread, which left a result: on to the next call.
Return ==
    /\ main = "join"
    /\ Current \notin alive
    /\ box[Current] = "ok"
    /\ results' = Append(results, Current)
    /\ attempt' = 0
    /\ IF call < Calls
         THEN call' = call + 1 /\ main' = "start"
         ELSE main' = "finished" /\ UNCHANGED call
    /\ UNCHANGED <<box, alive, abandoned>>

\* Mutant: one restart too many.
RestartTooMany ==
    /\ attempt' = attempt + 1
    /\ main' = IF attempt > MaxRestarts THEN "gave_up" ELSE "start"

\* Mutant: >= instead of >, one restart is never made.
RestartTooFew ==
    /\ attempt' = attempt + 1
    /\ main' = IF attempt' >= MaxRestarts THEN "gave_up" ELSE "start"

\* The handler of Watchdog.run: count the failure, restart or give up.
Restart ==
    /\ attempt' = attempt + 1
    /\ main' = IF attempt' > MaxRestarts THEN "gave_up" ELSE "start"

\* An error in the list of fatal ones is raised again at once ...
Fatal ==
    /\ main = "join"
    /\ Current \notin alive
    /\ box[Current] = "fatal"
    /\ main' = "halted"
    /\ UNCHANGED <<call, attempt, box, alive, abandoned, results>>

\* Mutant: fatal errors are restarted like the others.
ErrorOrFatal ==
    /\ main = "join"
    /\ Current \notin alive
    /\ box[Current] \in {"error", "fatal"}
    /\ Restart
    /\ UNCHANGED <<call, box, alive, abandoned, results>>

\* ... any other one counts as a failed attempt ...
Error ==
    /\ main = "join"
    /\ Current \notin alive
    /\ box[Current] = "error"
    /\ Restart
    /\ UNCHANGED <<call, box, alive, abandoned, results>>

\* Mutant: after its deadline the thread is joined again.
KeepWaiting == main = "join" /\ Current \in alive /\ UNCHANGED vars

\* ... and so does a thread still alive at the deadline, even if its box is
\* filled by now.
Timeout ==
    /\ main = "join"
    /\ Current \in alive
    /\ abandoned' = abandoned \cup {Current}
    /\ Restart
    /\ UNCHANGED <<call, box, alive, results>>

-----------------------------------------------------------------------------
Guard == Start \/ Return \/ Fatal \/ Error \/ Timeout

Terminated == main \in {"finished", "gave_up", "halted"}

Next ==
    \/ Guard
    \/ \E w \in Workers :
          \/ \E outcome \in Outcomes : Finish(w, outcome)
          \/ Exit(w)
    \/ Terminated /\ UNCHANGED vars

Spec == Init /\ [][Next]_vars

\* The engine's thread is scheduled and its join has a deadline.  No fairness for
\* the workers: a hung provider never answers.
FairSpec == Spec /\ WF_vars(Guard)

-----------------------------------------------------------------------------
\* Every variable has its type (watchdog.py).
TypeOK ==
    /\ main \in {"start", "join", "finished", "gave_up", "halted"}
    /\ call \in 1..Calls
    /\ attempt \in 0..(MaxRestarts + 1)
    /\ main \in {"start", "join"} => attempt <= MaxRestarts
    /\ box \in [Workers -> Outcomes \cup {"empty"}]
    /\ alive \subseteq Workers
    /\ abandoned \subseteq Workers
    /\ results \in Seq(Workers)

\* A worker's place in time: calls in order, restarts of a call in order.
Before(v, w) == v[1] < w[1] \/ (v[1] = w[1] /\ v[2] < w[2])
Started == alive \cup {w \in Workers : box[w] # "empty"}

\* The engine gets one result for each call, in order, and never that of a thread
\* it stopped waiting for, however late that thread ends (watchdog.py, _guarded).
NoStaleResult ==
    \A n \in 1..Len(results) :
        /\ results[n][1] = n
        /\ results[n] \notin abandoned
        /\ box[results[n]] = "ok"
        /\ \A w \in Started : w[1] = n => ~Before(results[n], w)

\* Only the thread being joined is still wanted: all other live threads were
\* abandoned (watchdog.py, docstring).
StrayThreadsAbandoned ==
    \A w \in alive \ abandoned : main = "join" /\ w = Current

\* The watchdog gives up only when the call had all its restarts, and each of its
\* threads failed or hung (watchdog.py, run).
GivesUpOnlyWhenSpent ==
    main = "gave_up" =>
        \A a \in 0..MaxRestarts :
            <<call, a>> \in abandoned \/ box[<<call, a>>] = "error"

\* A fatal error that was waited for ends the run: nothing starts after it.
FatalIsLast ==
    \A w \in Workers \ abandoned :
        box[w] = "fatal" => \A v \in Started : ~Before(w, v)

\* Whatever the workers do, the watchdog comes to an end: a hang is contained.
HangIsContained == <>Terminated
=============================================================================
