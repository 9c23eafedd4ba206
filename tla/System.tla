------------------------------- MODULE System -------------------------------
(***************************************************************************)
(* The program put together: several debates of one sitting, played by     *)
(* Engine.run on the engine's thread (Debate), each guarded call on a      *)
(* worker thread of its own (Watchdog) that calls the model through its    *)
(* agent's ResilientProvider (Resilience), all on one budget (Gatekeeper). *)
(* Abandoned workers go on, in later turns and in later debates.  There is *)
(* no web tool, as with the mock provider or without a search key.         *)
(*                                                                         *)
(* Guarded calls are numbered through all debates.  A caller is the worker *)
(* of a restart of a call or, beyond the last restart, the engine's thread *)
(* itself: it asks the judge for a reminder before it makes that call.     *)
(***************************************************************************)
EXTENDS Integers, Sequences, FiniteSets

CONSTANTS
    Rounds,       \* config.debate.rounds_per_side
    MaxRestarts,  \* config.watchdog.max_restarts
    Retries,      \* config.timeouts.retries
    Threshold,    \* config.timeouts.circuit_breaker_threshold
    MaxCalls,     \* config.gatekeeper.max_total_calls
    None,         \* Python's None
    Debates,      \* bound on the debates of a sitting
    MaxHangs      \* bound on the workers that overrun

ASSUME SizesAssumption == Rounds \in Nat \ {0} /\ Debates \in Nat \ {0} /\ MaxHangs \in Nat
ASSUME LimitsAssumption ==
    /\ MaxRestarts \in Nat /\ Retries \in Nat
    /\ Threshold \in Nat \ {0} /\ MaxCalls \in Nat

VARIABLES
    main, call, attempt, box, alive, abandoned, results,           \* Watchdog
    pc, number, side, transcript, inbox, heard, verdict, cause,    \* Debate
    used, blocked, stage, provider, projected, tries, failures, open, sent, late,
    debate,    \* which debate of the sitting is being played
    asked,     \* the relay that each worker was started with
    refused,   \* history: the workers whose paid answer was refused
    lost       \* history: the callers whose request failed for good since their
               \* provider last answered

CallsEach == 2 * Rounds + 1
Calls     == Debates * CallsEach

DebateOf(n) == ((n - 1) \div CallsEach) + 1
TurnIn(n)   == ((n - 1) % CallsEach) + 1

\* Engine.from_config builds a provider, and so a breaker, for each agent of each
\* debate; turns alternate, and the last call of a debate is the verdict.
Providers  == (1..Debates) \X {"pro", "con", "judge"}
Speaker(n) == IF TurnIn(n) % 2 = 1 THEN "pro" ELSE "con"
ProviderOf(c) ==
    <<DebateOf(c[1]),
      IF TurnIn(c[1]) = CallsEach \/ c[2] > MaxRestarts THEN "judge" ELSE Speaker(c[1])>>

Callers == (1..Calls) \X (0..(MaxRestarts + 1))
OneCall == [calls |-> 1, input |-> 0, output |-> 0]

W == INSTANCE Watchdog
D == INSTANCE Debate
P == INSTANCE Resilience WITH
        Estimates <- {OneCall}, Actuals <- {OneCall}, MaxSent <- Cardinality(Callers) * (Retries + 1),
        MaxTokens <- 0, MaxUsd <- 0, InRate <- 0, OutRate <- 0

watchdogVars == <<main, call, attempt, box, alive, abandoned, results>>
debateVars   == <<pc, number, side, transcript, inbox, heard, verdict, cause>>
callVars     == <<used, blocked, stage, provider, projected, tries, failures, open, late, sent>>
ownVars      == <<debate, asked, refused, lost>>
vars         == <<watchdogVars, debateVars, callVars, ownVars>>

Init ==
    /\ W!Init /\ D!Init
    /\ provider = [c \in Callers |-> ProviderOf(c)] /\ P!Init
    /\ debate = 1
    /\ asked = [w \in W!Workers |-> None]
    /\ refused = {} /\ lost = {}

-----------------------------------------------------------------------------
\* Mutant: the closure holds what was last relayed to the other side.
StartWithOther ==
    /\ pc \in {"turn", "verdict"}
    /\ W!Start
    /\ asked' = [asked EXCEPT ![W!Current] = IF pc = "turn" THEN inbox[D!Opponent(side)] ELSE None]
    /\ UNCHANGED <<debateVars, callVars, debate, refused, lost>>

\* The guard starts a worker; its closure holds the relay to be rebutted.
Start ==
    /\ pc \in {"turn", "verdict"}
    /\ W!Start
    /\ asked' = [asked EXCEPT ![W!Current] = IF pc = "turn" THEN inbox[side] ELSE None]
    /\ UNCHANGED <<debateVars, callVars, debate, refused, lost>>

\* The engine's thread while it routes.
Self == <<call, MaxRestarts + 1>>

\* A worker, or the engine's thread for a reminder, calls its provider.
Begin(c) ==
    /\ \/ c \in alive /\ box[c] = "empty"
       \/ c = Self /\ pc = "route" /\ D!ShouldIntervene(D!Spoken.text)
    /\ P!Begin(c, ProviderOf(c), OneCall)
    /\ UNCHANGED <<watchdogVars, debateVars, ownVars>>

\* What happens inside of ResilientProvider.complete.  Once a provider answers, nothing
\* it was asked before counts as asked in vain.
Proceed(c) ==
    /\ \/ /\ \/ P!Admit(c)
             \/ P!PassBreaker(c)
             \/ P!Attempt(c)
             \/ P!Charge(c, OneCall)
             \/ P!FailTransient(c)
             \/ P!Backoff(c)
          /\ UNCHANGED lost
       \/ P!Answer(c) /\ lost' = {d \in lost : ProviderOf(d) # ProviderOf(c)}
    /\ UNCHANGED <<watchdogVars, debateVars, debate, asked, refused>>

\* The breaker is open, the tries are used up, or the request fails for good.
CallFails(c) ==
    \/ (P!Reject(c) \/ P!GiveUp(c)) /\ UNCHANGED lost
    \/ P!FailPermanent(c) /\ lost' = lost \cup {c}

\* A worker's call is over: a veto, an error, an answer that is refused (by the
\* moderator, or as a verdict that cannot be parsed), or a result.
Finish(w) ==
    /\ \/ P!Veto(w) /\ W!Finish(w, "fatal") /\ UNCHANGED <<refused, lost>>
       \/ CallFails(w) /\ W!Finish(w, "error") /\ UNCHANGED refused
       \/ P!Return(w) /\ W!Finish(w, "error") /\ refused' = refused \cup {w} /\ UNCHANGED lost
       \/ P!Return(w) /\ W!Finish(w, "ok") /\ UNCHANGED <<refused, lost>>
    /\ UNCHANGED <<debateVars, debate, asked>>

Exit(w) == W!Exit(w) /\ UNCHANGED <<debateVars, callVars, ownVars>>

-----------------------------------------------------------------------------
\* The message that a worker made of the relay it was started with.
TurnOf(w, text) ==
    [sender |-> Speaker(w[1]), recipient |-> "judge",
     type |-> IF asked[w] = None THEN "argument" ELSE "rebuttal",
     round |-> (TurnIn(w[1]) + 1) \div 2, text |-> text, rebuts |-> asked[w]]

\* The guard returns the worker's result: the turn is recorded, or the verdict given.
Return ==
    /\ W!Return
    /\ \/ /\ pc = "turn"
          /\ \E text \in D!Texts : transcript' = Append(transcript, TurnOf(W!Current, text))
          /\ heard' = [heard EXCEPT ![side] = @ \cup ({asked[W!Current]} \ {None})]
          /\ pc' = "route"
          /\ UNCHANGED <<number, side, inbox, verdict, cause>>
       \/ \E winner \in D!Debaters : D!Decide(winner)
    /\ UNCHANGED <<callVars, ownVars>>

\* It restarts the worker or gives up, or passes the budget's error on.
Fail ==
    /\ \/ W!Error
       \/ Cardinality(abandoned) < MaxHangs /\ W!Timeout
    /\ D!GuardFails
    /\ UNCHANGED <<callVars, ownVars>>

Halt == W!Fatal /\ D!BudgetGone /\ UNCHANGED <<callVars, ownVars>>

Relay == D!Relay /\ UNCHANGED <<main, call, box, alive, abandoned, results, callVars, ownVars>>

\* The judge's reminder comes, or its call fails.
Remind ==
    /\ \/ P!Return(Self) /\ D!RelayAndIntervene("firm") /\ UNCHANGED lost
       \/ P!Veto(Self) /\ D!InterveneFails /\ cause' = "budget" /\ UNCHANGED lost
       \/ CallFails(Self) /\ D!InterveneFails /\ cause' = "failure"
    /\ UNCHANGED <<main, call, box, alive, abandoned, results, debate, asked, refused>>

\* The next debate of the sitting: a new engine on the old budget.
NextDebate ==
    /\ pc \in {"done", "aborted"}
    /\ debate < Debates
    /\ debate' = debate + 1
    /\ main' = "start"
    /\ call' = debate * CallsEach + 1
    /\ pc' = "turn" /\ number' = 1 /\ side' = "pro" /\ attempt' = 0
    /\ transcript' = <<>>
    /\ inbox' = [d \in D!Debaters |-> None]
    /\ heard' = [d \in D!Debaters |-> {}]
    /\ verdict' = None /\ cause' = None
    /\ UNCHANGED <<box, alive, abandoned, results, callVars, asked, refused, lost>>

Terminated == pc \in {"done", "aborted"} /\ debate = Debates /\ UNCHANGED vars

Next ==
    \/ Start
    \/ Return
    \/ Fail
    \/ Halt
    \/ Relay
    \/ Remind
    \/ NextDebate
    \/ \E c \in Callers : Begin(c) \/ Proceed(c)
    \/ \E w \in W!Workers : Finish(w) \/ Exit(w)
    \/ Terminated

Spec == Init /\ [][Next]_vars
-----------------------------------------------------------------------------
\* The whole program plays the debate that Debate describes: whatever restarts,
\* late answers and strays of this or an earlier debate there are, each of its steps
\* is one of Debate or changes nothing there.  A turn rebuts the relay that its
\* thread was started with, which is still the last one when it is recorded
\* (engine.py, round.py, watchdog.py).
PlaysDebate == D!Init /\ [][D!Next \/ NextDebate]_<<debateVars, attempt>>

\* The budget of the program (limiter.py, watchdog.py): of all threads only those
\* the watchdog abandoned can be ahead of each other at the gate, so the calls
\* recorded and under way pass the limit by no more than their number.
OvershootIsAbandoned ==
    used.calls + Cardinality(P!Admitted) <= MaxCalls + Cardinality(abandoned)

\* The callers at a provider whose request failed for good since it last answered.
LostAt(p) == {c \in lost : ProviderOf(c) = p}

\* Failed requests are not charged (resilience.py).  An agent's requests in a row that
\* nobody paid for are the transient failures the breaker counts, the permanent ones it
\* does not see, and those under way.  The restarts of a turn are what bounds the
\* permanent ones: together they pass the threshold by at most the restarts and the
\* threads abandoned at that agent.
UnpaidBounded ==
    \A p \in Providers :
        failures[p] + Cardinality(P!UnderWay(p)) + Cardinality(LostAt(p))
            <= Threshold + MaxRestarts + Cardinality({w \in abandoned : ProviderOf(w) = p})

\* The budget is spent, and nobody is past the gate.
Exhausted ==
    /\ used.calls >= MaxCalls
    /\ \A c \in Callers :
          stage[c] \in {"idle", "recorded"} \/ (stage[c] = "checking" /\ P!Exceeds(projected[c]))

\* From then on no request is sent any more: not by a restart, not by a thread
\* abandoned earlier, not in the next debate (limiter.py, sdk.py).
SpentForGood == [][Exhausted => Exhausted' /\ sent' = sent]_vars

Reminders == {i \in DOMAIN transcript : transcript[i].type = "intervention"}

\* Nothing the model said is free (resilience.py, debater.py): the results of all
\* debates, the answers that were refused after they had come, and the reminders of
\* this debate have all been recorded in the budget.
AllPaid ==
    Len(results) + Cardinality(refused) + Cardinality(Reminders) <= used.calls
=============================================================================
