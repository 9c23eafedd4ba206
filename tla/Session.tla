------------------------------ MODULE Session -------------------------------
(***************************************************************************)
(* One sitting at the menu: the program loads its configuration, the user  *)
(* enters overrides, runs debates one after the other and looks at the     *)
(* last result, through one Actions object and one DebateSDK.  The engine  *)
(* is built anew for each debate, the gatekeeper is not: all debates of a  *)
(* sitting draw on one budget.  A debate is its turns done, its model calls *)
(* paid and the call it is making here; System opens it.  A search passes  *)
(* the same gate and is such a call too.                                   *)
(***************************************************************************)
EXTENDS Integers, Sequences

CONSTANTS
    Topics,          \* what the user may enter as a topic
    DefaultTopic,    \* config.debate.topic
    DefaultRounds,   \* config.debate.rounds_per_side
    RoundInputs,     \* what the user may enter as rounds, as far as it is a number
    Junk,            \* rounds that are not a number
    None,            \* Python's None; a blank input
    MaxCalls,        \* config.gatekeeper.max_total_calls
    MaxRuns,         \* bound on the debates of a sitting
    MaxStrays        \* bound on the abandoned threads that still run

ASSUME DefaultsAssumption == DefaultRounds \in Nat \ {0}
ASSUME InputsAssumption   == RoundInputs \subseteq Int
ASSUME BoundsAssumption   == MaxCalls \in Nat /\ MaxRuns \in Nat /\ MaxStrays \in Nat
ASSUME NamesAssumption    == None \notin Topics /\ {None, Junk} \cap Int = {}

VARIABLES
    program,   \* where main stands: "starting", at the "menu" or "ended"
    keyed,     \* whether the provider needs no key or finds it in the environment
    topic,     \* Actions._topic
    rounds,    \* Actions._rounds
    running,   \* the config of the debate being run, or None
    done,      \* its turns and verdict so far
    paid,      \* the calls it has paid for
    call,      \* its present call: "idle", "asked" (let through) or "paid" (recorded)
    spent,     \* Gatekeeper: the calls recorded
    strays,    \* the abandoned threads that still run, of all debates
    adrift,    \* those of them the gate has let through and not yet recorded
    result,    \* DebateSDK._result: the config it was made with and its cost
    runs       \* the debates started

processVars == <<program, keyed>>
menuVars    == <<topic, rounds, result, runs>>
debateVars  == <<running, done, paid, call>>
strayVars   == <<strays, adrift>>
vars == <<processVars, menuVars, debateVars, strayVars, spent>>

Init ==
    /\ program = "starting" /\ keyed \in BOOLEAN
    /\ topic = None /\ rounds = None
    /\ running = None /\ done = 0 /\ paid = 0 /\ call = "idle"
    /\ spent = 0 /\ strays = 0 /\ adrift = 0
    /\ result = None
    /\ runs = 0

\* The turns of both sides and the verdict.
Steps(config) == 2 * config.rounds + 1

-----------------------------------------------------------------------------
\* main opens the menu on an SDK built from the configuration, key or no key ...
Open ==
    /\ program = "starting"
    /\ program' = "menu"
    /\ UNCHANGED <<keyed, menuVars, debateVars, strayVars, spent>>

\* ... unless load_config raises: there is no such file, it does not parse, or it
\* breaks a rule of the schema.
OpenFails ==
    /\ program = "starting"
    /\ program' = "ended"
    /\ UNCHANGED <<keyed, menuVars, debateVars, strayVars, spent>>

AtMenu == program = "menu" /\ running = None

\* Exit; abandoned threads are daemons and end here too.
Leave ==
    /\ AtMenu
    /\ program' = "ended"
    /\ UNCHANGED <<keyed, menuVars, debateVars, strayVars, spent>>

GoodRounds(r) == r \in RoundInputs /\ r >= 1

\* Mutant: the rounds are stored before they are looked at.
ConfigureUnchecked(t, r) ==
    /\ AtMenu
    /\ topic' = IF t = None THEN topic ELSE t
    /\ rounds' = IF r \in RoundInputs THEN r ELSE rounds
    /\ UNCHANGED <<processVars, result, runs, debateVars, strayVars, spent>>

\* Actions.configure: the topic is stored before the rounds are looked at, so it
\* stays even when these are refused with an error.
Configure(t, r) ==
    /\ AtMenu
    /\ topic' = IF t = None THEN topic ELSE t
    /\ rounds' = IF GoodRounds(r) THEN r ELSE rounds
    /\ UNCHANGED <<processVars, result, runs, debateVars, strayVars, spent>>

\* DebateSDK._with_overrides: a copy of the configuration, not validated again.
WithOverrides ==
    [topic  |-> IF topic = None THEN DefaultTopic ELSE topic,
     rounds |-> IF rounds = None THEN DefaultRounds ELSE rounds]

\* Mutant: each debate gets a gatekeeper of its own.
RunAfresh ==
    /\ AtMenu
    /\ runs < MaxRuns
    /\ running' = WithOverrides
    /\ done' = 0 /\ paid' = 0
    /\ spent' = 0
    /\ runs' = runs + 1
    /\ UNCHANGED <<processVars, topic, rounds, result, call, strayVars>>

\* Actions.run: the overrides stay in place after it.
Run ==
    /\ AtMenu
    /\ runs < MaxRuns
    /\ running' = WithOverrides
    /\ done' = 0 /\ paid' = 0
    /\ runs' = runs + 1
    /\ UNCHANGED <<processVars, topic, rounds, result, call, strayVars, spent>>

-----------------------------------------------------------------------------
\* Gatekeeper.check lets the debate's next call through: the totals it reads here
\* are all it goes by, whatever is recorded before the call is.
Ask ==
    /\ running # None /\ keyed
    /\ call = "idle" /\ done < Steps(running)
    /\ spent < MaxCalls
    /\ call' = "asked"
    /\ UNCHANGED <<processVars, menuVars, running, done, paid, strayVars, spent>>

\* Gatekeeper.record: the answer has come and is charged.
Record ==
    /\ call = "asked"
    /\ call' = "paid" /\ paid' = paid + 1
    /\ spent' = spent + 1
    /\ UNCHANGED <<processVars, menuVars, running, done, strayVars>>

\* What was paid for completes a turn or the verdict, or it does not: a search, an
\* intervention, an answer that is refused and asked for again.
Use ==
    /\ call = "paid"
    /\ call' = "idle" /\ done' \in {done, done + 1}
    /\ UNCHANGED <<processVars, menuVars, running, paid, strayVars, spent>>

\* The call fails: nothing is charged.
CallFails ==
    /\ call = "asked"
    /\ call' = "idle"
    /\ UNCHANGED <<processVars, menuVars, running, done, paid, strayVars, spent>>

\* The watchdog gives up the thread of a turn or of the verdict, wherever it is.
Abandon ==
    /\ running # None /\ keyed /\ done < Steps(running)
    /\ strays < MaxStrays
    /\ strays' = strays + 1
    /\ adrift' = IF call = "asked" THEN adrift + 1 ELSE adrift
    /\ call' = "idle"
    /\ UNCHANGED <<processVars, menuVars, running, done, paid, spent>>

\* It goes on, in this debate and in later ones: it asks the gate for its next call ...
StrayAsks ==
    /\ program = "menu"
    /\ adrift < strays
    /\ spent < MaxCalls
    /\ adrift' = adrift + 1
    /\ UNCHANGED <<processVars, menuVars, debateVars, strays, spent>>

\* ... which is charged ...
StrayRecords ==
    /\ program = "menu"
    /\ adrift > 0
    /\ adrift' = adrift - 1
    /\ spent' = spent + 1
    /\ UNCHANGED <<processVars, menuVars, debateVars, strays>>

\* ... or fails ...
StrayFails ==
    /\ program = "menu"
    /\ adrift > 0
    /\ adrift' = adrift - 1
    /\ UNCHANGED <<processVars, menuVars, debateVars, strays, spent>>

\* ... and it ends: what it comes to goes into a box that nobody opens.
StrayEnds ==
    /\ program = "menu"
    /\ adrift < strays
    /\ strays' = strays - 1
    /\ UNCHANGED <<processVars, menuVars, debateVars, adrift, spent>>

-----------------------------------------------------------------------------
\* Mutant: an aborted debate leaves a result too.
FailWithResult ==
    /\ running # None /\ keyed
    /\ call = "idle" /\ done < Steps(running)
    /\ result' = [config |-> running, paid |-> paid]
    /\ running' = None
    /\ UNCHANGED <<processVars, topic, rounds, runs, done, paid, call, strayVars, spent>>

\* There is no key: Engine.from_config finds out when it builds the first provider.
Keyless ==
    /\ running # None /\ ~keyed
    /\ running' = None
    /\ UNCHANGED <<processVars, menuVars, done, paid, call, strayVars, spent>>

\* Engine.run raises: the gate vetoes a call or a turn used up its restarts.  The
\* menu prints the error and goes on; the earlier result stays, the transcript of
\* this debate is gone.
Fail ==
    /\ running # None /\ keyed
    /\ call = "idle" /\ done < Steps(running)
    /\ running' = None
    /\ UNCHANGED <<processVars, menuVars, done, paid, call, strayVars, spent>>

Complete ==
    /\ running # None
    /\ call = "idle" /\ done = Steps(running)
    /\ result' = [config |-> running, paid |-> paid]
    /\ running' = None
    /\ UNCHANGED <<processVars, topic, rounds, runs, done, paid, call, strayVars, spent>>

-----------------------------------------------------------------------------
Next ==
    \/ Open
    \/ OpenFails
    \/ Leave
    \/ \E t \in Topics \cup {None}, r \in RoundInputs \cup {Junk, None} : Configure(t, r)
    \/ Run
    \/ Ask
    \/ Record
    \/ Use
    \/ CallFails
    \/ Abandon
    \/ StrayAsks
    \/ StrayRecords
    \/ StrayFails
    \/ StrayEnds
    \/ Keyless
    \/ Fail
    \/ Complete
    \/ program = "ended" /\ UNCHANGED vars

Spec == Init /\ [][Next]_vars

-----------------------------------------------------------------------------
\* Every variable has its type; through the menu no debate is configured with less
\* than one round, whatever was typed (actions.py, configure; the SDK itself does
\* not look); the calls recorded pass the limit by no more than the abandoned threads
\* that can run at once, however many were abandoned before (limiter.py).
TypeOK ==
    /\ program \in {"starting", "menu", "ended"} /\ keyed \in BOOLEAN
    /\ running # None => program = "menu"
    /\ topic \in Topics \cup {None}
    /\ rounds = None \/ rounds \in Nat \ {0}
    /\ running = None \/ (running.rounds \in Nat \ {0} /\ done \in 0..Steps(running))
    /\ call \in {"idle", "asked", "paid"}
    /\ call # "idle" => keyed /\ running # None /\ done < Steps(running)
    /\ strays \in 0..MaxStrays /\ adrift \in 0..strays
    /\ paid \in 0..spent /\ spent \in 0..(MaxCalls + MaxStrays)
    /\ runs \in 0..MaxRuns

\* The result shown is that of a debate that ran to its verdict, with all of its turns
\* paid for (sdk.py, run_debate), however many debates failed before or after it.
ResultIsComplete == result # None => result.paid >= Steps(result.config)

\* The budget is spent, and the debate, if one is being run, neither has all its turns
\* nor a call that the gate has let through.  Abandoned threads may have such calls.
Exhausted ==
    /\ spent >= MaxCalls
    /\ running # None => call = "idle" /\ done < Steps(running)

\* A spent budget stays spent (limiter.py has no reset): once the debate has no call
\* left that passed the gate before, neither it nor a later one of the sitting gets to
\* a result any more, whatever is configured and however late others are answered.
ExhaustedForGood == [][Exhausted => Exhausted' /\ result' = result]_vars
=============================================================================
