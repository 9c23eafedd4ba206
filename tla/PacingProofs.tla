---------------------------- MODULE PacingProofs ----------------------------
(***************************************************************************)
(* The clocks of a guarded call, for all values of the configuration.      *)
(*                                                                         *)
(* Clocked holds whatever they are: Spaced relates the failures of a       *)
(* thread to how long the provider was down (its pauses were in that       *)
(* time), and InTime how long a thread is waited for to its pauses.        *)
(*                                                                         *)
(* The two promises of config.yaml need room: RateHeadroom and             *)
(* OutageHeadroom are conditions on the values alone.  Under the first,    *)
(* Punctual: while a rate window lasts, all turns are at their first       *)
(* attempt.  Under the second, Weathered: while the outage is shorter than *)
(* the keepalive, a turn is restarted once at most, late in the outage     *)
(* (OnTime), so the restart has few failures (SpacedLate), they do not     *)
(* open the breaker together with those of the abandoned thread (Streak),  *)
(* and the restart is answered before its time is up (Recovers).  Both are *)
(* about runs in which no search took longer than Search: nothing in the   *)
(* program ends a longer one.                                              *)
(***************************************************************************)
EXTENDS Pacing, TLAPS

Phases == {"none", "searching", "ready", "hanging", "answering", "pausing", "ok", "error"}

\* For how long the engine's thread has waited for the current thread.
Elapsed == IF main = "join" THEN Keepalive - patience ELSE 0

-----------------------------------------------------------------------------
\* The attempts at a turn, and at a request, are counted within their limits.
Typed ==
    /\ TypeOK
    /\ main \in {"start", "join"} => attempt <= MaxRestarts
    /\ \A w \in Workers :
          /\ stage[w] \in {"none", "searching"} => tries[w] = 0
          /\ stage[w] \in {"ready", "hanging", "answering", "pausing"} => tries[w] <= Retries
          /\ stage[w] = "hanging" => hung

\* The threads of turns and attempts still to come.
ToCome(w) ==
    \/ turn < w[1]
    \/ turn = w[1] /\ attempt < w[2]
    \/ w = Current /\ main = "start"

Fresh ==
    /\ main \in {"start", "join"} => \A w \in Workers : ToCome(w) => stage[w] = "none"
    /\ main = "join" => stage[Current] # "none"

LEMMA PauseType ==
  ASSUME NEW n \in Nat
  PROVE  /\ Paused(n) \in Nat /\ PauseAfter(n) \in Nat
         /\ Paused(n + 1) = Paused(n) + PauseAfter(n + 1)
         /\ n > 0 => Paused(n) = Paused(n - 1) + PauseAfter(n)
  <1>1. Backoff \in Nat
    BY UnitsAssumption, ConfigAssumption DEF TimeoutsConfig
  <1> DEFINE T(k) == (k * (k + 1)) \div 2
  <1>2. ASSUME NEW k \in Nat
        PROVE  T(k) \in Nat /\ T(k + 1) = T(k) + (k + 1)
    <2>1. (k + 1) * ((k + 1) + 1) = k * (k + 1) + 2 * (k + 1)
      OBVIOUS
    <2>2. k * (k + 1) \in Nat
      OBVIOUS
    <2>3. PICK a \in Nat : a = k * (k + 1)
      BY <2>2
    <2>4. (k + 1) * ((k + 1) + 1) = a + 2 * (k + 1)
      BY <2>1, <2>3
    <2> HIDE DEF T
    <2>5. T(k) = a \div 2 /\ T(k + 1) = (a + 2 * (k + 1)) \div 2
      BY <2>3, <2>4 DEF T
    <2> QED
      BY <2>5
  <1>3. ASSUME NEW k \in Nat
        PROVE  /\ Paused(k) \in Nat /\ PauseAfter(k) \in Nat
               /\ Paused(k + 1) = Paused(k) + PauseAfter(k + 1)
    <2> HIDE DEF T
    <2>1. PICK t \in Nat : t = T(k)
      BY <1>2
    <2>2. Paused(k) = Backoff * t /\ Paused(k + 1) = Backoff * (t + (k + 1))
      BY <1>2, <2>1 DEF Paused, T
    <2>3. Backoff * (t + (k + 1)) = Backoff * t + Backoff * (k + 1)
      BY <1>1
    <2>4. Backoff * t \in Nat /\ Backoff * k \in Nat
      BY <1>1
    <2> QED
      BY <2>2, <2>3, <2>4 DEF PauseAfter
  <1>4. ASSUME n > 0 PROVE Paused(n) = Paused(n - 1) + PauseAfter(n)
    <2>1. PICK k \in Nat : n = k + 1
      BY <1>4
    <2>2. n - 1 = k
      BY <2>1
    <2> QED
      BY <1>3, <2>1, <2>2
  <1> QED
    BY <1>3, <1>4

\* More pauses take longer.
LEMMA PausedGrows ==
  ASSUME NEW m \in Nat, NEW n \in Nat, m <= n
  PROVE  Paused(m) <= Paused(n)
  <1>1. Backoff \in Nat
    BY UnitsAssumption, ConfigAssumption DEF TimeoutsConfig
  <1>2. PICK d \in Nat : n = m + d
    BY Z3
  <1>3. n * (n + 1) = m * (m + 1) + d * (2 * m + d + 1)
    BY <1>2
  <1>4. PICK a \in Nat, b \in Nat : a = m * (m + 1) /\ b = d * (2 * m + d + 1)
    OBVIOUS
  <1>5. n * (n + 1) = a + b
    BY <1>3, <1>4
  <1>6. PICK s \in Nat, t \in Nat : s = a \div 2 /\ t = (a + b) \div 2 /\ s <= t
    OBVIOUS
  <1>7. Paused(m) = Backoff * s /\ Paused(n) = Backoff * t
    BY <1>4, <1>5, <1>6 DEF Paused
  <1>8. PICK e \in Nat : t = s + e
    BY <1>6
  <1>9. Backoff * (s + e) = Backoff * s + Backoff * e /\ Backoff * e \in Nat /\ Backoff * s \in Nat
    BY <1>1
  <1> QED
    BY <1>7, <1>8, <1>9

LEMMA NoPause == Paused(0) = 0
  BY UnitsAssumption, ConfigAssumption DEF Paused, TimeoutsConfig

LEMMA ConstantTypes ==
  /\ Search \in Nat \ {0} /\ Request \in Nat \ {0} /\ Retries \in Nat /\ Keepalive \in Nat \ {0}
  /\ MaxRestarts \in Nat /\ Latency \in Nat /\ Window \in Nat /\ Turns \in Nat \ {0}
  /\ Longest \in Nat /\ Threshold \in Nat \ {0}
  BY UnitsAssumption, ConfigAssumption, WorldAssumption
  DEF TimeoutsConfig, WatchdogConfig, SearchConfig

LEMMA WorkerParts ==
  ASSUME NEW w \in Workers
  PROVE  w = <<w[1], w[2]>> /\ w[1] \in 1..Turns /\ w[2] \in 0..MaxRestarts
  BY DEF Workers

LEMMA CurrentIsWorker ==
  ASSUME Typed, main \in {"start", "join"}
  PROVE  Current \in Workers /\ Current[1] = turn /\ Current[2] = attempt
  BY ConstantTypes DEF Typed, TypeOK, Workers, Current

-----------------------------------------------------------------------------
LEMMA InitTyped == Init => Typed /\ Fresh
  <1> SUFFICES ASSUME Init PROVE Typed /\ Fresh
    OBVIOUS
  <1>1. /\ stage = [w \in Workers |-> "none"] /\ left = [w \in Workers |-> 0]
        /\ tries = [w \in Workers |-> 0]
    BY DEF Init
  <1>2. TypeOK
    <2>1. /\ stage \in [Workers -> {"none", "searching", "ready", "hanging", "answering",
                                   "pausing", "ok", "error"}]
          /\ left \in [Workers -> Nat] /\ tries \in [Workers -> 0..(Retries + 1)]
      BY <1>1, ConstantTypes
    <2>2. /\ turn \in 1..Turns /\ attempt \in 0..(MaxRestarts + 1) /\ patience \in 0..Keepalive
          /\ lasted \in 0..Longest
      BY ConstantTypes DEF Init
    <2> QED
      BY <2>1, <2>2 DEF Init, TypeOK
  <1> QED
    BY <1>1, <1>2, ConstantTypes DEF Init, Typed, Fresh

\* A worker's step changes no one else's state.
LEMMA FailedTyped ==
  ASSUME Typed, NEW w \in Workers, tries[w] <= Retries, Failed(w)
  PROVE  Typed'
  <1>1. PICK n \in Nat : n = tries[w]
    BY DEF Typed, TypeOK
  <1>2. /\ tries' = [tries EXCEPT ![w] = n + 1] /\ tries'[w] = n + 1
        /\ failures' = failures + 1 /\ open' \in BOOLEAN
    BY <1>1 DEF Failed, Typed, TypeOK, Opens
  <1>3. PauseAfter(n + 1) \in Nat
    BY PauseType
  <1>4. \/ stage' = [stage EXCEPT ![w] = "error"] /\ left' = [left EXCEPT ![w] = 0]
        \/ /\ stage' = [stage EXCEPT ![w] = "pausing"]
           /\ left' = [left EXCEPT ![w] = PauseAfter(n + 1)]
           /\ n + 1 # Retries + 1
    BY <1>2 DEF Failed, Enter, LastTry
  <1>5. UNCHANGED <<main, turn, attempt, patience, outage, lasted, hung, slow>>
    BY DEF Failed, engineVars, worldVars
  <1> QED
    BY <1>1, <1>2, <1>3, <1>4, <1>5, ConstantTypes DEF Typed, TypeOK

LEMMA StepTyped == Typed /\ Fresh /\ [Next]_vars => Typed'
  <1> SUFFICES ASSUME Typed, Fresh, [Next]_vars PROVE Typed'
    OBVIOUS
  <1> USE ConstantTypes
  <1>1. CASE Start
    <2>1. Current \in Workers /\ stage[Current] = "none"
      BY <1>1, CurrentIsWorker DEF Start, Fresh, ToCome
    <2> QED
      BY <1>1, <2>1, WorldAssumption DEF Start, Research, Enter, Typed, TypeOK, breakerVars
  <1>2. CASE Return
    BY <1>2 DEF Return, Typed, TypeOK, threadVars, breakerVars, worldVars
  <1>3. CASE Fail
    BY <1>3 DEF Fail, Typed, TypeOK, threadVars, breakerVars, worldVars
  <1>4. ASSUME NEW w \in Workers, Begin(w) \/ Send(w) \/ Hang(w) \/ Resume(w) \/ Answer(w)
        PROVE  Typed'
    <2>1. \E s \in Phases, time \in Nat :
             /\ stage' = [stage EXCEPT ![w] = s] /\ left' = [left EXCEPT ![w] = time]
             /\ tries[w] <= Retries \/ s \in {"ok", "error"}
             /\ s # "none" /\ s # "searching" /\ (s = "hanging" => hung')
      BY <1>4 DEF Begin, Send, Hang, Resume, Answer, Enter, Phases, Typed, TypeOK
    <2>2. /\ UNCHANGED <<main, turn, attempt, patience, tries, outage, lasted, slow>>
          /\ failures' \in Nat /\ open' \in BOOLEAN /\ hung' \in BOOLEAN /\ (hung => hung')
      BY <1>4 DEF Begin, Send, Hang, Resume, Answer, engineVars, breakerVars, worldVars, Typed,
         TypeOK
    <2> QED
      BY <2>1, <2>2 DEF Typed, TypeOK, Phases
  <1>5. ASSUME NEW w \in Workers, Refused(w) \/ TimesOut(w) PROVE Typed'
    BY <1>5, FailedTyped DEF Refused, TimesOut, Typed
  <1>6. CASE OutageBegins \/ OutageEnds
    BY <1>6 DEF OutageBegins, OutageEnds, Typed, TypeOK, engineVars, threadVars, breakerVars
  <1>7. CASE Tick
    <2>1. ASSUME NEW w \in Timed PROVE left[w] - 1 \in Nat
      BY <1>7, <2>1 DEF Tick, Waiting, Timed, Typed, TypeOK
    <2> QED
      BY <1>7, <2>1 DEF Tick, Waiting, Typed, TypeOK, breakerVars
  <1>8. CASE UNCHANGED vars
    BY <1>8 DEF vars, engineVars, threadVars, breakerVars, worldVars, Typed, TypeOK
  <1> QED
    BY <1>1, <1>2, <1>3, <1>4, <1>5, <1>6, <1>7, <1>8 DEF Next

LEMMA StepFresh == Typed /\ Fresh /\ [Next]_vars => Fresh'
  <1> SUFFICES ASSUME Typed, Fresh, [Next]_vars PROVE Fresh'
    OBVIOUS
  <1> USE ConstantTypes
  <1>1. CASE Start
    <2>1. Current \in Workers /\ stage' = [stage EXCEPT ![Current] = "searching"]
          /\ main = "start" /\ main' = "join" /\ UNCHANGED <<turn, attempt>>
      BY <1>1, CurrentIsWorker DEF Start, Research, Enter
    <2>2. Current' = Current /\ stage'[Current] = "searching"
      BY <2>1 DEF Current, Typed, TypeOK
    <2>3. ASSUME NEW w \in Workers, ToCome(w)' PROVE ToCome(w) /\ w # Current
      <3>1. Current[1] = turn /\ Current[2] = attempt /\ turn \in Nat /\ attempt \in Nat
        BY <2>1, CurrentIsWorker DEF Typed, TypeOK
      <3>2. turn < w[1] \/ (turn = w[1] /\ attempt < w[2])
        BY <2>1, <2>3 DEF ToCome
      <3> QED
        BY <3>1, <3>2 DEF ToCome
    <2> QED
      BY <2>1, <2>2, <2>3 DEF Fresh, Typed, TypeOK
  <1>2. CASE Return \/ Fail
    <2>1. stage' = stage /\ main = "join" /\ main' # "join" /\ turn \in Nat /\ attempt \in Nat
      BY <1>2 DEF Return, Fail, threadVars, Typed, TypeOK
    <2>2. ASSUME NEW w \in Workers, ToCome(w)', main' = "start" PROVE ToCome(w)
      <3>1. \/ turn' = turn + 1 /\ attempt' = 0
            \/ turn' = turn /\ attempt' = attempt + 1
        BY <1>2, <2>2 DEF Return, Fail
      <3>2. w = Current' => w[1] = turn' /\ w[2] = attempt'
        BY DEF Current
      <3> QED
        BY <2>1, <2>2, <3>1, <3>2, WorkerParts DEF ToCome
    <2> QED
      BY <2>1, <2>2 DEF Fresh
  <1>4. ASSUME NEW w \in Workers,
               \/ Begin(w) \/ Send(w) \/ Hang(w) \/ Resume(w) \/ Answer(w)
               \/ Refused(w) \/ TimesOut(w)
        PROVE  Fresh'
    <2>1. /\ \A v \in Workers : v # w => stage'[v] = stage[v]
          /\ stage[w] # "none" /\ stage'[w] # "none"
          /\ UNCHANGED <<main, turn, attempt>>
      BY <1>4 DEF Begin, Send, Hang, Resume, Answer, Refused, TimesOut, Failed, Enter, Typed,
         TypeOK, engineVars
    <2>2. Current' = Current /\ (main = "join" => Current \in Workers)
      BY <2>1, CurrentIsWorker DEF Current
    <2>3. \A v : ToCome(v)' <=> ToCome(v)
      BY <2>1, <2>2 DEF ToCome
    <2> QED
      BY <2>1, <2>2, <2>3 DEF Fresh
  <1>5. CASE OutageBegins \/ OutageEnds \/ Tick \/ UNCHANGED vars
    BY <1>5 DEF OutageBegins, OutageEnds, Tick, vars, engineVars, threadVars, Fresh, ToCome, Current
  <1> QED
    BY <1>1, <1>2, <1>4, <1>5 DEF Next

-----------------------------------------------------------------------------
\* Nothing fails before the outage.
Ahead ==
    outage = "ahead" =>
        /\ lasted = 0 /\ ~hung /\ failures = 0 /\ ~open
        /\ \A w \in Workers : tries[w] = 0 /\ stage[w] \notin {"hanging", "pausing", "error"}

LEMMA InitAhead == Init => Ahead
  <1> SUFFICES ASSUME Init PROVE Ahead
    OBVIOUS
  <1>1. stage = [w \in Workers |-> "none"] /\ tries = [w \in Workers |-> 0]
    BY DEF Init
  <1> QED
    BY <1>1 DEF Init, Ahead

LEMMA StepAhead == Typed /\ Ahead /\ [Next]_vars => Ahead'
  <1> SUFFICES ASSUME Typed, Ahead, [Next]_vars, outage' = "ahead" PROVE Ahead'
    BY DEF Ahead
  <1>1. CASE Start
    <2>1. /\ stage' = [stage EXCEPT ![Current] = "searching"]
          /\ UNCHANGED <<tries, failures, open, outage, lasted, hung>>
      BY <1>1 DEF Start, Research, Enter, breakerVars
    <2> QED
      BY <2>1 DEF Ahead, Typed, TypeOK
  <1>2. CASE Return \/ Fail \/ UNCHANGED vars
    BY <1>2 DEF Return, Fail, vars, threadVars, breakerVars, worldVars, Ahead
  <1>3. ASSUME NEW w \in Workers, Begin(w) \/ Send(w) \/ Resume(w) \/ Answer(w)
        PROVE  Ahead'
    <2>1. UNCHANGED <<tries, outage, lasted, hung>>
      BY <1>3 DEF Begin, Send, Resume, Answer, worldVars
    <2>2. /\ failures' = 0 /\ ~open'
          /\ \E s \in {"ready", "answering", "ok"} : stage' = [stage EXCEPT ![w] = s]
      BY <1>3, <2>1 DEF Begin, Send, Resume, Answer, Enter, breakerVars, Ahead
    <2> QED
      BY <2>1, <2>2 DEF Ahead, Typed, TypeOK
  <1>4. ASSUME NEW w \in Workers, Hang(w) \/ Refused(w) \/ TimesOut(w) PROVE FALSE
    BY <1>4 DEF Hang, Refused, TimesOut, Failed, worldVars, Ahead
  <1>5. ~OutageBegins /\ ~OutageEnds
    BY DEF OutageBegins, OutageEnds
  <1>6. CASE Tick
    BY <1>6 DEF Tick, breakerVars, Ahead
  <1> QED
    BY <1>1, <1>2, <1>3, <1>4, <1>5, <1>6 DEF Next

-----------------------------------------------------------------------------
\* What the failures of a thread say about the outage: if base of it was over when it sent
\* its first request, then its pauses were in the rest.
Spaced(w, base) ==
    /\ tries[w] > 0 => base + Paused(tries[w] - 1) <= lasted
    /\ stage[w] = "hanging" => base + Paused(tries[w]) <= lasted
    /\ outage = "on" /\ stage[w] = "ready" => base + Paused(tries[w]) <= lasted
    /\ outage = "on" /\ stage[w] = "pausing" => base + Paused(tries[w]) <= lasted + left[w]

LEMMA StepSpaced ==
  ASSUME Typed, Typed', Ahead, [Next]_vars, NEW w \in Workers, NEW base \in Int,
         Spaced(w, base),
         outage' = "on" /\ stage'[w] = "ready" /\ tries'[w] = 0 => base <= lasted'
  PROVE  Spaced(w, base)'
  <1>n. PICK n \in Nat : n = tries[w]
    BY DEF Typed, TypeOK
  <1>t. PICK t \in Nat : t = left[w]
    BY DEF Typed, TypeOK
  <1>p. Paused(n) \in Nat /\ (n > 0 => Paused(n - 1) \in Nat)
        /\ PauseAfter(n + 1) \in Nat /\ Paused(n + 1) = Paused(n) + PauseAfter(n + 1)
        /\ Paused(0) = 0
    <2>1. n > 0 => n - 1 \in Nat
      BY <1>n
    <2>2. Paused(0) = Backoff * ((0 * 1) \div 2) /\ Backoff \in Nat
      BY UnitsAssumption, ConfigAssumption DEF Paused, TimeoutsConfig
    <2> QED
      BY <2>1, <2>2, PauseType
  <1>l. lasted \in Nat /\ lasted' \in Nat /\ lasted <= lasted'
    <2>1. lasted \in Nat /\ lasted' \in Nat
      BY ConstantTypes DEF Typed, TypeOK
    <2>2. lasted' = lasted \/ lasted' = lasted + 1
      BY DEF Next, vars, Start, Return, Fail, Begin, Send, Hang, Refused, TimesOut, Resume, Answer,
         Failed, OutageBegins, OutageEnds, Tick, worldVars
    <2> QED
      BY <2>1, <2>2
  <1>s. /\ n > 0 => base + Paused(n - 1) <= lasted
        /\ stage[w] = "hanging" => base + Paused(n) <= lasted
        /\ outage = "on" /\ stage[w] = "ready" => base + Paused(n) <= lasted
        /\ outage = "on" /\ stage[w] = "pausing" => base + Paused(n) <= lasted + t
    BY <1>n, <1>t DEF Spaced
  <1> HIDE DEF Spaced
  <1>1. ASSUME stage'[w] = stage[w], left'[w] = left[w], tries'[w] = tries[w], outage' = outage
        PROVE  Spaced(w, base)'
    BY <1>n, <1>t, <1>p, <1>l, <1>s, <1>1 DEF Spaced
  <1>2. CASE Start
    <2>1. /\ stage' = [stage EXCEPT ![Current] = "searching"] /\ UNCHANGED <<tries, outage>>
          /\ \E time \in Searches : left' = [left EXCEPT ![Current] = time]
      BY <1>2 DEF Start, Research, Enter
    <2>2. stage'[w] = "searching" \/ (stage'[w] = stage[w] /\ left'[w] = left[w])
      BY <2>1 DEF Typed, TypeOK
    <2>3. CASE stage'[w] = "searching"
      BY <1>n, <1>l, <1>p, <1>s, <2>1, <2>3 DEF Spaced
    <2> QED
      BY <1>1, <2>1, <2>2, <2>3
  <1>3. CASE Return \/ Fail \/ UNCHANGED vars
    BY <1>1, <1>3 DEF Return, Fail, vars, threadVars, worldVars
  <1>4. ASSUME NEW v \in Workers, v # w,
               \/ Begin(v) \/ Send(v) \/ Hang(v) \/ Resume(v) \/ Answer(v)
               \/ Refused(v) \/ TimesOut(v)
        PROVE  Spaced(w, base)'
    BY <1>1, <1>4 DEF Begin, Send, Hang, Resume, Answer, Refused, TimesOut, Failed, Enter,
       worldVars, Typed, TypeOK
  <1>5. CASE Begin(w)
    <2>1. /\ stage'[w] \in {"error", "ready"} /\ UNCHANGED <<tries, outage>> /\ n = 0
      BY <1>5, <1>n DEF Begin, Enter, worldVars, Typed, TypeOK
    <2> QED
      BY <1>n, <1>p, <1>l, <2>1 DEF Spaced
  <1>6. CASE Send(w) \/ Answer(w)
    <2>1. stage'[w] \in {"answering", "ok"} /\ UNCHANGED <<tries, outage>>
      BY <1>6 DEF Send, Answer, Enter, worldVars, Typed, TypeOK
    <2> QED
      BY <1>n, <1>p, <1>l, <1>s, <2>1 DEF Spaced
  <1>7. CASE Hang(w) \/ Resume(w)
    <2>1. /\ UNCHANGED <<tries, outage>>
          /\ \/ stage'[w] = "hanging" /\ stage[w] = "ready" /\ outage = "on"
             \/ stage'[w] = "ready" /\ stage[w] = "pausing" /\ t = 0
      BY <1>7, <1>t DEF Hang, Resume, Enter, worldVars, Typed, TypeOK
    <2> QED
      BY <1>n, <1>t, <1>p, <1>l, <1>s, <2>1 DEF Spaced
  <1>8. CASE Refused(w) \/ TimesOut(w)
    <2>1. tries'[w] = n + 1 /\ UNCHANGED outage /\ base + Paused(n) <= lasted
      BY <1>8, <1>n, <1>s DEF Refused, TimesOut, Failed, worldVars, Typed, TypeOK
    <2>2. \/ stage'[w] = "error"
          \/ stage'[w] = "pausing" /\ left'[w] = PauseAfter(n + 1)
      BY <1>8, <1>n, <2>1 DEF Refused, TimesOut, Failed, Enter, Typed, TypeOK
    <2>3. (n + 1) - 1 = n /\ n + 1 > 0
      BY <1>n
    <2> QED
      BY <1>p, <1>l, <2>1, <2>2, <2>3 DEF Spaced
  <1>9. CASE OutageBegins
    <2>1. /\ UNCHANGED <<stage, left, tries>> /\ n = 0 /\ outage' = "on"
          /\ stage[w] \notin {"hanging", "pausing"}
      BY <1>9, <1>n DEF OutageBegins, threadVars, Ahead
    <2> QED
      BY <1>n, <1>p, <1>l, <2>1 DEF Spaced
  <1>10. CASE OutageEnds
    <2>1. UNCHANGED <<stage, left, tries>> /\ outage' = "over"
      BY <1>10 DEF OutageEnds, threadVars
    <2> QED
      BY <1>n, <1>p, <1>l, <1>s, <2>1 DEF Spaced
  <1>11. CASE Tick
    <2>1. /\ UNCHANGED <<stage, tries, outage>> /\ stage[w] # "ready"
          /\ outage = "on" => lasted' = lasted + 1
          /\ stage[w] = "pausing" => left'[w] = t - 1
      BY <1>11, <1>t DEF Tick, Waiting, Timed, Typed, TypeOK
    <2> QED
      BY <1>n, <1>t, <1>p, <1>l, <1>s, <2>1 DEF Spaced
  <1> QED
    BY <1>2, <1>3, <1>4, <1>5, <1>6, <1>7, <1>8, <1>9, <1>10, <1>11 DEF Next

\* That a search was slow is not forgotten.
LEMMA SlowLatched == [Next]_vars /\ slow => slow'
  BY DEF Next, vars, Start, Research, Return, Fail, Begin, Send, Hang, Refused, TimesOut, Resume,
     Answer, Failed, OutageBegins, OutageEnds, Tick, worldVars

\* A thread that is waited for is searching, or it spent its time, since then, on the pauses
\* after its failures and on one answer; but requests that hang and slow searches take longer.
InTime ==
    main = "join" /\ ~slow =>
        /\ stage[Current] = "searching" => Elapsed + left[Current] <= Search
        /\ ~hung =>
              LET busy == Search + Paused(tries[Current])
              IN  /\ stage[Current] = "ready" => Elapsed <= busy
                  /\ stage[Current] = "pausing" => Elapsed + left[Current] <= busy
                  /\ stage[Current] = "answering" => Elapsed + left[Current] <= busy + Latency
                  /\ stage[Current] = "ok" => Elapsed <= busy + Latency

LEMMA StepInTime == Typed /\ Typed' /\ InTime /\ [Next]_vars => InTime'
  <1> SUFFICES ASSUME Typed, Typed', InTime, [Next]_vars, main' = "join", ~slow' PROVE InTime'
    BY DEF InTime
  <1>w. ~slow
    BY SlowLatched
  <1> USE ConstantTypes
  <1>1. CASE Start
    <2>1. /\ Current' = Current /\ Current \in Workers /\ Elapsed' = 0
          /\ stage' = [stage EXCEPT ![Current] = "searching"]
          /\ \E time \in Searches :
                left' = [left EXCEPT ![Current] = time] /\ ~(time > Search)
      <3>1. Current \in Workers
        BY <1>1, CurrentIsWorker DEF Start
      <3>2. Current' = Current /\ patience' = Keepalive
        BY <1>1 DEF Start, Current
      <3>3. Elapsed' = 0
        BY <3>2 DEF Elapsed
      <3> QED
        BY <1>1, <3>1, <3>2, <3>3 DEF Start, Research, Enter
    <2>2. stage'[Current] = "searching" /\ left'[Current] \in 0..Search
      BY <2>1, WorldAssumption DEF Typed, TypeOK
    <2> QED
      BY <2>1, <2>2 DEF InTime
  <1>2. CASE Return \/ Fail
    BY <1>2 DEF Return, Fail
  <1> SUFFICES ASSUME main = "join" PROVE InTime'
    BY <1>1, <1>2 DEF Next, Begin, Send, Hang, Refused, TimesOut, Resume, Answer, Failed,
       OutageBegins, OutageEnds, Tick, Ended, vars, engineVars
  <1>c. Current \in Workers /\ patience \in 0..Keepalive /\ Elapsed \in Nat
    BY CurrentIsWorker DEF Typed, TypeOK, Elapsed
  <1>n. PICK n \in Nat : n = tries[Current]
    BY <1>c DEF Typed, TypeOK
  <1>t. PICK t \in Nat : t = left[Current]
    BY <1>c DEF Typed, TypeOK
  <1>p. Paused(n) \in Nat /\ PauseAfter(n + 1) \in Nat
        /\ Paused(n + 1) = Paused(n) + PauseAfter(n + 1)
    BY PauseType
  <1>s. /\ stage[Current] = "searching" => Elapsed + t <= Search
        /\ ~hung => /\ stage[Current] = "ready" => Elapsed <= Search + Paused(n)
                    /\ stage[Current] = "pausing" => Elapsed + t <= Search + Paused(n)
                    /\ stage[Current] = "answering" => Elapsed + t <= Search + Paused(n) + Latency
                    /\ stage[Current] = "ok" => Elapsed <= Search + Paused(n) + Latency
    BY <1>w, <1>n, <1>t DEF InTime
  <1>3. ASSUME UNCHANGED <<main, turn, attempt, patience>>
        PROVE  Current' = Current /\ Elapsed' = Elapsed
    BY <1>3 DEF Current, Elapsed
  <1>4. ASSUME UNCHANGED <<main, turn, attempt, patience>>, hung => hung',
               stage'[Current] = stage[Current], left'[Current] = left[Current],
               tries'[Current] = tries[Current]
        PROVE  InTime'
    BY <1>3, <1>4, <1>s, <1>n, <1>t DEF InTime
  <1>5. CASE OutageBegins \/ OutageEnds \/ UNCHANGED vars
    BY <1>4, <1>5 DEF OutageBegins, OutageEnds, vars, engineVars, threadVars, worldVars
  <1>6. ASSUME NEW v \in Workers, v # Current,
               \/ Begin(v) \/ Send(v) \/ Hang(v) \/ Resume(v) \/ Answer(v)
               \/ Refused(v) \/ TimesOut(v)
        PROVE  InTime'
    BY <1>4, <1>6, <1>c DEF Begin, Send, Hang, Resume, Answer, Refused, TimesOut, Failed, Enter,
       engineVars, worldVars, Typed, TypeOK
  <1>7. CASE Begin(Current) \/ Resume(Current)
    <2>1. /\ UNCHANGED <<main, turn, attempt, patience, tries, hung>> /\ t = 0
          /\ \/ stage[Current] = "searching" /\ stage'[Current] \in {"ready", "error"}
             \/ stage[Current] = "pausing" /\ stage'[Current] = "ready"
      BY <1>7, <1>c, <1>t DEF Begin, Resume, Enter, engineVars, worldVars, Typed, TypeOK
    <2> QED
      BY <1>3, <1>c, <1>n, <1>p, <1>s, <2>1 DEF InTime
  <1>8. CASE Send(Current) \/ Answer(Current)
    <2>1. /\ UNCHANGED <<main, turn, attempt, patience, tries, hung>>
          /\ \/ /\ stage[Current] = "ready"
                /\ stage'[Current] = "answering" /\ left'[Current] \in 0..Latency
             \/ stage[Current] = "answering" /\ t = 0 /\ stage'[Current] = "ok"
      BY <1>8, <1>c, <1>t DEF Send, Answer, Enter, engineVars, worldVars, Typed, TypeOK
    <2> QED
      BY <1>3, <1>c, <1>n, <1>p, <1>s, <2>1 DEF InTime
  <1>9. CASE Hang(Current)
    <2>1. /\ UNCHANGED <<main, turn, attempt, patience>> /\ hung' /\ stage'[Current] = "hanging"
      BY <1>9, <1>c DEF Hang, Enter, engineVars, Typed, TypeOK
    <2> QED
      BY <1>3, <2>1 DEF InTime
  <1>10. CASE Refused(Current) \/ TimesOut(Current)
    <2>1. /\ UNCHANGED <<main, turn, attempt, patience, hung>> /\ tries'[Current] = n + 1
          /\ stage[Current] = "ready" \/ hung
      BY <1>10, <1>c, <1>n DEF Refused, TimesOut, Failed, engineVars, worldVars, Typed, TypeOK
    <2>2. \/ stage'[Current] = "error"
          \/ stage'[Current] = "pausing" /\ left'[Current] = PauseAfter(n + 1)
      BY <1>10, <1>c, <1>n, <2>1 DEF Refused, TimesOut, Failed, Enter, Typed, TypeOK
    <2> QED
      BY <1>3, <1>c, <1>p, <1>s, <2>1, <2>2 DEF InTime
  <1>11. CASE Tick
    <2>1. /\ UNCHANGED <<main, turn, attempt, stage, tries, hung>>
          /\ Current' = Current /\ Elapsed' = Elapsed + 1
          /\ stage[Current] \in {"searching", "hanging", "answering", "pausing"}
          /\ left'[Current] = t - 1
      BY <1>11, <1>c, <1>t DEF Tick, Waiting, Timed, Current, Elapsed
    <2> QED
      BY <1>c, <1>n, <1>t, <1>p, <1>s, <2>1 DEF InTime
  <1> QED
    BY <1>5, <1>6, <1>7, <1>8, <1>9, <1>10, <1>11 DEF Next, Start, Return, Fail, Ended

-----------------------------------------------------------------------------
\* What holds of the clocks whatever their values are.
Clocked ==
    /\ Typed /\ Fresh /\ Ahead /\ InTime
    /\ \A w \in Workers : Spaced(w, 0)

LEMMA InitClocked == Init => Clocked
  <1> SUFFICES ASSUME Init PROVE Clocked
    OBVIOUS
  <1>1. /\ \A w \in Workers : stage[w] = "none" /\ tries[w] = 0
        /\ main = "start"
    BY DEF Init
  <1>2. Typed /\ Fresh /\ Ahead /\ InTime
    BY <1>1, InitTyped, InitAhead DEF InTime
  <1>3. \A w \in Workers : Spaced(w, 0)
    BY <1>1 DEF Spaced
  <1> QED
    BY <1>2, <1>3 DEF Clocked

LEMMA StepClocked == Clocked /\ [Next]_vars => Clocked'
  <1> SUFFICES ASSUME Clocked, [Next]_vars PROVE Clocked'
    OBVIOUS
  <1>1. Typed' /\ Fresh' /\ Ahead' /\ InTime'
    BY StepTyped, StepFresh, StepAhead, StepInTime DEF Clocked
  <1>2. Workers' = Workers
    BY DEF Workers
  <1>3. ASSUME NEW w \in Workers PROVE Spaced(w, 0)'
    <2>1. 0 <= lasted' /\ 0 \in Int
      BY <1>1, ConstantTypes DEF Typed, TypeOK
    <2> QED
      BY <1>1, <2>1, StepSpaced DEF Clocked
  <1> QED
    BY <1>1, <1>2, <1>3 DEF Clocked

LEMMA AlwaysClocked == Spec => []Clocked
  BY InitClocked, StepClocked, PTL DEF Spec

\* Type correctness (watchdog.py, resilience.py).
THEOREM TypeCorrect == Spec => []TypeOK
  <1>1. Clocked => TypeOK
    BY DEF Clocked, Typed
  <1> QED
    BY <1>1, AlwaysClocked, PTL

-----------------------------------------------------------------------------
\* As long as requests are only refused, for no longer than the window, and no search is
\* slow: every turn is at its first attempt, all earlier ones were answered, and the streak
\* of failures is that of the current thread.
Punctual ==
    /\ main # "gave_up" /\ attempt = 0
    /\ \A w \in Workers : w # Current => stage[w] \in {"none", "ok"}
    /\ stage[Current] \notin {"hanging", "error"}
    /\ ~open /\ failures <= tries[Current]
    /\ stage[Current] = "ok" => failures = 0

PunctualInWindow == lasted > Window \/ hung \/ slow \/ Punctual

LEMMA InitPunctual == Init => Punctual
  <1> SUFFICES ASSUME Init PROVE Punctual
    OBVIOUS
  <1>1. Current \in Workers
    BY InitTyped, CurrentIsWorker DEF Init
  <1>2. /\ \A w \in Workers : stage[w] = "none" /\ tries[w] = 0
    BY DEF Init
  <1> QED
    BY <1>1, <1>2 DEF Init, Punctual

LEMMA StepPunctual ==
  ASSUME RateHeadroom
  PROVE  Clocked /\ PunctualInWindow /\ [Next]_vars => PunctualInWindow'
  <1> SUFFICES ASSUME Clocked, PunctualInWindow, [Next]_vars,
                      lasted' <= Window, ~hung', ~slow'
               PROVE  Punctual'
    BY StepClocked, ConstantTypes DEF PunctualInWindow, Clocked, Typed, TypeOK
  <1> USE ConstantTypes
  <1>l. /\ lasted \in Nat /\ lasted' \in Nat /\ lasted <= Window /\ ~hung /\ ~slow
    <2>1. lasted \in Nat /\ lasted' \in Nat
      BY StepClocked DEF Clocked, Typed, TypeOK
    <2>2. (lasted' = lasted \/ lasted' = lasted + 1) /\ (hung => hung')
      BY DEF Next, vars, Start, Return, Fail, Begin, Send, Hang, Refused, TimesOut, Resume, Answer,
         Failed, OutageBegins, OutageEnds, Tick, worldVars
    <2> QED
      BY <2>1, <2>2, SlowLatched
  <1>p. Punctual
    BY <1>l DEF PunctualInWindow
  <1>y. Typed /\ TypeOK
    BY DEF Clocked, Typed
  <1>1. CASE Start
    <2>1. /\ Current' = Current /\ Current \in Workers
          /\ stage' = [stage EXCEPT ![Current] = "searching"]
          /\ main' = "join" /\ UNCHANGED <<attempt, tries, failures, open>>
      <3>1. Current \in Workers
        BY <1>1, <1>y, CurrentIsWorker DEF Start
      <3> QED
        BY <1>1, <3>1 DEF Start, Research, Enter, Current, breakerVars
    <2> QED
      BY <1>p, <1>y, <2>1 DEF Punctual, TypeOK
  <1>2. CASE Return
    <2>1. /\ stage[Current] = "ok" /\ UNCHANGED <<stage, tries, failures, open>>
          /\ attempt' = 0 /\ main' # "gave_up" /\ failures = 0
      BY <1>2, <1>p DEF Return, threadVars, breakerVars, Punctual
    <2>2. CASE turn < Turns
      <3>1. turn' = turn + 1 /\ main' = "start"
        BY <1>2, <2>2 DEF Return
      <3>2. Current' \in Workers
        BY <1>y, <2>1, <2>2, <3>1 DEF Current, Workers, TypeOK
      <3>3. stage'[Current'] = "none" /\ tries'[Current'] \in Nat
        BY <1>y, <2>1, <3>1, <3>2, StepClocked DEF Clocked, Fresh, ToCome, TypeOK
      <3> QED
        BY <1>p, <2>1, <3>3 DEF Punctual
    <2>3. CASE ~(turn < Turns)
      <3>1. turn' = turn /\ attempt = 0
        BY <1>2, <1>p, <2>3 DEF Return, Punctual
      <3>2. Current' = Current
        BY <2>1, <3>1 DEF Current
      <3> QED
        BY <1>p, <2>1, <3>2 DEF Punctual
    <2> QED
      BY <2>2, <2>3
  <1>3. CASE Fail
    <2>1. main = "join" /\ patience = 0 /\ stage[Current] # "ok"
      BY <1>3, <1>p DEF Fail, Punctual
    <2>2. Current \in Workers /\ Elapsed = Keepalive
      BY <1>y, <2>1, CurrentIsWorker DEF Elapsed
    <2>3. stage[Current] \in {"searching", "ready", "answering", "pausing"}
      BY <1>p, <1>y, <2>1, <2>2 DEF Punctual, TypeOK, Clocked, Fresh
    <2>4. PICK n \in Nat : n = tries[Current] /\ n <= Retries
      BY <1>y, <2>2, <2>3 DEF Typed, TypeOK
    <2>5. CanFail(n, Window + 1)
      <3>1. n > 0 => n - 1 \in Nat
        BY <2>4
      <3>2. n > 0 => Paused(n - 1) <= lasted /\ Paused(n - 1) \in Nat
        BY <2>2, <2>4, <3>1, PauseType DEF Clocked, Spaced
      <3> QED
        BY <1>l, <2>4, <3>2 DEF CanFail
    <2>6. Search + Paused(n) + Latency < Keepalive /\ Paused(n) \in Nat
      BY <2>4, <2>5, PauseType DEF RateHeadroom
    <2>7. left[Current] \in Nat /\ ~hung /\ ~slow
      BY <1>y, <1>l, <2>2 DEF TypeOK
    <2>8. Elapsed <= Search + Paused(n) + Latency
      BY <2>1, <2>2, <2>3, <2>4, <2>6, <2>7 DEF Clocked, InTime
    <2> QED
      BY <2>2, <2>6, <2>8
  <1>4. ASSUME NEW w \in Workers,
               \/ Begin(w) \/ Send(w) \/ Hang(w) \/ Resume(w) \/ Answer(w)
               \/ Refused(w) \/ TimesOut(w)
        PROVE  Punctual'
    <2>1. w = Current /\ UNCHANGED <<main, turn, attempt>> /\ Current' = Current
          /\ \A v \in Workers : v # w => stage'[v] = stage[v]
      BY <1>4, <1>p, <1>y DEF Begin, Send, Hang, Resume, Answer, Refused, TimesOut, Failed, Enter,
         engineVars, Punctual, Current, TypeOK
    <2>2. PICK n \in Nat : n = tries[w]
      BY <1>y DEF TypeOK
    <2>3. CASE Begin(w) \/ Send(w) \/ Resume(w)
      <3>1. /\ UNCHANGED <<tries, failures, open>>
            /\ \E s \in {"ready", "answering"} : stage' = [stage EXCEPT ![w] = s]
        BY <1>p, <2>3 DEF Begin, Send, Resume, Enter, breakerVars, Punctual
      <3> QED
        BY <1>p, <1>y, <2>1, <3>1 DEF Punctual, TypeOK
    <2>4. CASE Answer(w)
      <3>1. /\ UNCHANGED tries /\ failures' = 0 /\ ~open' /\ stage' = [stage EXCEPT ![w] = "ok"]
        BY <2>4 DEF Answer, Enter
      <3> QED
        BY <1>p, <1>y, <2>1, <2>2, <3>1 DEF Punctual, TypeOK
    <2>5. ~Hang(w) /\ ~TimesOut(w)
      BY <1>l, <1>y DEF Hang, TimesOut, Typed
    <2>6. CASE Refused(w)
      <3>1. /\ stage[w] = "ready" /\ outage = "on" /\ n <= Retries
            /\ tries' = [tries EXCEPT ![w] = n + 1]
            /\ failures' = failures + 1 /\ failures \in Nat /\ failures <= n
        BY <1>p, <1>y, <2>1, <2>2, <2>6 DEF Refused, Failed, Punctual, Typed, TypeOK
      <3>2. Paused(n) <= lasted /\ Paused(n) \in Nat
        BY <2>2, <3>1, PauseType DEF Clocked, Spaced
      <3>3. n # Retries
        BY <1>l, <3>2 DEF RateHeadroom
      <3>4. n + 1 < Threshold
        <4>1. ASSUME Threshold - 1 <= n PROVE FALSE
          <5>1. Threshold - 1 \in Nat
            OBVIOUS
          <5>2. Paused(Threshold - 1) <= Paused(n) /\ Paused(Threshold - 1) \in Nat
            BY <4>1, <5>1, PausedGrows, PauseType
          <5> QED
            BY <1>l, <3>2, <5>2 DEF RateHeadroom
        <4> QED
          BY <4>1
      <3>5. ~open' /\ tries'[w] = n + 1
        BY <1>p, <1>y, <2>6, <3>1, <3>4 DEF Refused, Failed, Opens, Punctual, TypeOK
      <3>6. stage' = [stage EXCEPT ![w] = "pausing"]
        BY <2>6, <3>1, <3>3, <3>5 DEF Refused, Failed, LastTry, Enter
      <3> QED
        BY <1>p, <1>y, <2>1, <3>1, <3>5, <3>6 DEF Punctual, TypeOK
    <2> QED
      BY <1>4, <2>3, <2>4, <2>5, <2>6
  <1>5. CASE OutageBegins \/ OutageEnds \/ Tick \/ UNCHANGED vars
    BY <1>5, <1>p DEF OutageBegins, OutageEnds, Tick, vars, engineVars, threadVars, breakerVars,
       Punctual, Current
  <1> QED
    BY <1>1, <1>2, <1>3, <1>4, <1>5 DEF Next

\* "Allow in-turn backoff to wait out a rate window" (config.yaml), for all values with
\* enough headroom and as long as no search takes longer than one operation of it may.
THEOREM WindowsWaitedOut == ASSUME RateHeadroom PROVE Spec => []RateWindowInTurn
  <1>1. Init => PunctualInWindow
    BY InitPunctual DEF PunctualInWindow
  <1>2. Clocked /\ PunctualInWindow => RateWindowInTurn
    BY DEF PunctualInWindow, Punctual, RateWindowInTurn, Clocked, Typed, TypeOK
  <1> QED
    BY <1>1, <1>2, AlwaysClocked, StepPunctual, PTL DEF Spec

-----------------------------------------------------------------------------
\* How much of the outage is over when a turn is restarted in it.
Late == Keepalive - Search

\* Until when, from its start, a restart is kept by a request that hangs.
Soon == Search - 1 + Request

Struck(w)  == tries[w] > 0 \/ stage[w] = "hanging"
Strikes(t) == tries[<<t, 0>>] + tries[<<t, 1>>]
Idle(w)    == stage[w] \in {"none", "ok"}

\* No turn needs a second restart, and the breaker is closed.
Calm ==
    /\ main # "gave_up" /\ attempt <= 1 /\ ~open
    /\ \A w \in Workers : stage[w] # "error" /\ (w[2] > 1 => stage[w] = "none")

\* Where threads can be: restarts come only with the outage; until it is over only threads of
\* the current turn are busy; who is answered in it sent before it; a restart is not abandoned.
Places ==
    /\ outage = "ahead" => attempt = 0 /\ \A w \in Workers : w[2] > 0 => stage[w] = "none"
    /\ outage # "over" => \A w \in Workers : w[1] # turn => Idle(w)
    /\ outage = "on" => \A w \in Workers :
          stage[w] \in {"answering", "ok"} => w[2] = 0 /\ tries[w] = 0
    /\ \A w \in Workers : w[2] = 1 /\ ~(w = Current /\ main = "join") => Idle(w)

\* All that fails is of one turn, so the streak is that of the turn's two threads at most.
Streak ==
    \E t \in 1..Turns :
        /\ failures <= Strikes(t)
        /\ \A w \in Workers : Struck(w) => w[1] = t
        /\ outage # "over" => t = turn

\* How long the current thread was waited for, against how long the outage lasts.
OnTime ==
    /\ outage = "on" /\ main = "join" /\ attempt = 0 =>
          /\ stage[Current] = "answering" => Elapsed + left[Current] <= Search + Latency
          /\ stage[Current] \notin {"answering", "ok"} => Elapsed <= lasted + Search
    /\ outage = "on" /\ main \in {"start", "join"} /\ attempt = 1 => Late + Elapsed <= lasted

\* A restart that got past its search is done a pause and an answer after its last failure.
Recovers ==
    main = "join" /\ attempt = 1 =>
        LET busy == Soon + PauseAfter(tries[Current])
        IN  /\ stage[Current] = "ready" => Elapsed <= busy
            /\ stage[Current] = "hanging" => Elapsed + left[Current] <= Soon
            /\ stage[Current] = "pausing" => Elapsed + left[Current] <= busy
            /\ stage[Current] = "answering" => Elapsed + left[Current] <= busy + Latency

SpacedLate == \A w \in Workers : w[2] = 1 => Spaced(w, Late)

Weathered == Calm /\ Places /\ Streak /\ OnTime /\ Recovers /\ SpacedLate

WeatheredInOutage == lasted >= Keepalive \/ slow \/ Weathered

LEMMA InitWeathered == ASSUME OutageHeadroom PROVE Init => Weathered
  <1> SUFFICES ASSUME Init PROVE Weathered
    OBVIOUS
  <1>1. \A w \in Workers : stage[w] = "none" /\ tries[w] = 0
    BY DEF Init
  <1>2. <<1, 0>> \in Workers /\ <<1, 1>> \in Workers
    BY ConstantTypes DEF OutageHeadroom, Workers
  <1>3. Strikes(1) = 0
    BY <1>1, <1>2 DEF Strikes
  <1>4. Streak
    <2>1. \A w \in Workers : ~Struck(w)
      BY <1>1 DEF Struck
    <2>2. 1 \in 1..Turns
      BY ConstantTypes
    <2> QED
      BY <1>3, <2>1, <2>2 DEF Streak, Init
  <1>5. Calm /\ Places /\ OnTime /\ Recovers /\ SpacedLate
    BY <1>1 DEF Init, Calm, Places, OnTime, Recovers, SpacedLate, Spaced, Idle
  <1> QED
    BY <1>4, <1>5 DEF Weathered

\* The failures of a turn and its restart neither open the breaker nor use up a call.
Strained == Typed /\ Streak /\ SpacedLate /\ (\A w \in Workers : Spaced(w, 0)) /\ lasted < Keepalive
Bounded  == failures < Threshold /\ \A w \in Workers : tries[w] <= Retries

LEMMA StrikesBounded == ASSUME OutageHeadroom PROVE Strained => Bounded
  <1> SUFFICES ASSUME Strained PROVE Bounded
    OBVIOUS
  <1> USE ConstantTypes
  <1>1. lasted \in Nat /\ lasted < Keepalive /\ failures \in Nat
    BY DEF Strained, Typed, TypeOK
  <1>2. ASSUME NEW w \in Workers
        PROVE  tries[w] \in 0..(Retries + 1) /\ CanFail(tries[w], Keepalive)
    <2>1. PICK n \in 0..(Retries + 1) : n = tries[w]
      BY DEF Strained, Typed, TypeOK
    <2>2. n > 0 => n - 1 \in Nat /\ Paused(n - 1) \in Nat /\ Paused(n - 1) <= lasted
      BY <2>1, PauseType DEF Strained, Spaced
    <2> QED
      BY <1>1, <2>1, <2>2 DEF CanFail
  <1>3. ASSUME NEW w \in Workers, w[2] = 1 PROVE CanFail(tries[w], Search)
    <2>1. PICK n \in 0..(Retries + 1) : n = tries[w]
      BY DEF Strained, Typed, TypeOK
    <2>2. n > 0 => n - 1 \in Nat /\ Paused(n - 1) \in Nat /\ Late + Paused(n - 1) <= lasted
      BY <1>3, <2>1, PauseType DEF Strained, SpacedLate, Spaced
    <2> QED
      BY <1>1, <2>1, <2>2 DEF CanFail, Late
  <1>4. failures < Threshold
    <2>1. PICK t \in 1..Turns : failures <= Strikes(t)
      BY DEF Strained, Streak
    <2>2. <<t, 0>> \in Workers /\ <<t, 1>> \in Workers /\ <<t, 1>>[2] = 1
      BY DEF OutageHeadroom, Workers
    <2>3. PICK m \in 0..(Retries + 1), n \in 0..(Retries + 1) :
             m = tries[<<t, 0>>] /\ n = tries[<<t, 1>>]
      BY <1>2, <2>2
    <2>4. CanFail(m, Keepalive) /\ CanFail(n, Search)
      BY <1>2, <1>3, <2>2, <2>3
    <2>5. m + n < Threshold
      BY <2>4 DEF OutageHeadroom
    <2> QED
      BY <1>1, <2>1, <2>3, <2>5 DEF Strikes
  <1>5. ASSUME NEW w \in Workers PROVE tries[w] <= Retries
    <2>1. ASSUME tries[w] = Retries + 1 PROVE FALSE
      <3>1. (Retries + 1) - 1 = Retries /\ Retries + 1 # 0
        OBVIOUS
      <3>2. Paused(Retries) < Keepalive /\ Paused(Retries) \in Nat
        BY <1>2, <2>1, <3>1, PauseType DEF CanFail
      <3> QED
        BY <3>2 DEF OutageHeadroom
    <2> QED
      BY <1>2, <2>1
  <1> QED
    BY <1>4, <1>5 DEF Bounded

\* A turn is only restarted once, and in the outage or after it.
LEMMA FailsOnce ==
  ASSUME OutageHeadroom, Clocked, Weathered, lasted < Keepalive, ~slow, Fail
  PROVE  attempt = 0 /\ outage # "ahead" /\ patience = 0 /\ stage[Current] # "ok"
  <1> USE ConstantTypes
  <1>1. main = "join" /\ patience = 0 /\ stage[Current] # "ok"
    BY CurrentIsWorker DEF Fail, Weathered, Calm, Clocked
  <1>2. Current \in Workers /\ Elapsed = Keepalive /\ left[Current] \in Nat /\ lasted \in Nat
    BY <1>1, CurrentIsWorker DEF Clocked, Typed, TypeOK, Elapsed
  <1>3. PICK n \in 0..(Retries + 1) : n = tries[Current]
    BY <1>2 DEF Clocked, Typed, TypeOK
  <1>4. stage[Current] \in {"ready", "hanging", "answering", "pausing"}
    <2>1. stage[Current] \notin {"none", "error"}
      BY <1>1, <1>2 DEF Clocked, Fresh, Weathered, Calm
    <2>2. stage[Current] # "searching"
      BY <1>1, <1>2 DEF Clocked, InTime, OutageHeadroom
    <2> QED
      BY <1>1, <1>2, <2>1, <2>2 DEF Clocked, Typed, TypeOK
  <1>5. outage # "ahead"
    <2>1. ASSUME outage = "ahead" PROVE FALSE
      <3>1. n = 0 /\ ~hung /\ stage[Current] \in {"ready", "answering"}
        BY <1>2, <1>3, <1>4, <2>1 DEF Clocked, Ahead
      <3>2. Elapsed <= Search + Paused(0) + Latency
        BY <1>1, <1>2, <1>3, <3>1, PauseType DEF Clocked, InTime
      <3> QED
        BY <1>2, <3>2, NoPause DEF OutageHeadroom
    <2> QED
      BY <2>1
  <1>6. attempt # 1
    <2>1. ASSUME attempt = 1 PROVE FALSE
      <3>1. PauseAfter(n) \in Nat
        BY PauseType
      <3>2. Elapsed <= Soon + PauseAfter(n) + Latency
        BY <1>1, <1>2, <1>3, <1>4, <2>1, <3>1 DEF Weathered, Recovers, Soon
      <3>3. CanFail(n, Search)
        <4>1. Current[2] = 1
          BY <1>1, <2>1, CurrentIsWorker DEF Clocked
        <4>2. n > 0 => n - 1 \in Nat /\ Paused(n - 1) \in Nat /\ Late + Paused(n - 1) <= lasted
          BY <1>2, <1>3, <4>1, PauseType DEF Weathered, SpacedLate, Spaced
        <4> QED
          BY <1>2, <4>2 DEF CanFail, Late
      <3> QED
        BY <1>2, <3>1, <3>2, <3>3 DEF OutageHeadroom, Soon
    <2> QED
      BY <2>1
  <1>7. attempt \in {0, 1}
    BY DEF Clocked, Typed, TypeOK, Weathered, Calm
  <1> QED
    BY <1>1, <1>5, <1>6, <1>7

-----------------------------------------------------------------------------
\* A thread's step changes nothing of the engine's thread or of the other threads.
Works(w) ==
    \/ Begin(w) \/ Send(w) \/ Hang(w) \/ Resume(w) \/ Answer(w)
    \/ Refused(w) \/ TimesOut(w)

Waits(w) == UNCHANGED <<stage[w], left[w], tries[w]>>

LEMMA WorksAlone ==
  ASSUME Typed, NEW w \in Workers, Works(w)
  PROVE  /\ UNCHANGED <<main, turn, attempt, patience, outage, lasted>>
         /\ Current' = Current /\ Elapsed' = Elapsed
         /\ \A v \in Workers : v # w => Waits(v)
         /\ ~Idle(w)
  BY DEF Works, Begin, Send, Hang, Resume, Answer, Refused, TimesOut, Failed, Enter, Typed, TypeOK,
     engineVars, worldVars, Current, Elapsed, Waits, Idle

LEMMA FailureOf ==
  ASSUME Typed, NEW w \in Workers, Refused(w) \/ TimesOut(w)
  PROVE  /\ tries'[w] = tries[w] + 1 /\ failures' = failures + 1
         /\ open' = (open \/ failures' >= Threshold)
         /\ \/ stage'[w] = "error" /\ (open' \/ tries'[w] = Retries + 1)
            \/ stage'[w] = "pausing" /\ left'[w] = PauseAfter(tries[w] + 1)
  <1>1. PICK n \in Nat : n = tries[w]
    BY DEF Typed, TypeOK
  <1>2. tries'[w] = n + 1 /\ failures' = failures + 1 /\ open' = (open \/ failures' >= Threshold)
    BY <1>1 DEF Refused, TimesOut, Failed, Opens, Typed, TypeOK
  <1>3. IF open' \/ n + 1 = Retries + 1
          THEN stage' = [stage EXCEPT ![w] = "error"]
          ELSE /\ stage' = [stage EXCEPT ![w] = "pausing"]
               /\ left' = [left EXCEPT ![w] = PauseAfter(n + 1)]
    BY <1>2 DEF Refused, TimesOut, Failed, Enter, LastTry
  <1> QED
    BY <1>1, <1>2, <1>3 DEF Typed, TypeOK

LEMMA LastedGrows ==
  ASSUME Typed, Typed', [Next]_vars
  PROVE  lasted \in Nat /\ lasted' \in Nat /\ lasted <= lasted'
  <1>1. lasted \in Nat /\ lasted' \in Nat
    BY ConstantTypes DEF Typed, TypeOK
  <1>2. lasted' = lasted \/ lasted' = lasted + 1
    BY DEF Next, vars, Start, Return, Fail, Begin, Send, Hang, Refused, TimesOut, Resume, Answer,
       Failed, OutageBegins, OutageEnds, Tick, worldVars
  <1> QED
    BY <1>1, <1>2

\* A step while the outage is shorter than the keepalive and no search was slow.
Within ==
    /\ Clocked /\ Clocked' /\ Weathered /\ [Next]_vars /\ ~slow
    /\ lasted \in Nat /\ lasted' \in Nat /\ lasted <= lasted' /\ lasted' < Keepalive

LEMMA StepOnTime == ASSUME OutageHeadroom PROVE Within => OnTime'
  <1> SUFFICES ASSUME Within PROVE OnTime'
    OBVIOUS
  <1> USE ConstantTypes
  <1>y. /\ Typed /\ TypeOK /\ OnTime /\ lasted \in Nat /\ lasted < Keepalive
        /\ Keepalive \in Nat /\ patience \in 0..Keepalive /\ Elapsed \in Nat
    BY DEF Within, Weathered, Clocked, Typed, TypeOK, Elapsed
  <1>1. CASE Start
    <2>1. /\ Current' = Current /\ Current \in Workers /\ Elapsed' = 0 /\ Elapsed = 0
          /\ UNCHANGED <<attempt, outage, lasted>> /\ main = "start"
          /\ stage' = [stage EXCEPT ![Current] = "searching"]
      BY <1>1, <1>y, CurrentIsWorker DEF Start, Research, Current, Elapsed, Enter
    <2> QED
      BY <1>y, <2>1 DEF OnTime, TypeOK
  <1>2. CASE Return
    BY <1>2 DEF Return, OnTime
  <1>3. CASE Fail
    <2>1. attempt = 0 /\ outage # "ahead" /\ patience = 0 /\ stage[Current] # "ok"
      BY <1>3, FailsOnce, <1>y DEF Within
    <2>2. /\ main = "join" /\ Elapsed = Keepalive /\ attempt' = 1 /\ main' # "join"
          /\ UNCHANGED <<outage, lasted>> /\ Elapsed' = 0 /\ Current \in Workers
      BY <1>3, <1>y, <2>1, CurrentIsWorker DEF Fail, Elapsed, worldVars
    <2>3. left[Current] \in Nat
      BY <1>y, <2>2 DEF TypeOK
    <2>4. ASSUME outage = "on" PROVE Late <= lasted
      BY <1>y, <2>1, <2>2, <2>3, <2>4 DEF OnTime, OutageHeadroom, Late
    <2> QED
      BY <1>y, <2>2, <2>4 DEF OnTime, Late
  <1>4. ASSUME NEW w \in Workers, Works(w) PROVE OnTime'
    <2>1. /\ UNCHANGED <<main, attempt, outage, lasted>> /\ Current' = Current /\ Elapsed' = Elapsed
          /\ \A v \in Workers : v # w => Waits(v)
          /\ main = "join" => Current \in Workers
      BY <1>4, <1>y, WorksAlone, CurrentIsWorker
    <2>2. CASE w # Current
      BY <1>y, <2>1, <2>2 DEF OnTime, Waits
    <2>3. CASE w = Current
      <3>1. \/ outage # "on"
            \/ stage'[w] = "ok"
            \/ stage[w] \notin {"answering", "ok"} /\ stage'[w] \notin {"answering", "ok"}
        BY <1>4, <1>y DEF Works, Begin, Send, Hang, Resume, Answer, Refused, TimesOut, Failed,
           Enter, TypeOK
      <3> QED
        BY <1>y, <2>1, <2>3, <3>1 DEF OnTime
    <2> QED
      BY <2>2, <2>3
  <1>5. CASE OutageBegins
    <2>1. /\ UNCHANGED <<main, attempt, patience, stage, left, lasted>> /\ outage = "ahead"
          /\ Current' = Current /\ Elapsed' = Elapsed
      BY <1>5 DEF OutageBegins, engineVars, threadVars, Current, Elapsed
    <2>2. attempt = 0 /\ lasted = 0 /\ ~hung
      BY <2>1 DEF Within, Weathered, Places, Clocked, Ahead
    <2>3. ASSUME main = "join"
          PROVE  /\ Current \in Workers /\ tries[Current] = 0 /\ left[Current] \in Nat
                 /\ stage[Current] \in {"searching", "ready", "answering", "ok"}
      <3>1. Current \in Workers
        BY <1>y, <2>3, CurrentIsWorker
      <3> QED
        BY <1>y, <2>1, <2>3, <3>1 DEF Within, Clocked, Ahead, Fresh, TypeOK
    <2>4. ASSUME main = "join"
          PROVE  /\ stage[Current] \in {"searching", "ready"} => Elapsed <= Search
                 /\ stage[Current] = "answering" => Elapsed + left[Current] <= Search + Latency
      BY <1>y, <2>2, <2>3, <2>4, NoPause DEF Within, Clocked, InTime
    <2> QED
      BY <1>y, <2>1, <2>2, <2>3, <2>4 DEF OnTime
  <1>6. CASE OutageEnds
    BY <1>6 DEF OutageEnds, OnTime
  <1>7. CASE Tick
    <2>1. /\ UNCHANGED <<main, attempt, stage, outage>> /\ main = "join" /\ Current \in Timed
          /\ Current' = Current /\ Elapsed' = Elapsed + 1
          /\ outage = "on" => lasted' = lasted + 1
          /\ left'[Current] = left[Current] - 1 /\ left[Current] \in Nat
      BY <1>7, <1>y DEF Tick, Waiting, Timed, Current, Elapsed, TypeOK
    <2> QED
      BY <1>y, <2>1 DEF OnTime, Late
  <1>8. CASE UNCHANGED vars
    BY <1>y, <1>8 DEF vars, engineVars, threadVars, worldVars, OnTime, Current, Elapsed
  <1>9. [Next]_vars
    BY DEF Within
  <1> QED
    BY <1>1, <1>2, <1>3, <1>4, <1>5, <1>6, <1>7, <1>8, <1>9 DEF Next, Works

LEMMA StepRecovers == ASSUME OutageHeadroom PROVE Within => Recovers'
  <1> SUFFICES ASSUME Within, main' = "join", attempt' = 1 PROVE Recovers'
    BY DEF Recovers
  <1> USE ConstantTypes
  <1>y. /\ Typed /\ TypeOK /\ Recovers /\ lasted \in Nat /\ lasted < Keepalive
        /\ patience \in 0..Keepalive /\ Elapsed \in Nat
    BY DEF Within, Weathered, Clocked, Typed, TypeOK, Elapsed
  <1>1. CASE Start
    <2>1. /\ Current' = Current /\ Current \in Workers
          /\ stage' = [stage EXCEPT ![Current] = "searching"]
      BY <1>1, <1>y, CurrentIsWorker DEF Start, Research, Current, Enter
    <2> QED
      BY <1>y, <2>1 DEF Recovers, TypeOK
  <1>2. CASE Return \/ Fail
    BY <1>2 DEF Return, Fail
  <1>3. ASSUME NEW w \in Workers, Works(w) PROVE Recovers'
    <2>1. /\ UNCHANGED <<main, attempt, outage>> /\ Current' = Current /\ Elapsed' = Elapsed
          /\ \A v \in Workers : v # w => Waits(v)
          /\ Current \in Workers /\ main = "join" /\ attempt = 1
      BY <1>3, <1>y, WorksAlone, CurrentIsWorker
    <2>2. CASE w # Current
      BY <1>y, <2>1, <2>2 DEF Recovers, Waits
    <2>3. CASE w = Current
      <3>1. PICK n \in Nat, t \in Nat : n = tries[w] /\ t = left[w]
        BY <1>y DEF TypeOK
      <3>2. PauseAfter(n) \in Nat /\ PauseAfter(n + 1) \in Nat
        BY PauseType
      <3>3. /\ stage[w] = "ready" => Elapsed <= Soon + PauseAfter(n)
            /\ stage[w] = "hanging" => Elapsed + t <= Soon
            /\ stage[w] = "pausing" => Elapsed + t <= Soon + PauseAfter(n)
            /\ stage[w] = "searching" => Elapsed + t <= Search
            /\ outage = "on" => Late + Elapsed <= lasted
        BY <1>y, <2>1, <2>3, <3>1 DEF Recovers, Within, Weathered, OnTime, Clocked, InTime
      <3>4. CASE Begin(w) \/ Resume(w)
        <4>1. /\ tries'[w] = n /\ t = 0 /\ stage'[w] \in {"ready", "error"}
              /\ stage[w] \in {"searching", "pausing"}
          BY <1>y, <3>1, <3>4 DEF Begin, Resume, Enter, TypeOK
        <4> QED
          BY <1>y, <2>1, <2>3, <3>2, <3>3, <4>1 DEF Recovers, Soon
      <3>5. CASE Send(w) \/ Answer(w)
        <4>1. /\ tries'[w] = n
              /\ \/ stage'[w] = "answering" /\ left'[w] \in 0..Latency /\ stage[w] = "ready"
                 \/ stage'[w] = "ok"
          BY <1>y, <3>1, <3>5 DEF Send, Answer, Enter, TypeOK
        <4> QED
          BY <1>y, <2>1, <2>3, <3>2, <3>3, <4>1 DEF Recovers, Soon
      <3>6. CASE Hang(w)
        <4>1. stage'[w] = "hanging" /\ left'[w] = Request /\ outage = "on"
          BY <1>y, <3>6 DEF Hang, Enter, TypeOK
        <4> QED
          BY <1>y, <2>1, <2>3, <3>3, <4>1 DEF Recovers, Soon, Late
      <3>7. CASE Refused(w) \/ TimesOut(w)
        <4>1. /\ tries'[w] = n + 1
              /\ stage'[w] = "error" \/ (stage'[w] = "pausing" /\ left'[w] = PauseAfter(n + 1))
          BY <1>y, <3>1, <3>7, FailureOf
        <4>2. \/ outage = "on"
              \/ stage[w] = "hanging" /\ t = 0
          BY <3>1, <3>7 DEF Refused, TimesOut
        <4> QED
          BY <1>y, <2>1, <2>3, <3>2, <3>3, <4>1, <4>2 DEF Recovers, Soon, Late
      <3> QED
        BY <1>3, <3>4, <3>5, <3>6, <3>7 DEF Works
    <2> QED
      BY <2>2, <2>3
  <1>4. CASE OutageBegins \/ OutageEnds \/ UNCHANGED vars
    BY <1>y, <1>4 DEF OutageBegins, OutageEnds, vars, engineVars, threadVars, Recovers, Current,
       Elapsed
  <1>5. CASE Tick
    <2>1. /\ UNCHANGED <<main, attempt, stage, tries>> /\ main = "join" /\ Current \in Timed
          /\ Current' = Current /\ Elapsed' = Elapsed + 1
          /\ left'[Current] = left[Current] - 1 /\ left[Current] \in Nat
      BY <1>5, <1>y DEF Tick, Waiting, Timed, Current, Elapsed, TypeOK
    <2>2. PICK n \in Nat : n = tries[Current]
      BY <1>y, <2>1 DEF Timed, TypeOK
    <2>3. PauseAfter(n) \in Nat
      BY PauseType
    <2> QED
      BY <1>y, <2>1, <2>2, <2>3 DEF Recovers, Timed, Soon
  <1>6. [Next]_vars
    BY DEF Within
  <1> QED
    BY <1>1, <1>2, <1>3, <1>4, <1>5, <1>6 DEF Next, Works

\* When the current turn returns, and the outage is not over, none of its threads has failed
\* and all are done with it.
LEMMA ReturnsClean ==
  ASSUME Within, Return, outage # "over", NEW w \in Workers, w[1] = turn
  PROVE  Idle(w) /\ tries[w] = 0
  <1> USE ConstantTypes
  <1>1. main = "join" /\ stage[Current] = "ok"
    BY DEF Return
  <1>2. Typed /\ TypeOK /\ Current \in Workers /\ Current[1] = turn /\ Current[2] = attempt
    BY <1>1, CurrentIsWorker DEF Within, Clocked, Typed
  <1>3. attempt = 0 /\ tries[Current] = 0
    BY <1>1, <1>2 DEF Within, Weathered, Places, Clocked, Ahead, TypeOK
  <1>4. CASE w = Current
    BY <1>1, <1>3, <1>4 DEF Idle
  <1>5. CASE w # Current
    <2>1. w[2] \in Nat /\ w = <<turn, w[2]>>
      BY WorkerParts
    <2>2. w[2] > 0
      BY <1>3, <1>5, <2>1 DEF Current
    <2> QED
      BY <1>1, <1>2, <1>3, <2>1, <2>2 DEF Within, Clocked, Fresh, ToCome, Typed, Idle
  <1> QED
    BY <1>4, <1>5

LEMMA StepPlaces == ASSUME OutageHeadroom PROVE Within => Places'
  <1> SUFFICES ASSUME Within PROVE Places'
    OBVIOUS
  <1> USE ConstantTypes
  <1>y. /\ Typed /\ TypeOK /\ Places /\ lasted \in Nat /\ lasted < Keepalive
        /\ Workers' = Workers
    BY DEF Within, Weathered, Clocked, Typed, TypeOK, Workers
  <1>1. CASE Start
    <2>1. /\ Current' = Current /\ Current \in Workers /\ Current[1] = turn /\ Current[2] = attempt
          /\ UNCHANGED <<turn, attempt, outage, tries>> /\ main = "start" /\ main' = "join"
          /\ stage' = [stage EXCEPT ![Current] = "searching"]
      BY <1>1, <1>y, CurrentIsWorker DEF Start, Research, Current, Enter
    <2> QED
      BY <1>y, <2>1 DEF Places, Idle, TypeOK
  <1>2. CASE Return
    <2>1. /\ UNCHANGED <<stage, tries, outage>> /\ attempt' = 0 /\ main' # "join"
          /\ main = "join" /\ stage[Current] = "ok" /\ turn' \in {turn, turn + 1}
      BY <1>2 DEF Return, threadVars, worldVars
    <2>2. ASSUME outage # "over", NEW w \in Workers PROVE Idle(w)
      BY <1>2, <1>y, <2>2, ReturnsClean DEF Places
    <2>3. ASSUME NEW w \in Workers, w[2] = 1 PROVE Idle(w)
      BY <1>y, <2>1, <2>3 DEF Places, Idle
    <2> QED
      BY <1>y, <2>1, <2>2, <2>3 DEF Places, Idle
  <1>3. CASE Fail
    <2>1. attempt = 0 /\ outage # "ahead"
      BY <1>3, <1>y, FailsOnce DEF Within
    <2>2. UNCHANGED <<stage, tries, outage, turn>> /\ Current[2] = 0
      BY <1>3, <2>1 DEF Fail, threadVars, worldVars, Current
    <2> QED
      BY <1>y, <2>1, <2>2 DEF Places, Idle
  <1>4. ASSUME NEW w \in Workers, Works(w) PROVE Places'
    <2>1. /\ UNCHANGED <<main, turn, attempt, outage>> /\ Current' = Current
          /\ \A v \in Workers : v # w => stage'[v] = stage[v] /\ tries'[v] = tries[v]
          /\ ~Idle(w)
      BY <1>4, <1>y, WorksAlone DEF Waits
    <2>2. outage = "on" => \/ stage'[w] \notin {"answering", "ok"}
                           \/ stage[w] = "answering" /\ tries'[w] = tries[w]
      BY <1>4, <1>y DEF Works, Begin, Send, Hang, Resume, Answer, Refused, TimesOut, Failed, Enter,
         TypeOK
    <2> QED
      BY <1>y, <2>1, <2>2 DEF Places, Idle
  <1>5. CASE OutageBegins
    <2>1. UNCHANGED <<main, turn, attempt, stage, tries>> /\ Current' = Current /\ outage = "ahead"
      BY <1>5 DEF OutageBegins, engineVars, threadVars, Current
    <2>2. \A w \in Workers : tries[w] = 0 /\ w[2] \in Nat /\ (w[2] > 0 => stage[w] = "none")
      BY <1>y, <2>1, WorkerParts DEF Within, Clocked, Ahead, Places
    <2> QED
      BY <1>y, <1>5, <2>1, <2>2 DEF OutageBegins, Places, Idle
  <1>6. CASE OutageEnds \/ Tick \/ UNCHANGED vars
    BY <1>y, <1>6 DEF OutageEnds, Tick, vars, engineVars, threadVars, worldVars, Places, Idle,
       Current
  <1>7. [Next]_vars
    BY DEF Within
  <1> QED
    BY <1>1, <1>2, <1>3, <1>4, <1>5, <1>6, <1>7 DEF Next, Works

RestartedLate == outage = "on" /\ main = "join" /\ attempt = 1 => Late <= lasted

LEMMA RestartsLate == Clocked /\ OnTime => RestartedLate
  <1> SUFFICES ASSUME Clocked, OnTime, outage = "on", main = "join", attempt = 1
               PROVE  Late <= lasted
    BY DEF RestartedLate
  <1>1. patience \in 0..Keepalive /\ lasted \in Nat
    BY DEF Clocked, Typed, TypeOK
  <1>2. Late + Elapsed <= lasted
    BY DEF OnTime
  <1>3. Elapsed \in Nat /\ Late \in Int
    BY <1>1, ConstantTypes DEF Elapsed, Late
  <1> QED
    BY <1>1, <1>2, <1>3

LEMMA StepSpacedLate == ASSUME OutageHeadroom PROVE Within => SpacedLate'
  <1>r. Clocked' /\ OnTime' => RestartedLate'
    BY RestartsLate, PTL
  <1> SUFFICES ASSUME Within, NEW w \in Workers, w[2] = 1 PROVE Spaced(w, Late)'
    BY DEF SpacedLate, Workers
  <1> USE ConstantTypes
  <1>1. Places' /\ OnTime'
    BY StepPlaces, StepOnTime
  <1>2. ASSUME outage' = "on", stage'[w] = "ready" PROVE Late <= lasted'
    <2>1. w = Current' /\ main' = "join"
      BY <1>1, <1>2 DEF Places, Idle, Workers
    <2>2. attempt' = 1
      BY <2>1 DEF Current
    <2> QED
      BY <1>1, <1>2, <1>r, <2>1, <2>2 DEF Within, RestartedLate
  <1>3. Late \in Int /\ Spaced(w, Late)
    BY DEF Late, Within, Weathered, SpacedLate
  <1> QED
    BY <1>2, <1>3, StepSpaced DEF Within, Clocked

\* As long as no failure is counted.
LEMMA StreakKept ==
  ASSUME Streak, failures' \in Nat, failures' = failures, UNCHANGED <<turn, tries>>,
         outage' # "over" => outage # "over",
         \A w \in Workers : Struck(w)' => Struck(w) \/ (outage = "on" /\ w[1] = turn)
  PROVE  Streak'
  <1>1. PICK t \in 1..Turns : /\ failures <= Strikes(t)
                              /\ \A w \in Workers : Struck(w) => w[1] = t
                              /\ outage # "over" => t = turn
    BY DEF Streak
  <1>2. Strikes(t)' = Strikes(t)
    BY DEF Strikes
  <1>3. \A w \in Workers : Struck(w)' => w[1] = t
    BY <1>1
  <1>4. Workers' = Workers
    BY DEF Workers
  <1> QED
    BY <1>1, <1>2, <1>3, <1>4 DEF Streak

LEMMA StepStreak == ASSUME OutageHeadroom PROVE Within => Streak'
  <1> SUFFICES ASSUME Within PROVE Streak'
    OBVIOUS
  <1> USE ConstantTypes
  <1>y. /\ Typed /\ TypeOK /\ Streak /\ Places /\ Calm /\ failures \in Nat
        /\ failures' \in Nat /\ Workers' = Workers
    BY DEF Within, Weathered, Clocked, Typed, TypeOK, Workers
  <1>t. PICK t \in 1..Turns : /\ failures <= Strikes(t)
                              /\ \A w \in Workers : Struck(w) => w[1] = t
                              /\ outage # "over" => t = turn
    BY <1>y DEF Streak
  <1>p. ASSUME NEW u \in 1..Turns
        PROVE  <<u, 0>> \in Workers /\ <<u, 1>> \in Workers
    BY DEF OutageHeadroom, Workers
  <1>1. CASE Start
    <2>1. /\ UNCHANGED <<turn, tries, failures, outage>>
          /\ stage' = [stage EXCEPT ![Current] = "searching"]
      BY <1>1 DEF Start, Research, Enter, breakerVars
    <2> QED
      BY <1>y, <2>1, StreakKept DEF Struck, TypeOK
  <1>2. CASE Return
    <2>1. /\ UNCHANGED <<stage, tries, failures, outage>>
          /\ turn' \in 1..Turns
      BY <1>2, <1>y DEF Return, threadVars, breakerVars, worldVars, Within, Clocked, Typed, TypeOK
    <2>2. CASE outage = "over"
      <3>1. Strikes(t)' = Strikes(t) /\ \A w \in Workers : Struck(w)' <=> Struck(w)
        BY <2>1 DEF Strikes, Struck
      <3> QED
        BY <1>t, <1>y, <2>1, <2>2, <3>1 DEF Streak
    <2>3. CASE outage # "over"
      <3>1. ASSUME NEW w \in Workers PROVE tries[w] = 0 /\ ~Struck(w)
        <4>1. CASE w[1] = turn
          BY <1>2, <2>3, <4>1, ReturnsClean DEF Idle, Struck
        <4>2. CASE w[1] # turn
          <5>1. ~Struck(w)
            BY <1>t, <2>3, <4>2
          <5> QED
            BY <1>y, <5>1 DEF Struck, TypeOK
        <4> QED
          BY <4>1, <4>2
      <3>2. ASSUME NEW u \in 1..Turns PROVE Strikes(u) = 0 /\ Strikes(u)' = 0
        BY <1>p, <2>1, <3>1 DEF Strikes
      <3>3. failures = 0
        BY <1>t, <1>y, <3>2
      <3>4. \A w \in Workers : ~Struck(w)'
        BY <2>1, <3>1 DEF Struck
      <3> QED
        BY <1>y, <2>1, <3>2, <3>3, <3>4 DEF Streak
    <2> QED
      BY <2>2, <2>3
  <1>3. CASE Fail \/ OutageBegins \/ OutageEnds \/ Tick \/ UNCHANGED vars
    <2>1. /\ UNCHANGED <<turn, tries, failures, stage>>
          /\ outage' # "over" => outage # "over"
      BY <1>3 DEF Fail, OutageBegins, OutageEnds, Tick, vars, engineVars, threadVars, breakerVars,
         worldVars
    <2> QED
      BY <1>y, <2>1, StreakKept DEF Struck
  <1>4. ASSUME NEW w \in Workers, Works(w) PROVE Streak'
    <2>1. /\ UNCHANGED <<turn, outage>> /\ ~Idle(w)
          /\ \A v \in Workers : v # w => stage'[v] = stage[v] /\ tries'[v] = tries[v]
      BY <1>4, <1>y, WorksAlone DEF Waits
    <2>2. outage = "on" => w[1] = turn
      BY <1>y, <2>1 DEF Places
    <2>3. CASE Begin(w) \/ Send(w) \/ Resume(w) \/ Hang(w)
      <3>1. /\ UNCHANGED <<tries, failures>>
            /\ outage = "on" \/ stage'[w] # "hanging"
        BY <1>y, <2>3 DEF Begin, Send, Resume, Hang, Enter, breakerVars, TypeOK
      <3> QED
        BY <1>y, <2>1, <2>2, <3>1, StreakKept DEF Struck
    <2>4. CASE Answer(w)
      <3>1. failures' = 0 /\ tries' = tries /\ stage'[w] # "hanging"
        BY <1>y, <2>4 DEF Answer, Enter, TypeOK
      <3>2. Strikes(t)' \in Nat
        BY <1>p, <1>y, <3>1 DEF Strikes, TypeOK
      <3>3. \A v \in Workers : Struck(v)' => v[1] = t
        BY <1>t, <2>1, <3>1 DEF Struck
      <3> QED
        BY <1>t, <1>y, <2>1, <3>1, <3>2, <3>3 DEF Streak
    <2>5. CASE Refused(w) \/ TimesOut(w)
      <3>1. tries'[w] = tries[w] + 1 /\ failures' = failures + 1 /\ tries[w] \in Nat
        BY <1>y, <2>5, FailureOf DEF TypeOK
      <3>2. w[1] = t
        BY <1>t, <2>2, <2>5 DEF Refused, TimesOut, Struck
      <3>3. w = <<t, 0>> \/ w = <<t, 1>>
        <4>1. w[2] \in Nat /\ w = <<t, w[2]>>
          BY <3>2, WorkerParts
        <4>2. ~(w[2] > 1)
          BY <1>y, <2>1 DEF Calm, Idle
        <4> QED
          BY <4>1, <4>2
      <3>4. Strikes(t)' = Strikes(t) + 1 /\ Strikes(t) \in Nat
        <4>1. PICK m \in Nat, n \in Nat : m = tries[<<t, 0>>] /\ n = tries[<<t, 1>>]
          BY <1>p, <1>y DEF TypeOK
        <4>2. <<t, 0>> # <<t, 1>>
          OBVIOUS
        <4>3. CASE w = <<t, 0>>
          BY <1>p, <2>1, <3>1, <4>1, <4>2, <4>3 DEF Strikes
        <4>4. CASE w = <<t, 1>>
          BY <1>p, <2>1, <3>1, <4>1, <4>2, <4>4 DEF Strikes
        <4> QED
          BY <3>3, <4>3, <4>4
      <3>5. \A v \in Workers : Struck(v)' => v[1] = t
        BY <1>t, <2>1, <3>2 DEF Struck
      <3> QED
        BY <1>t, <1>y, <2>1, <3>1, <3>4, <3>5 DEF Streak
    <2> QED
      BY <1>4, <2>3, <2>4, <2>5 DEF Works
  <1>5. [Next]_vars
    BY DEF Within
  <1> QED
    BY <1>1, <1>2, <1>3, <1>4, <1>5 DEF Next, Works

LEMMA StepCalm == ASSUME OutageHeadroom PROVE Within => Calm'
  <1>1. Strained => Bounded
    BY StrikesBounded
  <1>2. Strained' => Bounded'
    BY <1>1, PTL
  <1> SUFFICES ASSUME Within PROVE Calm'
    OBVIOUS
  <1> USE ConstantTypes
  <1>y. /\ Typed /\ TypeOK /\ Calm /\ Workers' = Workers
    BY DEF Within, Weathered, Clocked, Typed, Workers
  <1>b. Bounded'
    BY <1>2, StepStreak, StepSpacedLate DEF Within, Clocked, Strained
  <1>3. CASE Start
    <2>1. /\ stage' = [stage EXCEPT ![Current] = "searching"] /\ Current \in Workers
          /\ UNCHANGED <<attempt, open>> /\ main' = "join" /\ Current[2] = attempt
      BY <1>3, <1>y, CurrentIsWorker DEF Start, Research, Enter, breakerVars
    <2> QED
      BY <1>y, <2>1 DEF Calm, TypeOK
  <1>4. CASE Return
    BY <1>y, <1>4 DEF Return, threadVars, breakerVars, Calm
  <1>5. CASE Fail
    <2>1. attempt' = 1 /\ UNCHANGED <<stage, open>> /\ main' = "start"
      BY <1>5, <1>y, FailsOnce DEF Within, Fail, threadVars, breakerVars, OutageHeadroom
    <2> QED
      BY <1>y, <2>1 DEF Calm
  <1>6. ASSUME NEW w \in Workers, Works(w) PROVE Calm'
    <2>1. /\ UNCHANGED <<main, attempt>> /\ ~Idle(w)
          /\ \A v \in Workers : v # w => stage'[v] = stage[v]
      BY <1>6, <1>y, WorksAlone DEF Waits
    <2>2. ~(w[2] > 1)
      BY <1>y, <2>1 DEF Calm, Idle
    <2>3. ~open' /\ stage'[w] # "error"
      <3>1. CASE Refused(w) \/ TimesOut(w)
        <4>1. failures' < Threshold /\ failures' \in Nat /\ tries'[w] <= Retries
          BY <1>b, <1>y DEF Bounded, Within, Clocked, Typed, TypeOK
        <4>2. tries'[w] \in Nat
          BY <1>y DEF Within, Clocked, Typed, TypeOK
        <4>3. open' = (open \/ failures' >= Threshold) /\ ~open
          BY <1>y, <3>1, FailureOf DEF Calm
        <4>4. ~(failures' >= Threshold)
          BY <4>1
        <4>5. ~open'
          BY <4>3, <4>4
        <4>6. tries'[w] # Retries + 1
          BY <4>1, <4>2
        <4> QED
          BY <1>y, <3>1, <4>5, <4>6, FailureOf
      <3>2. CASE ~(Refused(w) \/ TimesOut(w))
        BY <1>6, <1>y, <3>2 DEF Works, Begin, Send, Hang, Resume, Answer, Enter, breakerVars, Calm,
           TypeOK
      <3> QED
        BY <3>1, <3>2
    <2> QED
      BY <1>y, <2>1, <2>2, <2>3 DEF Calm
  <1>7. CASE OutageBegins \/ OutageEnds \/ Tick \/ UNCHANGED vars
    BY <1>y, <1>7 DEF OutageBegins, OutageEnds, Tick, vars, engineVars, threadVars, breakerVars,
       Calm
  <1>8. [Next]_vars
    BY DEF Within
  <1> QED
    BY <1>3, <1>4, <1>5, <1>6, <1>7, <1>8 DEF Next, Works

LEMMA StepWeathered ==
  ASSUME OutageHeadroom
  PROVE  Clocked /\ Clocked' /\ WeatheredInOutage /\ [Next]_vars => WeatheredInOutage'
  <1> SUFFICES ASSUME Clocked, Clocked', WeatheredInOutage, [Next]_vars,
                      ~(lasted' >= Keepalive), ~slow'
               PROVE  Weathered'
    BY DEF WeatheredInOutage
  <1>1. lasted \in Nat /\ lasted' \in Nat /\ lasted <= lasted'
    BY LastedGrows DEF Clocked
  <1>2. Within
    BY <1>1, SlowLatched, ConstantTypes DEF Within, WeatheredInOutage
  <1> QED
    BY <1>2, StepCalm, StepPlaces, StepStreak, StepOnTime, StepRecovers, StepSpacedLate
    DEF Weathered

\* "headroom for pacing" (config.yaml): an outage shorter than the keepalive costs a turn at
\* most one restart, for all values with enough headroom and as long as no search takes
\* longer than one operation of it may.
THEOREM OutagesWeathered == ASSUME OutageHeadroom PROVE Spec => []OutageWeathered
  <1>1. Init => WeatheredInOutage
    BY InitWeathered DEF WeatheredInOutage
  <1>2. Clocked /\ WeatheredInOutage => OutageWeathered
    <2>1. lasted \in Nat /\ Keepalive \in Nat => ~(lasted < Keepalive /\ lasted >= Keepalive)
      OBVIOUS
    <2> QED
      BY <2>1, ConstantTypes DEF WeatheredInOutage, Weathered, Calm, OutageWeathered, Clocked,
         Typed, TypeOK
  <1>3. Clocked /\ WeatheredInOutage /\ [Next]_vars => WeatheredInOutage'
    BY StepClocked, StepWeathered
  <1> QED
    BY <1>1, <1>2, <1>3, AlwaysClocked, PTL DEF Spec
=============================================================================
