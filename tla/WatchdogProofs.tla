--------------------------- MODULE WatchdogProofs ---------------------------
(***************************************************************************)
(* Proofs about Watchdog, for any number of guarded calls and restarts.    *)
(* The safety properties follow from one inductive invariant: threads are  *)
(* started in the order of Before, and whatever is not abandoned and not   *)
(* the thread being joined has ended without a fatal error.                *)
(***************************************************************************)
EXTENDS Watchdog, TLAPS

\* Threads start in order: no started thread comes after the current one, which
\* itself is not abandoned.
InOrder ==
    main # "finished" =>
        /\ \A w \in Started :
              Before(w, Current) \/ (w = Current /\ main \in {"join", "halted"})
        /\ \A w \in abandoned : Before(w, Current)

\* One result for each call before this one.
OneResultPerCall ==
    Len(results) = IF main = "finished" THEN call ELSE call - 1

\* Every earlier attempt at this call was abandoned or failed.
EarlierSpent ==
    main # "finished" =>
        \A a \in 0..MaxRestarts :
            a < attempt => <<call, a>> \in abandoned \/ box[<<call, a>>] = "error"

GaveUpAtTheEnd == main = "gave_up" => attempt = MaxRestarts + 1

\* A fatal error that is not abandoned is that of the current thread.
FatalIsCurrent ==
    \A w \in Workers \ abandoned :
        box[w] = "fatal" => main \in {"join", "halted"} /\ w = Current

IInv ==
    /\ TypeOK
    /\ InOrder
    /\ OneResultPerCall
    /\ NoStaleResult
    /\ StrayThreadsAbandoned
    /\ EarlierSpent
    /\ GaveUpAtTheEnd
    /\ FatalIsCurrent
-----------------------------------------------------------------------------
LEMMA InitIInv == Init => IInv
  BY CallsAssumption, RestartsAssumption
  DEF Init, IInv, TypeOK, InOrder, OneResultPerCall, NoStaleResult,
      StrayThreadsAbandoned, EarlierSpent, GaveUpAtTheEnd, FatalIsCurrent,
      Workers, Current, Outcomes, Started, Before

LEMMA BeforeAsymmetric ==
  \A v, w \in Workers : ~(Before(v, w) /\ Before(w, v)) /\ ~Before(v, v)
  BY DEF Before, Workers

LEMMA StartStep == IInv /\ Start => IInv'
  <1> SUFFICES ASSUME IInv, Start PROVE IInv'
    OBVIOUS
  <1> USE DEF IInv
  <1>1. Current \in Workers /\ Current' = Current
    BY DEF Start, TypeOK, Workers, Current
  <1>2. Started' = Started \cup {Current}
    BY <1>1 DEF Start, Started, TypeOK
  <1>3. TypeOK'
    BY <1>1 DEF TypeOK, Start
  <1>4. InOrder'
    BY <1>1, <1>2 DEF InOrder, Start
  <1>5. OneResultPerCall'
    BY DEF OneResultPerCall, Start
  <1>6. NoStaleResult'
    <2> SUFFICES ASSUME NEW n \in 1..Len(results)
                 PROVE  n = call => FALSE
      BY <1>1, <1>2 DEF NoStaleResult, Start, Current, Before, TypeOK
    <2> QED
      BY DEF OneResultPerCall, Start, TypeOK
  <1>7. StrayThreadsAbandoned'
    BY <1>1 DEF StrayThreadsAbandoned, Start
  <1>8. EarlierSpent' /\ GaveUpAtTheEnd' /\ FatalIsCurrent'
    BY <1>1 DEF EarlierSpent, GaveUpAtTheEnd, FatalIsCurrent, Start
  <1> QED
    BY <1>3, <1>4, <1>5, <1>6, <1>7, <1>8

LEMMA FinishStep ==
  ASSUME NEW w \in Workers, NEW outcome \in Outcomes, IInv, Finish(w, outcome)
  PROVE  IInv'
  <1> USE DEF IInv
  <1>1. Started' = Started /\ Current' = Current
    BY DEF Finish, Started, TypeOK, Current
  <1>2. TypeOK'
    BY DEF TypeOK, Finish
  <1>3. InOrder' /\ OneResultPerCall' /\ GaveUpAtTheEnd'
    BY <1>1 DEF InOrder, OneResultPerCall, GaveUpAtTheEnd, Finish
  <1>4. NoStaleResult' /\ StrayThreadsAbandoned'
    BY <1>1 DEF NoStaleResult, StrayThreadsAbandoned, Finish, TypeOK
  <1>5. EarlierSpent'
    BY DEF EarlierSpent, Finish, TypeOK
  <1>6. FatalIsCurrent'
    BY <1>1 DEF FatalIsCurrent, StrayThreadsAbandoned, Finish, TypeOK
  <1> QED
    BY <1>2, <1>3, <1>4, <1>5, <1>6

LEMMA ExitStep == ASSUME NEW w \in Workers, IInv, Exit(w) PROVE IInv'
  <1> USE DEF IInv
  <1>1. Started' = Started /\ Current' = Current
    BY DEF Exit, Started, TypeOK, Current
  <1>2. TypeOK' /\ InOrder' /\ OneResultPerCall' /\ GaveUpAtTheEnd'
    BY <1>1 DEF TypeOK, InOrder, OneResultPerCall, GaveUpAtTheEnd, Exit
  <1>3. NoStaleResult' /\ StrayThreadsAbandoned' /\ EarlierSpent' /\ FatalIsCurrent'
    BY <1>1 DEF NoStaleResult, StrayThreadsAbandoned, EarlierSpent, FatalIsCurrent, Exit
  <1> QED
    BY <1>2, <1>3

LEMMA ReturnStep == IInv /\ Return => IInv'
  <1> SUFFICES ASSUME IInv, Return PROVE IInv'
    OBVIOUS
  <1> USE DEF IInv
  <1>1. Current \in Workers /\ Started' = Started
    BY DEF Return, TypeOK, Workers, Current, Started
  <1>2. Len(results) = call - 1 /\ Len(results') = call
    BY <1>1 DEF OneResultPerCall, Return, TypeOK
  <1>3. TypeOK'
    <2>1. results' \in Seq(Workers)
      BY <1>1 DEF TypeOK, Return
    <2>2. attempt' \in 0..(MaxRestarts + 1) /\ attempt' <= MaxRestarts
      BY RestartsAssumption DEF Return
    <2> QED
      BY <2>1, <2>2, CallsAssumption DEF TypeOK, Return
  <1>4. InOrder'
    BY <1>1 DEF InOrder, Return, Current, Before, TypeOK, Started, Workers
  <1>5. OneResultPerCall' /\ GaveUpAtTheEnd'
    BY <1>2 DEF OneResultPerCall, GaveUpAtTheEnd, Return, TypeOK
  <1>6. NoStaleResult'
    <2> SUFFICES ASSUME NEW n \in 1..call
                 PROVE  /\ results'[n][1] = n
                        /\ results'[n] \notin abandoned
                        /\ box[results'[n]] = "ok"
                        /\ \A w \in Started : w[1] = n => ~Before(results'[n], w)
      BY <1>1, <1>2 DEF NoStaleResult, Return
    <2>1. CASE n < call
      BY <2>1, <1>1, <1>2 DEF NoStaleResult, Return, TypeOK
    <2>2. CASE n = call
      <3>1. results'[n] = Current
        BY <2>2, <1>1, <1>2 DEF Return, TypeOK
      <3>2. Current \notin abandoned
        BY DEF InOrder, Return, Before, Current, TypeOK
      <3>3. ASSUME NEW w \in Started PROVE ~Before(Current, w)
        <4>1. w \in Workers /\ (Before(w, Current) \/ w = Current)
          BY DEF InOrder, Return, Started, TypeOK
        <4> QED
          BY <1>1, <4>1, BeforeAsymmetric
      <3>4. Current[1] = n
        BY <2>2 DEF Current
      <3> QED
        BY <3>1, <3>2, <3>3, <3>4 DEF Return
    <2> QED
      BY <2>1, <2>2 DEF TypeOK
  <1>7. StrayThreadsAbandoned'
    BY DEF StrayThreadsAbandoned, Return
  <1>8. EarlierSpent' /\ FatalIsCurrent'
    BY DEF EarlierSpent, FatalIsCurrent, Return
  <1> QED
    BY <1>3, <1>4, <1>5, <1>6, <1>7, <1>8

LEMMA FatalStep == IInv /\ Fatal => IInv'
  <1> SUFFICES ASSUME IInv, Fatal PROVE IInv'
    OBVIOUS
  <1> USE DEF IInv
  <1>1. Started' = Started /\ Current' = Current
    BY DEF Fatal, Started, Current
  <1>2. TypeOK' /\ InOrder' /\ OneResultPerCall' /\ GaveUpAtTheEnd'
    BY <1>1 DEF TypeOK, InOrder, OneResultPerCall, GaveUpAtTheEnd, Fatal
  <1>3. NoStaleResult' /\ StrayThreadsAbandoned' /\ EarlierSpent' /\ FatalIsCurrent'
    BY <1>1 DEF NoStaleResult, StrayThreadsAbandoned, EarlierSpent, FatalIsCurrent, Fatal
  <1> QED
    BY <1>2, <1>3

\* A restart, whatever ended the attempt before it.
LEMMA RestartStep ==
  ASSUME IInv, main = "join", Restart,
         \/ /\ Current \notin alive
            /\ box[Current] = "error"
            /\ abandoned' = abandoned
         \/ /\ Current \in alive
            /\ abandoned' = abandoned \cup {Current},
         UNCHANGED <<call, box, alive, results>>
  PROVE  IInv'
  <1> USE DEF IInv
  <1>1. Current \in Workers /\ Started' = Started /\ attempt' = attempt + 1
    BY DEF Restart, TypeOK, Workers, Current, Started
  <1>2. TypeOK' /\ GaveUpAtTheEnd'
    BY <1>1, RestartsAssumption DEF TypeOK, Restart, GaveUpAtTheEnd
  <1>3. Before(Current, Current') /\ main' # "finished"
    BY <1>1 DEF Before, Current, Restart, TypeOK
  <1>4. InOrder'
    <2>1. \A w \in Workers : Before(w, Current) => Before(w, Current')
      BY <1>1 DEF Before, Current, Workers, TypeOK
    <2>2. Started \subseteq Workers /\ abandoned \subseteq Workers
      BY DEF Started, TypeOK
    <2> QED
      BY <1>1, <1>3, <2>1, <2>2 DEF InOrder
  <1>5. OneResultPerCall'
    BY <1>3 DEF OneResultPerCall
  <1>6. NoStaleResult'
    <2> SUFFICES ASSUME NEW n \in 1..Len(results) PROVE results[n] # Current
      BY <1>1 DEF NoStaleResult
    <2> QED
      BY DEF NoStaleResult, OneResultPerCall, Current, TypeOK
  <1>7. StrayThreadsAbandoned' /\ FatalIsCurrent'
    BY <1>1 DEF StrayThreadsAbandoned, FatalIsCurrent
  <1>8. EarlierSpent'
    BY <1>1 DEF EarlierSpent, Current, TypeOK
  <1> QED
    BY <1>2, <1>4, <1>5, <1>6, <1>7, <1>8

LEMMA StepIInv == IInv /\ [Next]_vars => IInv'
  <1> SUFFICES ASSUME IInv, [Next]_vars PROVE IInv'
    OBVIOUS
  <1>1. CASE Start
    BY <1>1, StartStep
  <1>2. CASE Return
    BY <1>2, ReturnStep
  <1>3. CASE Fatal
    BY <1>3, FatalStep
  <1>4. CASE Error
    BY <1>4, RestartStep DEF Error
  <1>5. CASE Timeout
    BY <1>5, RestartStep DEF Timeout
  <1>6. ASSUME NEW w \in Workers, NEW outcome \in Outcomes, Finish(w, outcome)
        PROVE  IInv'
    BY <1>6, FinishStep
  <1>7. ASSUME NEW w \in Workers, Exit(w) PROVE IInv'
    BY <1>7, ExitStep
  <1>8. CASE UNCHANGED vars
    BY <1>8 DEF vars, IInv, TypeOK, InOrder, OneResultPerCall, NoStaleResult,
      StrayThreadsAbandoned, EarlierSpent, GaveUpAtTheEnd, FatalIsCurrent, Started,
      Current
  <1> QED
    BY <1>1, <1>2, <1>3, <1>4, <1>5, <1>6, <1>7, <1>8 DEF Next, Guard

\* IInv always holds.
THEOREM Invariance == Spec => []IInv
  BY InitIInv, StepIInv, PTL DEF Spec
-----------------------------------------------------------------------------
\* Type correctness of Watchdog.run (watchdog.py, run): among other things no call
\* is started more than MaxRestarts + 1 times.
THEOREM TypeCorrect == Spec => []TypeOK
  BY Invariance, PTL DEF IInv

\* However many threads hang and whenever they end, the engine gets one result per
\* call and never that of a thread it gave up on (watchdog.py, _guarded).
THEOREM ResultsNotStale == Spec => []NoStaleResult
  BY Invariance, PTL DEF IInv

\* All live threads but the one being joined are abandoned ones (watchdog.py).
THEOREM StraysAreAbandoned == Spec => []StrayThreadsAbandoned
  BY Invariance, PTL DEF IInv

\* WatchdogError is only raised when the first attempt and all MaxRestarts restarts
\* failed or hung (watchdog.py, run).
THEOREM NoEarlySurrender == Spec => []GivesUpOnlyWhenSpent
  <1>1. IInv => GivesUpOnlyWhenSpent
    BY RestartsAssumption
    DEF IInv, GivesUpOnlyWhenSpent, EarlierSpent, GaveUpAtTheEnd, TypeOK
  <1> QED
    BY <1>1, Invariance, PTL

\* After a fatal error that was waited for no thread is started (watchdog.py, run).
THEOREM FatalEndsRun == Spec => []FatalIsLast
  <1>1. IInv => FatalIsLast
    BY DEF IInv, FatalIsLast, FatalIsCurrent, InOrder, Before, Current, Started,
       TypeOK, Workers
  <1> QED
    BY <1>1, Invariance, PTL
=============================================================================
