-------------------------- MODULE FifoLoggerProofs --------------------------
(***************************************************************************)
(* Proofs about FifoLogger, for any number of threads, entries, restarts   *)
(* and any caps.  Shape is what all of them need: who knows a file's       *)
(* number, and what a thread holds at each step of log.  Over it come      *)
(*                                                                         *)
(*   Counted  how many lines a file has or will get, against the threads   *)
(*            that can still write to it and those still to reset the      *)
(*            counter: every late reset allows the file max_lines more;    *)
(*   Ranked   why fewer files than threads are written to though a newer   *)
(*            one was switched to: each is the fault of another thread;    *)
(*   Covers   for every thread that deletes, which files there can be when *)
(*            it is done: those its scan kept, those overtaken but still   *)
(*            written to, and one for each thread that rolls meanwhile;    *)
(*   Solo     the exact state of the directory while one thread logs.      *)
(*                                                                         *)
(* The witnesses of Ranked and Covers are about the past: they are bound   *)
(* by quantifiers, so that FifoLogger needs no history variables for them. *)
(***************************************************************************)
EXTENDS FifoLogger, FiniteSetTheorems, WellFoundedInduction, TLAPS

\* What the library's Min and Max return.
LEMMA MinOf ==
  ASSUME NEW S \in SUBSET Nat, S # {}
  PROVE  Min(S) \in S /\ \A n \in S : Min(S) <= n
  <1>1. \E x \in S : \A y \in S : <<y, x>> \notin OpToRel(<, Nat)
    BY NatLessThanWellFounded, WFMin
  <1>2. PICK x \in S : \A y \in S : <<y, x>> \notin OpToRel(<, Nat)
    BY <1>1
  <1>3. \A y \in S : ~(y < x)
    BY <1>2 DEF OpToRel
  <1>4. \A y \in S : x <= y
    BY <1>3
  <1> QED
    BY <1>4 DEF Min

LEMMA MaxOf ==
  ASSUME NEW S \in SUBSET Nat, NEW hi \in S, \A n \in S : n <= hi
  PROVE  Max(S) = hi
  <1>1. Max(S) \in S /\ \A n \in S : Max(S) >= n
    BY DEF Max
  <1>2. Max(S) \in Nat /\ hi \in Nat /\ Max(S) <= hi /\ Max(S) >= hi
    BY <1>1
  <1> QED
    BY <1>2

\* Files that have less than MaxFiles newer ones.
LEMMA KeptFew ==
  ASSUME NEW S \in SUBSET Nat, IsFiniteSet(S)
  PROVE  IsFiniteSet(S \ Excess(S)) /\ Cardinality(S \ Excess(S)) <= MaxFiles
  <1> DEFINE Newer(n) == {m \in S : m > n}
             K == S \ Excess(S)
             f == [n \in K |-> Cardinality(Newer(n))]
  <1>1. \A n \in S : IsFiniteSet(Newer(n)) /\ Cardinality(Newer(n)) \in Nat
    BY FS_Subset, FS_CardinalityType
  <1>2. ASSUME NEW n \in K PROVE f[n] \in 0..(MaxFiles - 1)
    BY <1>1, CapsAssumption DEF Excess
  <1>3. ASSUME NEW n \in K, NEW m \in K, n < m PROVE f[n] # f[m]
    <2> n \in S /\ m \in S
      OBVIOUS
    <2> HIDE DEF K, f
    <2>1. Newer(m) \subseteq Newer(n) /\ m \in Newer(n) /\ m \notin Newer(m)
      <3>1. ASSUME NEW k \in Newer(m) PROVE k \in Newer(n)
        <4>1. k \in Nat /\ n \in Nat /\ m \in Nat /\ k > m
          OBVIOUS
        <4> QED
          BY <1>3, <4>1
      <3>2. m \in Newer(n)
        BY <1>3
      <3>3. m \notin Newer(m)
        OBVIOUS
      <3> QED
        BY <3>1, <3>2, <3>3
    <2>2. Cardinality(Newer(m)) # Cardinality(Newer(n))
      BY <1>1, <2>1, FS_Subset
    <2> QED
      BY <2>2 DEF f
  <1>4. f \in Injection(K, 0..(MaxFiles - 1))
    <2>1. \A n, m \in K : n # m => f[n] # f[m]
      BY <1>3
    <2> QED
      BY <1>2, <2>1 DEF Injection, IsInjective
  <1>5. IsFiniteSet(0..(MaxFiles - 1)) /\ Cardinality(0..(MaxFiles - 1)) = MaxFiles
    BY FS_Interval, CapsAssumption
  <1> HIDE DEF f
  <1> QED
    BY <1>4, <1>5, FS_Injection

-----------------------------------------------------------------------------
\* Numbers are taken in order; a file is never ahead of the sequence.
Numbered ==
    /\ seq > 0 /\ current < seq
    /\ \A n \in Existing : n < seq
    /\ \A t \in Threads : name[t] < seq /\ target[t] < seq

\* Nobody but the thread that is about to switch to a file knows its number.
Fresh ==
    \A t \in Threads : at[t] = "switch" =>
        /\ name[t] \notin Existing /\ name[t] # current
        /\ \A u \in Threads : target[u] # name[t] /\ (u # t => name[u] # name[t])

\* What a thread holds at each place in log.
Holds ==
    \A t \in Threads :
        /\ at[t] \in {"idle", "roll"} => name[t] = NoFile
        /\ at[t] \in {"switch", "touch"} => name[t] # NoFile
        /\ at[t] = "write" => target[t] # NoFile
        /\ at[t] \notin {"write", "count"} => target[t] = NoFile
        /\ at[t] \in {"touch", "reset", "scan", "unlink", "target"} => current # NoFile
        /\ at[t] = "unlink" <=> victims[t] # {}
        /\ t \notin loggers => at[t] = "idle"

\* The directory is finite and has a newest file, which is nobody's victim.
Directory ==
    /\ IsFiniteSet(Existing) /\ loggers \subseteq Threads
    /\ Existing # {} => \E hi \in Existing : \A n \in Existing : n <= hi
    /\ \A t \in Threads : \A f \in victims[t] : \E m \in Existing : f < m

Shape == TypeOK /\ Numbered /\ Fresh /\ Holds /\ Directory

\* What a line, or a touch, does to the directory.
LEMMA Appended ==
  ASSUME files \in [Existing -> Nat], NEW f, NEW count \in Nat, Append(f, count)
  PROVE  /\ Existing' = Existing \cup {f} /\ files' \in [Existing' -> Nat]
         /\ \A n \in Existing : files'[n] = files[n] + (IF n = f THEN count ELSE 0)
         /\ f \notin Existing => files'[f] = count
  BY DEF Append, Existing

LEMMA InitShape == Init => Shape
  <1> SUFFICES ASSUME Init PROVE Shape
    OBVIOUS
  <1>1. Existing = {} /\ files \in [Existing -> Nat]
    BY DEF Init, Existing
  <1> QED
    BY <1>1, FS_EmptySet, BoundsAssumption
       DEF Init, Shape, TypeOK, Numbered, Fresh, Holds, Directory, AllIdle, AllNoFile, AllEmpty,
           NoFile, Steps

\* What a thread deletes, and where that leaves it.
LEMMA Unlinked ==
  ASSUME Shape, NEW t \in Threads, Unlink(t)
  PROVE  \E f \in victims[t] :
            /\ \A n \in victims[t] : f <= n
            /\ Existing' = Existing \ {f} /\ files' = [n \in Existing' |-> files[n]]
            /\ victims' = [victims EXCEPT ![t] = @ \ {f}]
            /\ at' = [at EXCEPT ![t] = IF victims[t] = {f} THEN "target" ELSE "unlink"]
  <1>1. victims[t] \in SUBSET Nat /\ victims[t] # {} /\ victims \in [Threads -> SUBSET Nat]
    BY DEF Shape, TypeOK, Holds, Unlink
  <1>2. PICK f : f = Min(victims[t])
    OBVIOUS
  <1>3. f \in victims[t] /\ \A n \in victims[t] : f <= n
    BY <1>1, <1>2, MinOf
  <1>4. files' = [n \in Existing \ {f} |-> files[n]]
    BY <1>2 DEF Unlink, Restrict
  <1>5. Existing' = Existing \ {f}
    BY <1>4 DEF Existing
  <1>6. victims' = [victims EXCEPT ![t] = victims[t] \ {f}]
    BY <1>2 DEF Unlink
  <1>7. victims'[t] = {} <=> victims[t] = {f}
    BY <1>1, <1>3, <1>6
  <1>8. at' = [at EXCEPT ![t] = IF victims'[t] = {} THEN "target" ELSE "unlink"]
    BY DEF Unlink, Goto
  <1> QED
    BY <1>3, <1>4, <1>5, <1>6, <1>7, <1>8

\* The sequence is resumed after the newest file.
LEMMA Restarted ==
  ASSUME Shape, Restart
  PROVE  seq' \in Nat /\ seq' > 0 /\ \A n \in Existing : n < seq'
  <1>1. CASE Existing = {}
    BY <1>1 DEF Restart
  <1>2. CASE Existing # {}
    <2>1. PICK hi \in Existing : \A n \in Existing : n <= hi
      BY <1>2 DEF Shape, Directory
    <2>2. Existing \in SUBSET Nat
      BY DEF Shape, TypeOK
    <2>3. Max(Existing) = hi
      BY <2>1, <2>2, MaxOf
    <2>4. seq' = 1 + hi /\ hi \in Nat
      BY <1>2, <2>2, <2>3 DEF Restart
    <2> QED
      BY <2>1, <2>2, <2>4
  <1> QED
    BY <1>1, <1>2

\* Each part of Shape is kept by every step.
LEMMA StepTypes == Shape /\ [Next]_vars => TypeOK' /\ IsFiniteSet(Existing)'
  <1> SUFFICES ASSUME Shape, [Next]_vars PROVE TypeOK' /\ IsFiniteSet(Existing)'
    OBVIOUS
  <1> USE BoundsAssumption DEF Shape, TypeOK, Directory, Goto, loggerVars, Steps, NoFile
  <1>1. ASSUME NEW t \in Threads, Log(t) PROVE TypeOK' /\ IsFiniteSet(Existing)'
    BY <1>1 DEF Log, Existing
  <1>2. ASSUME NEW t \in Threads, TakeNumber(t) PROVE TypeOK' /\ IsFiniteSet(Existing)'
    BY <1>2 DEF TakeNumber, Existing
  <1>3. ASSUME NEW t \in Threads, Switch(t) PROVE TypeOK' /\ IsFiniteSet(Existing)'
    BY <1>3 DEF Switch, Existing
  <1>4. ASSUME NEW t \in Threads, Touch(t) PROVE TypeOK' /\ IsFiniteSet(Existing)'
    <2>1. name[t] \in Nat \ {0}
      BY <1>4 DEF Touch, Holds
    <2>2. Existing' = Existing \cup {name[t]} /\ files' \in [Existing' -> Nat]
      BY <1>4, Appended DEF Touch
    <2> QED
      BY <1>4, <2>1, <2>2, FS_AddElement DEF Touch
  <1>5. ASSUME NEW t \in Threads, Reset(t) PROVE TypeOK' /\ IsFiniteSet(Existing)'
    BY <1>5 DEF Reset, Existing
  <1>6. ASSUME NEW t \in Threads, Scan(t) PROVE TypeOK' /\ IsFiniteSet(Existing)'
    <2>1. Excess(Existing) \in SUBSET Nat
      BY DEF Excess
    <2> QED
      BY <1>6, <2>1 DEF Scan, Existing
  <1>7. ASSUME NEW t \in Threads, Unlink(t) PROVE TypeOK' /\ IsFiniteSet(Existing)'
    <2>1. PICK f \in victims[t] :
             /\ Existing' = Existing \ {f} /\ files' = [n \in Existing' |-> files[n]]
             /\ victims' = [victims EXCEPT ![t] = @ \ {f}]
             /\ at' = [at EXCEPT ![t] = IF victims[t] = {f} THEN "target" ELSE "unlink"]
      BY <1>7, Unlinked
    <2>2. files' \in [Existing' -> Nat] /\ Existing' \subseteq Nat \ {0} /\ IsFiniteSet(Existing')
      BY <2>1, FS_RemoveElement
    <2> QED
      BY <1>7, <2>1, <2>2 DEF Unlink
  <1>8. ASSUME NEW t \in Threads, Target(t) PROVE TypeOK' /\ IsFiniteSet(Existing)'
    BY <1>8 DEF Target, Existing
  <1>9. ASSUME NEW t \in Threads, Write(t) PROVE TypeOK' /\ IsFiniteSet(Existing)'
    <2>1. target[t] \in Nat \ {0}
      BY <1>9 DEF Write, Holds
    <2>2. Existing' = Existing \cup {target[t]} /\ files' \in [Existing' -> Nat]
      BY <1>9, Appended DEF Write
    <2> QED
      BY <1>9, <2>1, <2>2, FS_AddElement DEF Write
  <1>10. ASSUME NEW t \in Threads, Count(t) PROVE TypeOK' /\ IsFiniteSet(Existing)'
    BY <1>10 DEF Count, Existing
  <1>11. CASE Restart
    <2>1. seq' \in Nat
      BY <1>11, Restarted
    <2> QED
      BY <1>11, <2>1 DEF Restart, Existing, AllIdle, AllNoFile, AllEmpty
  <1>12. CASE UNCHANGED vars
    BY <1>12 DEF vars, threadVars, Existing
  <1> QED
    BY <1>1, <1>2, <1>3, <1>4, <1>5, <1>6, <1>7, <1>8, <1>9, <1>10, <1>11, <1>12 DEF Next

\* What the steps do to the directory.
LEMMA FilesStep ==
  ASSUME Shape, [Next]_vars
  PROVE  \/ Existing' = Existing
         \/ \E t \in Threads : Touch(t) /\ Existing' = Existing \cup {name[t]}
         \/ \E t \in Threads : Write(t) /\ Existing' = Existing \cup {target[t]}
         \/ \E t \in Threads : /\ Unlink(t)
                               /\ \E f \in victims[t] : /\ \A n \in victims[t] : f <= n
                                                        /\ Existing' = Existing \ {f}
  <1>1. ASSUME NEW t \in Threads, Touch(t) PROVE Existing' = Existing \cup {name[t]}
    BY <1>1, Appended DEF Touch, Shape, TypeOK
  <1>2. ASSUME NEW t \in Threads, Write(t) PROVE Existing' = Existing \cup {target[t]}
    BY <1>2, Appended DEF Write, Shape, TypeOK
  <1>3. ASSUME NEW t \in Threads, Unlink(t)
        PROVE  \E f \in victims[t] : /\ \A n \in victims[t] : f <= n
                                     /\ Existing' = Existing \ {f}
    BY <1>3, Unlinked
  <1>4. ASSUME files' = files PROVE Existing' = Existing
    BY <1>4 DEF Existing
  <1>5. ASSUME NEW t \in Threads,
               \/ Log(t) \/ TakeNumber(t) \/ Switch(t) \/ Reset(t) \/ Scan(t)
               \/ Target(t) \/ Count(t)
        PROVE  files' = files
    BY <1>5 DEF Log, TakeNumber, Switch, Reset, Scan, Target, Count
  <1>6. Restart \/ UNCHANGED vars => files' = files
    BY DEF Restart, vars
  <1> QED
    BY <1>1, <1>2, <1>3, <1>4, <1>5, <1>6 DEF Next

LEMMA StepNumbered == Shape /\ [Next]_vars => Numbered'
  <1> SUFFICES ASSUME Shape, [Next]_vars PROVE Numbered'
    OBVIOUS
  <1> USE DEF Shape, TypeOK, Numbered, Goto, loggerVars, NoFile
  <1>0. ASSUME seq' \in Nat, seq' >= seq PROVE \A n \in Existing' : n < seq'
    <2>1. ASSUME NEW n \in Existing' PROVE n \in Nat /\ n < seq
      <3>1. \/ n \in Existing
            \/ \E t \in Threads : n = name[t]
            \/ \E t \in Threads : n = target[t]
        BY FilesStep
      <3> QED
        BY <3>1
    <2> QED
      BY <1>0, <2>1
  <1>1. ASSUME NEW t \in Threads, Log(t) PROVE Numbered'
    BY <1>1, <1>0 DEF Log
  <1>2. ASSUME NEW t \in Threads, TakeNumber(t) PROVE Numbered'
    BY <1>2, <1>0 DEF TakeNumber
  <1>3. ASSUME NEW t \in Threads, Switch(t) PROVE Numbered'
    BY <1>3, <1>0 DEF Switch
  <1>4. ASSUME NEW t \in Threads, Touch(t) PROVE Numbered'
    BY <1>4, <1>0 DEF Touch
  <1>5. ASSUME NEW t \in Threads, Reset(t) PROVE Numbered'
    BY <1>5, <1>0 DEF Reset
  <1>6. ASSUME NEW t \in Threads, Scan(t) PROVE Numbered'
    BY <1>6, <1>0 DEF Scan
  <1>7. ASSUME NEW t \in Threads, Unlink(t) PROVE Numbered'
    BY <1>7, <1>0 DEF Unlink
  <1>8. ASSUME NEW t \in Threads, Target(t) PROVE Numbered'
    BY <1>8, <1>0 DEF Target
  <1>9. ASSUME NEW t \in Threads, Write(t) PROVE Numbered'
    BY <1>9, <1>0 DEF Write
  <1>10. ASSUME NEW t \in Threads, Count(t) PROVE Numbered'
    BY <1>10, <1>0 DEF Count
  <1>11. CASE Restart
    BY <1>11, Restarted DEF Restart, AllNoFile, Existing
  <1>12. CASE UNCHANGED vars
    BY <1>12, <1>0 DEF vars, threadVars
  <1> QED
    BY <1>1, <1>2, <1>3, <1>4, <1>5, <1>6, <1>7, <1>8, <1>9, <1>10, <1>11, <1>12 DEF Next

LEMMA StepFresh == Shape /\ [Next]_vars => Fresh'
  <1> SUFFICES ASSUME Shape, [Next]_vars PROVE Fresh'
    OBVIOUS
  <1> USE DEF Shape, TypeOK, Numbered, Fresh, Goto, loggerVars, NoFile
  <1>1. ASSUME NEW t \in Threads, Log(t) PROVE Fresh'
    BY <1>1 DEF Log, Existing
  <1>2. ASSUME NEW t \in Threads, TakeNumber(t) PROVE Fresh'
    BY <1>2 DEF TakeNumber, Existing
  <1>3. ASSUME NEW t \in Threads, Switch(t) PROVE Fresh'
    BY <1>3 DEF Switch, Existing
  <1>4. ASSUME NEW t \in Threads, Touch(t) PROVE Fresh'
    <2>1. Existing' = Existing \cup {name[t]}
      BY <1>4, Appended DEF Touch
    <2> QED
      BY <1>4, <2>1 DEF Touch
  <1>5. ASSUME NEW t \in Threads, Reset(t) PROVE Fresh'
    BY <1>5 DEF Reset, Existing
  <1>6. ASSUME NEW t \in Threads, Scan(t) PROVE Fresh'
    BY <1>6 DEF Scan, Existing
  <1>7. ASSUME NEW t \in Threads, Unlink(t) PROVE Fresh'
    <2>1. Existing' \subseteq Existing
      BY <1>7, Unlinked
    <2> QED
      BY <1>7, <2>1 DEF Unlink
  <1>8. ASSUME NEW t \in Threads, Target(t) PROVE Fresh'
    BY <1>8 DEF Target, Existing
  <1>9. ASSUME NEW t \in Threads, Write(t) PROVE Fresh'
    <2>1. Existing' = Existing \cup {target[t]}
      BY <1>9, Appended DEF Write
    <2> QED
      BY <1>9, <2>1 DEF Write
  <1>10. ASSUME NEW t \in Threads, Count(t) PROVE Fresh'
    BY <1>10 DEF Count, Existing, Holds
  <1>11. CASE Restart
    BY <1>11 DEF Restart, AllIdle
  <1>12. CASE UNCHANGED vars
    BY <1>12 DEF vars, threadVars, Existing
  <1> QED
    BY <1>1, <1>2, <1>3, <1>4, <1>5, <1>6, <1>7, <1>8, <1>9, <1>10, <1>11, <1>12 DEF Next

LEMMA StepHolds == Shape /\ [Next]_vars => Holds'
  <1> SUFFICES ASSUME Shape, [Next]_vars PROVE Holds'
    OBVIOUS
  <1> USE DEF Shape, TypeOK, Numbered, Holds, Goto, loggerVars, NoFile, Steps
  <1>1. ASSUME NEW t \in Threads, Log(t) PROVE Holds'
    BY <1>1 DEF Log, Full
  <1>2. ASSUME NEW t \in Threads, TakeNumber(t) PROVE Holds'
    BY <1>2 DEF TakeNumber
  <1>3. ASSUME NEW t \in Threads, Switch(t) PROVE Holds'
    BY <1>3 DEF Switch
  <1>4. ASSUME NEW t \in Threads, Touch(t) PROVE Holds'
    BY <1>4 DEF Touch
  <1>5. ASSUME NEW t \in Threads, Reset(t) PROVE Holds'
    BY <1>5 DEF Reset
  <1>6. ASSUME NEW t \in Threads, Scan(t) PROVE Holds'
    BY <1>6 DEF Scan
  <1>7. ASSUME NEW t \in Threads, Unlink(t) PROVE Holds'
    <2>1. PICK f \in victims[t] :
             /\ victims' = [victims EXCEPT ![t] = @ \ {f}]
             /\ at' = [at EXCEPT ![t] = IF victims[t] = {f} THEN "target" ELSE "unlink"]
      BY <1>7, Unlinked
    <2>2. victims'[t] = {} <=> victims[t] = {f}
      BY <2>1
    <2> QED
      BY <1>7, <2>1, <2>2 DEF Unlink
  <1>8. ASSUME NEW t \in Threads, Target(t) PROVE Holds'
    BY <1>8 DEF Target
  <1>9. ASSUME NEW t \in Threads, Write(t) PROVE Holds'
    BY <1>9 DEF Write
  <1>10. ASSUME NEW t \in Threads, Count(t) PROVE Holds'
    BY <1>10 DEF Count
  <1>11. CASE Restart
    BY <1>11 DEF Restart, AllIdle, AllNoFile, AllEmpty
  <1>12. CASE UNCHANGED vars
    BY <1>12 DEF vars, threadVars
  <1> QED
    BY <1>1, <1>2, <1>3, <1>4, <1>5, <1>6, <1>7, <1>8, <1>9, <1>10, <1>11, <1>12 DEF Next

LEMMA StepDirectory == Shape /\ [Next]_vars => Directory'
  <1> SUFFICES ASSUME Shape, [Next]_vars PROVE Directory'
    OBVIOUS
  <1> USE DEF Shape, TypeOK, Directory
  <1>1. IsFiniteSet(Existing)' /\ loggers' \subseteq Threads
    <2>1. loggers' = loggers \/ \E t \in Threads : loggers' = loggers \cup {t}
      BY DEF Next, vars, Log, TakeNumber, Switch, Touch, Reset, Scan, Unlink, Target, Write, Count,
             Restart
    <2> QED
      BY <2>1, StepTypes
  <1>2. ASSUME Existing' # {} PROVE \E hi \in Existing' : \A n \in Existing' : n <= hi
    <2>1. ASSUME NEW k \in Nat, Existing' = Existing \cup {k}
          PROVE  \E hi \in Existing' : \A n \in Existing' : n <= hi
      <3>1. CASE Existing = {}
        BY <2>1, <3>1
      <3>2. CASE Existing # {}
        <4>1. PICK hi \in Existing : \A n \in Existing : n <= hi
          BY <3>2
        <4>2. CASE k <= hi
          BY <2>1, <4>1, <4>2
        <4>3. CASE ~(k <= hi)
          BY <2>1, <4>1, <4>3
        <4> QED
          BY <4>2, <4>3
      <3> QED
        BY <3>1, <3>2
    <2>2. ASSUME NEW t \in Threads, NEW f \in victims[t], Existing' = Existing \ {f}
          PROVE  \E hi \in Existing' : \A n \in Existing' : n <= hi
      <3>1. PICK m \in Existing : f < m
        OBVIOUS
      <3>2. PICK hi \in Existing : \A n \in Existing : n <= hi
        BY <3>1
      <3>3. f # hi
        BY <3>1, <3>2
      <3> QED
        BY <2>2, <3>2, <3>3
    <2> QED
      BY <1>2, <2>1, <2>2, FilesStep
  <1>3. ASSUME NEW n \in Nat, NEW m \in Existing, n < m
        PROVE  \E k \in Existing' : n < k
    <2>1. ASSUME NEW t \in Threads, NEW f \in victims[t], Existing' = Existing \ {f}
          PROVE  \E k \in Existing' : n < k
      <3>1. PICK k \in Existing : f < k
        OBVIOUS
      <3>2. f \in Nat /\ k # f
        BY <3>1
      <3>3. CASE m = f
        BY <1>3, <2>1, <3>1, <3>2, <3>3
      <3>4. CASE m # f
        BY <1>3, <2>1, <3>4
      <3> QED
        BY <3>3, <3>4
    <2> QED
      BY <1>3, <2>1, FilesStep
  <1>4. ASSUME NEW t \in Threads, NEW f \in victims'[t] PROVE \E m \in Existing' : f < m
    <2>1. CASE f \in victims[t]
      BY <1>3, <2>1
    <2>2. CASE f \notin victims[t]
      <3>1. Scan(t) /\ f \in Excess(Existing)
        <4>1. ASSUME NEW u \in Threads, Unlink(u) PROVE FALSE
          BY <2>2, <4>1, Unlinked
        <4> QED
          BY <2>2, <4>1
             DEF Next, vars, threadVars, Log, TakeNumber, Switch, Touch, Reset, Scan, Target, Write,
                 Count, Restart, AllEmpty
      <3>2. f \in Existing /\ Cardinality({m \in Existing : m > f}) >= MaxFiles
        BY <3>1 DEF Excess
      <3>3. {m \in Existing : m > f} # {}
        <4> SUFFICES ASSUME {m \in Existing : m > f} = {} PROVE FALSE
          OBVIOUS
        <4>1. Cardinality({m \in Existing : m > f}) = 0
          BY FS_EmptySet, Zenon
        <4>2. PICK c : c = Cardinality({m \in Existing : m > f})
          OBVIOUS
        <4>3. c = 0 /\ c >= MaxFiles
          BY <3>2, <4>1, <4>2, Zenon
        <4> QED
          BY <4>3, CapsAssumption
      <3>4. PICK m \in Existing : m > f
        BY <3>3
      <3> QED
        BY <1>3, <3>2, <3>4
    <2> QED
      BY <2>1, <2>2
  <1> QED
    BY <1>1, <1>2, <1>4

LEMMA StepShape == Shape /\ [Next]_vars => Shape'
  BY StepTypes, StepNumbered, StepFresh, StepHolds, StepDirectory DEF Shape

\* Type correctness (fifo_logger.py).
THEOREM TypeCorrect == Spec => []TypeOK
  <1>1. Shape => TypeOK
    BY DEF Shape
  <1> QED
    BY <1>1, InitShape, StepShape, PTL DEF Spec

-----------------------------------------------------------------------------
\* The lines a file may hold once m threads wrote to it.
Budget(m) == m * MaxLines + (m * (m - 1)) \div 2

\* With each further thread come max_lines and one line for every earlier thread.
LEMMA BudgetGrows ==
  ASSUME NEW m \in Nat
  PROVE  Budget(m) \in Nat /\ Budget(m) >= m /\ Budget(m + 1) = Budget(m) + MaxLines + m
  <1>1. PICK p \in Nat : p = m * (m - 1)
    <2>1. CASE m = 0
      BY <2>1
    <2>2. CASE m > 0
      <3>1. PICK k \in Nat : m = k + 1
        BY <2>2
      <3> QED
        BY <3>1
    <2> QED
      BY <2>1, <2>2
  <1>2. (m + 1) * m = p + 2 * m
    BY <1>1
  <1>3. PICK q \in Nat : q = p \div 2
    BY <1>1
  <1>4. (p + 2 * m) \div 2 = q + m
    BY <1>1, <1>3
  <1>5. PICK r \in Nat : r = m * MaxLines
    BY CapsAssumption
  <1>6. (m + 1) * MaxLines = r + MaxLines /\ r >= m
    BY <1>5, CapsAssumption
  <1>7. Budget(m) = r + q
    BY <1>1, <1>3, <1>5 DEF Budget
  <1>8. Budget(m + 1) = (r + MaxLines) + (q + m)
    <2>1. (m + 1) * ((m + 1) - 1) = p + 2 * m
      BY <1>2
    <2> QED
      BY <2>1, <1>4, <1>6 DEF Budget
  <1> QED
    BY <1>6, <1>7, <1>8, CapsAssumption

LEMMA BudgetMonotone ==
  ASSUME NEW m \in Nat, NEW n \in Nat, m <= n
  PROVE  Budget(m) <= Budget(n)
  <1>1. PICK d \in Nat : n = m + d
    BY Z3
  <1>2. m * MaxLines <= n * MaxLines
    <2>1. n * MaxLines = m * MaxLines + d * MaxLines /\ d * MaxLines >= 0
      BY <1>1, CapsAssumption
    <2> QED
      BY <2>1, CapsAssumption
  <1>3. m * (m - 1) <= n * (n - 1)
    <2>1. n * (n - 1) = m * (m - 1) + (2 * m * d + d * (d - 1))
      BY <1>1
    <2>2. d * (d - 1) >= 0 /\ 2 * m * d >= 0
      BY Z3
    <2> QED
      BY <2>1, <2>2
  <1>4. PICK x \in Int, y \in Int : x = m * (m - 1) /\ y = n * (n - 1)
    OBVIOUS
  <1>5. x \div 2 <= y \div 2
    BY <1>3, <1>4
  <1>6. PICK v \in Int, w \in Int : v = m * MaxLines /\ w = n * MaxLines
    BY CapsAssumption
  <1>7. Budget(m) = v + (x \div 2) /\ Budget(n) = w + (y \div 2)
    BY <1>4, <1>6 DEF Budget
  <1> QED
    BY <1>2, <1>5, <1>6, <1>7


\* One element comes or goes.
LEMMA OneMoved ==
  ASSUME NEW A \in SUBSET Threads, NEW B \in SUBSET Threads, NEW t \in Threads,
         \A u \in Threads \ {t} : u \in A <=> u \in B
  PROVE  /\ Cardinality(A) \in Nat /\ Cardinality(B) \in Nat
         /\ Cardinality(B) + (IF t \in A THEN 1 ELSE 0)
              = Cardinality(A) + (IF t \in B THEN 1 ELSE 0)
  <1>1. IsFiniteSet(A) /\ IsFiniteSet(B)
    BY FS_Subset, ThreadsAssumption
  <1>2. Cardinality(A) \in Nat /\ Cardinality(B) \in Nat
    BY <1>1, FS_CardinalityType
  <1>3. CASE t \notin A /\ t \in B
    <2>1. B = A \cup {t}
      BY <1>3
    <2>2. Cardinality(A \cup {t}) = Cardinality(A) + 1
      BY <1>1, <1>3, FS_AddElement
    <2>3. Cardinality(B) = Cardinality(A) + 1
      BY <2>1, <2>2, Zenon
    <2> QED
      BY <1>2, <1>3, <2>3
  <1>4. CASE t \in A /\ t \notin B
    <2>1. A = B \cup {t}
      BY <1>4
    <2>2. Cardinality(B \cup {t}) = Cardinality(B) + 1
      BY <1>1, <1>4, FS_AddElement
    <2>3. Cardinality(A) = Cardinality(B) + 1
      BY <2>1, <2>2, Zenon
    <2> QED
      BY <1>2, <1>4, <2>3
  <1>5. CASE t \in A <=> t \in B
    <2>1. \A u \in Threads : u \in A <=> u \in B
      BY <1>5
    <2>2. A = B
      BY <2>1
    <2> QED
      BY <1>2, <1>5, <2>2
  <1> QED
    BY <1>3, <1>4, <1>5

\* The threads about to write to file f; those let in to write; those pruning; those that
\* are not about to reset the counter.
Writing(f) == {t \in Threads : at[t] = "write" /\ target[t] = f}
Admitted == {t \in Threads : at[t] \in {"write", "count"}}
Pruning == {t \in Threads : at[t] \in {"scan", "unlink", "target"}}
Settled == {t \in loggers : at[t] \notin {"touch", "reset"}}

\* The lines of a file, those under way included.
Lined(f) == (IF f \in Existing THEN files[f] ELSE 0) + Cardinality(Writing(f))

\* No file exceeds what all loggers may write.  The current one leaves room for the lines of
\* the threads that prune; without the lines counted or let in since the last reset, it is
\* within what one settled thread less may write.
Fits(f) ==
    /\ Lined(f) \in Nat
    /\ Lined(f) <= Budget(Cardinality(loggers))
    /\ f = current /\ f # NoFile =>
        /\ Lined(f) + Cardinality(Pruning) <= Budget(Cardinality(Settled))
        /\ Cardinality(Settled) > 0 =>
              Lined(f) <= Budget(Cardinality(Settled) - 1) + lines + Cardinality(Admitted)

Counted == \A f \in Nat : Fits(f)

\* How one thread's step changes those counts.
LEMMA Recounted ==
  ASSUME TypeOK, TypeOK', loggers \subseteq Threads, (loggers \subseteq Threads)',
         NEW t \in Threads,
         \A u \in Threads \ {t} : /\ at'[u] = at[u] /\ target'[u] = target[u]
                                  /\ u \in loggers' <=> u \in loggers
  PROVE  /\ \A f : /\ Cardinality(Writing(f)) \in Nat /\ Cardinality(Writing(f)') \in Nat
                   /\ Cardinality(Writing(f)') + (IF at[t] = "write" /\ target[t] = f THEN 1 ELSE 0)
                        = Cardinality(Writing(f))
                            + (IF at'[t] = "write" /\ target'[t] = f THEN 1 ELSE 0)
         /\ Cardinality(Admitted) \in Nat /\ Cardinality(Admitted') \in Nat
         /\ Cardinality(Admitted') + (IF at[t] \in {"write", "count"} THEN 1 ELSE 0)
              = Cardinality(Admitted) + (IF at'[t] \in {"write", "count"} THEN 1 ELSE 0)
         /\ Cardinality(Pruning) \in Nat /\ Cardinality(Pruning') \in Nat
         /\ Cardinality(Pruning') + (IF at[t] \in {"scan", "unlink", "target"} THEN 1 ELSE 0)
              = Cardinality(Pruning) + (IF at'[t] \in {"scan", "unlink", "target"} THEN 1 ELSE 0)
         /\ Cardinality(Settled) \in Nat /\ Cardinality(Settled') \in Nat
         /\ Cardinality(Settled')
                 + (IF t \in loggers /\ at[t] \notin {"touch", "reset"} THEN 1 ELSE 0)
              = Cardinality(Settled)
                 + (IF t \in loggers' /\ at'[t] \notin {"touch", "reset"} THEN 1 ELSE 0)
         /\ Cardinality(loggers) \in Nat /\ Cardinality(loggers') \in Nat
         /\ Cardinality(loggers') + (IF t \in loggers THEN 1 ELSE 0)
              = Cardinality(loggers) + (IF t \in loggers' THEN 1 ELSE 0)
  <1>1. ASSUME NEW f
        PROVE  /\ Cardinality(Writing(f)) \in Nat /\ Cardinality(Writing(f)') \in Nat
               /\ Cardinality(Writing(f)') + (IF at[t] = "write" /\ target[t] = f THEN 1 ELSE 0)
                    = Cardinality(Writing(f))
                        + (IF at'[t] = "write" /\ target'[t] = f THEN 1 ELSE 0)
    <2>1. /\ Writing(f) \in SUBSET Threads /\ Writing(f)' \in SUBSET Threads
          /\ t \in Writing(f) <=> at[t] = "write" /\ target[t] = f
          /\ t \in Writing(f)' <=> at'[t] = "write" /\ target'[t] = f
          /\ \A u \in Threads \ {t} : u \in Writing(f) <=> u \in Writing(f)'
      BY DEF Writing
    <2> HIDE DEF Writing
    <2> QED
      BY <2>1, OneMoved
  <1>2. /\ Cardinality(Admitted) \in Nat /\ Cardinality(Admitted') \in Nat
        /\ Cardinality(Admitted') + (IF at[t] \in {"write", "count"} THEN 1 ELSE 0)
             = Cardinality(Admitted) + (IF at'[t] \in {"write", "count"} THEN 1 ELSE 0)
    <2>1. /\ Admitted \in SUBSET Threads /\ Admitted' \in SUBSET Threads
          /\ t \in Admitted <=> at[t] \in {"write", "count"}
          /\ t \in Admitted' <=> at'[t] \in {"write", "count"}
          /\ \A u \in Threads \ {t} : u \in Admitted <=> u \in Admitted'
      BY DEF Admitted
    <2> QED
      BY <2>1, OneMoved
  <1>3. /\ Cardinality(Pruning) \in Nat /\ Cardinality(Pruning') \in Nat
        /\ Cardinality(Pruning') + (IF at[t] \in {"scan", "unlink", "target"} THEN 1 ELSE 0)
             = Cardinality(Pruning) + (IF at'[t] \in {"scan", "unlink", "target"} THEN 1 ELSE 0)
    <2>1. /\ Pruning \in SUBSET Threads /\ Pruning' \in SUBSET Threads
          /\ t \in Pruning <=> at[t] \in {"scan", "unlink", "target"}
          /\ t \in Pruning' <=> at'[t] \in {"scan", "unlink", "target"}
          /\ \A u \in Threads \ {t} : u \in Pruning <=> u \in Pruning'
      BY DEF Pruning
    <2> QED
      BY <2>1, OneMoved
  <1>4. /\ Cardinality(Settled) \in Nat /\ Cardinality(Settled') \in Nat
        /\ Cardinality(Settled')
                + (IF t \in loggers /\ at[t] \notin {"touch", "reset"} THEN 1 ELSE 0)
             = Cardinality(Settled)
                + (IF t \in loggers' /\ at'[t] \notin {"touch", "reset"} THEN 1 ELSE 0)
    <2>1. /\ Settled \in SUBSET Threads /\ Settled' \in SUBSET Threads
          /\ t \in Settled <=> t \in loggers /\ at[t] \notin {"touch", "reset"}
          /\ t \in Settled' <=> t \in loggers' /\ at'[t] \notin {"touch", "reset"}
          /\ \A u \in Threads \ {t} : u \in Settled <=> u \in Settled'
      BY DEF Settled
    <2> QED
      BY <2>1, OneMoved
  <1>5. /\ Cardinality(loggers) \in Nat /\ Cardinality(loggers') \in Nat
        /\ Cardinality(loggers') + (IF t \in loggers THEN 1 ELSE 0)
             = Cardinality(loggers) + (IF t \in loggers' THEN 1 ELSE 0)
    BY OneMoved
  <1> QED
    BY <1>1, <1>2, <1>3, <1>4, <1>5, Zenon

\* Those let in and those pruning are settled threads; an idle logger is another one.
LEMMA Crowd ==
  ASSUME Shape
  PROVE  /\ Cardinality(Admitted) + Cardinality(Pruning) <= Cardinality(Settled)
         /\ \A t \in loggers : at[t] \in {"idle", "roll", "switch"} =>
               Cardinality(Admitted) + Cardinality(Pruning) < Cardinality(Settled)
         /\ Cardinality(Settled) <= Cardinality(loggers)
         /\ Cardinality(Admitted) \in Nat /\ Cardinality(Pruning) \in Nat
         /\ Cardinality(Settled) \in Nat /\ Cardinality(loggers) \in Nat
  <1>1. /\ Admitted \subseteq Settled /\ Pruning \subseteq Settled /\ Settled \subseteq loggers
        /\ loggers \subseteq Threads /\ Admitted \cap Pruning = {}
    BY DEF Admitted, Pruning, Settled, Shape, Holds, Directory
  <1>2. /\ IsFiniteSet(loggers) /\ IsFiniteSet(Settled) /\ IsFiniteSet(Admitted)
        /\ IsFiniteSet(Pruning) /\ IsFiniteSet(Admitted \cup Pruning)
        /\ Admitted \cup Pruning \subseteq Settled
    BY <1>1, ThreadsAssumption, FS_Subset, FS_Union
  <1>3. Cardinality(Admitted \cup Pruning) = Cardinality(Admitted) + Cardinality(Pruning)
    <2>1. Cardinality(Admitted \cap Pruning) = 0
      BY <1>1, FS_EmptySet, Zenon
    <2>2. Cardinality(Admitted \cup Pruning)
            = Cardinality(Admitted) + Cardinality(Pruning) - Cardinality(Admitted \cap Pruning)
      BY <1>2, FS_Union
    <2> QED
      BY <1>2, <2>1, <2>2, FS_CardinalityType
  <1>4. ASSUME NEW t \in loggers, at[t] \in {"idle", "roll", "switch"}
        PROVE  Cardinality(Admitted \cup Pruning) < Cardinality(Settled)
    <2>1. t \in Settled /\ t \notin Admitted \cup Pruning
      BY <1>4 DEF Settled, Admitted, Pruning
    <2>2. Admitted \cup Pruning # Settled
      BY <2>1
    <2>3. Cardinality(Admitted \cup Pruning) # Cardinality(Settled)
      BY <1>2, <2>2, FS_Subset
    <2>4. Cardinality(Admitted \cup Pruning) <= Cardinality(Settled)
      BY <1>2, FS_Subset
    <2> QED
      BY <1>2, <2>3, <2>4, FS_CardinalityType
  <1>5. /\ Cardinality(Admitted \cup Pruning) <= Cardinality(Settled)
        /\ Cardinality(Settled) <= Cardinality(loggers)
    BY <1>1, <1>2, FS_Subset
  <1> QED
    BY <1>2, <1>3, <1>4, <1>5, FS_CardinalityType

\* Enough for the steps that leave the counters alone.
LEMMA StillFits ==
  ASSUME Shape, Shape', Counted, NEW f \in Nat, Lined(f)' \in Nat, Lined(f)' <= Lined(f),
         f = current' => f = current, lines' = lines,
         Cardinality(loggers') >= Cardinality(loggers),
         Cardinality(Pruning') = Cardinality(Pruning),
         Cardinality(Admitted') = Cardinality(Admitted),
         \/ Cardinality(Settled') = Cardinality(Settled)
         \/ Cardinality(Settled') = Cardinality(Settled) + 1
  PROVE  Fits(f)'
  <1>1. Fits(f)
    BY DEF Counted
  <1>2. /\ Cardinality(Admitted) \in Nat /\ Cardinality(Pruning) \in Nat
        /\ Cardinality(Settled) \in Nat /\ Cardinality(loggers) \in Nat
    BY Crowd
  <1>3. IsFiniteSet(loggers') /\ Cardinality(loggers') \in Nat
    BY ThreadsAssumption, FS_Subset, FS_CardinalityType DEF Shape, Directory
  <1>4. Budget(Cardinality(loggers)) <= Budget(Cardinality(loggers'))
    BY <1>2, <1>3, BudgetMonotone
  <1>5. lines \in Nat
    BY DEF Shape, TypeOK
  <1>6. \A m \in Nat : Budget(m) \in Nat /\ Budget(m + 1) >= Budget(m)
    BY BudgetGrows, CapsAssumption
  <1>7. CASE Cardinality(Settled') = Cardinality(Settled)
    BY <1>1, <1>2, <1>3, <1>4, <1>5, <1>6, <1>7 DEF Fits
  <1>8. CASE Cardinality(Settled') = Cardinality(Settled) + 1
    BY <1>1, <1>2, <1>3, <1>4, <1>5, <1>6, <1>8 DEF Fits
  <1> QED
    BY <1>7, <1>8

\* The step that resets the counter, and so opens a full file again, settles one thread.
LEMMA StepCounted == Shape /\ Counted /\ [Next]_vars => Counted'
  <1> SUFFICES ASSUME Shape, Counted, [Next]_vars, NEW f \in Nat PROVE Fits(f)'
    BY DEF Counted
  <1>a. Shape'
    BY StepShape
  <1>b. TypeOK /\ TypeOK' /\ loggers \subseteq Threads /\ (loggers \subseteq Threads)'
    BY <1>a DEF Shape, Directory
  <1>c. Fits(f)
    BY DEF Counted
  <1>d. /\ Cardinality(Admitted) + Cardinality(Pruning) <= Cardinality(Settled)
        /\ Cardinality(Settled) <= Cardinality(loggers)
        /\ Cardinality(Admitted) \in Nat /\ Cardinality(Pruning) \in Nat
        /\ Cardinality(Settled) \in Nat /\ Cardinality(loggers) \in Nat
        /\ lines \in Nat
    BY Crowd, <1>b DEF TypeOK
  <1>e. \A m \in Nat : /\ Budget(m) \in Nat /\ Budget(m) >= m
                       /\ Budget(m + 1) = Budget(m) + MaxLines + m
    BY BudgetGrows
  <1>f. MaxLines \in Nat /\ MaxLines >= 1
    BY CapsAssumption
  <1>1. ASSUME NEW t \in Threads, Log(t) PROVE Fits(f)'
    <2>1. \A u \in Threads \ {t} : /\ at'[u] = at[u] /\ target'[u] = target[u]
                                   /\ u \in loggers' <=> u \in loggers
      BY <1>1, <1>b DEF Log, TypeOK, Goto
    <2>2. /\ at[t] = "idle" /\ loggers' = loggers \cup {t} /\ target[t] = NoFile
          /\ files' = files /\ Existing' = Existing /\ current' = current /\ lines' = lines
      BY <1>1 DEF Log, loggerVars, Existing, Shape, Holds
    <2>3. CASE at'[t] = "roll"
      <3>a. /\ Cardinality(Writing(f)') = Cardinality(Writing(f))
            /\ Cardinality(Admitted') = Cardinality(Admitted)
            /\ Cardinality(Pruning') = Cardinality(Pruning)
        BY <1>b, <2>1, <2>2, <2>3, Recounted
      <3>b. /\ Cardinality(Settled') + (IF t \in loggers THEN 1 ELSE 0) = Cardinality(Settled) + 1
            /\ Cardinality(loggers') + (IF t \in loggers THEN 1 ELSE 0) = Cardinality(loggers) + 1
            /\ Cardinality(Settled') \in Nat /\ Cardinality(loggers') \in Nat
        BY <1>b, <2>1, <2>2, <2>3, Recounted
      <3>1. /\ Cardinality(loggers') >= Cardinality(loggers)
            /\ \/ Cardinality(Settled') = Cardinality(Settled)
               \/ Cardinality(Settled') = Cardinality(Settled) + 1
        BY <1>d, <3>b
      <3>2. Lined(f)' = Lined(f)
        BY <2>2, <3>a DEF Lined
      <3>3. Lined(f)' \in Nat /\ Lined(f)' <= Lined(f)
        BY <1>c, <3>2 DEF Fits
      <3> QED
        BY <1>a, <2>2, <3>a, <3>1, <3>3, StillFits
    <2>4. CASE at'[t] = "write" /\ target'[t] = current /\ lines < MaxLines /\ current # NoFile
      <3>1. /\ Cardinality(Writing(f)') = Cardinality(Writing(f)) + (IF f = current THEN 1 ELSE 0)
            /\ Cardinality(Writing(f)) \in Nat
        BY <1>b, <2>1, <2>2, <2>4, Recounted
      <3>a. /\ Cardinality(Settled') + (IF t \in loggers THEN 1 ELSE 0) = Cardinality(Settled) + 1
            /\ Cardinality(loggers') + (IF t \in loggers THEN 1 ELSE 0) = Cardinality(loggers) + 1
            /\ Cardinality(Settled') \in Nat /\ Cardinality(loggers') \in Nat
        BY <1>b, <2>1, <2>2, <2>4, Recounted
      <3>b. /\ Cardinality(Admitted') = Cardinality(Admitted) + 1
            /\ Cardinality(Pruning') = Cardinality(Pruning)
        BY <1>b, <2>1, <2>2, <2>4, Recounted
      <3>2. /\ Cardinality(Settled') = Cardinality(Settled) + (IF t \in loggers THEN 0 ELSE 1)
            /\ Cardinality(loggers') = Cardinality(loggers) + (IF t \in loggers THEN 0 ELSE 1)
        BY <1>d, <3>a
      <3>3. Lined(f)' = Lined(f) + (IF f = current THEN 1 ELSE 0)
        BY <1>b, <2>2, <3>1 DEF Lined, TypeOK
      <3>4. /\ Cardinality(Settled') <= Cardinality(loggers')
            /\ Budget(Cardinality(Settled')) <= Budget(Cardinality(loggers'))
        <4>1. Cardinality(Settled') \in Nat /\ Cardinality(loggers') \in Nat
          BY <1>d, <3>2
        <4> QED
          BY <1>d, <3>2, <4>1, BudgetMonotone
      <3>5. CASE t \in loggers
        <4>1. Cardinality(Admitted) + Cardinality(Pruning) < Cardinality(Settled)
          BY <2>2, <3>5, Crowd
        <4> DEFINE k == Cardinality(Settled) - 1
        <4>2. k \in Nat /\ Cardinality(Settled) = k + 1
          BY <1>d, <4>1
        <4> HIDE DEF k
        <4>3. /\ Cardinality(Settled') = k + 1 /\ Cardinality(loggers') = Cardinality(loggers)
              /\ Budget(k + 1) = Budget(k) + MaxLines + k /\ Budget(k) \in Nat
          BY <1>e, <3>2, <3>5, <4>2, <1>d
        <4>4. f = current => Lined(f) <= Budget(k) + lines + Cardinality(Admitted)
          BY <1>c, <2>4, <4>2 DEF Fits
        <4>5. f = current => /\ Lined(f)' + Cardinality(Pruning') <= Budget(k + 1)
                             /\ Lined(f)' <= Budget(k) + lines + Cardinality(Admitted')
                             /\ Lined(f)' <= Budget(k + 1)
          BY <1>c, <1>d, <1>f, <2>4, <3>b, <3>3, <4>1, <4>2, <4>3, <4>4 DEF Fits
        <4>6. Budget(k + 1) <= Budget(Cardinality(loggers))
          BY <3>4, <4>3
        <4>7. /\ Lined(f)' \in Nat /\ Lined(f)' <= Budget(Cardinality(loggers'))
          <5>1. Lined(f) \in Nat /\ Lined(f) <= Budget(Cardinality(loggers))
            BY <1>c DEF Fits
          <5>2. Budget(Cardinality(loggers')) = Budget(Cardinality(loggers))
            BY <4>3
          <5>3. Budget(Cardinality(loggers)) \in Nat
            BY <1>d, <1>e
          <5> QED
            BY <1>f, <3>3, <4>2, <4>3, <4>5, <4>6, <5>1, <5>2, <5>3
        <4> QED
          BY <2>2, <4>2, <4>3, <4>5, <4>7 DEF Fits
      <3>6. CASE t \notin loggers
        <4>1. PICK k \in Nat : Cardinality(Settled) = k
          BY <1>d
        <4>2. /\ Cardinality(Settled') = k + 1 /\ Cardinality(loggers') = Cardinality(loggers) + 1
              /\ Budget(k + 1) = Budget(k) + MaxLines + k /\ Budget(k) \in Nat
          BY <1>e, <3>2, <3>6, <4>1, <1>d
        <4>3. /\ Budget(Cardinality(loggers') ) >= Budget(Cardinality(loggers))
              /\ Budget(Cardinality(loggers')) \in Nat /\ Budget(Cardinality(loggers)) \in Nat
          BY <1>d, <1>e, <1>f, <4>2
        <4> QED
          BY <1>c, <1>d, <1>f, <2>2, <2>4, <3>b, <3>2, <3>3, <3>4, <4>1, <4>2, <4>3 DEF Fits
      <3> QED
        BY <3>5, <3>6
    <2> QED
      BY <1>1, <1>b, <1>f, <2>3, <2>4 DEF Log, Full, Goto, TypeOK
  <1>2. ASSUME NEW t \in Threads, TakeNumber(t) PROVE Fits(f)'
    <2>1. \A u \in Threads \ {t} : /\ at'[u] = at[u] /\ target'[u] = target[u]
                                   /\ u \in loggers' <=> u \in loggers
      BY <1>2, <1>b DEF TakeNumber, TypeOK, Goto
    <2>2. /\ at[t] = "roll" /\ at'[t] = "switch" /\ loggers' = loggers
          /\ files' = files /\ Existing' = Existing /\ current' = current /\ lines' = lines
      BY <1>2, <1>b DEF TakeNumber, Goto, TypeOK, Existing
    <2>3. /\ Cardinality(Writing(f)') = Cardinality(Writing(f))
          /\ Cardinality(Admitted') = Cardinality(Admitted)
          /\ Cardinality(Pruning') = Cardinality(Pruning)
          /\ Cardinality(loggers') = Cardinality(loggers)
          /\ Cardinality(Settled') = Cardinality(Settled)
      BY <1>b, <2>1, <2>2, Recounted
    <2>4. Lined(f)' = Lined(f)
      BY <2>2, <2>3 DEF Lined
    <2> QED
      BY <1>a, <1>b, <1>c, <1>d, <2>2, <2>3, <2>4, StillFits DEF Fits
  <1>3. ASSUME NEW t \in Threads, Switch(t) PROVE Fits(f)'
    <2>1. \A u \in Threads \ {t} : /\ at'[u] = at[u] /\ target'[u] = target[u]
                                   /\ u \in loggers' <=> u \in loggers
      BY <1>3, <1>b DEF Switch, TypeOK, Goto
    <2>2. /\ at[t] = "switch" /\ at'[t] = "touch" /\ loggers' = loggers /\ t \in loggers
          /\ files' = files /\ Existing' = Existing /\ current' = name[t] /\ lines' = lines
      BY <1>3, <1>b DEF Switch, Goto, TypeOK, Existing, Shape, Holds
    <2>3. /\ Cardinality(Writing(f)') = Cardinality(Writing(f))
          /\ Cardinality(Admitted') = Cardinality(Admitted)
          /\ Cardinality(Pruning') = Cardinality(Pruning)
          /\ Cardinality(loggers') = Cardinality(loggers)
          /\ Cardinality(Settled') = Cardinality(Settled) - 1
      BY <1>b, <2>1, <2>2, Recounted
    <2>4. Lined(f)' = Lined(f)
      BY <2>2, <2>3 DEF Lined
    <2>5. f = name[t] => Lined(f) = 0
      <3>1. f = name[t] => f \notin Existing /\ Writing(f) = {}
        BY <2>2 DEF Shape, Fresh, Writing
      <3>2. Writing(f) = {} => Cardinality(Writing(f)) = 0
        BY FS_EmptySet, Zenon
      <3> QED
        BY <3>1, <3>2 DEF Lined
    <2>6. Cardinality(Admitted) + Cardinality(Pruning) < Cardinality(Settled)
      BY <2>2, Crowd
    <2> DEFINE k == Cardinality(Settled) - 1
    <2>7. k \in Nat /\ Cardinality(Settled) = k + 1
      BY <1>d, <2>6
    <2> HIDE DEF k
    <2>8. Cardinality(Settled') = k /\ Budget(k) \in Nat /\ Budget(k) >= k
      BY <1>e, <2>3, <2>7
    <2>9. k > 0 => Budget(k - 1) \in Nat
      BY <1>e, <2>7
    <2> QED
      BY <1>c, <1>d, <2>2, <2>3, <2>4, <2>5, <2>6, <2>7, <2>8, <2>9 DEF Fits
  <1>4. ASSUME NEW t \in Threads, Touch(t) PROVE Fits(f)'
    <2>1. \A u \in Threads \ {t} : /\ at'[u] = at[u] /\ target'[u] = target[u]
                                   /\ u \in loggers' <=> u \in loggers
      BY <1>4, <1>b DEF Touch, TypeOK, Goto
    <2>2. /\ at[t] = "touch" /\ at'[t] = "reset" /\ loggers' = loggers /\ target' = target
          /\ current' = current /\ lines' = lines
          /\ (IF f \in Existing' THEN files'[f] ELSE 0) = (IF f \in Existing THEN files[f] ELSE 0)
      BY <1>4, <1>b, Appended DEF Touch, Goto, TypeOK, loggerVars
    <2>3. /\ Cardinality(Writing(f)') = Cardinality(Writing(f))
          /\ Cardinality(Admitted') = Cardinality(Admitted)
          /\ Cardinality(Pruning') = Cardinality(Pruning)
          /\ Cardinality(loggers') = Cardinality(loggers)
          /\ Cardinality(Settled') = Cardinality(Settled)
      BY <1>b, <2>1, <2>2, Recounted
    <2>4. Lined(f)' = Lined(f)
      BY <2>2, <2>3 DEF Lined
    <2> QED
      BY <1>a, <1>b, <1>c, <1>d, <2>2, <2>3, <2>4, StillFits DEF Fits
  <1>5. ASSUME NEW t \in Threads, Reset(t) PROVE Fits(f)'
    <2>1. \A u \in Threads \ {t} : /\ at'[u] = at[u] /\ target'[u] = target[u]
                                   /\ u \in loggers' <=> u \in loggers
      BY <1>5, <1>b DEF Reset, TypeOK, Goto
    <2>2. /\ at[t] = "reset" /\ at'[t] = "scan" /\ loggers' = loggers /\ t \in loggers
          /\ files' = files /\ Existing' = Existing /\ current' = current /\ lines' = 0
      BY <1>5, <1>b DEF Reset, Goto, TypeOK, Existing, Shape, Holds
    <2>3. /\ Cardinality(Writing(f)') = Cardinality(Writing(f))
          /\ Cardinality(Admitted') = Cardinality(Admitted)
          /\ Cardinality(Pruning') = Cardinality(Pruning) + 1
          /\ Cardinality(loggers') = Cardinality(loggers)
          /\ Cardinality(Settled') = Cardinality(Settled) + 1
      BY <1>b, <2>1, <2>2, Recounted
    <2>4. Lined(f)' = Lined(f)
      BY <2>2, <2>3 DEF Lined
    <2>5. PICK k \in Nat : Cardinality(Settled) = k
      BY <1>d
    <2>6. /\ Cardinality(Settled') = k + 1 /\ Budget(k) \in Nat
          /\ Budget(k + 1) = Budget(k) + MaxLines + k
      BY <1>e, <2>3, <2>5
    <2> QED
      BY <1>c, <1>d, <1>f, <2>2, <2>3, <2>4, <2>5, <2>6 DEF Fits
  <1>6. ASSUME NEW t \in Threads, Scan(t) \/ Unlink(t) PROVE Fits(f)'
    <2>1. \A u \in Threads \ {t} : /\ at'[u] = at[u] /\ target'[u] = target[u]
                                   /\ u \in loggers' <=> u \in loggers
      BY <1>6, <1>b DEF Scan, Unlink, TypeOK, Goto
    <2>2. /\ at[t] \in {"scan", "unlink"} /\ at'[t] \in {"target", "unlink"} /\ loggers' = loggers
          /\ current' = current /\ lines' = lines /\ target' = target /\ t \in loggers
      BY <1>6, <1>b DEF Scan, Unlink, Goto, TypeOK, loggerVars, Shape, Holds
    <2>3. /\ Cardinality(Writing(f)') = Cardinality(Writing(f))
          /\ Cardinality(Admitted') = Cardinality(Admitted)
          /\ Cardinality(Pruning') = Cardinality(Pruning)
          /\ Cardinality(loggers') = Cardinality(loggers)
          /\ Cardinality(Settled') = Cardinality(Settled)
      BY <1>b, <2>1, <2>2, Recounted
    <2>4. f \in Existing' => f \in Existing /\ files'[f] = files[f]
      <3>1. CASE Scan(t)
        BY <3>1 DEF Scan, Existing
      <3>2. CASE Unlink(t)
        BY <3>2, Unlinked
      <3> QED
        BY <1>6, <3>1, <3>2
    <2>5. Lined(f)' \in Nat /\ Lined(f)' <= Lined(f)
      <3>1. Cardinality(Writing(f)) \in Nat
        BY <1>b, <2>1, Recounted
      <3> QED
        BY <1>b, <2>3, <2>4, <3>1 DEF Lined, TypeOK
    <2> QED
      BY <1>a, <1>b, <1>c, <1>d, <2>2, <2>3, <2>5, StillFits
  <1>8. ASSUME NEW t \in Threads, Target(t) PROVE Fits(f)'
    <2>1. \A u \in Threads \ {t} : /\ at'[u] = at[u] /\ target'[u] = target[u]
                                   /\ u \in loggers' <=> u \in loggers
      BY <1>8, <1>b DEF Target, TypeOK, Goto
    <2>2. /\ at[t] = "target" /\ at'[t] = "write" /\ loggers' = loggers /\ t \in loggers
          /\ target'[t] = current /\ current # NoFile
          /\ files' = files /\ Existing' = Existing /\ current' = current /\ lines' = lines
      BY <1>8, <1>b DEF Target, Goto, TypeOK, Existing, Shape, Holds, loggerVars
    <2>3. /\ Cardinality(Writing(f)') = Cardinality(Writing(f)) + (IF f = current THEN 1 ELSE 0)
          /\ Cardinality(Writing(f)) \in Nat
          /\ Cardinality(Admitted') = Cardinality(Admitted) + 1
          /\ Cardinality(Pruning') = Cardinality(Pruning) - 1
          /\ Cardinality(loggers') = Cardinality(loggers)
          /\ Cardinality(Settled') = Cardinality(Settled)
      BY <1>b, <2>1, <2>2, Recounted
    <2>4. Lined(f)' = Lined(f) + (IF f = current THEN 1 ELSE 0)
      BY <1>b, <2>2, <2>3 DEF Lined, TypeOK
    <2>5. Cardinality(Pruning) >= 1
      <3>1. Cardinality(Pruning') \in Nat
        BY <1>b, <2>1, Recounted
      <3> QED
        BY <1>d, <2>3, <3>1
    <2>6. Budget(Cardinality(Settled)) <= Budget(Cardinality(loggers))
      BY <1>d, BudgetMonotone
    <2>7. /\ Budget(Cardinality(Settled)) \in Nat /\ Budget(Cardinality(loggers)) \in Nat
          /\ Cardinality(Settled) > 0 => Budget(Cardinality(Settled) - 1) \in Nat
      BY <1>d, <1>e
    <2> QED
      BY <1>c, <1>d, <2>2, <2>3, <2>4, <2>5, <2>6, <2>7 DEF Fits
  <1>9. ASSUME NEW t \in Threads, Write(t) PROVE Fits(f)'
    <2>1. \A u \in Threads \ {t} : /\ at'[u] = at[u] /\ target'[u] = target[u]
                                   /\ u \in loggers' <=> u \in loggers
      BY <1>9, <1>b DEF Write, TypeOK, Goto
    <2>2. /\ at[t] = "write" /\ at'[t] = "count" /\ loggers' = loggers /\ target' = target
          /\ current' = current /\ lines' = lines
          /\ (IF f \in Existing' THEN files'[f] ELSE 0)
               = (IF f \in Existing THEN files[f] ELSE 0) + (IF f = target[t] THEN 1 ELSE 0)
      BY <1>9, <1>b, Appended DEF Write, Goto, TypeOK, loggerVars
    <2>3. /\ Cardinality(Writing(f)') + (IF f = target[t] THEN 1 ELSE 0) = Cardinality(Writing(f))
          /\ Cardinality(Writing(f)) \in Nat /\ Cardinality(Writing(f)') \in Nat
          /\ Cardinality(Admitted') = Cardinality(Admitted)
          /\ Cardinality(Pruning') = Cardinality(Pruning)
          /\ Cardinality(loggers') = Cardinality(loggers)
          /\ Cardinality(Settled') = Cardinality(Settled)
      BY <1>b, <2>1, <2>2, Recounted
    <2>4. Lined(f)' = Lined(f)
      BY <1>b, <2>2, <2>3 DEF Lined, TypeOK
    <2> QED
      BY <1>a, <1>b, <1>c, <1>d, <2>2, <2>3, <2>4, StillFits DEF Fits
  <1>10. ASSUME NEW t \in Threads, Count(t) PROVE Fits(f)'
    <2>1. \A u \in Threads \ {t} : /\ at'[u] = at[u] /\ target'[u] = target[u]
                                   /\ u \in loggers' <=> u \in loggers
      BY <1>10, <1>b DEF Count, TypeOK, Goto
    <2>2. /\ at[t] = "count" /\ at'[t] = "idle" /\ loggers' = loggers
          /\ files' = files /\ Existing' = Existing /\ current' = current /\ lines' = lines + 1
      BY <1>10, <1>b DEF Count, Goto, TypeOK, Existing
    <2>3. /\ Cardinality(Writing(f)') = Cardinality(Writing(f))
          /\ Cardinality(Admitted') = Cardinality(Admitted) - 1
          /\ Cardinality(Pruning') = Cardinality(Pruning)
          /\ Cardinality(loggers') = Cardinality(loggers)
          /\ Cardinality(Settled') + (IF t \in loggers THEN 1 ELSE 0)
               = Cardinality(Settled) + (IF t \in loggers THEN 1 ELSE 0)
          /\ Cardinality(Settled') \in Nat
      BY <1>b, <2>1, <2>2, Recounted
    <2>4. Lined(f)' = Lined(f)
      BY <2>2, <2>3 DEF Lined
    <2>5. Cardinality(Settled') = Cardinality(Settled)
      BY <1>d, <2>3
    <2>6. Cardinality(Settled) > 0 => Budget(Cardinality(Settled) - 1) \in Nat
      BY <1>d, <1>e
    <2> QED
      BY <1>c, <1>d, <2>2, <2>3, <2>4, <2>5, <2>6 DEF Fits
  <1>11. CASE Restart
    <2>1. /\ files' = files /\ Existing' = Existing /\ current' = NoFile /\ loggers' = loggers
          /\ \A u \in Threads : at'[u] = "idle"
      BY <1>11 DEF Restart, Existing, AllIdle
    <2>2. Writing(f)' = {}
      BY <2>1 DEF Writing
    <2>3. Cardinality(Writing(f)') = 0
      BY <2>2, FS_EmptySet, Zenon
    <2>4. Cardinality(Writing(f)) \in Nat
      BY FS_Subset, FS_CardinalityType, ThreadsAssumption DEF Writing
    <2>5. Lined(f)' \in Nat /\ Lined(f)' <= Lined(f)
      BY <1>b, <2>1, <2>3, <2>4 DEF Lined, TypeOK
    <2>6. Cardinality(loggers') = Cardinality(loggers)
      BY <2>1
    <2>7. Budget(Cardinality(loggers)) \in Nat
      BY <1>d, <1>e
    <2> QED
      BY <1>c, <2>1, <2>5, <2>6, <2>7 DEF Fits
  <1>12. CASE UNCHANGED vars
    <2>1. /\ files' = files /\ Existing' = Existing /\ current' = current /\ loggers' = loggers
          /\ at' = at /\ target' = target /\ lines' = lines
      BY <1>12 DEF vars, loggerVars, threadVars, Existing
    <2>2. /\ Writing(f)' = Writing(f) /\ Admitted' = Admitted /\ Pruning' = Pruning
          /\ Settled' = Settled
      BY <2>1 DEF Writing, Admitted, Pruning, Settled
    <2>3. Lined(f)' = Lined(f)
      BY <2>1, <2>2 DEF Lined
    <2> QED
      BY <1>c, <2>1, <2>2, <2>3 DEF Fits
  <1> QED
    BY <1>1, <1>2, <1>3, <1>4, <1>5, <1>6, <1>8, <1>9, <1>10, <1>11, <1>12 DEF Next

\* "A file holds at most max_lines_per_file lines" (fifo_logger.py:3), for any number of
\* threads: whatever they interleave, a file ends no fuller than LinesBounded says.
THEOREM LinesCapped == Spec => []LinesBounded
  <1>1. Init => Counted
    <2> SUFFICES ASSUME Init, NEW f \in Nat PROVE Fits(f)
      BY DEF Counted
    <2>1. Existing = {} /\ Writing(f) = {} /\ loggers = {} /\ current = NoFile
      BY DEF Init, Existing, Writing, AllIdle
    <2>2. Cardinality(Writing(f)) = 0 /\ Cardinality(loggers) = 0
      BY <2>1, FS_EmptySet, Zenon
    <2>3. Budget(0) \in Nat
      BY BudgetGrows
    <2> QED
      BY <2>1, <2>2, <2>3 DEF Fits, Lined
  <1>2. Shape /\ Counted => LinesBounded
    <2> SUFFICES ASSUME Shape, Counted, NEW f \in Existing
                 PROVE  files[f] <= N * MaxLines + (N * (N - 1)) \div 2
      BY DEF LinesBounded
    <2>1. f \in Nat /\ files[f] \in Nat
      BY DEF Shape, TypeOK
    <2>2. Cardinality(Writing(f)) \in Nat
      BY FS_Subset, FS_CardinalityType, ThreadsAssumption DEF Writing
    <2>3. Lined(f) <= Budget(N) /\ Lined(f) \in Nat
      BY <2>1 DEF Counted, Fits, N
    <2>4. files[f] <= Lined(f)
      BY <2>1, <2>2 DEF Lined
    <2>5. PICK b : b = Budget(N)
      OBVIOUS
    <2>6. b \in Nat
      BY <2>5, Crowd, BudgetGrows DEF N
    <2>7. files[f] <= b
      BY <2>1, <2>3, <2>4, <2>5, <2>6
    <2> QED
      BY <2>5, <2>7 DEF Budget
  <1> QED
    BY <1>1, <1>2, InitShape, StepShape, StepCounted, PTL DEF Spec

-----------------------------------------------------------------------------
\* The image of a set of threads is no larger than the set.
LEMMA ImageFew ==
  ASSUME NEW T \in SUBSET Threads, NEW f
  PROVE  LET I == {f[u] : u \in T}
         IN  IsFiniteSet(I) /\ Cardinality(I) \in Nat /\ Cardinality(I) <= Cardinality(T)
  <1> DEFINE I == {f[u] : u \in T}
             g == [u \in T |-> f[u]]
  <1>1. g \in Surjection(T, I)
    BY DEF Surjection
  <1>2. IsFiniteSet(T)
    BY ThreadsAssumption, FS_Subset
  <1> HIDE DEF g
  <1> QED
    BY <1>1, <1>2, FS_Surjection, FS_CardinalityType

\* The files that are being written to or next to be.
IsLive(n) == n # NoFile /\ (n = current \/ \E t \in Threads : at[t] = "write" /\ target[t] = n)

\* The threads about to switch to a file that a newer one overtook.
Low(top) == {t \in Threads : at[t] = "switch" /\ name[t] < top}

\* top is the newest file there ever was in this process.  A file that is live though it is
\* not the newest was switched to late, by a thread of its own: rep tells which file a thread
\* switched to late, and z, the last to switch in time, is not one of those threads.
Ranked(top, rep, z) ==
    /\ top \in Nat /\ top < seq
    /\ \A n \in Existing : n <= top
    /\ \A n \in Nat : IsLive(n) => n <= top
    /\ \A t \in Threads : at[t] = "touch" => name[t] <= top
    /\ top # NoFile => top \in Existing \/ \E t \in Threads : at[t] = "touch" /\ name[t] = top
    /\ current = NoFile => Low(top) = {}
    /\ current # NoFile =>
        /\ z \in loggers \ Low(top)
        /\ \A n \in Nat : IsLive(n) /\ n # top =>
              \E u \in loggers \ (Low(top) \cup {z}) : rep[u] = n

SomeRanked == \E top, rep, z : Ranked(top, rep, z)

\* A late switch is charged to its thread; a timely one settles all charges.
LEMMA StepRanked == Shape /\ SomeRanked /\ [Next]_vars => SomeRanked'
  <1> SUFFICES ASSUME Shape, NEW top, NEW rep, NEW z, Ranked(top, rep, z), [Next]_vars
               PROVE  \E top2, rep2, z2 : Ranked(top2, rep2, z2)'
    BY DEF SomeRanked
  <1>a. Shape'
    BY StepShape
  <1>b. TypeOK /\ TypeOK' /\ loggers \subseteq Threads /\ (loggers \subseteq Threads)'
    BY <1>a DEF Shape, Directory
  <1> USE DEF NoFile
  <1>1. ASSUME NEW t \in Threads, Log(t) PROVE Ranked(top, rep, z)'
    <2>1. /\ seq' = seq /\ Existing' = Existing /\ name' = name /\ current' = current
          /\ loggers' = loggers \cup {t}
          /\ \A u \in Threads : u # t => at'[u] = at[u] /\ target'[u] = target[u]
          /\ at[t] = "idle" /\ at'[t] \in {"roll", "write"}
          /\ at'[t] = "write" => target'[t] = current
      BY <1>1, <1>b DEF Log, Goto, TypeOK, loggerVars, Existing
    <2>2. \A n \in Nat : IsLive(n)' => IsLive(n)
      BY <2>1 DEF IsLive
    <2>3. Low(top)' = Low(top)
      BY <2>1 DEF Low
    <2>4. \A u \in Threads : at'[u] = "touch" <=> at[u] = "touch"
      BY <2>1
    <2> QED
      BY <2>1, <2>2, <2>3, <2>4 DEF Ranked
  <1>2. ASSUME NEW t \in Threads, TakeNumber(t) PROVE Ranked(top, rep, z)'
    <2>1. /\ seq' = seq + 1 /\ Existing' = Existing /\ current' = current /\ loggers' = loggers
          /\ \A u \in Threads : u # t => at'[u] = at[u] /\ name'[u] = name[u]
          /\ at[t] = "roll" /\ at'[t] = "switch" /\ name'[t] = seq /\ target' = target
      BY <1>2, <1>b DEF TakeNumber, Goto, TypeOK, Existing
    <2>2. \A n \in Nat : IsLive(n)' => IsLive(n)
      BY <2>1 DEF IsLive
    <2>3. top \in Nat /\ seq \in Nat /\ top < seq
      BY <1>b DEF Ranked, TypeOK
    <2>4. Low(top)' = Low(top)
      BY <2>1, <2>3 DEF Low
    <2>5. \A u \in Threads : /\ at'[u] = "touch" <=> at[u] = "touch"
                             /\ at[u] = "touch" => name'[u] = name[u]
      BY <2>1
    <2> QED
      BY <2>1, <2>2, <2>3, <2>4, <2>5 DEF Ranked
  <1>3. ASSUME NEW t \in Threads, Switch(t)
        PROVE  \E top2, rep2, z2 : Ranked(top2, rep2, z2)'
    <2>1. /\ seq' = seq /\ Existing' = Existing /\ name' = name /\ loggers' = loggers
          /\ target' = target /\ current' = name[t]
          /\ \A u \in Threads : u # t => at'[u] = at[u]
          /\ at[t] = "switch" /\ at'[t] = "touch" /\ t \in loggers
      BY <1>3, <1>b DEF Switch, Goto, TypeOK, Existing, Shape, Holds
    <2>2. /\ name[t] \in Nat /\ name[t] # NoFile /\ name[t] < seq /\ seq \in Nat /\ top \in Nat
          /\ \A u \in Threads : name[u] \in Nat
      BY <2>1, <1>b DEF Shape, Holds, Numbered, TypeOK, Ranked
    <2>3. CASE name[t] < top
      <3>a. PICK r : r = [u \in Threads |-> IF u = t THEN name[t] ELSE rep[u]]
        OBVIOUS
      <3>1. Low(top)' = Low(top) \ {t} /\ t \in Low(top)
        BY <2>1, <2>3 DEF Low
      <3>2. current # NoFile
        BY <3>1 DEF Ranked
      <3>3. z \in loggers \ Low(top)' /\ z # t
        BY <3>1, <3>2 DEF Ranked
      <3>4. ASSUME NEW n \in Nat, IsLive(n)' PROVE n = name[t] \/ IsLive(n)
        BY <2>1, <3>4 DEF IsLive
      <3>5. ASSUME NEW n \in Nat, IsLive(n)', n # top
            PROVE  \E u \in loggers \ (Low(top)' \cup {z}) : r[u] = n
        <4>1. CASE n = name[t]
          BY <1>b, <2>1, <3>a, <3>1, <3>3, <4>1
        <4>2. CASE n # name[t]
          <5>1. PICK u \in loggers \ (Low(top) \cup {z}) : rep[u] = n
            BY <3>2, <3>4, <3>5, <4>2 DEF Ranked
          <5> QED
            BY <1>b, <3>a, <3>1, <5>1
        <4> QED
          BY <4>1, <4>2
      <3>6. \A n \in Nat : IsLive(n)' => n <= top
        BY <2>2, <2>3, <3>4 DEF Ranked
      <3>7. \A u \in Threads : at'[u] = "touch" => name'[u] <= top
        BY <2>1, <2>2, <2>3 DEF Ranked
      <3>8. top \in Existing' \/ \E u \in Threads : at'[u] = "touch" /\ name'[u] = top
        BY <2>1, <2>2, <2>3 DEF Ranked
      <3>9. Ranked(top, r, z)'
        BY <2>1, <2>2, <3>3, <3>5, <3>6, <3>7, <3>8 DEF Ranked
      <3> QED
        BY <3>9
    <2>4. CASE ~(name[t] < top)
      <3>1. \A k : t \notin Low(k)'
        BY <2>1 DEF Low
      <3>2. ASSUME NEW n \in Nat, IsLive(n)'
            PROVE  n = name[t] \/ (IsLive(n) /\ \E u \in Threads : at[u] = "write" /\ target[u] = n)
        BY <2>1, <3>2 DEF IsLive
      <3>3. PICK k : k = name[t]
        OBVIOUS
      <3>4. PICK r : r = target
        OBVIOUS
      <3>5. ASSUME NEW n \in Nat, IsLive(n)', n # k
            PROVE  \E u \in loggers \ (Low(k)' \cup {t}) : r[u] = n
        <4>1. PICK u \in Threads : at[u] = "write" /\ target[u] = n
          BY <3>2, <3>3, <3>5
        <4>2. u # t /\ at'[u] = "write" /\ u \in loggers
          BY <2>1, <4>1 DEF Shape, Holds
        <4>3. u \notin Low(k)'
          BY <4>2 DEF Low
        <4> QED
          BY <3>4, <4>1, <4>2, <4>3
      <3>6. \A n \in Nat : IsLive(n)' => n <= k
        BY <2>2, <2>4, <3>2, <3>3 DEF Ranked
      <3>7. \A u \in Threads : at'[u] = "touch" => name'[u] <= k
        BY <2>1, <2>2, <2>4, <3>3 DEF Ranked
      <3>8. \A n \in Existing' : n <= k
        <4>1. ASSUME NEW n \in Existing PROVE n <= k
          <5>1. n \in Nat /\ n <= top
            BY <1>b DEF Ranked, TypeOK
          <5> QED
            BY <2>2, <2>4, <3>3, <5>1
        <4> QED
          BY <2>1, <4>1
      <3>9. t \in loggers \ Low(k)'
        BY <2>1, <3>1, <3>3
      <3>10. Ranked(k, r, t)'
        BY <2>1, <2>2, <3>3, <3>5, <3>6, <3>7, <3>8, <3>9 DEF Ranked
      <3> QED
        BY <3>10
    <2> QED
      BY <2>3, <2>4
  <1>4. ASSUME NEW t \in Threads, Touch(t) PROVE Ranked(top, rep, z)'
    <2>1. /\ seq' = seq /\ current' = current /\ loggers' = loggers /\ name' = name
          /\ target' = target /\ Existing' = Existing \cup {name[t]}
          /\ \A u \in Threads : u # t => at'[u] = at[u]
          /\ at[t] = "touch" /\ at'[t] = "reset"
      BY <1>4, <1>b, Appended DEF Touch, Goto, TypeOK, loggerVars
    <2>2. \A n \in Nat : IsLive(n)' => IsLive(n)
      BY <2>1 DEF IsLive
    <2>3. Low(top)' = Low(top)
      BY <2>1 DEF Low
    <2>4. \A n \in Existing' : n <= top
      BY <2>1 DEF Ranked
    <2>5. top # NoFile => top \in Existing' \/ \E u \in Threads : at'[u] = "touch" /\ name'[u] = top
      <3> SUFFICES ASSUME top # NoFile, top \notin Existing
                   PROVE  top \in Existing' \/ \E u \in Threads : at'[u] = "touch" /\ name'[u] = top
        BY <2>1
      <3>1. PICK u \in Threads : at[u] = "touch" /\ name[u] = top
        BY DEF Ranked
      <3> QED
        BY <2>1, <3>1
    <2>6. \A u \in Threads : at'[u] = "touch" => name'[u] <= top
      BY <2>1 DEF Ranked
    <2> QED
      BY <2>1, <2>2, <2>3, <2>4, <2>5, <2>6 DEF Ranked
  <1>5. ASSUME NEW t \in Threads, Reset(t) \/ Scan(t) \/ Count(t) \/ UNCHANGED vars
        PROVE  Ranked(top, rep, z)'
    <2>1. /\ seq' = seq /\ current' = current /\ loggers' = loggers /\ Existing' = Existing
          /\ \A u \in Threads : /\ at'[u] \in {"touch", "switch", "write"} \/
                                     at[u] \in {"touch", "switch", "write"}
                                => at'[u] = at[u] /\ name'[u] = name[u] /\ target'[u] = target[u]
      BY <1>5, <1>b DEF Reset, Scan, Count, vars, threadVars, loggerVars, Goto, TypeOK, Existing
    <2>2. \A n \in Nat : IsLive(n)' => IsLive(n)
      BY <2>1 DEF IsLive
    <2>3. Low(top)' = Low(top)
      BY <2>1 DEF Low
    <2> QED
      BY <2>1, <2>2, <2>3 DEF Ranked
  <1>6. ASSUME NEW t \in Threads, Unlink(t) PROVE Ranked(top, rep, z)'
    <2>1. PICK f \in victims[t] :
             /\ Existing' = Existing \ {f}
             /\ at' = [at EXCEPT ![t] = IF victims[t] = {f} THEN "target" ELSE "unlink"]
      BY <1>6, Unlinked
    <2>2. /\ seq' = seq /\ current' = current /\ loggers' = loggers
          /\ name' = name /\ target' = target
          /\ \A u \in Threads : at'[u] \in {"touch", "switch", "write"} \/
                                  at[u] \in {"touch", "switch", "write"} => at'[u] = at[u]
      BY <1>6, <1>b, <2>1 DEF Unlink, TypeOK, loggerVars
    <2>3. \A n \in Nat : IsLive(n)' => IsLive(n)
      BY <2>2 DEF IsLive
    <2>4. Low(top)' = Low(top)
      BY <2>2 DEF Low
    <2>5. f # top
      <3>1. PICK m \in Existing : f < m
        BY DEF Shape, Directory
      <3>2. m <= top /\ m \in Nat /\ top \in Nat /\ f \in Nat
        BY <1>b DEF Ranked, TypeOK
      <3> QED
        BY <3>1, <3>2
    <2> QED
      BY <2>1, <2>2, <2>3, <2>4, <2>5 DEF Ranked
  <1>7. ASSUME NEW t \in Threads, Target(t) PROVE Ranked(top, rep, z)'
    <2>1. /\ seq' = seq /\ current' = current /\ loggers' = loggers /\ Existing' = Existing
          /\ name' = name /\ at[t] = "target" /\ at'[t] = "write" /\ target'[t] = current
          /\ \A u \in Threads : u # t => at'[u] = at[u] /\ target'[u] = target[u]
      BY <1>7, <1>b DEF Target, loggerVars, Goto, TypeOK, Existing
    <2>2. \A n \in Nat : IsLive(n)' => IsLive(n)
      BY <2>1 DEF IsLive
    <2>3. Low(top)' = Low(top)
      BY <2>1 DEF Low
    <2>4. \A u \in Threads : at'[u] = "touch" <=> at[u] = "touch"
      BY <2>1
    <2> QED
      BY <2>1, <2>2, <2>3, <2>4 DEF Ranked
  <1>8. ASSUME NEW t \in Threads, Write(t) PROVE Ranked(top, rep, z)'
    <2>1. /\ seq' = seq /\ current' = current /\ loggers' = loggers
          /\ Existing' = Existing \cup {target[t]}
          /\ name' = name /\ at[t] = "write" /\ at'[t] = "count" /\ target' = target
          /\ \A u \in Threads : u # t => at'[u] = at[u]
      BY <1>8, <1>b, Appended DEF Write, loggerVars, Goto, TypeOK
    <2>2. \A n \in Nat : IsLive(n)' => IsLive(n)
      BY <2>1 DEF IsLive
    <2>3. Low(top)' = Low(top)
      BY <2>1 DEF Low
    <2>4. \A u \in Threads : at'[u] = "touch" <=> at[u] = "touch"
      BY <2>1
    <2>5. target[t] \in Nat /\ IsLive(target[t])
      BY <1>b, <2>1 DEF IsLive, Shape, Holds, TypeOK
    <2>6. \A n \in Existing' : n <= top
      BY <2>1, <2>5 DEF Ranked
    <2> QED
      BY <2>1, <2>2, <2>3, <2>4, <2>6 DEF Ranked
  <1>9. ASSUME Restart PROVE \E top2, rep2, z2 : Ranked(top2, rep2, z2)'
    <2>1. /\ current' = NoFile /\ Existing' = Existing
          /\ \A u \in Threads : at'[u] = "idle"
      BY <1>9 DEF Restart, AllIdle, Existing
    <2>2. \A n \in Nat : ~IsLive(n)'
      BY <2>1 DEF IsLive
    <2>3. seq' \in Nat /\ seq' > 0 /\ \A n \in Existing : n < seq'
      BY <1>9, Restarted
    <2>4. PICK k \in Nat : /\ k < seq' /\ \A n \in Existing : n <= k
                           /\ k # NoFile => k \in Existing
      <3>1. CASE Existing = {}
        BY <2>3, <3>1
      <3>2. CASE Existing # {}
        <4>1. PICK hi \in Existing : \A n \in Existing : n <= hi
          BY <3>2 DEF Shape, Directory
        <4>2. hi \in Nat
          BY <1>b DEF TypeOK
        <4> QED
          BY <2>3, <4>1, <4>2
      <3> QED
        BY <3>1, <3>2
    <2>5. Low(k)' = {}
      BY <2>1 DEF Low
    <2>6. Ranked(k, rep, z)'
      BY <2>1, <2>2, <2>3, <2>4, <2>5 DEF Ranked
    <2> QED
      BY <2>6
  <1> QED
    BY <1>1, <1>2, <1>3, <1>4, <1>5, <1>6, <1>7, <1>8, <1>9, ThreadsAssumption DEF Next

\* The live files that were overtaken are fewer than the threads that ever logged.
LEMMA StaleFew ==
  ASSUME Shape, SomeRanked, current # NoFile
  PROVE  \E top \in Nat, S \in SUBSET Nat :
            /\ IsFiniteSet(S) /\ Cardinality(S) < Cardinality(loggers)
            /\ \A n \in Nat : IsLive(n) => n = top \/ n \in S
            /\ \A n \in Existing : n <= top
            /\ top # NoFile =>
                  top \in Existing \/ \E t \in Threads : at[t] = "touch" /\ name[t] = top
  <1>1. PICK top, rep, z : Ranked(top, rep, z)
    BY DEF SomeRanked
  <1> DEFINE T == loggers \ (Low(top) \cup {z})
             I == {rep[u] : u \in T}
             S == I \cap Nat
  <1>2. z \in loggers /\ loggers \in SUBSET Threads /\ T \in SUBSET Threads
    BY <1>1 DEF Ranked, Shape, Directory
  <1>3. IsFiniteSet(loggers)
    BY <1>2, ThreadsAssumption, FS_Subset
  <1>4. /\ IsFiniteSet(T) /\ Cardinality(T) <= Cardinality(loggers)
        /\ Cardinality(T) # Cardinality(loggers)
    <2>1. T \subseteq loggers /\ T # loggers
      BY <1>2
    <2> QED
      BY <1>3, <2>1, FS_Subset
  <1>5. IsFiniteSet(I) /\ Cardinality(I) <= Cardinality(T)
    BY <1>2, ImageFew
  <1>6. IsFiniteSet(S) /\ Cardinality(S) <= Cardinality(I)
    BY <1>5, FS_Subset
  <1>7. Cardinality(S) < Cardinality(loggers)
    <2>1. /\ Cardinality(S) \in Nat /\ Cardinality(I) \in Nat /\ Cardinality(T) \in Nat
          /\ Cardinality(loggers) \in Nat
      BY <1>3, <1>4, <1>5, <1>6, FS_CardinalityType
    <2> QED
      BY <1>4, <1>5, <1>6, <2>1
  <1>8. ASSUME NEW n \in Nat, IsLive(n), n # top PROVE n \in S
    <2>1. PICK u \in T : rep[u] = n
      BY <1>1, <1>8 DEF Ranked
    <2> QED
      BY <2>1
  <1> HIDE DEF S
  <1> QED
    BY <1>1, <1>6, <1>7, <1>8 DEF Ranked, S

-----------------------------------------------------------------------------
\* A place for the files that no thread is about to delete.
Nobody == CHOOSE x : x \notin Threads

LEMMA NobodyIsNoThread == Nobody \notin Threads
  BY NoSetContainsEverything DEF Nobody

\* The threads that switched and did not scan yet, and those that delete.
Rolling == {t \in Threads : at[t] \in {"touch", "reset", "scan"}}
Unlinking == {t \in Threads : at[t] = "unlink"}
Everyone == Unlinking \cup {Nobody}

\* The files x is about to delete.
Doomed(x) == IF x \in Threads THEN victims[x] ELSE {}

\* Most files that a prune can leave, or a restart find.
Cap == MaxFiles + (crashes + 1) * Cardinality(loggers) - 1

\* The files that x found (base), and those of the threads that scan after it (after).
Known(base, after, x, n) ==
    n \in base[x] \/ \E u \in Rolling \cup after[x] : name[u] = n

\* Once x is done, there are no other files than those; nor will another one be written to.
Cover(base, after, x) ==
    /\ base[x] \in SUBSET Nat /\ IsFiniteSet(base[x]) /\ Cardinality(base[x]) <= Cap
    /\ after[x] \subseteq Unlinking \ {x}
    /\ \A y \in after[x] : after[y] \subseteq after[x]
    /\ \A n \in Nat : (n \in Existing /\ n \notin Doomed(x)) \/ IsLive(n)
                         => Known(base, after, x, n)

Covers(base, after) == \A x \in Everyone : Cover(base, after, x)

SomeCovers == \E base, after : Covers(base, after)

\* The cap only grows with new loggers.
LEMMA CapGrows ==
  ASSUME Shape, Shape', loggers \subseteq loggers', crashes' = crashes
  PROVE  Cap \in Int /\ Cap' \in Int /\ Cap <= Cap'
  <1>1. /\ IsFiniteSet(loggers') /\ Cardinality(loggers) \in Nat /\ Cardinality(loggers') \in Nat
        /\ Cardinality(loggers) <= Cardinality(loggers')
    <2>1. IsFiniteSet(loggers')
      BY ThreadsAssumption, FS_Subset DEF Shape, Directory
    <2> QED
      BY <2>1, FS_Subset, FS_CardinalityType
  <1>2. PICK m \in Nat, d \in Nat : m = Cardinality(loggers) /\ Cardinality(loggers') = m + d
    <2> DEFINE d == Cardinality(loggers') - Cardinality(loggers)
    <2>1. d \in Nat /\ Cardinality(loggers') = Cardinality(loggers) + d
      BY <1>1
    <2> QED
      BY <1>1, <2>1
  <1>3. PICK c \in Nat : c = crashes + 1
    BY BoundsAssumption DEF Shape, TypeOK
  <1>4. c * (m + d) = c * m + c * d /\ c * m \in Nat /\ c * d \in Nat
    BY SMT
  <1>5. Cap = MaxFiles + c * m - 1 /\ Cap' = MaxFiles + c * (m + d) - 1
    BY <1>2, <1>3 DEF Cap
  <1> QED
    BY <1>4, <1>5, CapsAssumption

\* Enough for the steps by which nobody starts or ends a prune.
LEMMA StillCovers ==
  ASSUME Shape, Shape', NEW base, NEW after, NEW x, Cover(base, after, x),
         loggers \subseteq loggers', crashes' = crashes,
         \A u \in Rolling : u \in Rolling' /\ name'[u] = name[u],
         \A u \in Unlinking : u \in Unlinking' /\ name'[u] = name[u],
         \A n \in Nat : (n \in Existing /\ n \notin Doomed(x))' \/ IsLive(n)'
            => \/ n \in Existing /\ n \notin Doomed(x)
               \/ IsLive(n)
               \/ \E u \in Rolling' : name'[u] = n
  PROVE  Cover(base, after, x)'
  <1>1. Cap \in Int /\ Cap' \in Int /\ Cap <= Cap'
    BY CapGrows
  <1>2. base[x] \in SUBSET Nat /\ IsFiniteSet(base[x]) /\ Cardinality(base[x]) <= Cap'
    <2>1. IsFiniteSet(base[x]) /\ Cardinality(base[x]) <= Cap /\ base[x] \in SUBSET Nat
      BY DEF Cover
    <2> QED
      BY <1>1, <2>1, FS_CardinalityType
  <1>3. \A n : Known(base, after, x, n) => Known(base, after, x, n)'
    BY DEF Known, Cover
  <1>4. \A n \in Nat : (\E u \in Rolling' : name'[u] = n) => Known(base, after, x, n)'
    BY DEF Known
  <1>5. \A n \in Nat : (n \in Existing /\ n \notin Doomed(x)) \/ IsLive(n)
                         => Known(base, after, x, n)
    BY DEF Cover
  <1>6. ASSUME NEW n \in Nat, (n \in Existing /\ n \notin Doomed(x))' \/ IsLive(n)'
        PROVE  Known(base, after, x, n)'
    BY <1>3, <1>4, <1>5, <1>6
  <1>7. after[x] \subseteq Unlinking' \ {x} /\ \A y \in after[x] : after[y] \subseteq after[x]
    BY DEF Cover
  <1> QED
    BY <1>2, <1>6, <1>7 DEF Cover

\* The steps that leave the covers as they are.
LEMMA QuietCovers ==
  ASSUME Shape, Shape', NEW base, NEW after, Covers(base, after), NEW t \in Threads,
         \/ Log(t) \/ TakeNumber(t) \/ Switch(t) \/ Touch(t) \/ Reset(t) \/ Target(t)
         \/ Write(t) \/ Count(t) \/ (Unlink(t) /\ at'[t] = "unlink")
  PROVE  Covers(base, after)'
  <1> USE DEF NoFile
  <1>a. Shape /\ Shape'
    OBVIOUS
  <1>b. TypeOK /\ TypeOK'
    BY DEF Shape
  <1>1. loggers \subseteq loggers' /\ crashes' = crashes
    BY DEF Log, TakeNumber, Switch, Touch, Reset, Target, Write, Count, Unlink
  <1>2. /\ \A u \in Threads : u # t =>
              at'[u] = at[u] /\ name'[u] = name[u] /\ target'[u] = target[u]
        /\ at'[t] = "unlink" <=> at[t] = "unlink"
        /\ at[t] \in {"touch", "reset", "scan", "unlink"} => name'[t] = name[t]
        /\ at[t] \in {"touch", "reset", "scan"} => at'[t] \in {"touch", "reset", "scan"}
    BY <1>b DEF Log, TakeNumber, Switch, Touch, Reset, Target, Write, Count, Unlink, Goto, TypeOK
  <1>3. /\ \A u \in Rolling : u \in Rolling' /\ name'[u] = name[u]
        /\ \A u \in Unlinking : u \in Unlinking' /\ name'[u] = name[u]
        /\ Everyone' = Everyone
    BY <1>2 DEF Rolling, Unlinking, Everyone
  <1>4. ASSUME NEW n \in Nat, IsLive(n)'
        PROVE  IsLive(n) \/ \E u \in Rolling' : name'[u] = n
    <2>1. CASE Switch(t)
      <3>1. /\ current' = name[t] /\ target' = target /\ name' = name /\ at'[t] = "touch"
        BY <1>b, <2>1 DEF Switch, Goto, TypeOK
      <3>2. t \in Rolling'
        BY <3>1 DEF Rolling
      <3> QED
        BY <1>2, <1>4, <3>1, <3>2 DEF IsLive
    <2>2. CASE ~Switch(t)
      <3>1. /\ current' = current
            /\ at'[t] = "write" => target'[t] = current
        BY <1>b, <2>2
           DEF Log, TakeNumber, Touch, Reset, Target, Write, Count, Unlink, Goto, TypeOK, loggerVars
      <3> QED
        BY <1>2, <1>4, <3>1 DEF IsLive
    <2> QED
      BY <2>1, <2>2
  <1>5. ASSUME NEW x \in Everyone, NEW n \in Nat, (n \in Existing /\ n \notin Doomed(x))'
        PROVE  \/ n \in Existing /\ n \notin Doomed(x)
               \/ IsLive(n)
               \/ \E u \in Rolling' : name'[u] = n
    <2>1. CASE Touch(t)
      <3>1. /\ Existing' = Existing \cup {name[t]} /\ victims' = victims /\ name' = name
            /\ at'[t] = "reset"
        BY <1>b, <2>1, Appended DEF Touch, Goto, TypeOK
      <3>2. t \in Rolling'
        BY <3>1 DEF Rolling
      <3> QED
        BY <1>5, <3>1, <3>2 DEF Doomed
    <2>2. CASE Write(t)
      <3>1. /\ Existing' = Existing \cup {target[t]} /\ victims' = victims /\ at[t] = "write"
        BY <1>b, <2>2, Appended DEF Write, Goto, TypeOK
      <3>2. IsLive(target[t])
        BY <3>1 DEF IsLive, Shape, Holds
      <3> QED
        BY <1>5, <3>1, <3>2 DEF Doomed
    <2>3. CASE Unlink(t)
      <3>1. PICK f \in victims[t] : /\ Existing' = Existing \ {f}
                                    /\ victims' = [victims EXCEPT ![t] = @ \ {f}]
        BY <2>3, Unlinked
      <3>2. victims \in [Threads -> SUBSET Nat]
        BY <1>b DEF TypeOK
      <3> QED
        BY <1>5, <3>1, <3>2 DEF Doomed
    <2>4. CASE Log(t) \/ TakeNumber(t) \/ Switch(t) \/ Reset(t) \/ Target(t) \/ Count(t)
      <3>1. Existing' = Existing /\ victims' = victims
        BY <2>4 DEF Log, TakeNumber, Switch, Reset, Target, Count, Existing
      <3> QED
        BY <1>5, <3>1 DEF Doomed
    <2> QED
      BY <2>1, <2>2, <2>3, <2>4
  <1>6. ASSUME NEW x \in Everyone PROVE Cover(base, after, x)'
    <2>1. Cover(base, after, x)
      BY DEF Covers
    <2>2. ASSUME NEW n \in Nat, (n \in Existing /\ n \notin Doomed(x))' \/ IsLive(n)'
          PROVE  \/ n \in Existing /\ n \notin Doomed(x)
                 \/ IsLive(n)
                 \/ \E u \in Rolling' : name'[u] = n
      BY <1>4, <1>5, <2>2
    <2> QED
      BY <1>1, <1>3, <2>1, <2>2, StillCovers
  <1> QED
    BY <1>3, <1>6 DEF Covers

\* What a scan leaves: the files kept and those overtaken files that are still live.
LEMMA ScanFinds ==
  ASSUME Shape, SomeRanked, NEW t \in Threads, Scan(t)
  PROVE  \E B \in SUBSET Nat :
            /\ IsFiniteSet(B) /\ Cardinality(B) <= Cap
            /\ \A n \in Nat : (n \in Existing /\ n \notin Excess(Existing)) \/ IsLive(n)
                  => n \in B \/ \E u \in Rolling \ {t} : name[u] = n
  <1>1. at[t] = "scan" /\ current # NoFile
    BY DEF Scan, Shape, Holds
  <1>2. PICK top \in Nat, S \in SUBSET Nat :
            /\ IsFiniteSet(S) /\ Cardinality(S) < Cardinality(loggers)
            /\ \A n \in Nat : IsLive(n) => n = top \/ n \in S
            /\ \A n \in Existing : n <= top
            /\ top # NoFile =>
                  top \in Existing \/ \E u \in Threads : at[u] = "touch" /\ name[u] = top
    BY <1>1, StaleFew
  <1>3. Existing \in SUBSET Nat /\ IsFiniteSet(Existing)
    BY DEF Shape, TypeOK, Directory
  <1>4. PICK K : K = Existing \ Excess(Existing)
    OBVIOUS
  <1>5. IsFiniteSet(K) /\ Cardinality(K) <= MaxFiles /\ K \in SUBSET Nat
    BY <1>3, <1>4, KeptFew
  <1> DEFINE B == K \cup S
  <1>6. IsFiniteSet(B) /\ Cardinality(B) <= Cap /\ B \in SUBSET Nat
    <2>1. /\ IsFiniteSet(B)
          /\ Cardinality(B) = Cardinality(K) + Cardinality(S) - Cardinality(K \cap S)
      BY <1>2, <1>5, FS_Union
    <2>2. IsFiniteSet(K \cap S)
      BY <1>5, FS_Subset
    <2>3. /\ Cardinality(K) \in Nat /\ Cardinality(S) \in Nat /\ Cardinality(K \cap S) \in Nat
          /\ Cardinality(B) \in Nat
      BY <1>2, <1>5, <2>1, <2>2, FS_CardinalityType
    <2>4. Cardinality(loggers) \in Nat
      BY Crowd
    <2>5. PICK m \in Nat, c \in Nat : m = Cardinality(loggers) /\ c = crashes
      BY <2>4, BoundsAssumption DEF Shape, TypeOK
    <2>6. (c + 1) * m = m + c * m /\ c * m >= 0 /\ c * m \in Nat
      BY SMT
    <2>7. Cap = MaxFiles + m + c * m - 1
      BY <2>5, <2>6, CapsAssumption DEF Cap
    <2> HIDE DEF B
    <2>8. Cardinality(B) <= MaxFiles + m - 1
      BY <1>2, <1>5, <2>1, <2>3, <2>5, CapsAssumption
    <2> QED
      BY <1>2, <1>5, <2>1, <2>3, <2>6, <2>7, <2>8, CapsAssumption DEF B
  <1>7. ASSUME NEW n \in Nat, n = top, n # NoFile
        PROVE  n \in K \/ \E u \in Rolling \ {t} : name[u] = n
    <2>1. CASE top \in Existing
      <3>0. \A m \in Existing : ~(m > top)
        BY <1>2, <1>3
      <3>1. {m \in Existing : m > top} = {}
        BY <3>0, Zenon
      <3>2. Cardinality({m \in Existing : m > top}) = 0
        BY <3>1, FS_EmptySet, Zenon
      <3>3. PICK c : c = Cardinality({m \in Existing : m > top})
        OBVIOUS
      <3>4. c = 0
        BY <3>2, <3>3, Zenon
      <3>5. ~(c >= MaxFiles)
        BY <3>4, CapsAssumption
      <3>6. top \notin Excess(Existing)
        BY <3>3, <3>5 DEF Excess
      <3> QED
        BY <1>4, <1>7, <2>1, <3>6
    <2>2. CASE top \notin Existing
      <3>1. PICK u \in Threads : at[u] = "touch" /\ name[u] = top
        BY <1>2, <1>7, <2>2
      <3>2. u \in Rolling \ {t}
        BY <1>1, <3>1 DEF Rolling
      <3> QED
        BY <1>7, <3>1, <3>2
    <2> QED
      BY <2>1, <2>2
  <1>8. ASSUME NEW n \in Nat, (n \in Existing /\ n \notin Excess(Existing)) \/ IsLive(n)
        PROVE  n \in B \/ \E u \in Rolling \ {t} : name[u] = n
    <2>1. CASE n \in Existing /\ n \notin Excess(Existing)
      BY <1>4, <2>1
    <2>2. CASE IsLive(n)
      <3>1. n # NoFile /\ (n = top \/ n \in S)
        BY <1>2, <2>2 DEF IsLive
      <3> QED
        BY <1>7, <3>1
    <2> QED
      BY <1>8, <2>1, <2>2
  <1> HIDE DEF B
  <1> QED
    BY <1>6, <1>8

\* The scan: the thread gets a cover of its own and is after all others; if it has nothing to
\* delete, its cover serves everybody.
LEMMA ScanCovers ==
  ASSUME Shape, Shape', SomeRanked, SomeCovers, NEW t \in Threads, Scan(t)
  PROVE  SomeCovers'
  <1>1. PICK base, after : Covers(base, after)
    BY DEF SomeCovers
  <1>2. PICK B \in SUBSET Nat :
           /\ IsFiniteSet(B) /\ Cardinality(B) <= Cap
           /\ \A n \in Nat : (n \in Existing /\ n \notin Excess(Existing)) \/ IsLive(n)
                 => n \in B \/ \E u \in Rolling \ {t} : name[u] = n
    BY ScanFinds
  <1>3. /\ at[t] = "scan" /\ loggers' = loggers /\ crashes' = crashes /\ name' = name
        /\ Existing' = Existing /\ current' = current /\ target' = target
        /\ victims' = [victims EXCEPT ![t] = Excess(Existing)]
        /\ at' = [at EXCEPT ![t] = IF Excess(Existing) = {} THEN "target" ELSE "unlink"]
    BY DEF Scan, Shape, TypeOK, Goto, Existing, loggerVars
  <1>4. /\ at \in [Threads -> Steps] /\ victims \in [Threads -> SUBSET Nat]
    BY DEF Shape, TypeOK
  <1>5. Rolling' = Rolling \ {t} /\ t \in Rolling /\ t \notin Unlinking
    BY <1>3, <1>4 DEF Rolling, Unlinking
  <1>6. \A n \in Nat : IsLive(n)' <=> IsLive(n)
    BY <1>3, <1>4 DEF IsLive
  <1>7. Cap' = Cap
    BY <1>3 DEF Cap
  <1>8. t # Nobody
    BY NobodyIsNoThread
  <1>9. ASSUME NEW n \in Nat, (n \in Existing /\ n \notin Excess(Existing)) \/ IsLive(n)'
        PROVE  n \in B \/ \E u \in Rolling' : name'[u] = n
    BY <1>2, <1>3, <1>5, <1>6, <1>9
  <1>10. CASE Excess(Existing) # {}
    <2>1. PICK b : b = [x \in Threads \cup {Nobody} |-> IF x = t THEN B ELSE base[x]]
      OBVIOUS
    <2>2. PICK a : a = [x \in Threads \cup {Nobody} |-> IF x = t THEN {} ELSE after[x] \cup {t}]
      OBVIOUS
    <2>3. Unlinking' = Unlinking \cup {t} /\ Everyone' = Everyone \cup {t} /\ t \notin Everyone
      BY <1>3, <1>4, <1>8, <1>10 DEF Unlinking, Everyone
    <2>4. Cover(b, a, t)'
      <3>1. b[t] = B /\ a[t] = {} /\ Doomed(t)' = Excess(Existing)
        BY <1>3, <1>4, <2>1, <2>2 DEF Doomed
      <3>2. \A n \in Nat : (n \in Existing /\ n \notin Doomed(t))' \/ IsLive(n)'
                              => Known(b, a, t, n)'
        BY <1>3, <1>9, <3>1 DEF Known
      <3> QED
        BY <1>2, <1>7, <3>1, <3>2 DEF Cover
    <2>5. ASSUME NEW x \in Everyone PROVE Cover(b, a, x)'
      <3>1. Cover(base, after, x) /\ x # t /\ x \in Threads \cup {Nobody}
        BY <1>1, <2>3, <2>5 DEF Covers, Everyone, Unlinking
      <3>2. b[x] = base[x] /\ a[x] = after[x] \cup {t} /\ Doomed(x)' = Doomed(x) /\ a[t] = {}
        BY <1>3, <1>4, <2>1, <2>2, <3>1 DEF Doomed
      <3>3. ASSUME NEW n \in Nat, (n \in Existing /\ n \notin Doomed(x))' \/ IsLive(n)'
            PROVE  Known(b, a, x, n)'
        <4>1. Known(base, after, x, n)
          BY <1>3, <1>6, <3>1, <3>2, <3>3 DEF Cover
        <4> QED
          BY <1>3, <1>5, <3>2, <4>1 DEF Known
      <3>4. a[x] \subseteq Unlinking' \ {x}
        BY <2>3, <3>1, <3>2 DEF Cover
      <3>5. ASSUME NEW y \in a[x] PROVE a[y] \subseteq a[x]
        <4>1. CASE y = t
          BY <3>2, <4>1
        <4>2. CASE y # t
          <5>1. y \in after[x] /\ y \in Threads
            BY <3>1, <3>2, <3>5, <4>2 DEF Cover, Unlinking
          <5>2. a[y] = after[y] \cup {t} /\ after[y] \subseteq after[x]
            BY <2>2, <3>1, <4>2, <5>1 DEF Cover
          <5> QED
            BY <3>2, <5>2
        <4> QED
          BY <4>1, <4>2
      <3> QED
        BY <1>7, <3>1, <3>2, <3>3, <3>4, <3>5 DEF Cover
    <2>6. Covers(b, a)'
      BY <2>3, <2>4, <2>5 DEF Covers
    <2> QED
      BY <2>6 DEF SomeCovers
  <1>11. CASE Excess(Existing) = {}
    <2>1. PICK b : b = [x \in Threads \cup {Nobody} |-> B]
      OBVIOUS
    <2>2. PICK a : a = [x \in Threads \cup {Nobody} |-> {}]
      OBVIOUS
    <2>3. Everyone' \subseteq Threads \cup {Nobody}
      BY DEF Everyone, Unlinking
    <2>4. ASSUME NEW x \in Threads \cup {Nobody} PROVE Cover(b, a, x)'
      <3>1. b[x] = B /\ a[x] = {}
        BY <2>1, <2>2
      <3>2. \A n \in Nat : (n \in Existing /\ n \notin Doomed(x))' \/ IsLive(n)'
                              => Known(b, a, x, n)'
        BY <1>3, <1>9, <1>11, <3>1 DEF Known
      <3> QED
        BY <1>2, <1>7, <3>1, <3>2 DEF Cover
    <2>5. Covers(b, a)'
      BY <2>3, <2>4 DEF Covers
    <2> QED
      BY <2>5 DEF SomeCovers
  <1> QED
    BY <1>10, <1>11

\* The end of a prune: its cover replaces those of the threads that scanned before.
LEMMA PruneCovers ==
  ASSUME Shape, Shape', SomeCovers, NEW t \in Threads, Unlink(t), at'[t] # "unlink"
  PROVE  SomeCovers'
  <1>1. PICK base, after : Covers(base, after)
    BY DEF SomeCovers
  <1>2. PICK f \in victims[t] :
           /\ Existing' = Existing \ {f}
           /\ victims' = [victims EXCEPT ![t] = @ \ {f}]
           /\ at' = [at EXCEPT ![t] = IF victims[t] = {f} THEN "target" ELSE "unlink"]
    BY Unlinked
  <1>3. /\ at \in [Threads -> Steps] /\ victims \in [Threads -> SUBSET Nat]
    BY DEF Shape, TypeOK
  <1>4. /\ at[t] = "unlink" /\ loggers' = loggers /\ crashes' = crashes /\ name' = name
        /\ current' = current /\ target' = target /\ victims[t] = {f}
        /\ at' = [at EXCEPT ![t] = "target"]
    BY <1>2, <1>3 DEF Unlink, loggerVars
  <1>5. Rolling' = Rolling /\ t \in Unlinking /\ Unlinking' = Unlinking \ {t} /\ t # Nobody
    BY <1>3, <1>4, NobodyIsNoThread DEF Rolling, Unlinking
  <1>6. Everyone' = Everyone \ {t} /\ t \in Everyone
    BY <1>5 DEF Everyone
  <1>7. \A n \in Nat : IsLive(n)' <=> IsLive(n)
    BY <1>3, <1>4 DEF IsLive
  <1>8. Cap' = Cap
    BY <1>4 DEF Cap
  <1>9. /\ Cover(base, after, t) /\ t \notin after[t] /\ after[t] \subseteq Unlinking'
        /\ \A y \in after[t] : after[y] \subseteq after[t]
    BY <1>1, <1>5, <1>6 DEF Covers, Cover
  <1>10. \A n \in Nat : n \in Existing' \/ IsLive(n)' => Known(base, after, t, n)
    <2>1. \A n \in Existing' : n \in Existing /\ n \notin Doomed(t)
      BY <1>2, <1>4 DEF Doomed
    <2> QED
      BY <1>7, <1>9, <2>1 DEF Cover
  <1>11. PICK b : b = [x \in Threads \cup {Nobody} |->
                          IF t \in after[x] THEN base[t] ELSE base[x]]
    OBVIOUS
  <1>12. PICK a : a = [x \in Threads \cup {Nobody} |->
                          IF t \in after[x] THEN after[t] ELSE after[x]]
    OBVIOUS
  <1>13. ASSUME NEW x \in Everyone, x # t PROVE Cover(b, a, x)'
    <2>1. Cover(base, after, x) /\ x \in Threads \cup {Nobody}
      BY <1>1 DEF Covers, Everyone, Unlinking
    <2>2. CASE t \in after[x]
      <3>1. b[x] = base[t] /\ a[x] = after[t] /\ after[t] \subseteq after[x]
        BY <1>11, <1>12, <2>1, <2>2 DEF Cover
      <3>2. a[x] \subseteq Unlinking' \ {x}
        BY <1>9, <2>1, <3>1 DEF Cover
      <3>3. ASSUME NEW y \in a[x] PROVE a[y] \subseteq a[x]
        <4>1. y \in Threads /\ after[y] \subseteq after[t] /\ t \notin after[y]
          BY <1>9, <3>1, <3>3 DEF Unlinking
        <4>2. a[y] = after[y]
          BY <1>12, <4>1
        <4> QED
          BY <3>1, <4>1, <4>2
      <3>4. ASSUME NEW n \in Nat, (n \in Existing /\ n \notin Doomed(x))' \/ IsLive(n)'
            PROVE  Known(b, a, x, n)'
        <4>1. Known(base, after, t, n)
          BY <1>10, <3>4
        <4> QED
          BY <1>4, <1>5, <3>1, <4>1 DEF Known
      <3> QED
        BY <1>8, <1>9, <3>1, <3>2, <3>3, <3>4 DEF Cover
    <2>3. CASE t \notin after[x]
      <3>1. b[x] = base[x] /\ a[x] = after[x]
        BY <1>11, <1>12, <2>1, <2>3
      <3>2. a[x] \subseteq Unlinking' \ {x}
        BY <1>5, <2>1, <2>3, <3>1 DEF Cover
      <3>3. ASSUME NEW y \in a[x] PROVE a[y] \subseteq a[x]
        <4>1. y \in Threads /\ after[y] \subseteq after[x] /\ t \notin after[y]
          BY <2>1, <2>3, <3>1, <3>3 DEF Cover, Unlinking
        <4>2. a[y] = after[y]
          BY <1>12, <4>1
        <4> QED
          BY <3>1, <4>1, <4>2
      <3>4. ASSUME NEW n \in Nat, (n \in Existing /\ n \notin Doomed(x))' \/ IsLive(n)'
            PROVE  Known(b, a, x, n)'
        <4>1. Doomed(x)' = Doomed(x)
          BY <1>2, <1>3, <1>13 DEF Doomed
        <4>2. Known(base, after, x, n)
          BY <1>2, <1>7, <2>1, <3>4, <4>1 DEF Cover
        <4> QED
          BY <1>4, <1>5, <3>1, <4>2 DEF Known
      <3> QED
        BY <1>8, <2>1, <3>1, <3>2, <3>3, <3>4 DEF Cover
    <2> QED
      BY <2>2, <2>3
  <1>14. Covers(b, a)'
    BY <1>6, <1>13 DEF Covers
  <1> QED
    BY <1>14 DEF SomeCovers

\* To the files that Nobody's cover starts from, each thread adds one at most.
LEMMA FewFiles ==
  ASSUME Shape, SomeCovers
  PROVE  Cardinality(Existing) \in Nat /\ Cardinality(Existing) <= Cap + Cardinality(loggers)
  <1>1. PICK base, after : Cover(base, after, Nobody)
    BY DEF SomeCovers, Covers, Everyone
  <1> DEFINE T == Rolling \cup after[Nobody]
             I == {name[u] : u \in T}
             B == base[Nobody]
  <1>2. T \in SUBSET loggers /\ loggers \in SUBSET Threads
    BY <1>1 DEF Cover, Rolling, Unlinking, Shape, Holds, Directory
  <1>3. T \in SUBSET Threads
    BY <1>2
  <1>4. IsFiniteSet(I) /\ Cardinality(I) \in Nat /\ Cardinality(I) <= Cardinality(T)
    BY <1>3, ImageFew
  <1>5. /\ IsFiniteSet(loggers) /\ IsFiniteSet(T) /\ Cardinality(T) <= Cardinality(loggers)
        /\ Cardinality(T) \in Nat /\ Cardinality(loggers) \in Nat
    BY <1>2, ThreadsAssumption, FS_Subset, FS_CardinalityType
  <1>6. IsFiniteSet(B) /\ Cardinality(B) <= Cap /\ Cardinality(B) \in Nat
    BY <1>1, FS_CardinalityType DEF Cover
  <1>7. Existing \subseteq B \cup I
    <2>1. ASSUME NEW n \in Existing PROVE Known(base, after, Nobody, n)
      <3>1. n \in Nat /\ n \notin Doomed(Nobody)
        BY NobodyIsNoThread DEF Shape, TypeOK, Doomed
      <3> QED
        BY <1>1, <3>1 DEF Cover
    <2> QED
      BY <2>1 DEF Known
  <1>8. /\ IsFiniteSet(B \cup I) /\ Cardinality(B \cup I) \in Nat
        /\ Cardinality(B \cup I) <= Cardinality(B) + Cardinality(I)
    <2> HIDE DEF B, I
    <2>1. /\ IsFiniteSet(B \cup I)
          /\ Cardinality(B \cup I) = Cardinality(B) + Cardinality(I) - Cardinality(B \cap I)
      BY <1>4, <1>6, FS_Union
    <2>2. Cardinality(B \cap I) \in Nat
      BY <1>6, FS_Subset, FS_CardinalityType
    <2>3. Cardinality(B \cup I) \in Nat
      BY <2>1, FS_CardinalityType
    <2> QED
      BY <1>4, <1>6, <2>1, <2>2, <2>3
  <1>9. IsFiniteSet(Existing) /\ Cardinality(Existing) <= Cardinality(B \cup I)
    BY <1>7, <1>8, FS_Subset
  <1>10. Cap \in Int
    <2>1. crashes + 1 \in Int
      BY DEF Shape, TypeOK
    <2>2. PICK c \in Int, m \in Int : c = crashes + 1 /\ m = Cardinality(loggers)
      BY <1>5, <2>1
    <2> QED
      BY <2>2, CapsAssumption DEF Cap
  <1> HIDE DEF B, I, T
  <1>11. Cardinality(Existing) \in Nat
    BY <1>9, FS_CardinalityType
  <1> QED
    BY <1>4, <1>5, <1>6, <1>8, <1>9, <1>10, <1>11

\* The covers survive each step; after a restart, all files there are make the first one.
LEMMA StepCovers == Shape /\ SomeRanked /\ SomeCovers /\ [Next]_vars => SomeCovers'
  <1> SUFFICES ASSUME Shape, SomeRanked, SomeCovers, [Next]_vars PROVE SomeCovers'
    OBVIOUS
  <1>a. Shape'
    BY StepShape
  <1>b. PICK base, after : Covers(base, after)
    BY DEF SomeCovers
  <1>1. ASSUME NEW t \in Threads,
               \/ Log(t) \/ TakeNumber(t) \/ Switch(t) \/ Touch(t) \/ Reset(t) \/ Target(t)
               \/ Write(t) \/ Count(t)
        PROVE  SomeCovers'
    <2>1. Covers(base, after)'
      BY <1>1, <1>a, <1>b, QuietCovers
    <2> QED
      BY <2>1 DEF SomeCovers
  <1>2. ASSUME NEW t \in Threads, Scan(t) PROVE SomeCovers'
    BY <1>2, <1>a, ScanCovers
  <1>3. ASSUME NEW t \in Threads, Unlink(t) PROVE SomeCovers'
    <2>1. CASE at'[t] = "unlink"
      <3>1. Covers(base, after)'
        BY <1>3, <1>a, <1>b, <2>1, QuietCovers
      <3> QED
        BY <3>1 DEF SomeCovers
    <2>2. CASE at'[t] # "unlink"
      BY <1>3, <1>a, <2>2, PruneCovers
    <2> QED
      BY <2>1, <2>2
  <1>4. CASE Restart
    <2>1. PICK E : E = Existing
      OBVIOUS
    <2>2. PICK b : b = [x \in {Nobody} |-> E]
      OBVIOUS
    <2>3. PICK a : a = [x \in {Nobody} |-> {}]
      OBVIOUS
    <2>4. /\ Existing' = E /\ current' = NoFile /\ loggers' = loggers /\ crashes' = crashes + 1
          /\ \A u \in Threads : at'[u] = "idle"
      BY <1>4, <2>1 DEF Restart, Existing, AllIdle
    <2>5. Everyone' = {Nobody} /\ \A n \in Nat : ~IsLive(n)'
      BY <2>4 DEF Everyone, Unlinking, IsLive
    <2>6. b[Nobody] = E /\ a[Nobody] = {}
      BY <2>2, <2>3
    <2>7. E \in SUBSET Nat /\ IsFiniteSet(E) /\ Cardinality(E) <= Cap'
      <3>1. Cardinality(E) <= Cap + Cardinality(loggers) /\ Cardinality(loggers) \in Nat
        BY <2>1, FewFiles, Crowd
      <3>2. PICK c \in Nat, m \in Nat : c = crashes /\ m = Cardinality(loggers)
        BY <3>1, BoundsAssumption DEF Shape, TypeOK
      <3>3. Cap = MaxFiles + (c + 1) * m - 1 /\ Cap' = MaxFiles + ((c + 1) + 1) * m - 1
        BY <2>4, <3>2 DEF Cap
      <3>4. ((c + 1) + 1) * m = (c + 1) * m + m /\ (c + 1) * m \in Nat
        BY SMT
      <3>5. Cap' = Cap + m
        BY <3>3, <3>4, CapsAssumption
      <3> QED
        BY <2>1, <3>1, <3>2, <3>5 DEF Shape, TypeOK, Directory
    <2>8. Cover(b, a, Nobody)'
      BY <2>4, <2>5, <2>6, <2>7 DEF Cover, Known
    <2> QED
      BY <2>5, <2>8 DEF SomeCovers, Covers
  <1>5. CASE UNCHANGED vars
    <2>2. /\ files' = files /\ Existing' = Existing /\ current' = current /\ loggers' = loggers
          /\ at' = at /\ name' = name /\ target' = target /\ victims' = victims
          /\ crashes' = crashes
      BY <1>5 DEF vars, loggerVars, threadVars, Existing
    <2>3. Rolling' = Rolling /\ Unlinking' = Unlinking /\ Everyone' = Everyone /\ Cap' = Cap
      BY <2>2 DEF Rolling, Unlinking, Everyone, Cap
    <2>4. \A x \in Everyone : Cover(base, after, x)'
      BY <1>b, <2>2, <2>3 DEF Covers, Cover, Known, IsLive, Doomed
    <2> QED
      BY <2>3, <2>4 DEF SomeCovers, Covers
  <1> QED
    BY <1>1, <1>2, <1>3, <1>4, <1>5 DEF Next

\* "At most max_files files are kept" (fifo_logger.py:4), for any number of threads and of
\* restarts: whatever they interleave, the directory never exceeds FilesBounded.
THEOREM FilesStayBounded == Spec => []FilesBounded
  <1>1. Init => SomeRanked
    <2> SUFFICES ASSUME Init PROVE Ranked(0, 0, 0)
      BY DEF SomeRanked
    <2>1. /\ Existing = {} /\ current = NoFile /\ seq = 1
          /\ \A t \in Threads : at[t] = "idle"
      BY DEF Init, Existing, AllIdle
    <2>2. Low(0) = {} /\ \A n \in Nat : ~IsLive(n)
      BY <2>1 DEF Low, IsLive
    <2> QED
      BY <2>1, <2>2 DEF Ranked, NoFile
  <1>2. Init => SomeCovers
    <2> SUFFICES ASSUME Init PROVE SomeCovers
      OBVIOUS
    <2>1. /\ Existing = {} /\ current = NoFile /\ loggers = {} /\ crashes = 0
          /\ \A t \in Threads : at[t] = "idle"
      BY DEF Init, Existing, AllIdle
    <2>2. Everyone = {Nobody} /\ \A n \in Nat : ~IsLive(n)
      BY <2>1 DEF Everyone, Unlinking, IsLive
    <2>3. PICK g : g = [x \in {Nobody} |-> {}]
      OBVIOUS
    <2>4. g[Nobody] = {}
      BY <2>3
    <2>5. Cardinality(loggers) = 0 /\ Cardinality({}) = 0 /\ IsFiniteSet({})
      BY <2>1, FS_EmptySet, Zenon
    <2>6. Cap = MaxFiles - 1
      BY <2>1, <2>5, CapsAssumption DEF Cap
    <2>7. Cardinality({}) <= Cap
      BY <2>5, <2>6, CapsAssumption
    <2>8. Cover(g, g, Nobody)
      BY <2>1, <2>2, <2>4, <2>5, <2>7 DEF Cover
    <2> QED
      BY <2>2, <2>8 DEF SomeCovers, Covers
  <1>3. Shape /\ SomeCovers => FilesBounded
    <2> SUFFICES ASSUME Shape, SomeCovers PROVE FilesBounded
      OBVIOUS
    <2>1. /\ Cardinality(Existing) \in Nat /\ Cardinality(loggers) \in Nat
          /\ Cardinality(Existing) <= Cap + Cardinality(loggers)
      BY FewFiles, Crowd
    <2>2. PICK c \in Nat, m \in Nat, e \in Nat :
             c = crashes /\ m = Cardinality(loggers) /\ e = Cardinality(Existing)
      BY <2>1, BoundsAssumption DEF Shape, TypeOK
    <2>3. (c + 2) * m = (c + 1) * m + m /\ (c + 1) * m \in Nat
      BY SMT
    <2>4. e <= MaxFiles + (c + 1) * m - 1 + m
      BY <2>1, <2>2 DEF Cap
    <2>5. e < MaxFiles + (c + 2) * m
      BY <2>3, <2>4, CapsAssumption
    <2> QED
      BY <2>2, <2>5 DEF FilesBounded, N
  <1> QED
    BY <1>1, <1>2, <1>3, InitShape, StepShape, StepRanked, StepCovers, PTL DEF Spec

-----------------------------------------------------------------------------
\* The number after the newest file's.
Edge(t) == IF at[t] \in {"switch", "touch"} THEN name[t] ELSE seq

\* The files have no gap, and the newest is the current one.
Gapless(t) ==
    /\ at[t] \in {"switch", "touch"} => seq = name[t] + 1
    /\ \A n \in Existing : n < Edge(t) /\ \A m \in n..(Edge(t) - 1) : m \in Existing
    /\ current # NoFile => IF at[t] = "touch"
                             THEN current = name[t]
                             ELSE current \in Existing /\ current + 1 = Edge(t)
    /\ at[t] \in {"write", "count"} => target[t] = current

\* What is deleted is older than what is kept, and no more than max_files are.
Oldest(t) ==
    /\ \A f \in victims[t] : f \in Existing /\ \A n \in Existing : n < f => n \in victims[t]
    /\ at[t] = "unlink" => Cardinality(Existing \ victims[t]) <= MaxFiles
    /\ current # NoFile /\ at[t] \notin {"touch", "reset", "scan", "unlink"}
          => Cardinality(Existing) <= MaxFiles

\* All files but the one that is written to are full; its lines are the ones counted.
Filled(t) ==
    crashes = 0 =>
        /\ current = NoFile => Existing = {}
        /\ \A n \in Existing : n # current \/ at[t] \in {"roll", "switch"} => files[n] = MaxLines
        /\ current \in Existing =>
              /\ at[t] = "reset" => files[current] = 0
              /\ at[t] = "count" => files[current] = lines + 1
              /\ at[t] \notin {"reset", "count", "roll", "switch"} => files[current] = lines
        /\ at[t] = "idle" => lines <= MaxLines
        /\ at[t] \in {"write", "count"} => lines < MaxLines
        /\ at[t] \in {"scan", "unlink", "target"} => lines = 0

Alone(t) == Gapless(t) /\ Oldest(t) /\ Filled(t)

Solo == \A t \in Threads : loggers \subseteq {t} => Alone(t)

\* If one thread logs, the step is that thread's.
LEMMA OwnStep ==
  ASSUME Shape, NEW t \in Threads, loggers' \subseteq {t}, [Next]_vars
  PROVE  /\ loggers \subseteq {t}
         /\ \/ Log(t) \/ TakeNumber(t) \/ Switch(t) \/ Touch(t) \/ Reset(t) \/ Scan(t)
            \/ Unlink(t) \/ Target(t) \/ Write(t) \/ Count(t)
            \/ Restart
            \/ UNCHANGED vars
  <1>1. ASSUME NEW u \in Threads, Log(u) PROVE loggers \subseteq {t} /\ u = t
    BY <1>1 DEF Log
  <1>2. ASSUME NEW u \in Threads,
               \/ TakeNumber(u) \/ Switch(u) \/ Touch(u) \/ Reset(u) \/ Scan(u)
               \/ Unlink(u) \/ Target(u) \/ Write(u) \/ Count(u)
        PROVE  loggers \subseteq {t} /\ u = t
    <2>1. loggers' = loggers /\ at[u] # "idle"
      BY <1>2 DEF TakeNumber, Switch, Touch, Reset, Scan, Unlink, Target, Write, Count
    <2>2. u \in loggers
      BY <2>1 DEF Shape, Holds
    <2> QED
      BY <2>1, <2>2
  <1>3. Restart \/ UNCHANGED vars => loggers \subseteq {t}
    BY DEF Restart, vars
  <1> QED
    BY <1>1, <1>2, <1>3 DEF Next

\* No step of the only logger opens a gap, prunes a newer file first or leaves one unfilled.
LEMMA StepGapless ==
  ASSUME Shape, Shape', NEW t \in Threads, Alone(t), loggers' \subseteq {t}, [Next]_vars
  PROVE  Gapless(t)'
  <1>a. TypeOK /\ TypeOK'
    BY DEF Shape
  <1>b. /\ at \in [Threads -> Steps] /\ name \in [Threads -> Nat] /\ target \in [Threads -> Nat]
        /\ victims \in [Threads -> SUBSET Nat] /\ Existing \subseteq Nat \ {NoFile}
        /\ files \in [Existing -> Nat] /\ seq \in Nat /\ lines \in Nat /\ current \in Nat
    BY <1>a DEF TypeOK
  <1>c. MaxLines \in Nat \ {0} /\ MaxFiles \in Nat \ {0}
    BY CapsAssumption
  <1> USE DEF NoFile
  <1>1. CASE Log(t)
    BY <1>b, <1>c, <1>1 DEF Log, Goto, loggerVars, Alone, Gapless, Edge, Existing
  <1>2. CASE TakeNumber(t)
    BY <1>b, <1>c, <1>2 DEF TakeNumber, Goto, loggerVars, Alone, Gapless, Edge, Existing
  <1>3. CASE Switch(t)
    BY <1>b, <1>c, <1>3 DEF Switch, Goto, loggerVars, Alone, Gapless, Edge, Existing
  <1>4. CASE Touch(t)
    <2>1. Existing' = Existing \cup {name[t]}
      BY <1>b, <1>4, Appended DEF Touch
    <2> QED
      BY <1>b, <1>4, <2>1 DEF Touch, Goto, loggerVars, Alone, Gapless, Edge
  <1>5. CASE Reset(t)
    BY <1>b, <1>c, <1>5 DEF Reset, Goto, loggerVars, Alone, Gapless, Edge, Existing
  <1>6. CASE Scan(t)
    BY <1>b, <1>c, <1>6 DEF Scan, Goto, loggerVars, Alone, Gapless, Edge, Existing
  <1>7. CASE Unlink(t)
    <2>1. PICK f \in victims[t] :
             /\ \A n \in victims[t] : f <= n
             /\ Existing' = Existing \ {f}
             /\ at' = [at EXCEPT ![t] = IF victims[t] = {f} THEN "target" ELSE "unlink"]
      BY <1>7, Unlinked
    <2>2. f \in Nat /\ \A n \in Existing : n # f => n > f
      BY <1>b, <2>1 DEF Alone, Oldest
    <2>3. current # f
      <3>1. PICK m \in Existing : f < m
        BY DEF Shape, Directory
      <3>2. current # NoFile /\ at[t] = "unlink"
        BY <1>7 DEF Unlink, Shape, Holds
      <3>3. current + 1 = seq /\ m < seq
        BY <1>b, <3>2 DEF Alone, Gapless, Edge
      <3>4. m \in Nat
        BY <1>b
      <3> QED
        BY <1>b, <2>2, <3>1, <3>3, <3>4
    <2> QED
      BY <1>b, <1>7, <2>1, <2>2, <2>3 DEF Unlink, loggerVars, Alone, Gapless, Edge
  <1>8. CASE Target(t)
    BY <1>b, <1>c, <1>8 DEF Target, Goto, loggerVars, Alone, Gapless, Edge, Existing
  <1>9. CASE Write(t)
    <2>1. at[t] = "write" /\ target[t] = current /\ current # NoFile
      BY <1>9 DEF Write, Shape, Holds, Alone, Gapless
    <2>2. Existing' = Existing \cup {target[t]} /\ current \in Existing
      BY <1>b, <1>9, <2>1, Appended DEF Write, Alone, Gapless
    <2>3. Existing' = Existing
      BY <2>1, <2>2
    <2> QED
      BY <1>b, <1>9, <2>1, <2>3 DEF Write, Goto, loggerVars, Alone, Gapless, Edge
  <1>10. CASE Count(t)
    BY <1>b, <1>c, <1>10 DEF Count, Goto, loggerVars, Alone, Gapless, Edge, Existing
  <1>11. CASE Restart
    <2>1. /\ Existing' = Existing /\ current' = NoFile /\ at'[t] = "idle"
      BY <1>11 DEF Restart, AllIdle, Existing
    <2>2. \A n \in Existing : n < seq' /\ n < Edge(t)
      BY <1>11, Restarted DEF Alone, Gapless
    <2>3. ASSUME NEW n \in Existing PROVE seq' = Edge(t)
      <3>1. PICK hi \in Existing : \A m \in Existing : m <= hi
        BY <2>3 DEF Shape, Directory
      <3>2. Max(Existing) = hi
        BY <1>b, <3>1, MaxOf
      <3>3. seq' = 1 + hi
        BY <1>11, <2>3, <3>2 DEF Restart
      <3>4. Edge(t) \in Nat /\ hi \in Nat
        BY <1>b DEF Edge
      <3>5. Edge(t) - 1 \in hi..(Edge(t) - 1)
        BY <2>2, <3>4
      <3>6. Edge(t) - 1 \in Existing
        BY <3>5 DEF Alone, Gapless
      <3> QED
        BY <1>b, <2>2, <3>1, <3>3, <3>4, <3>6
    <2>4. ASSUME NEW n \in Existing PROVE \A m \in n..(seq' - 1) : m \in Existing
      BY <2>3, <2>4 DEF Alone, Gapless
    <2> QED
      BY <2>1, <2>2, <2>4 DEF Gapless, Edge
  <1>12. CASE UNCHANGED vars
    BY <1>12 DEF vars, threadVars, Goto, loggerVars, Alone, Gapless, Edge, Existing
  <1> QED
    BY OwnStep, <1>1, <1>2, <1>3, <1>4, <1>5, <1>6, <1>7, <1>8, <1>9, <1>10, <1>11, <1>12

LEMMA StepOldest ==
  ASSUME Shape, Shape', NEW t \in Threads, Alone(t), loggers' \subseteq {t}, [Next]_vars
  PROVE  Oldest(t)'
  <1>a. TypeOK /\ TypeOK'
    BY DEF Shape
  <1>b. /\ at \in [Threads -> Steps] /\ name \in [Threads -> Nat] /\ target \in [Threads -> Nat]
        /\ victims \in [Threads -> SUBSET Nat] /\ Existing \subseteq Nat \ {NoFile}
        /\ files \in [Existing -> Nat] /\ seq \in Nat /\ lines \in Nat /\ current \in Nat
    BY <1>a DEF TypeOK
  <1>c. MaxLines \in Nat \ {0} /\ MaxFiles \in Nat \ {0}
    BY CapsAssumption
  <1> USE DEF NoFile
  <1>1. CASE Log(t)
    BY <1>b, <1>1 DEF Log, Goto, loggerVars, Alone, Oldest, Existing
  <1>2. CASE TakeNumber(t)
    BY <1>b, <1>c, <1>2 DEF TakeNumber, Goto, loggerVars, Alone, Oldest, Existing
  <1>3. CASE Switch(t)
    BY <1>b, <1>c, <1>3 DEF Switch, Goto, loggerVars, Alone, Oldest, Existing
  <1>4. CASE Touch(t)
    <2>1. victims[t] = {}
      BY <1>4 DEF Touch, Shape, Holds
    <2> QED
      BY <1>b, <1>4, <2>1 DEF Touch, Goto, loggerVars, Oldest
  <1>5. CASE Reset(t)
    BY <1>b, <1>c, <1>5 DEF Reset, Goto, loggerVars, Alone, Oldest, Existing
  <1>6. CASE Scan(t)
    <2>1. /\ Existing' = Existing /\ current' = current /\ at[t] = "scan"
          /\ victims'[t] = Excess(Existing)
          /\ at'[t] = IF Excess(Existing) = {} THEN "target" ELSE "unlink"
      BY <1>b, <1>6 DEF Scan, Goto, loggerVars, Existing
    <2>2. ASSUME NEW f \in Excess(Existing), NEW n \in Existing, n < f PROVE n \in Excess(Existing)
      <3> DEFINE Newer(k) == {m \in Existing : m > k}
      <3>1. f \in Existing /\ Cardinality(Newer(f)) >= MaxFiles
        BY DEF Excess
      <3>2. IsFiniteSet(Newer(n)) /\ IsFiniteSet(Newer(f))
        BY FS_Subset DEF Shape, Directory
      <3>3. \A m \in Newer(f) : m \in Newer(n)
        BY <1>b, <2>2, <3>1
      <3> HIDE DEF Newer
      <3>4. Cardinality(Newer(f)) <= Cardinality(Newer(n))
        BY <3>2, <3>3, FS_Subset
      <3>5. Cardinality(Newer(n)) >= MaxFiles
        BY <1>c, <3>1, <3>2, <3>4, FS_CardinalityType
      <3> QED
        BY <3>5 DEF Newer, Excess
    <2>3. Excess(Existing) \subseteq Existing
      BY DEF Excess
    <2>4. Cardinality(Existing \ Excess(Existing)) <= MaxFiles
      BY <1>b, KeptFew DEF Shape, Directory
    <2>5. Excess(Existing) = {} => Existing \ Excess(Existing) = Existing
      BY <2>3
    <2>6. Excess(Existing) = {} => Cardinality(Existing) <= MaxFiles
      BY <2>4, <2>5, Zenon
    <2>7. \A f \in victims'[t] : f \in Existing /\ \A n \in Existing : n < f => n \in victims'[t]
      BY <2>1, <2>2, <2>3
    <2>8. Cardinality(Existing' \ victims'[t]) <= MaxFiles
      BY <2>1, <2>4, Zenon
    <2> QED
      BY <2>1, <2>6, <2>7, <2>8 DEF Oldest
  <1>7. CASE Unlink(t)
    <2>1. PICK f \in victims[t] :
             /\ \A n \in victims[t] : f <= n
             /\ Existing' = Existing \ {f}
             /\ victims' = [victims EXCEPT ![t] = @ \ {f}]
             /\ at' = [at EXCEPT ![t] = IF victims[t] = {f} THEN "target" ELSE "unlink"]
      BY <1>7, Unlinked
    <2>2. /\ at[t] = "unlink" /\ current' = current /\ victims'[t] = victims[t] \ {f}
          /\ at'[t] = IF victims[t] = {f} THEN "target" ELSE "unlink"
      BY <1>b, <1>7, <2>1 DEF Unlink, loggerVars
    <2>3. Existing' \ victims'[t] = Existing \ victims[t]
      BY <2>1, <2>2
    <2>4. Cardinality(Existing \ victims[t]) <= MaxFiles
      BY <2>2 DEF Alone, Oldest
    <2>5. Cardinality(Existing' \ victims'[t]) <= MaxFiles
      BY <2>3, <2>4, Zenon
    <2>6. at'[t] = "target" => Existing' = Existing \ victims[t]
      BY <2>1, <2>2
    <2>7. at'[t] = "target" => Cardinality(Existing') <= MaxFiles
      BY <2>4, <2>6, Zenon
    <2>8. \A g \in victims'[t] : g \in Existing' /\ \A n \in Existing' : n < g => n \in victims'[t]
      BY <2>1, <2>2 DEF Alone, Oldest
    <2>9. at'[t] \in {"target", "unlink"}
      BY <2>2
    <2> QED
      BY <2>5, <2>7, <2>8, <2>9 DEF Oldest
  <1>8. CASE Target(t)
    BY <1>b, <1>c, <1>8 DEF Target, Goto, loggerVars, Alone, Oldest, Existing
  <1>9. CASE Write(t)
    <2>1. at[t] = "write" /\ target[t] = current /\ current # NoFile /\ victims[t] = {}
      BY <1>9 DEF Write, Shape, Holds, Alone, Gapless
    <2>2. Existing' = Existing \cup {target[t]} /\ current \in Existing
      BY <1>b, <1>9, <2>1, Appended DEF Write, Alone, Gapless
    <2>3. Existing' = Existing
      BY <2>1, <2>2
    <2> QED
      BY <1>b, <1>9, <2>1, <2>3 DEF Write, Goto, loggerVars, Alone, Oldest
  <1>10. CASE Count(t)
    BY <1>b, <1>c, <1>10 DEF Count, Goto, loggerVars, Alone, Oldest, Existing
  <1>11. CASE Restart
    <2>1. current' = NoFile /\ at'[t] = "idle" /\ victims'[t] = {}
      BY <1>11 DEF Restart, AllIdle, AllEmpty
    <2> QED
      BY <2>1 DEF Oldest
  <1>12. CASE UNCHANGED vars
    BY <1>12 DEF vars, threadVars, Goto, loggerVars, Alone, Oldest, Existing
  <1> QED
    BY OwnStep, <1>1, <1>2, <1>3, <1>4, <1>5, <1>6, <1>7, <1>8, <1>9, <1>10, <1>11, <1>12

LEMMA StepFilled ==
  ASSUME Shape, Shape', NEW t \in Threads, Alone(t), loggers' \subseteq {t}, [Next]_vars
  PROVE  Filled(t)'
  <1>a. TypeOK /\ TypeOK'
    BY DEF Shape
  <1>b. /\ at \in [Threads -> Steps] /\ name \in [Threads -> Nat] /\ target \in [Threads -> Nat]
        /\ victims \in [Threads -> SUBSET Nat] /\ Existing \subseteq Nat \ {NoFile}
        /\ files \in [Existing -> Nat] /\ seq \in Nat /\ lines \in Nat /\ current \in Nat
    BY <1>a DEF TypeOK
  <1>c. MaxLines \in Nat \ {0} /\ MaxFiles \in Nat \ {0}
    BY CapsAssumption
  <1> USE DEF NoFile
  <1>1. CASE Log(t)
    <2>1. /\ at[t] = "idle" /\ files' = files /\ Existing' = Existing /\ current' = current
          /\ lines' = lines /\ crashes' = crashes
          /\ \/ at'[t] = "roll" /\ (current = NoFile \/ lines >= MaxLines)
             \/ at'[t] = "write" /\ current # NoFile /\ lines < MaxLines
      BY <1>b, <1>c, <1>1 DEF Log, Goto, loggerVars, Existing, Full
    <2> QED
      BY <1>b, <1>c, <2>1 DEF Alone, Filled, Gapless
  <1>2. CASE TakeNumber(t)
    BY <1>b, <1>2 DEF TakeNumber, Goto, Alone, Filled, Existing
  <1>3. CASE Switch(t)
    <2>1. /\ at[t] = "switch" /\ at'[t] = "touch" /\ files' = files /\ Existing' = Existing
          /\ current' = name[t] /\ lines' = lines /\ crashes' = crashes
      BY <1>b, <1>3 DEF Switch, Goto, Existing
    <2>2. name[t] \notin Existing /\ name[t] # NoFile
      BY <2>1 DEF Shape, Fresh, Holds
    <2> QED
      BY <2>1, <2>2 DEF Alone, Filled
  <1>4. CASE Touch(t)
    <2>1. /\ at[t] = "touch" /\ at'[t] = "reset" /\ current' = current
          /\ lines' = lines /\ crashes' = crashes /\ current = name[t]
      BY <1>b, <1>4 DEF Touch, Goto, loggerVars, Alone, Gapless, Shape, Holds
    <2>2. name[t] \notin Existing
      BY <1>b, <2>1 DEF Alone, Gapless, Edge
    <2>3. /\ Existing' = Existing \cup {name[t]} /\ files'[name[t]] = 0
          /\ \A n \in Existing : files'[n] = files[n]
      BY <1>b, <1>4, <2>2, Appended DEF Touch
    <2>4. current # NoFile
      BY <2>1 DEF Shape, Holds
    <2> QED
      BY <1>b, <2>1, <2>2, <2>3, <2>4 DEF Alone, Filled
  <1>5. CASE Reset(t)
    <2>1. /\ at[t] = "reset" /\ at'[t] = "scan" /\ files' = files /\ Existing' = Existing
          /\ current' = current /\ lines' = 0 /\ crashes' = crashes
      BY <1>b, <1>5 DEF Reset, Goto, Existing
    <2> QED
      BY <2>1 DEF Alone, Filled
  <1>6. CASE Scan(t)
    <2>1. /\ at[t] = "scan" /\ at'[t] \in {"unlink", "target"} /\ files' = files
          /\ Existing' = Existing /\ current' = current /\ lines' = lines /\ crashes' = crashes
      BY <1>b, <1>6 DEF Scan, Goto, loggerVars, Existing
    <2> QED
      BY <2>1 DEF Alone, Filled
  <1>7. CASE Unlink(t)
    <2>1. PICK f \in victims[t] :
             /\ Existing' = Existing \ {f} /\ files' = [n \in Existing' |-> files[n]]
             /\ at' = [at EXCEPT ![t] = IF victims[t] = {f} THEN "target" ELSE "unlink"]
      BY <1>7, Unlinked
    <2>2. /\ at[t] = "unlink" /\ at'[t] \in {"unlink", "target"} /\ current' = current
          /\ lines' = lines /\ crashes' = crashes
      BY <1>b, <1>7, <2>1 DEF Unlink, loggerVars
    <2>3. \A n \in Existing' : n \in Existing /\ files'[n] = files[n]
      BY <2>1
    <2>4. current # NoFile
      BY <2>2 DEF Shape, Holds
    <2> QED
      BY <2>2, <2>3, <2>4 DEF Alone, Filled
  <1>8. CASE Target(t)
    <2>1. /\ at[t] = "target" /\ at'[t] = "write" /\ files' = files
          /\ Existing' = Existing /\ current' = current /\ lines' = lines /\ crashes' = crashes
      BY <1>b, <1>8 DEF Target, Goto, loggerVars, Existing
    <2> QED
      BY <1>c, <2>1 DEF Alone, Filled
  <1>9. CASE Write(t)
    <2>1. /\ at[t] = "write" /\ at'[t] = "count" /\ target[t] = current /\ current # NoFile
          /\ current' = current /\ lines' = lines /\ crashes' = crashes
      BY <1>b, <1>9 DEF Write, Goto, loggerVars, Shape, Holds, Alone, Gapless
    <2>2. /\ Existing' = Existing \cup {current} /\ current \in Existing
          /\ \A n \in Existing : files'[n] = files[n] + (IF n = current THEN 1 ELSE 0)
      BY <1>b, <1>9, <2>1, Appended DEF Write, Alone, Gapless
    <2>3. Existing' = Existing
      BY <2>2
    <2> QED
      BY <1>b, <1>c, <2>1, <2>2, <2>3 DEF Alone, Filled
  <1>10. CASE Count(t)
    <2>1. /\ at[t] = "count" /\ at'[t] = "idle" /\ files' = files
          /\ Existing' = Existing /\ current' = current /\ lines' = lines + 1 /\ crashes' = crashes
      BY <1>b, <1>10 DEF Count, Goto, Existing
    <2> QED
      BY <1>b, <1>c, <2>1 DEF Alone, Filled
  <1>11. CASE Restart
    <2>1. crashes \in Nat /\ crashes' = crashes + 1
      BY <1>a, <1>11, BoundsAssumption DEF Restart, TypeOK
    <2> QED
      BY <2>1 DEF Filled
  <1>12. CASE UNCHANGED vars
    BY <1>12 DEF vars, threadVars, Goto, loggerVars, Alone, Filled, Existing
  <1> QED
    BY OwnStep, <1>1, <1>2, <1>3, <1>4, <1>5, <1>6, <1>7, <1>8, <1>9, <1>10, <1>11, <1>12

LEMMA StepSolo == Shape /\ Solo /\ [Next]_vars => Solo'
  <1> SUFFICES ASSUME Shape, Solo, [Next]_vars, NEW t \in Threads, loggers' \subseteq {t}
               PROVE  Alone(t)'
    BY DEF Solo
  <1>1. Shape'
    BY StepShape
  <1>2. Alone(t)
    BY OwnStep DEF Solo
  <1>3. Gapless(t)' /\ Oldest(t)' /\ Filled(t)'
    BY <1>1, <1>2, StepGapless, StepOldest, StepFilled
  <1> QED
    BY <1>3 DEF Alone

LEMMA InitSolo == Init => Solo
  <1> SUFFICES ASSUME Init, NEW t \in Threads PROVE Alone(t)
    BY DEF Solo
  <1>1. /\ Existing = {} /\ current = NoFile /\ lines = 0 /\ at[t] = "idle" /\ victims[t] = {}
    BY DEF Init, Existing, AllIdle, AllEmpty
  <1> QED
    BY <1>1, CapsAssumption DEF Alone, Gapless, Oldest, Filled, NoFile

LEMMA AlwaysSolo == Spec => [](Shape /\ Solo)
  BY InitShape, InitSolo, StepShape, StepSolo, PTL DEF Spec

\* "At most max_files files are kept" (fifo_logger.py:4) exactly, between the entries of the
\* only thread that logs.
THEOREM FilesStayCapped == Spec => []FilesCapped
  <1>1. Shape /\ Solo => FilesCapped
    <2> SUFFICES ASSUME Shape, Solo, N = 1, Quiet, current # NoFile
                 PROVE  Cardinality(Existing) <= MaxFiles
      BY DEF FilesCapped
    <2>1. IsFiniteSet(loggers) /\ loggers \subseteq Threads
      BY ThreadsAssumption, FS_Subset DEF Shape, Directory
    <2>2. PICK t : loggers = {t}
      BY <2>1, FS_Singleton DEF N
    <2>3. t \in Threads /\ Alone(t)
      BY <2>1, <2>2 DEF Solo
    <2> QED
      BY <2>3 DEF Quiet, Alone, Oldest
  <1> QED
    BY <1>1, AlwaysSolo, PTL

\* "The oldest is deleted first" (fifo_logger.py:4-5), if one thread logs: what is left are
\* the newest files, without a gap, all but the last one full.
THEOREM NewestKept == Spec => []OldestDeletedFirst
  <1>1. Shape /\ Solo => OldestDeletedFirst
    <2> SUFFICES ASSUME Shape, Solo, N = 1, NEW n \in Existing
                 PROVE  /\ \A m \in n..Max(Existing) : m \in Existing
                        /\ Quiet /\ current # NoFile => current = Max(Existing)
                        /\ crashes = 0 /\ n < Max(Existing) => files[n] = MaxLines
      BY DEF OldestDeletedFirst
    <2>1. IsFiniteSet(loggers) /\ loggers \subseteq Threads
      BY ThreadsAssumption, FS_Subset DEF Shape, Directory
    <2>2. PICK t : loggers = {t}
      BY <2>1, FS_Singleton DEF N
    <2>3. t \in Threads /\ Alone(t)
      BY <2>1, <2>2 DEF Solo
    <2>4. PICK hi \in Existing : \A m \in Existing : m <= hi
      BY DEF Shape, Directory
    <2>5. Existing \in SUBSET Nat /\ current \in Nat /\ Edge(t) \in Nat
      BY <2>3 DEF Shape, TypeOK, Edge
    <2>6. Max(Existing) = hi
      BY <2>4, <2>5, MaxOf
    <2>7. hi < Edge(t)
      BY <2>3 DEF Alone, Gapless
    <2>8. \A m \in n..hi : m \in Existing
      BY <2>3, <2>5, <2>7 DEF Alone, Gapless
    <2>9. current \in Existing /\ at[t] # "touch" => current = hi
      BY <2>3, <2>4, <2>5, <2>7 DEF Alone, Gapless, Shape, TypeOK
    <2>10. Quiet /\ current # NoFile => current = hi
      BY <2>3, <2>9 DEF Quiet, Alone, Gapless
    <2>11. ASSUME crashes = 0, n < hi PROVE files[n] = MaxLines
      <3>1. n # current
        <4>1. CASE at[t] = "touch"
          BY <2>3, <2>5, <2>7, <4>1 DEF Alone, Gapless, Edge, Shape, Holds
        <4>2. CASE at[t] # "touch"
          BY <2>5, <2>9, <2>11, <4>2
        <4> QED
          BY <4>1, <4>2
      <3> QED
        BY <2>3, <2>11, <3>1 DEF Alone, Filled
    <2> QED
      BY <2>6, <2>8, <2>10, <2>11
  <1> QED
    BY <1>1, AlwaysSolo, PTL
=============================================================================
