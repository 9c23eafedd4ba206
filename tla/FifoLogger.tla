----------------------------- MODULE FifoLogger -----------------------------
(***************************************************************************)
(* The JSON-line logger that the engine's thread and every worker thread,  *)
(* the abandoned ones too, call without a lock.  A log file is its         *)
(* sequence number; its content is the number of its lines.  The logger    *)
(* calls into pathlib and the file system, so threads may switch between   *)
(* the steps below; opening, appending to and closing a file are one step, *)
(* because a line is lost with an unlinked file whichever comes first.     *)
(***************************************************************************)
EXTENDS Integers, FiniteSetsExt, Functions

CONSTANTS
    Threads,      \* the threads that log
    MaxFiles,     \* config.logging.max_files
    MaxLines,     \* config.logging.max_lines_per_file
    MaxEntries,   \* bound on the entries logged
    MaxCrashes    \* bound on the restarts of the process

ASSUME ThreadsAssumption == IsFiniteSet(Threads) /\ Threads # {}
ASSUME CapsAssumption == MaxFiles \in Nat \ {0} /\ MaxLines \in Nat \ {0}
ASSUME BoundsAssumption == MaxEntries \in Nat /\ MaxCrashes \in Nat

NoFile == 0

VARIABLES
    files,     \* the directory: the number of lines of each file there is
    current,   \* FifoLogger._current
    lines,     \* FifoLogger._lines
    seq,       \* FifoLogger._seq
    at,        \* where each thread is in log
    name,      \* the file a thread is rolling to
    target,    \* the file it is to write to
    victims,   \* the files its prune still has to delete
    entries,   \* how many entries were logged
    loggers,   \* history: the threads that ever logged
    crashes    \* how often the process was restarted

loggerVars == <<current, lines, seq>>
threadVars == <<at, name, target, victims>>
vars == <<files, loggerVars, threadVars, entries, loggers, crashes>>

Steps == {"idle", "roll", "switch", "touch", "reset", "scan", "unlink",
          "target", "write", "count"}

Existing == DOMAIN files
Goto(t, s) == at' = [at EXCEPT ![t] = s]

AllIdle   == [t \in Threads |-> "idle"]
AllNoFile == [t \in Threads |-> NoFile]
AllEmpty  == [t \in Threads |-> {}]

Init ==
    /\ files = << >>
    /\ current = NoFile /\ lines = 0 /\ seq = 1
    /\ at = AllIdle /\ name = AllNoFile /\ target = AllNoFile /\ victims = AllEmpty
    /\ entries = 0 /\ loggers = {} /\ crashes = 0

-----------------------------------------------------------------------------
\* Mutant: > instead of >=.
FullLate == current = NoFile \/ lines > MaxLines

\* The test of _target.
Full == current = NoFile \/ lines >= MaxLines

Log(t) ==
    /\ at[t] = "idle"
    /\ entries < MaxEntries
    /\ entries' = entries + 1
    /\ loggers' = loggers \cup {t}
    /\ IF Full
         THEN Goto(t, "roll") /\ UNCHANGED target
         ELSE Goto(t, "write") /\ target' = [target EXCEPT ![t] = current]
    /\ UNCHANGED <<files, loggerVars, name, victims, crashes>>

\* _roll: take a number, ...
TakeNumber(t) ==
    /\ at[t] = "roll"
    /\ Goto(t, "switch")
    /\ name' = [name EXCEPT ![t] = seq]
    /\ seq' = seq + 1
    /\ UNCHANGED <<files, current, lines, target, victims, entries, loggers, crashes>>

\* ... make its file the current one, ...
Switch(t) ==
    /\ at[t] = "switch"
    /\ Goto(t, "touch")
    /\ current' = name[t]
    /\ UNCHANGED <<files, lines, seq, name, target, victims, entries, loggers, crashes>>

\* A line or nothing is appended to file f; a missing file is created.
Append(f, count) ==
    files' = [n \in Existing \cup {f} |->
                 (IF n \in Existing THEN files[n] ELSE 0) + (IF n = f THEN count ELSE 0)]

\* ... create it, ...
Touch(t) ==
    /\ at[t] = "touch"
    /\ Goto(t, "reset")
    /\ Append(name[t], 0)
    /\ UNCHANGED <<loggerVars, name, target, victims, entries, loggers, crashes>>

\* ... start counting, ...
Reset(t) ==
    /\ at[t] = "reset"
    /\ Goto(t, "scan")
    /\ lines' = 0
    /\ UNCHANGED <<files, current, seq, name, target, victims, entries, loggers, crashes>>

\* Mutant: the newest files are the excess ones.
NewestExcess(kept) ==
    {n \in kept : Cardinality({m \in kept : m < n}) >= MaxFiles}

\* Mutant: one file too many is kept.
ExcessLate(kept) ==
    {n \in kept : Cardinality({m \in kept : m > n}) > MaxFiles}

\* _prune: names are padded with zeros, so sorting them sorts the numbers.
Excess(kept) ==
    {n \in kept : Cardinality({m \in kept : m > n}) >= MaxFiles}

Scan(t) ==
    /\ at[t] = "scan"
    /\ victims' = [victims EXCEPT ![t] = Excess(Existing)]
    /\ Goto(t, IF victims'[t] = {} THEN "target" ELSE "unlink")
    /\ UNCHANGED <<files, loggerVars, name, target, entries, loggers, crashes>>

\* ... and delete the oldest files, one by one.
Unlink(t) ==
    /\ at[t] = "unlink"
    /\ LET oldest == Min(victims[t])
       IN  /\ files' = Restrict(files, Existing \ {oldest})
           /\ victims' = [victims EXCEPT ![t] = @ \ {oldest}]
    /\ Goto(t, IF victims'[t] = {} THEN "target" ELSE "unlink")
    /\ UNCHANGED <<loggerVars, name, target, entries, loggers, crashes>>

\* _target returns what is current by then.
Target(t) ==
    /\ at[t] = "target"
    /\ Goto(t, "write")
    /\ target' = [target EXCEPT ![t] = current]
    /\ UNCHANGED <<files, loggerVars, name, victims, entries, loggers, crashes>>

Write(t) ==
    /\ at[t] = "write"
    /\ Goto(t, "count")
    /\ Append(target[t], 1)
    /\ UNCHANGED <<loggerVars, name, target, victims, entries, loggers, crashes>>

Count(t) ==
    /\ at[t] = "count"
    /\ Goto(t, "idle")
    /\ lines' = lines + 1
    /\ name' = [name EXCEPT ![t] = NoFile]
    /\ target' = [target EXCEPT ![t] = NoFile]
    /\ UNCHANGED <<files, current, seq, victims, entries, loggers, crashes>>

\* Mutant: the highest number is taken again.
RestartAtHighest ==
    /\ crashes < MaxCrashes
    /\ crashes' = crashes + 1
    /\ current' = NoFile /\ lines' = 0
    /\ seq' = (IF Existing = {} THEN 0 ELSE Max(Existing))
    /\ at' = AllIdle /\ name' = AllNoFile /\ target' = AllNoFile /\ victims' = AllEmpty
    /\ UNCHANGED <<files, entries, loggers>>

\* The process ends anywhere; the next one's __init__ resumes the sequence.
Restart ==
    /\ crashes < MaxCrashes
    /\ crashes' = crashes + 1
    /\ current' = NoFile /\ lines' = 0
    /\ seq' = 1 + (IF Existing = {} THEN 0 ELSE Max(Existing))
    /\ at' = AllIdle /\ name' = AllNoFile /\ target' = AllNoFile /\ victims' = AllEmpty
    /\ UNCHANGED <<files, entries, loggers>>

-----------------------------------------------------------------------------
Next ==
    \/ \E t \in Threads :
          \/ Log(t)
          \/ TakeNumber(t)
          \/ Switch(t)
          \/ Touch(t)
          \/ Reset(t)
          \/ Scan(t)
          \/ Unlink(t)
          \/ Target(t)
          \/ Write(t)
          \/ Count(t)
    \/ Restart

Spec == Init /\ [][Next]_vars

-----------------------------------------------------------------------------
\* Every variable has its type (fifo_logger.py).
TypeOK ==
    /\ Existing \subseteq Nat \ {NoFile}
    /\ files \in [Existing -> Nat]
    /\ current \in Nat /\ lines \in Nat /\ seq \in Nat
    /\ at \in [Threads -> Steps]
    /\ name \in [Threads -> Nat]
    /\ target \in [Threads -> Nat]
    /\ victims \in [Threads -> SUBSET Nat]
    /\ entries \in 0..MaxEntries
    /\ crashes \in 0..MaxCrashes

\* The documented caps are for one thread.  With n threads that ever logged:
N == Cardinality(loggers)

\* "A file holds at most max_lines_per_file lines" (fifo_logger.py:3), as long as one
\* thread logs.  Of several, every one that resets the line counter late lets a full
\* file be filled again, and each time all threads that are not in that position may
\* pass the test for fullness together.
LinesBounded ==
    \A f \in Existing : files[f] <= N * MaxLines + (N * (N - 1)) \div 2

\* "At most max_files files are kept" (fifo_logger.py:4): while they roll, each of
\* several threads may leave one file that no prune has seen and add another; all are
\* left over when the process ends, and each thread of the next adds one before it
\* prunes.
FilesBounded ==
    Cardinality(Existing) < MaxFiles + (crashes + 2) * N

Quiet == \A t \in Threads : at[t] = "idle"

\* The file cap holds without any excess, also after restarts, once this process has
\* rolled and nobody is in the middle of an entry, if only one thread logs.
FilesCapped == N = 1 /\ Quiet /\ current # NoFile => Cardinality(Existing) <= MaxFiles

\* "The oldest is deleted first" (fifo_logger.py:4-5): if only one thread logs, the
\* files kept are the newest ones without a gap, the last of them the one being
\* written, and all but the newest are full unless the process was restarted.
OldestDeletedFirst ==
    N = 1 => \A n \in Existing :
        /\ \A m \in n..Max(Existing) : m \in Existing
        /\ Quiet /\ current # NoFile => current = Max(Existing)
        /\ crashes = 0 /\ n < Max(Existing) => files[n] = MaxLines
=============================================================================
