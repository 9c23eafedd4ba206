---------------------------- MODULE OutcomeProofs ----------------------------
(***************************************************************************)
(* Proofs about what debates come to: the judge's verdict on one of them   *)
(* (Verdict), for replies whose scores lie outside the range by any        *)
(* margin, and the result each one leaves in a sitting (Session), for any  *)
(* number of debates, any limit and any number of strays.                  *)
(***************************************************************************)
EXTENDS Session, Verdict, TLAPS

RulingInv == reply \in Replies \cup {NoJSON} /\ TieNeverTrips /\ TieGoesToDeclared

LEMMA ScoresAreNumbers == Scores \subseteq Int
  BY MarginAssumption DEF Scores, NaN, Top

\* What the tie break makes of two scores in the range.
LEMMA BrokenTie ==
  ASSUME NEW r \in Replies
  PROVE  LET s == BreakTie(r)
         IN  /\ s \in [pro : Int, con : Int]
             /\ s.pro - r.pro \in -TieBreakDelta..TieBreakDelta
             /\ s.con - r.con \in -TieBreakDelta..TieBreakDelta
             /\ r.pro # r.con => s = [pro |-> r.pro, con |-> r.con]
             /\ InRange(r.pro) /\ InRange(r.con) <=> InRange(s.pro) /\ InRange(s.con)
             /\ InRange(r.pro) /\ r.pro = r.con =>
                   IF r.declared = "con" THEN s.con > s.pro ELSE s.pro > s.con
  <1>1. r.pro \in Int /\ r.con \in Int
    BY ScoresAreNumbers DEF Replies
  <1>2. QED
    BY <1>1 DEF BreakTie, Equal, IsNaN, NaN, Top, TieBreakDelta, InRange

LEMMA ParseRuling == ASSUME RulingInv, Parse PROVE RulingInv'
  <1> DEFINE s == BreakTie(reply)
             winner == IF Above(s.pro, s.con) THEN "pro" ELSE "con"
             ruling == [winner |-> winner, scores |-> s]
  <1>1. /\ reply \in Replies /\ reply # NoJSON /\ reply' = reply
        /\ verdict' = IF Valid(winner, s) THEN ruling ELSE Raised
    BY DEF RulingInv, Parse
  <1>2. reply.pro \in Int /\ reply.con \in Int /\ s \in [pro : Int, con : Int]
    BY <1>1, ScoresAreNumbers, BrokenTie DEF Replies
  <1>3. ruling # Raised
    BY <1>2, RaisedAssumption
  <1>4. Valid(winner, s) <=> Scored /\ reply.highlights # "prose"
    <2>1. InRange(s.pro) /\ InRange(s.con) <=> InRange(reply.pro) /\ InRange(reply.con)
      BY <1>1, BrokenTie
    <2>2. InRange(s.pro) /\ InRange(s.con) => ~Equal(s.pro, s.con)
      BY <1>1, <1>2, <2>1, BrokenTie DEF Equal
    <2>3. QED
      BY <1>1, <2>1, <2>2 DEF Valid, Scored
  <1>5. TieNeverTrips'
    BY <1>1, <1>3, <1>4 DEF TieNeverTrips, Scored, InRange, IsNaN
  <1>6. TieGoesToDeclared'
    <2>1. SUFFICES ASSUME Scored
                   PROVE  /\ winner = (CASE reply.pro > reply.con -> "pro"
                                        [] reply.con > reply.pro -> "con"
                                        [] OTHER -> IF reply.declared = "con" THEN "con" ELSE "pro")
                          /\ s.pro - reply.pro \in -TieBreakDelta..TieBreakDelta
                          /\ s.con - reply.con \in -TieBreakDelta..TieBreakDelta
      BY <1>1, <1>4 DEF TieGoesToDeclared
    <2>2. /\ s.pro - reply.pro \in -TieBreakDelta..TieBreakDelta
          /\ s.con - reply.con \in -TieBreakDelta..TieBreakDelta
      BY <1>1, BrokenTie
    <2>3. /\ reply.pro # reply.con => s.pro = reply.pro /\ s.con = reply.con
          /\ reply.pro = reply.con =>
                IF reply.declared = "con" THEN s.con > s.pro ELSE s.pro > s.con
      BY <1>1, <2>1, BrokenTie DEF Scored
    <2>4. ~IsNaN(s.pro) /\ ~IsNaN(s.con)
      BY <1>1, <2>1, BrokenTie DEF Scored, InRange
    <2>5. winner = IF s.pro > s.con THEN "pro" ELSE "con"
      BY <2>4 DEF Above
    <2>6. QED
      BY <1>2, <2>2, <2>3, <2>5
  <1>7. QED
    BY <1>1, <1>5, <1>6 DEF RulingInv

LEMMA NextRuling == RulingInv /\ [VerdictNext]_verdictVars => RulingInv'
  <1>1. ASSUME RulingInv, Unparsable PROVE RulingInv'
    BY <1>1 DEF RulingInv, Unparsable, TieNeverTrips, TieGoesToDeclared, Scored
  <1>2. ASSUME RulingInv, UNCHANGED verdictVars PROVE RulingInv'
    BY <1>2 DEF RulingInv, verdictVars, TieNeverTrips, TieGoesToDeclared, Scored, InRange, IsNaN
  <1>3. QED
    BY <1>1, <1>2, ParseRuling DEF VerdictNext

LEMMA RulingInvariance == VerdictSpec => []RulingInv
  <1>1. VerdictInit => RulingInv
    BY DEF VerdictInit, RulingInv, TieNeverTrips, TieGoesToDeclared
  <1>2. QED
    BY <1>1, NextRuling, PTL DEF VerdictSpec

\* The tie break never makes a scored reply raise, nor saves another one (judge.py,
\* _break_tie; verdict.py).
THEOREM TiesNeverTrip == VerdictSpec => []TieNeverTrips
  <1>1. RulingInv => TieNeverTrips
    BY DEF RulingInv
  <1>2. QED
    BY <1>1, RulingInvariance, PTL

\* Only a tie is decided by the declared side, and no score moves by more than the
\* delta (judge.py, _break_tie).
THEOREM TiesGoToDeclared == VerdictSpec => []TieGoesToDeclared
  <1>1. RulingInv => TieGoesToDeclared
    BY DEF RulingInv
  <1>2. QED
    BY <1>1, RulingInvariance, PTL

-----------------------------------------------------------------------------
\* The calls that the gate has let through and that are not recorded yet: each was let
\* through below the limit, beside no more of them than there are threads.
Asked  == IF call = "asked" THEN 1 ELSE 0
InRoom == spent + adrift + Asked <= MaxCalls + MaxStrays

\* No turn comes for free, nor will the one that is being made of a paid answer.
DoneIsPaid == running # None => done + (IF call = "paid" THEN 1 ELSE 0) <= paid

SittingInv == TypeOK /\ InRoom /\ DoneIsPaid /\ ResultIsComplete

\* A debate that may be run has at least one round.
LEMMA RunnableConfig ==
    ASSUME TypeOK
    PROVE  /\ WithOverrides.rounds \in Nat \ {0}
           /\ Steps(WithOverrides) \in Nat \ {0}
  <1>1. WithOverrides.rounds \in Nat \ {0}
    BY DefaultsAssumption DEF WithOverrides, TypeOK
  <1>2. QED
    BY <1>1 DEF Steps

LEMMA StepsOfRunning ==
    ASSUME TypeOK, running # None
    PROVE  Steps(running) \in Nat /\ done \in Nat
  BY DEF TypeOK, Steps

LEMMA InitSitting == Init => SittingInv
  BY BoundsAssumption DEF Init, SittingInv, TypeOK, InRoom, Asked, DoneIsPaid, ResultIsComplete

LEMMA NextSitting == SittingInv /\ [Next]_vars => SittingInv'
  <1> SUFFICES ASSUME SittingInv, [Next]_vars PROVE SittingInv'
    OBVIOUS
  <1> USE BoundsAssumption DEF SittingInv
  <1>1. CASE Open \/ OpenFails \/ Leave
    BY <1>1 DEF Open, OpenFails, Leave, AtMenu, menuVars, debateVars, strayVars,
                TypeOK, InRoom, Asked, DoneIsPaid, ResultIsComplete, Steps
  <1>2. ASSUME NEW t \in Topics \cup {None}, NEW r \in RoundInputs \cup {Junk, None},
               Configure(t, r)
        PROVE  SittingInv'
    <2>1. TypeOK'
      <3>1. topic' \in Topics \cup {None}
        BY <1>2 DEF Configure, TypeOK
      <3>2. GoodRounds(r) => r \in Nat \ {0}
        BY InputsAssumption DEF GoodRounds
      <3>3. rounds' = None \/ rounds' \in Nat \ {0}
        BY <1>2, <3>2 DEF Configure, TypeOK
      <3>4. QED
        BY <1>2, <3>1, <3>3 DEF Configure, processVars, debateVars, strayVars, TypeOK, Steps
    <2>2. QED
      BY <1>2, <2>1
      DEF Configure, processVars, debateVars, strayVars, InRoom, Asked, DoneIsPaid,
          ResultIsComplete, Steps
  <1>3. CASE Run
    <2>1. running' = WithOverrides /\ done' = 0 /\ paid' = 0 /\ runs' = runs + 1
          /\ UNCHANGED <<program, keyed, topic, rounds, spent, result, call, strays, adrift>>
          /\ runs < MaxRuns /\ program = "menu" /\ running = None
      BY <1>3 DEF Run, AtMenu, processVars, strayVars
    <2>2. running'.rounds \in Nat \ {0} /\ done' \in 0..(2 * running'.rounds + 1)
      BY <2>1, RunnableConfig
    <2>3. TypeOK'
      BY <2>1, <2>2 DEF TypeOK, Steps
    <2>4. InRoom' /\ DoneIsPaid' /\ ResultIsComplete'
      BY <2>1 DEF TypeOK, InRoom, Asked, DoneIsPaid, ResultIsComplete, Steps
    <2>5. QED
      BY <2>3, <2>4
  <1>4. CASE Ask \/ Record \/ Use \/ CallFails \/ Abandon
    <2>1. running # None /\ keyed /\ done < Steps(running) /\ Steps(running) \in Nat /\ done \in Nat
          /\ UNCHANGED <<program, keyed, topic, rounds, result, runs, running>>
      BY <1>4, StepsOfRunning
      DEF Ask, Record, Use, CallFails, Abandon, processVars, menuVars, TypeOK
    <2>2. /\ call' \in {"idle", "asked", "paid"} /\ done' \in 0..Steps(running)
          /\ call' # "idle" => done' < Steps(running)
          /\ strays' \in 0..MaxStrays /\ adrift' \in 0..strays'
          /\ InRoom'
      BY <1>4, <2>1
      DEF Ask, Record, Use, CallFails, Abandon, strayVars, TypeOK, InRoom, Asked
    <2>3. paid' \in 0..spent' /\ DoneIsPaid'
      BY <1>4, <2>1 DEF Ask, Record, Use, CallFails, Abandon, TypeOK, DoneIsPaid
    <2>4. spent' \in 0..(MaxCalls + MaxStrays)
      BY <1>4, <2>2 DEF Ask, Record, Use, CallFails, Abandon, TypeOK, InRoom, Asked
    <2>5. TypeOK'
      BY <2>1, <2>2, <2>3, <2>4 DEF TypeOK, Steps
    <2>6. ResultIsComplete'
      BY <2>1 DEF ResultIsComplete, Steps
    <2>7. QED
      BY <2>2, <2>3, <2>5, <2>6
  <1>5. CASE StrayAsks \/ StrayRecords \/ StrayFails \/ StrayEnds
    <2>1. UNCHANGED <<program, keyed, topic, rounds, result, runs, running, done, paid, call>>
      BY <1>5
      DEF StrayAsks, StrayRecords, StrayFails, StrayEnds, processVars, menuVars, debateVars
    <2>2. /\ strays' \in 0..MaxStrays /\ adrift' \in 0..strays'
          /\ spent' >= spent /\ spent' \in 0..(MaxCalls + MaxStrays)
          /\ InRoom'
      BY <1>5, <2>1 DEF StrayAsks, StrayRecords, StrayFails, StrayEnds, TypeOK, InRoom, Asked
    <2>3. TypeOK'
      BY <2>1, <2>2 DEF TypeOK, Steps
    <2>4. DoneIsPaid' /\ ResultIsComplete'
      BY <2>1 DEF DoneIsPaid, ResultIsComplete, Steps
    <2>5. QED
      BY <2>2, <2>3, <2>4
  <1>6. CASE Keyless \/ Fail
    BY <1>6
    DEF Keyless, Fail, processVars, menuVars, strayVars, TypeOK, InRoom, Asked,
        DoneIsPaid, ResultIsComplete, Steps
  <1>7. CASE Complete
    <2>1. TypeOK' /\ InRoom' /\ DoneIsPaid'
      BY <1>7 DEF Complete, processVars, strayVars, TypeOK, InRoom, Asked, DoneIsPaid
    <2>2. ResultIsComplete'
      <3>1. result' = [config |-> running, paid |-> paid] /\ done = Steps(running)
            /\ running # None
        BY <1>7 DEF Complete
      <3>2. paid >= Steps(running)
        BY <3>1, StepsOfRunning DEF DoneIsPaid, TypeOK
      <3>3. QED
        BY <3>1, <3>2 DEF ResultIsComplete, Steps
    <2>3. QED
      BY <2>1, <2>2
  <1>8. CASE UNCHANGED vars
    BY <1>8
    DEF vars, processVars, menuVars, debateVars, strayVars, TypeOK, InRoom, Asked,
        DoneIsPaid, ResultIsComplete, Steps
  <1>9. QED
    BY <1>1, <1>2, <1>3, <1>4, <1>5, <1>6, <1>7, <1>8 DEF Next

THEOREM SittingInvariance == Spec => []SittingInv
  BY InitSitting, NextSitting, PTL DEF Spec

\* The type invariant of Session: no debate is configured with less than one round,
\* and what is recorded passes the limit by the strays at most (actions.py, limiter.py).
THEOREM TypeCorrect == Spec => []TypeOK
  BY SittingInvariance, PTL DEF SittingInv

\* Whatever fails, a result is that of a debate that ran to its verdict with all of its
\* turns paid for (sdk.py, run_debate).
THEOREM ResultsAreComplete == Spec => []ResultIsComplete
  BY SittingInvariance, PTL DEF SittingInv

-----------------------------------------------------------------------------
\* One step with the budget spent.
LEMMA StaysExhausted ==
    ASSUME SittingInv, [Next]_vars, Exhausted
    PROVE  Exhausted' /\ result' = result
  <1> USE DEF SittingInv, Exhausted
  <1>1. CASE Run
    <2>1. /\ running' = WithOverrides /\ done' = 0 /\ call' = "idle"
          /\ spent' = spent /\ result' = result
      BY <1>1 DEF Run, AtMenu, TypeOK
    <2>2. done' < Steps(running')
      BY <2>1, RunnableConfig
    <2>3. QED
      BY <2>1, <2>2
  <1>2. CASE Ask \/ Record \/ Use \/ CallFails
    BY <1>2, BoundsAssumption DEF Ask, Record, Use, CallFails, TypeOK
  <1>3. CASE Abandon \/ StrayAsks \/ StrayRecords \/ StrayFails \/ StrayEnds
    BY <1>3, BoundsAssumption
    DEF Abandon, StrayAsks, StrayRecords, StrayFails, StrayEnds, menuVars, debateVars,
        TypeOK, Steps
  <1>4. CASE Complete
    BY <1>4, StepsOfRunning DEF Complete
  <1>5. CASE Keyless \/ Fail
    BY <1>5 DEF Keyless, Fail, menuVars
  <1>6. CASE Open \/ OpenFails \/ Leave
    BY <1>6 DEF Open, OpenFails, Leave, menuVars, debateVars, Steps
  <1>7. CASE \E t \in Topics \cup {None}, r \in RoundInputs \cup {Junk, None} : Configure(t, r)
    BY <1>7 DEF Configure, debateVars, Steps
  <1>8. CASE UNCHANGED vars
    BY <1>8 DEF vars, menuVars, debateVars, Steps
  <1>9. QED
    BY <1>1, <1>2, <1>3, <1>4, <1>5, <1>6, <1>7, <1>8 DEF Next

\* A spent budget stays spent: once the debate has no call left that passed the gate
\* before, neither it nor a later one of the sitting gets to a result, whatever the user
\* configures and however late abandoned threads are answered (limiter.py).
THEOREM ExhaustionIsFinal == Spec => ExhaustedForGood
  <1>1. SittingInv /\ [Next]_vars => [Exhausted => Exhausted' /\ result' = result]_vars
    BY StaysExhausted
  <1>2. QED
    BY <1>1, SittingInvariance, PTL DEF Spec, ExhaustedForGood
=============================================================================
