------------------------------ MODULE Verdict -------------------------------
(***************************************************************************)
(* JudgeAgent._parse_verdict on one reply of the judge's model, with the   *)
(* tie break in code and the validators of Scores and Verdict behind it.   *)
(* Scores are counted in tie-break deltas of half a point; a reply may     *)
(* leave the range 0..100 or hold NaN, which json.loads lets through.      *)
(***************************************************************************)
EXTENDS Integers

CONSTANTS
    Margin,   \* bound: how far outside the range a reply's scores may lie
    NoJSON,   \* a reply without a JSON object that holds numeric scores
    NoVerdict, \* no verdict yet
    Raised    \* the parser or a validator raised

ASSUME MarginAssumption == Margin \in Nat
ASSUME RaisedAssumption ==
    Raised \notin [winner : {"pro", "con"}, scores : [pro : Int, con : Int]]

Top == 200            \* 100 points
TieBreakDelta == 1    \* half a point
NaN == -1000

VARIABLES
    reply,    \* the scores and the winner the model declares
    verdict   \* what came of it

verdictVars == <<reply, verdict>>

Scores   == (0 - Margin)..(Top + Margin) \cup {NaN}
Declared == {"pro", "con", "other"}
Highlights == {"dropped", "lists", "prose"}   \* not an object; lists; other values
Replies  == [pro : Scores, con : Scores, declared : Declared, highlights : Highlights]

\* NaN is neither equal to nor above anything.
IsNaN(a) == a = NaN
Equal(a, b) == a = b /\ ~IsNaN(a)
Above(a, b) == a > b /\ ~IsNaN(a) /\ ~IsNaN(b)

VerdictInit == reply \in Replies \cup {NoJSON} /\ verdict = NoVerdict

\* Mutant: the declared side is raised whatever room there is.
BreakTieUpwards(r) ==
    IF ~Equal(r.pro, r.con) THEN [pro |-> r.pro, con |-> r.con]
    ELSE IF r.declared = "con"
      THEN [pro |-> r.pro, con |-> r.con + TieBreakDelta]
      ELSE [pro |-> r.pro + TieBreakDelta, con |-> r.con]

\* Mutant: with no room upwards the declared side loses the delta.
BreakTieLoser(r) ==
    LET favoured == IF r.declared = "con" THEN "con" ELSE "pro"
        scores   == [pro |-> r.pro, con |-> r.con]
    IN  IF ~Equal(r.pro, r.con) THEN scores
        ELSE IF scores[favoured] + TieBreakDelta <= Top
          THEN [scores EXCEPT ![favoured] = @ + TieBreakDelta]
          ELSE [scores EXCEPT ![favoured] = @ - TieBreakDelta]

\* _break_tie: nudge equal scores apart in favour of the declared side, upwards
\* if there is room.
BreakTie(r) ==
    LET favoured == IF r.declared = "con" THEN "con" ELSE "pro"
        other    == IF r.declared = "con" THEN "pro" ELSE "con"
        scores   == [pro |-> r.pro, con |-> r.con]
    IN  IF ~Equal(r.pro, r.con) THEN scores
        ELSE IF scores[favoured] + TieBreakDelta <= Top
          THEN [scores EXCEPT ![favoured] = @ + TieBreakDelta]
          ELSE [scores EXCEPT ![other] = @ - TieBreakDelta]

InRange(a) == ~IsNaN(a) /\ 0 <= a /\ a <= Top

\* The validators of Scores and Verdict.  Highlights that are no object are dropped
\* by the parser, but an object must hold lists of strings.
Valid(winner, s) ==
    /\ reply.highlights # "prose"
    /\ InRange(s.pro) /\ InRange(s.con)
    /\ ~Equal(s.pro, s.con)
    /\ winner = IF Above(s.pro, s.con) THEN "pro" ELSE "con"

Parse ==
    /\ verdict = NoVerdict
    /\ reply # NoJSON
    /\ LET s      == BreakTie(reply)
           winner == IF Above(s.pro, s.con) THEN "pro" ELSE "con"
       IN  verdict' = IF Valid(winner, s)
                        THEN [winner |-> winner, scores |-> s] ELSE Raised
    /\ UNCHANGED reply

Unparsable ==
    /\ verdict = NoVerdict
    /\ reply = NoJSON
    /\ verdict' = Raised
    /\ UNCHANGED reply

VerdictNext == Parse \/ Unparsable

VerdictSpec == VerdictInit /\ [][VerdictNext]_verdictVars

-----------------------------------------------------------------------------
Scored == reply # NoJSON /\ InRange(reply.pro) /\ InRange(reply.con)

\* "A tie is broken in code so the no-tie invariant can never trip" (judge.py:5-7):
\* the replies that raise are exactly those without two scores in range or with
\* misshapen highlights, tied or not.
TieNeverTrips ==
    verdict # NoVerdict => (verdict = Raised <=> ~Scored \/ reply.highlights = "prose")

\* The winner has the higher score of the reply; only a tie is decided by the
\* declared side, pro standing in for an unclear one (judge.py, _break_tie), and no
\* score moves by more than the delta.
TieGoesToDeclared ==
    verdict \notin {NoVerdict, Raised} =>
        /\ verdict.winner =
              CASE reply.pro > reply.con -> "pro"
                [] reply.con > reply.pro -> "con"
                [] OTHER -> IF reply.declared = "con" THEN "con" ELSE "pro"
        /\ (verdict.scores.pro - reply.pro) \in -TieBreakDelta..TieBreakDelta
        /\ (verdict.scores.con - reply.con) \in -TieBreakDelta..TieBreakDelta
=============================================================================
