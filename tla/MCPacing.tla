------------------------------ MODULE MCPacing ------------------------------
(***************************************************************************)
(* Pacing at the values of config.yaml, in units of ten seconds.           *)
(***************************************************************************)
EXTENDS Pacing

\* The values of config.yaml meet the conditions under which the two promises of its
\* comments are proved.
ASSUME HeadroomOfConfig == RateHeadroom /\ OutageHeadroom
=============================================================================
