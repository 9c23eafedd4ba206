---------------------------- MODULE MCResilience ----------------------------
(***************************************************************************)
(* Values for model checking Resilience: an estimate may fall short of the *)
(* actual usage, as characters divided by four do.                         *)
(***************************************************************************)
EXTENDS Resilience

One(input, output) == [calls |-> 1, input |-> input, output |-> output]

MixedEstimates == {One(0, 1), One(1, 1)}
MixedActuals   == {One(1, 0), One(2, 1)}
=============================================================================
