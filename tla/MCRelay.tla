------------------------------ MODULE MCRelay ------------------------------
(* Relay on small instances.  The panels are interchangeable.              *)
EXTENDS Relay, TLC

ConnSymmetry == Permutations(Conns)
=============================================================================
