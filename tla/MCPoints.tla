------------------------------ MODULE MCPoints ------------------------------
(* An instance of Points for TLC. *)
EXTENDS Points, TLC

PointsSymmetry == Permutations(PayRequests)
=============================================================================
