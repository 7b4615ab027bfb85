------------------------------ MODULE MCMedia ------------------------------
(* An instance of Media for TLC. *)
EXTENDS Media, TLC

MediaSymmetry == Permutations(MediaRequests) \union Permutations(Pictures)
=============================================================================
