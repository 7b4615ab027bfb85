-------------------------- MODULE MCPasswordReset --------------------------
(* Instances of PasswordReset for TLC. *)
EXTENDS PasswordReset, TLC

ResetSymmetry == Permutations(Tokens) \union Permutations(ResetRequests)
=============================================================================
