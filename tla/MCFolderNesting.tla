-------------------------- MODULE MCFolderNesting --------------------------
(* Instances of FolderNesting for TLC. *)
EXTENDS FolderNesting, TLC

NestingSymmetry == Permutations(Folders) \union Permutations(NestRequests)
=============================================================================
