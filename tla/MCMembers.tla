------------------------------ MODULE MCMembers ------------------------------
(***************************************************************************)
(* What is a user's own, for TLC: account, reset links, application as a   *)
(* moderator, folders and bookmarks, recent views, points, and the rate    *)
(* limit of the address they come from.  The parts share no state, so that *)
(* a step of one commutes with the steps of the others, and each behaviour *)
(* lets one part act.                                                      *)
(***************************************************************************)
EXTENDS Accounts, PasswordReset, Moderators, Library, RecentViews, Points, RateLimit, TLC

CONSTANTS u1, f1, v1, v2

VARIABLE part   \* the part that acts

\* One user keeps folders and bookmarks: every query filters by the user.
FirstOwns == f1 :> u1
\* The second view is of a batch of two.
OneAndTwo == v1 :> 1 @@ v2 :> 2
FewRequests == [auth |-> 1, burst |-> 2]

MembersInit ==
  /\ part \in {"accounts", "reset", "moderators", "library", "views", "points", "limit"}
  /\ SignupInit /\ ResetInit /\ ModInit /\ LibInit /\ ViewsInit /\ PointsInit /\ LimitInit
  /\ part # "reset" => password = CHOOSE p \in NewPasswords : TRUE

\* The parts that do not act keep their state.
Others(acting) ==
  /\ IF acting = "accounts"   THEN TRUE ELSE UNCHANGED accountVars
  /\ IF acting = "reset"      THEN TRUE ELSE UNCHANGED resetVars
  /\ IF acting = "moderators" THEN TRUE ELSE UNCHANGED modVars
  /\ IF acting = "library"    THEN TRUE ELSE UNCHANGED libVars
  /\ IF acting = "views"      THEN TRUE ELSE UNCHANGED viewVars
  /\ IF acting = "points"     THEN TRUE ELSE UNCHANGED payVars
  /\ IF acting = "limit"      THEN TRUE ELSE UNCHANGED limitVars

MembersNext ==
  /\ \/ part = "accounts"   /\ SignupNext
     \/ part = "reset"      /\ ResetNext
     \/ part = "moderators" /\ ModNext
     \/ part = "library"    /\ LibNext
     \/ part = "views"      /\ ViewsNext
     \/ part = "points"     /\ PointsNext
     \/ part = "limit"      /\ LimitNext
  /\ Others(part)
  /\ UNCHANGED part

MembersSpec ==
  MembersInit /\ [][MembersNext]_<<part, accountVars, resetVars, modVars, libVars, viewVars, payVars, limitVars>>

\* The part that acts keeps its types: the others stay as they began.
MembersTypeOK ==
  CASE part = "accounts"   -> AccountsTypeOK
    [] part = "reset"      -> ResetTypeOK
    [] part = "moderators" -> ModTypeOK
    [] part = "library"    -> LibTypeOK
    [] part = "views"      -> ViewsTypeOK
    [] part = "points"     -> PointsTypeOK
    [] part = "limit"      -> LimitTypeOK

\* The requests of every part but the views are named alike.
MembersSymmetry == Permutations(Requests) \union Permutations(Emails)
=============================================================================
