--------------------------- MODULE MCSubmissions ---------------------------
(***************************************************************************)
(* What users put up, for TLC: the files of materials, the folders that    *)
(* materials are put into, clubs, the pictures of clubs, adverts, blogs    *)
(* and profiles, and likes.  The parts share no state, so that a step of   *)
(* one commutes with the steps of the others, and each behaviour lets one  *)
(* part act.                                                               *)
(***************************************************************************)
EXTENDS MaterialFiles, FolderNesting, Clubs, Media, Likes, TLC

CONSTANTS j1, j2, r1, r2, r3

VARIABLE part   \* the part that acts

\* The first user double-clicks.
DoubleClick == r1 :> j1 @@ r2 :> j1 @@ r3 :> j2

SubmissionsInit ==
  /\ part \in {"files", "folders", "clubs", "pictures", "likes"}
  /\ Init /\ NestInit /\ ClubInit /\ MediaInit /\ LikeInit
  /\ part # "pictures" => owner = "club"

\* The parts that do not act keep their state.
Rest(acting) ==
  /\ IF acting = "files"    THEN TRUE ELSE UNCHANGED vars
  /\ IF acting = "folders"  THEN TRUE ELSE UNCHANGED nestVars
  /\ IF acting = "clubs"    THEN TRUE ELSE UNCHANGED clubVars
  /\ IF acting = "pictures" THEN TRUE ELSE UNCHANGED mediaVars
  /\ IF acting = "likes"    THEN TRUE ELSE UNCHANGED likeVars

SubmissionsNext ==
  /\ \/ part = "files"    /\ Next
     \/ part = "folders"  /\ NestNext
     \/ part = "clubs"    /\ ClubNext
     \/ part = "pictures" /\ MediaNext
     \/ part = "likes"    /\ LikeNext
  /\ Rest(part)
  /\ UNCHANGED part

SubmissionsSpec ==
  SubmissionsInit /\ [][SubmissionsNext]_<<part, vars, nestVars, clubVars, mediaVars, likeVars>>

\* The part that acts keeps its types: the others stay as they began.
SubmissionsTypeOK ==
  CASE part = "files"    -> TypeOK
    [] part = "folders"  -> NestTypeOK
    [] part = "clubs"    -> ClubTypeOK
    [] part = "pictures" -> MediaTypeOK
    [] part = "likes"    -> LikeTypeOK

\* Requests are interchangeable, and so are pictures, files and the ids of folders, which
\* are named alike: the first two toggles are of one user.
SubmissionsSymmetry == Permutations(ClubRequests) \union Permutations(Pictures)
=============================================================================
