------------------------------- MODULE Likes -------------------------------
(***************************************************************************)
(* The like button of a material or of a blog: likeMaterial and likeBlog   *)
(* toggle the user's row in the likes table and then move the counter in   *)
(* the material's (blog's) row.  The lookup, the row and the counter are   *)
(* separate awaits outside a transaction.  (entity, user) is the primary   *)
(* key of the likes table, and its rows go with the entity.                *)
(***************************************************************************)
EXTENDS Integers, FiniteSets

CONSTANTS
  Users,
  LikeRequests,  \* toggles that may be in flight at once
  Sender,        \* who sends each of them: a double click is two of one user
  MaxCount,      \* bound: the counter is checked between -MaxCount and MaxCount
  MaxLikeFaults  \* bound: toggles that are cut short

ASSUME LikesAssumption ==
  /\ IsFiniteSet(Users) /\ IsFiniteSet(LikeRequests)
  /\ Sender \in [LikeRequests -> Users]
  /\ MaxCount \in Nat
  /\ MaxLikeFaults \in Nat

VARIABLES
  exists,      \* the entity's row is there
  liked,       \* the users with a row in the likes table
  likes,       \* the counter in the entity's row
  pc,          \* where each toggle is
  likeFaults,  \* toggles cut short so far
  doubled      \* history: two toggles of one user were in flight together

likeVars == <<exists, liked, likes, pc, likeFaults, doubled>>

LikeTypeOK ==
  /\ exists \in BOOLEAN
  /\ liked \in SUBSET (IF exists THEN Users ELSE {})
  /\ likes \in Int
  /\ pc \in [LikeRequests -> {"idle", "add", "increment", "remove", "decrement"}]
  /\ likeFaults \in 0 .. MaxLikeFaults
  /\ doubled \in BOOLEAN

LikeInit ==
  /\ exists = TRUE
  /\ liked = {}
  /\ likes = 0
  /\ pc = [r \in LikeRequests |-> "idle"]
  /\ likeFaults = 0
  /\ doubled = FALSE

LikeGoto(r, label) == pc' = [pc EXCEPT ![r] = label]

-----------------------------------------------------------------------------

\* findOne and hasUserLiked decide which way the toggle goes.
Toggle(r) ==
  /\ pc[r] = "idle"
  /\ exists
  /\ LikeGoto(r, IF Sender[r] \in liked THEN "remove" ELSE "add")
  /\ doubled' = (doubled \/ \E s \in LikeRequests \ {r} : pc[s] # "idle" /\ Sender[s] = Sender[r])
  /\ UNCHANGED <<exists, liked, likes, likeFaults>>

\* Mutant: INSERT ... ON CONFLICT DO NOTHING.
AddUserLikeQuietly(r) ==
  /\ pc[r] = "add"
  /\ liked' = IF exists THEN liked \union {Sender[r]} ELSE liked
  /\ LikeGoto(r, IF exists THEN "increment" ELSE "idle")
  /\ UNCHANGED <<exists, likes, likeFaults, doubled>>

\* A second row of the user, or a row of a deleted entity, is an error.
AddUserLike(r) ==
  /\ pc[r] = "add"
  /\ IF exists /\ Sender[r] \notin liked
     THEN liked' = liked \union {Sender[r]} /\ LikeGoto(r, "increment")
     ELSE UNCHANGED liked /\ LikeGoto(r, "idle")
  /\ UNCHANGED <<exists, likes, likeFaults, doubled>>

\* Mutant: the counter is left alone.
IncrementNothing(r) ==
  /\ pc[r] = "increment"
  /\ LikeGoto(r, "idle")
  /\ UNCHANGED <<exists, liked, likes, likeFaults, doubled>>

IncrementLikes(r) ==
  /\ pc[r] = "increment"
  /\ likes < MaxCount
  /\ likes' = IF exists THEN likes + 1 ELSE likes
  /\ LikeGoto(r, "idle")
  /\ UNCHANGED <<exists, liked, likeFaults, doubled>>

\* The DELETE succeeds whether or not there was a row.
RemoveUserLike(r) ==
  /\ pc[r] = "remove"
  /\ liked' = liked \ {Sender[r]}
  /\ LikeGoto(r, "decrement")
  /\ UNCHANGED <<exists, likes, likeFaults, doubled>>

DecrementLikes(r) ==
  /\ pc[r] = "decrement"
  /\ likes > -MaxCount
  /\ likes' = IF exists THEN likes - 1 ELSE likes
  /\ LikeGoto(r, "idle")
  /\ UNCHANGED <<exists, liked, likeFaults, doubled>>

\* The entity is deleted, and its like rows with it.
RemoveEntity ==
  /\ exists
  /\ exists' = FALSE
  /\ liked' = {}
  /\ UNCHANGED <<likes, pc, likeFaults, doubled>>

\* A step throws or the process dies.
LikeAbort(r) ==
  /\ pc[r] # "idle"
  /\ likeFaults < MaxLikeFaults
  /\ likeFaults' = likeFaults + 1
  /\ LikeGoto(r, "idle")
  /\ UNCHANGED <<exists, liked, likes, doubled>>

-----------------------------------------------------------------------------

LikeNext ==
  \/ \E r \in LikeRequests :
       \/ Toggle(r)
       \/ AddUserLike(r)
       \/ IncrementLikes(r)
       \/ RemoveUserLike(r)
       \/ DecrementLikes(r)
       \/ LikeAbort(r)
  \/ RemoveEntity

LikeSpec == LikeInit /\ [][LikeNext]_likeVars

-----------------------------------------------------------------------------
(* Properties *)

LikesAt(label) == {r \in LikeRequests : pc[r] = label}

\* The counter the rows and the toggles under way add up to.
Due == Cardinality(liked) - Cardinality(LikesAt("increment")) + Cardinality(LikesAt("decrement"))

\* Unless two toggles of one user overlap or one is cut short, the counter is
\* the number of rows, give or take the toggles between their two writes:
\* however many users toggle at once.
CounterMatchesRows == ~doubled /\ likeFaults = 0 /\ exists => likes = Due

\* Whatever a user double-clicks, the counter never shows more likes than
\* there are: two overlapping unlikes take away twice, two overlapping likes
\* never add twice.
NeverOvercounted == likeFaults = 0 /\ exists => likes <= Due
=============================================================================
