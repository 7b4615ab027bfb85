--------------------------- MODULE FolderNesting ---------------------------
(***************************************************************************)
(* Folders inside folders: FolderService.addNestedFolder with its check    *)
(* against circular nesting, removeNestedFolder and the removal of folders *)
(* with the cascade on folder_content.                                     *)
(*                                                                         *)
(* The check walks down from the child with one query per folder and       *)
(* awaits in between, so the tree may change under the walk.  A pair that  *)
(* is nested twice is read as one and removed as one: the rows are a set.  *)
(***************************************************************************)
EXTENDS FiniteSets

CONSTANTS
  Folders,       \* folder ids (random UUIDs: never used twice)
  None,          \* no folder
  NestRequests,  \* addNestedFolder requests in flight at once
  SelfNesting    \* whether a client asks to nest a folder in itself

ASSUME NestingAssumption == None \notin Folders /\ SelfNesting \in BOOLEAN

VARIABLES
  folder,    \* the state of each folder id
  nested,    \* <<parent, child>> pairs in folder_content
  nestReq,   \* the addNestedFolder requests
  overlap    \* history: a pair was stored while another check was walking

nestVars == <<folder, nested, nestReq, overlap>>

NestRequest == [pc : {"idle", "walk"}, parent : Folders \union {None},
                child : Folders \union {None},
                todo : SUBSET Folders,    \* folders still to be queried
                seen : SUBSET Folders]    \* nested folders found so far
NestIdle == [pc |-> "idle", parent |-> None, child |-> None, todo |-> {}, seen |-> {}]

NestTypeOK ==
  /\ folder \in [Folders -> {"unborn", "there", "deleted"}]
  /\ nested \in SUBSET {pair \in Folders \X Folders :
                          folder[pair[1]] = "there" /\ folder[pair[2]] = "there"}
  /\ nestReq \in [NestRequests -> NestRequest]
  /\ \A r \in NestRequests :
       nestReq[r].pc = "walk" => nestReq[r].parent \in Folders /\ nestReq[r].child \in Folders
  /\ overlap \in BOOLEAN

NestInit ==
  /\ folder = [f \in Folders |-> "unborn"]
  /\ nested = {}
  /\ nestReq = [r \in NestRequests |-> NestIdle]
  /\ overlap = FALSE

Children(f) == {g \in Folders : <<f, g>> \in nested}

-----------------------------------------------------------------------------

Create(f) ==
  /\ folder[f] = "unborn"
  /\ folder' = [folder EXCEPT ![f] = "there"]
  /\ UNCHANGED <<nested, nestReq, overlap>>

\* Mutant: the rows in which the folder is the content stay.
Survivors(f) == {pair \in nested : pair[1] # f}

\* ON DELETE CASCADE on folder_id and on content_folder_id.
Kept(f) == {pair \in nested : pair[1] # f /\ pair[2] # f}

Remove(f) ==
  /\ folder[f] = "there"
  /\ folder' = [folder EXCEPT ![f] = "deleted"]
  /\ nested' = Kept(f)
  /\ UNCHANGED <<nestReq, overlap>>

\* removeNestedFolder.
Unnest(p, c) ==
  /\ <<p, c>> \in nested
  /\ nested' = nested \ {<<p, c>>}
  /\ UNCHANGED <<folder, nestReq, overlap>>

\* addNestedFolder: both folders are there, and the walk begins at the child.
Nest(r, p, c) ==
  /\ nestReq[r].pc = "idle"
  /\ folder[p] = "there" /\ folder[c] = "there"
  /\ p # c \/ SelfNesting
  /\ nestReq' = [nestReq EXCEPT ![r] =
       [pc |-> "walk", parent |-> p, child |-> c, todo |-> {c}, seen |-> {}]]
  /\ UNCHANGED <<folder, nested, overlap>>

\* getAllNestedFolders(f): the nested folders, and a call for each of them.
Visit(r, f) ==
  /\ nestReq[r].pc = "walk"
  /\ f \in nestReq[r].todo
  /\ nestReq' = [nestReq EXCEPT ![r].todo = (@ \ {f}) \union Children(f),
                        ![r].seen = @ \union Children(f)]
  /\ UNCHANGED <<folder, nested, overlap>>

\* Mutant: only the child's own content is looked at.
CircularOneLevel(r) == nestReq[r].parent \in Children(nestReq[r].child)

\* validateNoCircularNesting.
Circular(r) == nestReq[r].parent \in nestReq[r].seen

\* The walk is over: the pair is stored, unless the check or a foreign key
\* refuses it.
Store(r) ==
  /\ nestReq[r].pc = "walk"
  /\ nestReq[r].todo = {}
  /\ IF /\ ~Circular(r)
        /\ folder[nestReq[r].parent] = "there" /\ folder[nestReq[r].child] = "there"
     THEN /\ nested' = nested \union {<<nestReq[r].parent, nestReq[r].child>>}
          /\ overlap' = (overlap \/ \E s \in NestRequests \ {r} : nestReq[s].pc = "walk")
     ELSE UNCHANGED <<nested, overlap>>
  /\ nestReq' = [nestReq EXCEPT ![r] = NestIdle]
  /\ UNCHANGED folder

\* A query fails or the process dies.
NestAbort(r) ==
  /\ nestReq[r].pc = "walk"
  /\ nestReq' = [nestReq EXCEPT ![r] = NestIdle]
  /\ UNCHANGED <<folder, nested, overlap>>

-----------------------------------------------------------------------------

Step(r) == Store(r) \/ \E f \in Folders : Visit(r, f)

NestNext ==
  \/ \E f \in Folders : Create(f) \/ Remove(f)
  \/ \E p, c \in Folders : Unnest(p, c) \/ \E r \in NestRequests : Nest(r, p, c)
  \/ \E r \in NestRequests : Step(r) \/ NestAbort(r)

NestSpec == NestInit /\ [][NestNext]_nestVars

-----------------------------------------------------------------------------
(* Properties *)

\* Every set of folders has one that contains none of the others nor itself:
\* no folder is nested, at any depth, in itself.
NoCircularNesting ==
  \A S \in SUBSET Folders : S # {} => \E f \in S : Children(f) \intersect S = {}

\* While no pair is stored during another request's walk, the check keeps the
\* folders free of cycles, although others may be removed and taken out of
\* their folders during the walk.
NoCycleWithoutOverlap == ~SelfNesting /\ ~overlap => NoCircularNesting
=============================================================================
