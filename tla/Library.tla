------------------------------ MODULE Library ------------------------------
(***************************************************************************)
(* What a user keeps: materials put into folders, and bookmarks of         *)
(* materials and folders.  Both tables are filled by a look-up and an      *)
(* insert with an await in between, and neither has a unique key.  Their   *)
(* rows go with the folder, material or user they refer to.                *)
(*                                                                         *)
(* The queries that list these rows are operators below: the properties    *)
(* say what they show.                                                     *)
(***************************************************************************)
EXTENDS Integers, FiniteSets

CONSTANTS
  Members,       \* users
  Shelves,       \* folder ids, never used twice
  ShelfOwner,    \* who creates each folder
  Items,         \* material ids
  Nil,           \* no material, no folder
  LibRequests,   \* requests that may be in flight at once
  MaxBookmarks   \* bound: bookmarks ever inserted

ASSUME LibraryAssumption ==
  /\ ShelfOwner \in [Shelves -> Members]
  /\ Nil \notin Shelves \union Items \union Members
  /\ Items \cap Shelves = {}
  /\ IsFiniteSet(Items)
  /\ MaxBookmarks \in Nat

VARIABLES
  shelf,       \* each folder's visibility, "unborn" before and "gone" after
  item,        \* the materials whose row is there
  content,     \* <<folder, material>> |-> number of folder_content rows
  bookmark,    \* rows of the bookmarks table
  nextId,      \* id of the next bookmark
  lib,         \* the requests in flight
  contentTwice,  \* history: <<folder, material>> looked up before another's insert,
                 \* until a removal of the pair leaves no such request
  bookmarkTwice  \* history: <<user, target>> looked up before another's insert

libVars == <<shelf, item, content, bookmark, nextId, lib, contentTwice, bookmarkTwice>>

\* who: the user, as far as the request needs to know after its look-ups.
LibRequest == [at : {"idle", "update", "remove", "look", "insert", "take",
                     "bookmarked", "shelved", "save", "drop"},
               who : Members \union {Nil}, f : Shelves \union {Nil},
               m : Items \union {Nil}, id : 0 .. MaxBookmarks]
LibIdle == [at |-> "idle", who |-> Nil, f |-> Nil, m |-> Nil, id |-> 0]

There(f) == shelf[f] \in {"public", "private"}

BookmarkRow == [id : 1 .. MaxBookmarks, user : Members,
                m : Items \union {Nil}, f : Shelves \union {Nil}]

LibTypeOK ==
  /\ shelf \in [Shelves -> {"unborn", "public", "private", "gone"}]
  /\ item \in SUBSET Items
  /\ content \in [Shelves \X Items -> Nat]
  /\ \A f \in Shelves, m \in Items : content[<<f, m>>] > 0 => There(f) /\ m \in item
  /\ bookmark \in SUBSET BookmarkRow
  /\ \A b \in bookmark : /\ b.m = Nil \/ b.m \in item
                         /\ b.f = Nil \/ There(b.f)
                         /\ b.m # Nil \/ b.f # Nil
                         /\ b.id < nextId
  /\ nextId \in 1 .. MaxBookmarks + 1
  /\ lib \in [LibRequests -> LibRequest]
  /\ contentTwice \in SUBSET (Shelves \X Items)
  /\ bookmarkTwice \in SUBSET (Members \X (Items \union Shelves))

LibInit ==
  /\ shelf = [f \in Shelves |-> "unborn"]
  /\ item = Items
  /\ content = [p \in Shelves \X Items |-> 0]
  /\ bookmark = {}
  /\ nextId = 1
  /\ lib = [r \in LibRequests |-> LibIdle]
  /\ contentTwice = {}
  /\ bookmarkTwice = {}

LibGoto(r, at) == lib' = [lib EXCEPT ![r].at = at]
LibEnd(r) == lib' = [lib EXCEPT ![r] = LibIdle]
LibStart(r, at, u, f, m) ==
  /\ lib[r] = LibIdle
  /\ lib' = [lib EXCEPT ![r] = [LibIdle EXCEPT !.at = at, !.who = u, !.f = f, !.m = m]]

-----------------------------------------------------------------------------
(* Folders *)

CreateFolder(f, visibility) ==
  /\ shelf[f] = "unborn"
  /\ shelf' = [shelf EXCEPT ![f] = visibility]
  /\ UNCHANGED <<item, content, bookmark, nextId, lib, contentTwice, bookmarkTwice>>

\* update, remove and removeMaterialFromFolder first read the folder, and let its owner pass.
OwnerReads(r, f, m, at) ==
  /\ There(f)
  /\ LibStart(r, at, Nil, f, m)
  /\ UNCHANGED <<shelf, item, content, bookmark, nextId, contentTwice, bookmarkTwice>>

UpdateFolder(r, visibility) ==
  /\ lib[r].at = "update"
  /\ LET f == lib[r].f
     IN shelf' = IF There(f) THEN [shelf EXCEPT ![f] = visibility] ELSE shelf
  /\ LibEnd(r)
  /\ UNCHANGED <<item, content, bookmark, nextId, contentTwice, bookmarkTwice>>

\* The rows that refer to a folder go with it.
RemoveFolder(r) ==
  /\ lib[r].at = "remove"
  /\ LET f == lib[r].f
     IN /\ shelf' = [shelf EXCEPT ![f] = "gone"]
        /\ content' = [p \in Shelves \X Items |-> IF p[1] = f THEN 0 ELSE content[p]]
        /\ bookmark' = {b \in bookmark : b.f # f}
  /\ LibEnd(r)
  /\ UNCHANGED <<item, nextId, contentTwice, bookmarkTwice>>

-----------------------------------------------------------------------------
(* Materials in folders *)

\* Anybody may add to a public folder.
AddMaterialToFolder(r, u, f, m) ==
  /\ There(f)
  /\ ShelfOwner[f] = u \/ shelf[f] = "public"
  /\ LibStart(r, "look", Nil, f, m)
  /\ UNCHANGED <<shelf, item, content, bookmark, nextId, contentTwice, bookmarkTwice>>

\* Requests that are about to insert the same pair.
AboutToInsert(r) == {s \in LibRequests \ {r} : /\ lib[s].at = "insert"
                                              /\ lib[s].f = lib[r].f
                                              /\ lib[s].m = lib[r].m}

\* Mutant: what the look-up finds is not acted upon.
FindContentByMaterialIgnored(r) ==
  /\ lib[r].at = "look"
  /\ LibGoto(r, "insert")
  /\ contentTwice' = IF AboutToInsert(r) = {} THEN contentTwice
                     ELSE contentTwice \union {<<lib[r].f, lib[r].m>>}
  /\ UNCHANGED <<shelf, item, content, bookmark, nextId, bookmarkTwice>>

FindContentByMaterial(r) ==
  /\ lib[r].at = "look"
  /\ IF content[<<lib[r].f, lib[r].m>>] > 0 THEN LibEnd(r) ELSE LibGoto(r, "insert")
  /\ contentTwice' = IF AboutToInsert(r) = {} THEN contentTwice
                     ELSE contentTwice \union {<<lib[r].f, lib[r].m>>}
  /\ UNCHANGED <<shelf, item, content, bookmark, nextId, bookmarkTwice>>

\* A folder or material that has gone meanwhile is a foreign key error.
AddMaterial(r) ==
  /\ lib[r].at = "insert"
  /\ content' = IF There(lib[r].f) /\ lib[r].m \in item
                THEN [content EXCEPT ![<<lib[r].f, lib[r].m>>] = @ + 1]
                ELSE content
  /\ LibEnd(r)
  /\ UNCHANGED <<shelf, item, bookmark, nextId, contentTwice, bookmarkTwice>>

\* The DELETE takes all rows of the pair, those of two additions too.
RemoveMaterial(r) ==
  /\ lib[r].at = "take"
  /\ content' = [content EXCEPT ![<<lib[r].f, lib[r].m>>] = 0]
  /\ contentTwice' = IF AboutToInsert(r) = {}
                     THEN contentTwice \ {<<lib[r].f, lib[r].m>>}
                     ELSE contentTwice
  /\ LibEnd(r)
  /\ UNCHANGED <<shelf, item, bookmark, nextId, bookmarkTwice>>

\* Mutant: bookmarks of a deleted material stay.
DeleteItemAlone(m) ==
  /\ m \in item
  /\ item' = item \ {m}
  /\ content' = [p \in Shelves \X Items |-> IF p[2] = m THEN 0 ELSE content[p]]
  /\ UNCHANGED <<shelf, bookmark, nextId, lib, contentTwice, bookmarkTwice>>

\* The rows that refer to a material go with it.
DeleteItem(m) ==
  /\ m \in item
  /\ item' = item \ {m}
  /\ content' = [p \in Shelves \X Items |-> IF p[2] = m THEN 0 ELSE content[p]]
  /\ bookmark' = {b \in bookmark : b.m # m}
  /\ UNCHANGED <<shelf, nextId, lib, contentTwice, bookmarkTwice>>

-----------------------------------------------------------------------------
(* Bookmarks *)

BookmarksOf(u) == {b \in bookmark : b.user = u}

\* One request may name a material, a folder or both.
AddBookmark(r, u, m, f) ==
  /\ m # Nil \/ f # Nil
  /\ LibStart(r, IF m # Nil THEN "bookmarked" ELSE "shelved", u, f, m)
  /\ UNCHANGED <<shelf, item, content, bookmark, nextId, contentTwice, bookmarkTwice>>

\* Requests of the user of r that are past the look-up r is about to make.
Ahead(r, past, m, f) ==
  {s \in LibRequests \ {r} : /\ lib[s].at \in past
                             /\ lib[s].who = lib[r].who
                             /\ \/ m # Nil /\ lib[s].m = m
                                \/ f # Nil /\ lib[s].f = f}

FindBookmarkByMaterial(r) ==
  /\ lib[r].at = "bookmarked"
  /\ IF \E b \in BookmarksOf(lib[r].who) : b.m = lib[r].m
     THEN LibEnd(r)
     ELSE LibGoto(r, IF lib[r].f # Nil THEN "shelved" ELSE "save")
  /\ bookmarkTwice' = IF Ahead(r, {"shelved", "save"}, lib[r].m, Nil) = {}
                      THEN bookmarkTwice
                      ELSE bookmarkTwice \union {<<lib[r].who, lib[r].m>>}
  /\ UNCHANGED <<shelf, item, content, bookmark, nextId, contentTwice>>

\* Mutant: a request that names a material skips the look-up of its folder.
FindBookmarkByFolderAlone(r) ==
  /\ lib[r].at = "shelved"
  /\ IF lib[r].m = Nil /\ \E b \in BookmarksOf(lib[r].who) : b.f = lib[r].f
     THEN LibEnd(r)
     ELSE LibGoto(r, "save")
  /\ bookmarkTwice' = IF Ahead(r, {"save"}, Nil, lib[r].f) = {}
                      THEN bookmarkTwice
                      ELSE bookmarkTwice \union {<<lib[r].who, lib[r].f>>}
  /\ UNCHANGED <<shelf, item, content, bookmark, nextId, contentTwice>>

FindBookmarkByFolder(r) ==
  /\ lib[r].at = "shelved"
  /\ IF \E b \in BookmarksOf(lib[r].who) : b.f = lib[r].f
     THEN LibEnd(r)
     ELSE LibGoto(r, "save")
  /\ bookmarkTwice' = IF Ahead(r, {"save"}, Nil, lib[r].f) = {}
                      THEN bookmarkTwice
                      ELSE bookmarkTwice \union {<<lib[r].who, lib[r].f>>}
  /\ UNCHANGED <<shelf, item, content, bookmark, nextId, contentTwice>>

SaveBookmark(r) ==
  /\ lib[r].at = "save"
  /\ nextId <= MaxBookmarks
  /\ LET m == lib[r].m
         f == lib[r].f
     IN IF (m = Nil \/ m \in item) /\ (f = Nil \/ There(f))
        THEN /\ bookmark' = bookmark \union {[id |-> nextId, user |-> lib[r].who, m |-> m, f |-> f]}
             /\ nextId' = nextId + 1
        ELSE UNCHANGED <<bookmark, nextId>>
  /\ LibEnd(r)
  /\ UNCHANGED <<shelf, item, content, contentTwice, bookmarkTwice>>

\* Only its owner gets past the look-up.
FindBookmarkById(r, b) ==
  /\ lib[r] = LibIdle
  /\ b \in bookmark
  /\ lib' = [lib EXCEPT ![r] = [LibIdle EXCEPT !.at = "drop", !.id = b.id]]
  /\ UNCHANGED <<shelf, item, content, bookmark, nextId, contentTwice, bookmarkTwice>>

RemoveBookmark(r) ==
  /\ lib[r].at = "drop"
  /\ bookmark' = {b \in bookmark : b.id # lib[r].id}
  /\ LibEnd(r)
  /\ UNCHANGED <<shelf, item, content, nextId, contentTwice, bookmarkTwice>>

-----------------------------------------------------------------------------

LibNext ==
  \/ \E f \in Shelves, v \in {"public", "private"} : CreateFolder(f, v)
  \/ \E m \in Items : DeleteItem(m)
  \/ \E r \in LibRequests :
       \/ \E f \in Shelves : OwnerReads(r, f, Nil, "update") \/ OwnerReads(r, f, Nil, "remove")
       \/ \E f \in Shelves, m \in Items : OwnerReads(r, f, m, "take")
       \/ \E v \in {"public", "private"} : UpdateFolder(r, v)
       \/ RemoveFolder(r)
       \/ \E u \in Members, f \in Shelves, m \in Items : AddMaterialToFolder(r, u, f, m)
       \/ FindContentByMaterial(r)
       \/ AddMaterial(r)
       \/ RemoveMaterial(r)
       \/ \E u \in Members, m \in Items \union {Nil}, f \in Shelves \union {Nil} :
            AddBookmark(r, u, m, f)
       \/ FindBookmarkByMaterial(r)
       \/ FindBookmarkByFolder(r)
       \/ SaveBookmark(r)
       \/ \E b \in bookmark : FindBookmarkById(r, b)
       \/ RemoveBookmark(r)

LibSpec == LibInit /\ [][LibNext]_libVars

-----------------------------------------------------------------------------
(* Queries *)

\* What opening the folder lists, one entry per row with a material; the number on its
\* card, in a list of folders and in its statistics is a COUNT of the same rows.
Opened(f) == UNION {{<<m, n>> : n \in 1 .. content[<<f, m>>]} : m \in Items}

\* What the user's list of bookmarks shows of a material or folder.
Bookmarked(u, target) == {b \in BookmarksOf(u) : b.m = target \/ b.f = target}

-----------------------------------------------------------------------------
(* Properties *)

\* A folder lists a material once, and counts it once on its card, unless two additions of
\* it overlapped between look-up and insert and it has not been removed since: a removal
\* that no other addition overlaps takes every row, so that adding it again lists it once.
ListedOnce ==
  \A f \in Shelves, m \in Items :
    <<f, m>> \notin contentTwice => Cardinality({e \in Opened(f) : e[1] = m}) <= 1

\* Unless two requests of a user for one target overlapped, the user has at most one
\* bookmark of it, so that removing it really removes it, even when
\* a request names a material and a folder at once.
OneBookmark ==
  \A u \in Members, target \in Items \union Shelves :
    <<u, target>> \notin bookmarkTwice => Cardinality(Bookmarked(u, target)) <= 1
=============================================================================
