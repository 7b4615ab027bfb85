---------------------------- MODULE RecentViews ----------------------------
(***************************************************************************)
(* The materials a user viewed last.  Every view trims the list to make    *)
(* room and then writes its row; a batch of views deletes its rows and     *)
(* inserts them again.  Nobody waits for either, and count, choice of the  *)
(* rows to keep, deletion and write are separate statements.               *)
(***************************************************************************)
EXTENDS Integers, SequencesExt

CONSTANTS
  Viewables,      \* material ids
  Limit,          \* MAX_RECENT_ENTRIES_PER_USER
  ViewRequests,   \* views of the user that may be tracked at once
  Size            \* how many materials each of them names at most

ASSUME RecentViewsAssumption ==
  /\ IsFiniteSet(Viewables) /\ Limit \in Nat \ {0}
  /\ IsFiniteSet(ViewRequests) /\ Size \in [ViewRequests -> Nat \ {0}]

VARIABLES
  recents,   \* the user's rows by last_viewed_at, the latest first
  view,      \* the views being tracked
  shown,     \* history: all views written, the latest first, until two are tracked at once
  crossed    \* history: two views were tracked at once

viewVars == <<recents, view, shown, crossed>>

View == [at : {"idle", "count", "choose", "trim", "upsert", "clear", "insert"},
         ids : SUBSET Viewables, batch : BOOLEAN, keep : SUBSET Viewables]
NoView == [at |-> "idle", ids |-> {}, batch |-> FALSE, keep |-> {}]

\* (user, material) is unique: a material is listed once.
ViewsTypeOK ==
  /\ recents \in Seq(Viewables) /\ IsInjective(recents)
  /\ view \in [ViewRequests -> View]
  /\ shown \in Seq(Viewables) /\ IsInjective(shown)
  /\ crossed \in BOOLEAN

ViewsInit ==
  /\ recents = <<>>
  /\ view = [r \in ViewRequests |-> NoView]
  /\ shown = <<>>
  /\ crossed = FALSE

\* What is left of a list, in its order, without the rows of S.
Rank(I, i) == Cardinality({k \in I : k <= i})
Nth(I, j) == CHOOSE i \in I : Rank(I, i) = j
Left(s, S) == {i \in DOMAIN s : s[i] \notin S}
Without(s, S) == [j \in 1 .. Cardinality(Left(s, S)) |-> s[Nth(Left(s, S), j)]]
OnTop(s, t) == s \o Without(t, ToSet(s))

Shown(new) == IF crossed THEN shown ELSE OnTop(new, shown)

ViewGoto(r, at) == view' = [view EXCEPT ![r].at = at]
ViewDone(r) == view' = [view EXCEPT ![r] = NoView]

-----------------------------------------------------------------------------

\* trackRecentView (one material) or batchTrackRecentViews (several).
TrackViews(r, ids, batch) ==
  /\ view[r] = NoView
  /\ ids # {} /\ Cardinality(ids) <= Size[r]
  /\ batch \/ Cardinality(ids) = 1
  /\ view' = [view EXCEPT ![r] = [at |-> "count", ids |-> ids, batch |-> batch, keep |-> {}]]
  /\ crossed' = (crossed \/ \E s \in ViewRequests \ {r} : view[s] # NoView)
  /\ shown' = IF crossed' THEN << >> ELSE shown
  /\ UNCHANGED recents

AfterCleanup(r) == IF view[r].batch THEN "clear" ELSE "upsert"

\* Mutant: the list is trimmed only once it is longer than the limit.
CountEntriesLate(r) ==
  /\ view[r].at = "count"
  /\ ViewGoto(r, IF Len(recents) > Limit + Size[r] THEN "choose" ELSE AfterCleanup(r))
  /\ UNCHANGED <<recents, shown, crossed>>

CountEntries(r) ==
  /\ view[r].at = "count"
  /\ ViewGoto(r, IF Len(recents) >= Limit THEN "choose" ELSE AfterCleanup(r))
  /\ UNCHANGED <<recents, shown, crossed>>

EntriesToKeep(r) ==
  /\ view[r].at = "choose"
  /\ LET latest == {j \in DOMAIN recents : j < Limit}
     IN view' = [view EXCEPT ![r].at = "trim", ![r].keep = {recents[i] : i \in latest}]
  /\ UNCHANGED <<recents, shown, crossed>>

\* Rows are kept by their ids: a row deleted and written again is not the row chosen.
RowsDeleted(r, gone) ==
  /\ recents' = Without(recents, gone)
  /\ view' = [s \in ViewRequests |->
               [view[s] EXCEPT !.keep = IF s = r THEN {} ELSE @ \ gone,
                               !.at = IF s # r THEN @ ELSE IF @ = "clear" THEN "insert" ELSE AfterCleanup(r)]]

\* Everything else goes, rows written since the choice included.
DeleteOthers(r) ==
  /\ view[r].at = "trim"
  /\ RowsDeleted(r, ToSet(recents) \ view[r].keep)
  /\ UNCHANGED <<shown, crossed>>

UpsertView(r) ==
  /\ view[r].at = "upsert"
  /\ LET new == SetToSeq(view[r].ids)
     IN recents' = OnTop(new, recents) /\ shown' = Shown(new)
  /\ ViewDone(r)
  /\ UNCHANGED crossed

DeleteBatch(r) ==
  /\ view[r].at = "clear"
  /\ RowsDeleted(r, view[r].ids)
  /\ UNCHANGED <<shown, crossed>>

\* A plain INSERT: a row of one of them that came meanwhile fails them all.
InsertBatch(r) ==
  /\ view[r].at = "insert"
  /\ IF ToSet(recents) \intersect view[r].ids = {}
     THEN \E new \in SetToSeqs(view[r].ids) :
            recents' = OnTop(new, recents) /\ shown' = Shown(new)
     ELSE UNCHANGED <<recents, shown>>
  /\ ViewDone(r)
  /\ UNCHANGED crossed

-----------------------------------------------------------------------------

ViewsNext ==
  \E r \in ViewRequests :
    \/ \E ids \in SUBSET Viewables, batch \in BOOLEAN : TrackViews(r, ids, batch)
    \/ CountEntries(r)
    \/ EntriesToKeep(r)
    \/ DeleteOthers(r)
    \/ UpsertView(r)
    \/ DeleteBatch(r)
    \/ InsertBatch(r)

ViewsSpec == ViewsInit /\ [][ViewsNext]_viewVars

-----------------------------------------------------------------------------
(* Properties *)

\* However many views are tracked at once, the list never grows by more than what
\* these name beyond the room the trimming makes.
RoomNamed == UNION {{r} \X (1 .. Size[r]) : r \in ViewRequests}
RecentsAreBounded == Len(recents) <= Limit - 1 + Cardinality(RoomNamed)

\* As long as views are tracked one after another the list is what was viewed last, in
\* that order, no longer than one view takes it, and no shorter than the trimming leaves it.
RecentsAreLatest ==
  ~crossed /\ (\A r \in ViewRequests : view[r] = NoView)
    => /\ IsPrefix(recents, shown)
       /\ Len(recents) = Len(shown) \/ Len(recents) >= Limit - 1
       /\ Len(recents) < Limit \/ \E r \in ViewRequests : Len(recents) <= Limit - 1 + Size[r]

\* The list is short and current.
RecentsHold == RecentsAreBounded /\ RecentsAreLatest
=============================================================================
