------------------------------ MODULE Listings ------------------------------
(***************************************************************************)
(* The paged lists, and a client that walks one of them from page 1 until  *)
(* the answer says there is no more.  Every page is asked for by its       *)
(* number, hence by an offset into a list other requests are changing.     *)
(* Most lists count their rows in a query before the query of the page,    *)
(* one counts after it, and some fetch a row more than the page shows.     *)
(* Pages of a search and of recommendations are kept in Redis, each by     *)
(* itself, so that a walk may be served pages of different times.          *)
(***************************************************************************)
EXTENDS Integers, FiniteSets

CONSTANTS
  Rows,            \* rows that may be in the list
  PageSize,        \* rows of a page
  Few,             \* a search that matches fewer rows looks further
  Favoured,        \* rows that the user's courses and last twenty searches recommend
  MaxWalks,        \* bound: walks of a list whose pages are kept
  MaxPosition,     \* bound: values of the column the list is ordered by
  MaxListChanges   \* bound: changes during a walk

ASSUME ListingsAssumption ==
  /\ IsFiniteSet(Rows)
  /\ PageSize \in Nat \ {0}
  /\ Few \in Nat /\ Few <= PageSize
  /\ Favoured \subseteq Rows /\ MaxWalks \in Nat \ {0}
  /\ MaxPosition \in Nat /\ Cardinality(Rows) <= MaxPosition /\ MaxListChanges \in Nat

\* total: how a walker learns that there is more.  order: what the rows are ordered by;
\* "created" never changes, "use" (likes, views, the last view) changes as the row is
\* used, "parent" is a column of the joined row, which several rows of the list share.
\* widens: few matches on the first page make it look further.  kept: Redis keeps its
\* pages.  reorders: its widened first page has another order than the next ones.
\* random: which rows it has and their order are drawn at each query.
ListKind ==
  [total : {"before", "after", "extra"}, order : {"created", "use", "parent"},
   widens : BOOLEAN, kept : BOOLEAN, reorders : BOOLEAN, random : BOOLEAN]

Counted(column) ==
  [total |-> "before", order |-> column, widens |-> FALSE, kept |-> FALSE, reorders |-> FALSE,
   random |-> FALSE]
OneExtra(column) == [Counted(column) EXCEPT !.total = "extra"]

ClubList           == Counted("created")
ClubFlagList       == Counted("created")
ClubRequestList    == Counted("created")
AdvertList         == Counted("created")
CourseList         == Counted("created")
ModeratorList      == Counted("created")
NotificationList   == Counted("created")
ErrorReportList    == Counted("created")
BlogsOfCreator     == Counted("created")
BlogSearch         == Counted("created")
CommentList        == Counted("created")
BlogList           == Counted("use")
DepartmentLinkList == Counted("parent")
\* By the user's preferences, and a guest's or without them: by rank while not widened.
MaterialSearch     == [Counted("use") EXCEPT !.widens = TRUE, !.kept = TRUE]
PlainMaterialSearch == [MaterialSearch EXCEPT !.reorders = TRUE]
GeneralRecommendationList == [Counted("use") EXCEPT !.kept = TRUE]
\* Of a user with at most twenty searches, and with more: then up to five of the older
\* ones, drawn at each request, bring rows into the list and rank them.
RecommendationList == [Counted("use") EXCEPT !.kept = TRUE]
DrawnRecommendationList == [RecommendationList EXCEPT !.random = TRUE]
RecentList         == Counted("use")
UserList           == [Counted("created") EXCEPT !.total = "after"]
BookmarkList       == OneExtra("created")
FolderList         == OneExtra("use")
FolderSearch       == OneExtra("use")

Lists ==
  {ClubList, ClubFlagList, ClubRequestList, AdvertList, CourseList, ModeratorList, NotificationList,
   ErrorReportList, BlogsOfCreator, BlogSearch, CommentList, BlogList, DepartmentLinkList, MaterialSearch,
   PlainMaterialSearch, RecommendationList, DrawnRecommendationList, GeneralRecommendationList, RecentList, UserList,
   BookmarkList, FolderList, FolderSearch}

VARIABLES
  list,         \* the list being walked
  position,     \* the ordering column of each row, 0 when it is not in the list
  narrow,       \* rows a search finds before it widens, or recommendations have this time
  walk,         \* the walker's request; exact is history: no change since it counted
  stored,       \* the pages in Redis; exact is history: no change since they were counted
  walks,        \* walks so far
  seen,         \* how often the walker was shown each row
  owed,         \* history: the rows the walk was to show, as its first page was fetched
  disturbance,  \* history: what else happened to the list during the walk
  listChanges   \* changes so far

listVars == <<list, position, narrow, walk, stored, walks, seen, owed, disturbance, listChanges>>

Present == {x \in Rows : position[x] > 0}
Found(wide) == IF wide THEN Present ELSE Present \intersect narrow
Matching == Found(walk.wide)
Disturbances == {"joined", "joinedBetween", "left", "moved", "tied", "narrowed", "reordered", "drawn", "stale"}
\* The queries of these walks do not all order the rows by the column.
NoOrder == {"tied", "reordered", "drawn"}

PageNumbers == 1 .. Cardinality(Rows) + 1
PageKeys == PageNumbers \X BOOLEAN   \* the page and whether a widened one was asked for
StoredPage == [there : BOOLEAN, rows : SUBSET Rows, more : BOOLEAN, wide : BOOLEAN, exact : BOOLEAN]
NoPage == [there |-> FALSE, rows |-> {}, more |-> FALSE, wide |-> FALSE, exact |-> FALSE]

ListTypeOK ==
  /\ list \in ListKind
  /\ position \in [Rows -> 0 .. MaxPosition]
  /\ narrow \in SUBSET Rows /\ (~list.widens /\ ~list.random => narrow = Rows)
  /\ walk \in [at : {"count", "fetch", "done"}, page : PageNumbers,
               total : 0 .. Cardinality(Rows), wide : BOOLEAN, exact : BOOLEAN]
  /\ walk.wide => list.widens
  /\ stored \in [PageKeys -> StoredPage]
  /\ ~list.kept => \A k \in PageKeys : ~stored[k].there
  /\ walks \in 1 .. MaxWalks
  /\ seen \in [Rows -> 0 .. Cardinality(Rows) + 1]
  /\ owed \in SUBSET Rows
  /\ disturbance \in SUBSET Disturbances
  /\ listChanges \in 0 .. MaxListChanges

Tied == \E x, y \in Present : x # y /\ position[x] = position[y]
FirstStep(l) == IF l.total = "before" THEN "count" ELSE "fetch"
FirstRequest(l) == [at |-> FirstStep(l), page |-> 1, total |-> 0, wide |-> FALSE, exact |-> FALSE]

ListInit ==
  /\ list \in Lists
  /\ position \in [Rows -> 0 .. Cardinality(Rows)]
  /\ Tied => list.order = "parent"
  /\ narrow \in IF list.widens THEN SUBSET Rows ELSE {Rows}
  /\ walk = FirstRequest(list)
  /\ stored = [k \in PageKeys |-> NoPage]
  /\ walks = 1
  /\ seen = [x \in Rows |-> 0]
  /\ owed = {}
  /\ disturbance = IF Tied THEN {"tied"} ELSE {}
  /\ listChanges = 0

-----------------------------------------------------------------------------
(* Other requests *)

Disturb(what) ==
  /\ walk.at = "done" => list.kept
  /\ listChanges < MaxListChanges /\ listChanges' = listChanges + 1
  /\ disturbance' = disturbance \union what \union (IF Tied' THEN {"tied"} ELSE {})
  /\ walk' = [walk EXCEPT !.exact = FALSE]
  /\ stored' = [k \in PageKeys |-> [stored[k] EXCEPT !.exact = FALSE]]
  /\ UNCHANGED <<list, narrow, walks, seen, owed>>

Place(x, k) == position' = [position EXCEPT ![x] = k]

\* A new row, or one that a decision brings into the list: the newest comes first where
\* the list is ordered by creation.
JoinList(x) ==
  /\ position[x] = 0
  /\ \E k \in 1 .. MaxPosition :
       /\ list.order = "created" => \A y \in Present : position[y] < k
       /\ list.order # "parent" => \A y \in Present : position[y] # k
       /\ Place(x, k)
  /\ Disturb({"joined"} \union (IF list.total = "before" /\ walk.at = "fetch" THEN {"joinedBetween"} ELSE {}))

\* Deleted, read, reviewed or resolved.
LeaveList(x) ==
  /\ position[x] > 0
  /\ Place(x, 0)
  /\ Disturb({"left"})

UseRow(x) ==
  /\ list.order = "use" /\ position[x] > 0
  /\ \E k \in 1 .. MaxPosition : (\A y \in Present : position[y] # k) /\ Place(x, k)
  /\ Disturb({"moved"})

-----------------------------------------------------------------------------
(* The walk *)

PagesOf(n) == (n + PageSize - 1) \div PageSize

\* What the first n rows by the ordering column, downwards, may be: those that tie come
\* in any order, at each query anew.
Leading(n) ==
  {s \in SUBSET Matching :
    /\ Cardinality(s) = IF n < Cardinality(Matching) THEN n ELSE Cardinality(Matching)
    /\ \/ disturbance \intersect {"reordered", "drawn"} # {}
       \/ \A x \in s, y \in Matching \ s : position[x] >= position[y]}

\* The rows after an offset up to a limit.
RowsBetween(offset, limit) ==
  UNION {{s \ before : s \in {t \in Leading(limit) : before \subseteq t}} : before \in Leading(offset)}

RowsOf(p) == RowsBetween((p - 1) * PageSize, p * PageSize)

\* A page is shown.
See(s, wide) ==
  /\ seen' = [x \in Rows |-> seen[x] + (IF x \in s THEN 1 ELSE 0)]
  /\ owed' = IF walk.page = 1 THEN Found(wide) ELSE owed

\* The next page is asked for by number; of a widened search also with the flag of the
\* answer, unless the client drops it.
WalkOn(more, wide, what) ==
  IF more
  THEN \E flag \in {wide, FALSE} :
         /\ walk' = [FirstRequest(list) EXCEPT !.page = walk.page + 1, !.wide = flag]
         /\ disturbance' = disturbance \union what
              \union (IF flag # wide THEN {"narrowed"} ELSE {})
              \union (IF flag /\ list.reorders THEN {"reordered"} ELSE {})
  ELSE /\ walk' = [walk EXCEPT !.at = "done", !.wide = wide, !.exact = FALSE]
       /\ disturbance' = disturbance \union what

\* Mutant: one key for all pages of a list.
PageKeyShared == <<1, walk.wide /\ walk.page > 1>>

\* The flag of a first page is that of its request, not the widened one.
PageKey == <<walk.page, walk.wide /\ walk.page > 1>>

\* The page is in Redis.
ServeStored ==
  /\ walk.at = "count" /\ walk.wide = PageKey[2]
  /\ LET page == stored[PageKey]
     IN /\ page.there
        /\ See(page.rows, page.wide)
        /\ WalkOn(page.more, page.wide, IF page.exact THEN {} ELSE {"stale"})
  /\ UNCHANGED <<list, position, narrow, stored, walks, listChanges>>

\* It is not, or Redis is away.  Recommendations draw older searches at each request.  A
\* first page with few matches is counted again with the wider condition.
CountRows ==
  /\ walk.at = "count" /\ list.total = "before"
  /\ narrow' \in IF list.random THEN {found \in SUBSET Rows : Favoured \subseteq found} ELSE {narrow}
  /\ LET n == Cardinality(IF walk.wide THEN Present ELSE Present \intersect narrow')
     IN walk' = IF list.widens /\ ~walk.wide /\ walk.page = 1 /\ n < Few
                THEN [walk EXCEPT !.wide = TRUE]
                ELSE [walk EXCEPT !.at = "fetch", !.total = n, !.exact = list.kept]
  /\ disturbance' = disturbance \union (IF list.random THEN {"drawn"} ELSE {})
  /\ UNCHANGED <<list, position, stored, walks, seen, owed, listChanges>>

CountAfter ==
  /\ walk.at = "count" /\ list.total = "after"
  /\ WalkOn(walk.page < PagesOf(Cardinality(Matching)), walk.wide, {})
  /\ UNCHANGED <<list, position, narrow, stored, walks, seen, owed, listChanges>>

\* The page's query.  Redis, unless it is away, gets the page of a list it keeps.
FetchPage ==
  /\ walk.at = "fetch"
  /\ LET more == IF list.total = "before" THEN walk.page < PagesOf(walk.total)
                                          ELSE Cardinality(Matching) > walk.page * PageSize
     IN \E s \in RowsOf(walk.page) :
          /\ See(s, walk.wide)
          /\ stored' \in {stored} \union
               IF ~list.kept THEN {}
               ELSE {[stored EXCEPT ![PageKey] =
                       [there |-> TRUE, rows |-> s, more |-> more, wide |-> walk.wide,
                        exact |-> walk.exact /\ disturbance \intersect NoOrder = {}]]}
          /\ IF list.total = "after" THEN walk' = [walk EXCEPT !.at = "count"] /\ UNCHANGED disturbance
                                     ELSE WalkOn(more, walk.wide, {})
  /\ UNCHANGED <<list, position, narrow, walks, listChanges>>

\* The list is walked again, and its pages may still be in Redis.
WalkAgain ==
  /\ list.kept /\ walk.at # "fetch"
  /\ walks < MaxWalks /\ walks' = walks + 1
  /\ walk' = FirstRequest(list)
  /\ seen' = [x \in Rows |-> 0] /\ owed' = {}
  /\ disturbance' = IF Tied THEN {"tied"} ELSE {}
  /\ UNCHANGED <<list, position, narrow, stored, listChanges>>

ListNext ==
  \/ \E x \in Rows : JoinList(x) \/ LeaveList(x) \/ UseRow(x)
  \/ ServeStored \/ CountRows \/ CountAfter \/ FetchPage
  \/ WalkAgain

ListSpec == ListInit /\ [][ListNext]_listVars

-----------------------------------------------------------------------------
(* Properties *)

\* A walk to the end shows every row its first page's query had before it, unless rows
\* left or moved, or one joined between a count and its page, or the order was no order,
\* or a page was from Redis and older than the last change of the list.
\* Rows that join between two requests only push the others towards pages to come.
NothingMissed ==
  walk.at = "done" /\ disturbance \subseteq {"joined"} => \A x \in owed : seen[x] > 0

\* No row is shown twice, whatever leaves the list meanwhile, unless rows joined or moved,
\* the order was no order or a page older than the last change.
NothingTwice ==
  disturbance \subseteq {"left", "narrowed"} => \A x \in Rows : seen[x] <= 1

\* The pages of a walk show each row once.
EachRowOnce == NothingMissed /\ NothingTwice
=============================================================================
