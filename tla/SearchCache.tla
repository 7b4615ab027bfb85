---------------------------- MODULE SearchCache ----------------------------
(***************************************************************************)
(* Material search with its Redis cache: MaterialService.searchMaterial,   *)
(* the handlers that change materials (create, batchCreate, update,        *)
(* remove, review) and the part of RedisCacheService they call.            *)
(*                                                                         *)
(* Every `await' ends an action, so searches and writers interleave as the *)
(* Node event loop (and several server processes) let them.  A search      *)
(* result is the snapshot of revisions the repository query saw; filters,  *)
(* ranking and pages are one fixed query, since the cache key separates    *)
(* queries and they never share an entry.                                  *)
(***************************************************************************)
EXTENDS Integers, FiniteSets

CONSTANTS
  Users,         \* signed-in users
  Anon,          \* the searcher without an account (userKey 'anon')
  Admins,        \* users whose role is ADMIN: they may change any material
  Materials,     \* material ids (random UUIDs: never used twice)
  Owner,         \* the creator of each material
  Searches,      \* search requests that may be in flight at once
  Writers,       \* create / update / remove requests in flight at once
  InitVersion,   \* search:version:user:* at the start; 0 is an absent key
  MaxVersion,    \* bound: versions a user's key may reach
  MaxRevision,   \* bound: revisions of one material
  Flaky          \* whether the Redis connection may drop and come back

ASSUME CacheAssumption ==
  /\ Anon \notin Users
  /\ Admins \subseteq Users
  /\ Owner \in [Materials -> Users]
  /\ InitVersion \in Nat
  /\ MaxVersion \in Nat \ {0}
  /\ InitVersion <= MaxVersion
  /\ MaxRevision \in Nat
  /\ Flaky \in BOOLEAN

VARIABLES
  row,        \* row[m]: revision of the material's row, 0 when there is none
  deleted,    \* ids whose row was hard deleted
  connected,  \* RedisCacheService.isConnected
  version,    \* search:version:user:<id> in Redis, 0 when absent
  cache,      \* the search:materials:* entries in Redis
  search,     \* the search requests
  writer,     \* the writing requests
  acked,      \* history: what u's finished writes had stored at a key version
  wiped       \* history: deletes whose global cache wipe ran to its end

vars == <<row, deleted, connected, version, cache, search, writer, acked, wiped>>

Searchers == Users \union {Anon}
Versions  == 0 .. MaxVersion
Keys      == Searchers \X Versions
Snapshot  == [Materials -> Nat]
Nothing   == [m \in Materials |-> 0]

\* A cache slot.  `late' is history: the materials it shows that had been
\* deleted already when it was stored.
Slot    == [there : BOOLEAN, snap : Snapshot, ttl : BOOLEAN, late : SUBSET Materials]
NoEntry == [there |-> FALSE, snap |-> Nothing, ttl |-> FALSE, late |-> {}]

SearchRequest ==
  [pc     : {"idle", "versioned", "missed", "computed", "answered"},
   user   : Searchers,
   v      : Versions,
   snap   : Snapshot,
   floor  : Snapshot,           \* history: acknowledged writes when it began
   hidden : SUBSET Materials]   \* history: wiped deletes when it began

WriteRequest ==
  [pc    : {"idle", "insert", "update", "remove", "bump", "wipe", "scan"},
   user  : Searchers,
   ms    : SUBSET Materials,    \* the materials the request is about
   wrote : Snapshot,            \* history: the revisions it stored
   todo  : SUBSET Keys]         \* keys that SCAN still has to return

IdleSearch == [pc |-> "idle", user |-> Anon, v |-> 1, snap |-> Nothing,
               floor |-> Nothing, hidden |-> {}]
IdleWriter == [pc |-> "idle", user |-> Anon, ms |-> {}, wrote |-> Nothing,
               todo |-> {}]

TypeOK ==
  /\ row \in Snapshot
  /\ deleted \in SUBSET Materials
  /\ connected \in BOOLEAN
  /\ version \in [Users -> Versions]
  /\ cache \in [Keys -> Slot]
  /\ search \in [Searches -> SearchRequest]
  /\ writer \in [Writers -> WriteRequest]
  /\ acked \in [Users -> [Versions -> Snapshot]]
  /\ wiped \in SUBSET Materials

Init ==
  /\ row = Nothing
  /\ deleted = {}
  /\ connected = TRUE
  /\ version = [u \in Users |-> InitVersion]
  /\ cache = [k \in Keys |-> NoEntry]
  /\ search = [s \in Searches |-> IdleSearch]
  /\ writer = [w \in Writers |-> IdleWriter]
  /\ acked = [u \in Users |-> [v \in Versions |-> Nothing]]
  /\ wiped = {}

-----------------------------------------------------------------------------
(* RedisCacheService *)

\* Mutant: the next version is used.
SearchVersionNext(u) == version[u] + 1

\* getUserSearchVersion: 1 for an absent key and while Redis is unreachable.
SearchVersion(u) == IF ~connected \/ version[u] = 0 THEN 1 ELSE version[u]

\* Mutant: the key is rebuilt at every use.
CacheKeyRebuilt(s) ==
  <<search[s].user, IF search[s].user = Anon THEN 1 ELSE SearchVersion(search[s].user)>>

\* The part of cacheKey that varies here: the searcher and the version.
CacheKey(s) == <<search[s].user, search[s].v>>

\* Keys that leave Redis: no SCAN under way is bound to return them any more.
Forget(K) == [w \in Writers |-> [writer[w] EXCEPT !.todo = @ \ K]]

\* Mutant: SET without a time to live.
StoredForever(snap) == [there |-> TRUE, snap |-> snap, ttl |-> FALSE,
                        late |-> {m \in deleted : snap[m] > 0}]

\* SETEX with the 60 s time to live.
Stored(snap) == [there |-> TRUE, snap |-> snap, ttl |-> TRUE,
                 late |-> {m \in deleted : snap[m] > 0}]

\* An entry's time to live runs out.
Expire(k) ==
  /\ cache[k].there /\ cache[k].ttl
  /\ cache' = [cache EXCEPT ![k] = NoEntry]
  /\ writer' = Forget({k})
  /\ UNCHANGED <<row, deleted, connected, version, search, acked, wiped>>

\* The connect / close / error events of the Redis client.
Reconnect ==
  /\ Flaky
  /\ connected' = ~connected
  /\ UNCHANGED <<row, deleted, version, cache, search, writer, acked, wiped>>

-----------------------------------------------------------------------------
(* searchMaterial *)

\* The key's version is read first.  The history fields record what the
\* answer will be held to.
SearchBegin(s, u) ==
  /\ search[s].pc = "idle"
  /\ search' = [search EXCEPT ![s] =
       [pc     |-> "versioned",
        user   |-> u,
        v      |-> IF u = Anon THEN 1 ELSE SearchVersion(u),
        snap   |-> Nothing,
        floor  |-> IF u = Anon THEN Nothing ELSE acked[u][version[u]],
        hidden |-> wiped]]
  /\ UNCHANGED <<row, deleted, connected, version, cache, writer, acked, wiped>>

\* cacheService.get: a hit is the answer.
SearchHit(s) ==
  /\ search[s].pc = "versioned"
  /\ connected /\ cache[CacheKey(s)].there
  /\ search' = [search EXCEPT ![s].pc = "answered",
                              ![s].snap = cache[CacheKey(s)].snap]
  /\ UNCHANGED <<row, deleted, connected, version, cache, writer, acked, wiped>>

SearchMiss(s) ==
  /\ search[s].pc = "versioned"
  /\ ~connected \/ ~cache[CacheKey(s)].there
  /\ search' = [search EXCEPT ![s].pc = "missed"]
  /\ UNCHANGED <<row, deleted, connected, version, cache, writer, acked, wiped>>

\* materialRepository.searchMaterial reads the rows.
SearchQuery(s) ==
  /\ search[s].pc = "missed"
  /\ search' = [search EXCEPT ![s].pc = "computed", ![s].snap = row]
  /\ UNCHANGED <<row, deleted, connected, version, cache, writer, acked, wiped>>

\* cacheService.set under the key computed at the beginning; it returns false
\* and stores nothing while Redis is unreachable.
SearchStore(s) ==
  /\ search[s].pc = "computed"
  /\ search' = [search EXCEPT ![s].pc = "answered"]
  /\ cache' = IF connected
              THEN [cache EXCEPT ![CacheKey(s)] = Stored(search[s].snap)]
              ELSE cache
  /\ UNCHANGED <<row, deleted, connected, version, writer, acked, wiped>>

\* The response has been read, or the request was dropped on the way.
SearchEnd(s) ==
  /\ search[s].pc # "idle"
  /\ search' = [search EXCEPT ![s] = IdleSearch]
  /\ UNCHANGED <<row, deleted, connected, version, cache, writer, acked, wiped>>

-----------------------------------------------------------------------------
(* create, batchCreate, update, remove, review *)

\* isAuthorized: the creator, or an admin.
MayChange(u, m) == u = Owner[m] \/ u \in Admins

\* create is a batch of one.  The row is inserted; `ok' is FALSE when a later
\* step for this item (its resource) throws, which leaves the row in place.
Insert(w, u, m, ok) ==
  /\ \/ writer[w].pc = "idle"
     \/ writer[w].pc = "insert" /\ writer[w].user = u
  /\ Owner[m] = u
  /\ row[m] = 0 /\ m \notin deleted
  /\ row' = [row EXCEPT ![m] = 1]
  /\ writer' = [writer EXCEPT ![w] =
       [pc    |-> "insert",
        user  |-> u,
        ms    |-> writer[w].ms \union {m},
        wrote |-> [writer[w].wrote EXCEPT ![m] = IF ok THEN 1 ELSE 0],
        todo  |-> {}]]
  /\ UNCHANGED <<deleted, connected, version, cache, search, acked, wiped>>

\* The version is bumped only when some item succeeded.
EndInserts(w) ==
  /\ writer[w].pc = "insert"
  /\ writer' = [writer EXCEPT ![w] =
       IF writer[w].wrote = Nothing THEN IdleWriter ELSE [@ EXCEPT !.pc = "bump"]]
  /\ UNCHANGED <<row, deleted, connected, version, cache, search, acked, wiped>>

\* findOne and isAuthorized, for update and for remove.
Authorize(w, u, m, what) ==
  /\ writer[w].pc = "idle"
  /\ row[m] > 0 /\ MayChange(u, m)
  /\ writer' = [writer EXCEPT ![w] = [@ EXCEPT !.pc = what, !.user = u, !.ms = {m}]]
  /\ UNCHANGED <<row, deleted, connected, version, cache, search, acked, wiped>>

\* materialRepository.update: no row is touched when it was deleted meanwhile.
UpdateRow(w) ==
  /\ writer[w].pc = "update"
  /\ \E m \in writer[w].ms :
       LET next == IF row[m] = 0 THEN 0 ELSE row[m] + 1 IN
       /\ next <= MaxRevision
       /\ row' = [row EXCEPT ![m] = next]
       /\ writer' = [writer EXCEPT ![w] =
            [@ EXCEPT !.pc = "bump", !.wrote[m] = next]]
  /\ UNCHANGED <<deleted, connected, version, cache, search, acked, wiped>>

\* bumpUserSearchVersion, the last step of create, batchCreate and update.
\* incrementUserSearchVersion does nothing while Redis is unreachable.
Bump(w) ==
  LET u    == writer[w].user
      next == IF connected THEN version[u] + 1 ELSE version[u]
  IN
  /\ writer[w].pc = "bump"
  /\ next <= MaxVersion
  /\ version' = [version EXCEPT ![u] = next]
  /\ acked' = [acked EXCEPT ![u][next] =
       [m \in Materials |->
          IF writer[w].wrote[m] > acked[u][version[u]][m]
          THEN writer[w].wrote[m] ELSE acked[u][version[u]][m]]]
  /\ writer' = [writer EXCEPT ![w] = IdleWriter]
  /\ UNCHANGED <<row, deleted, connected, cache, search, wiped>>

\* materialRepository.remove.
RemoveRow(w) ==
  /\ writer[w].pc = "remove"
  /\ row' = [m \in Materials |-> IF m \in writer[w].ms THEN 0 ELSE row[m]]
  /\ deleted' = deleted \union writer[w].ms
  /\ writer' = [writer EXCEPT ![w].pc = "wipe"]
  /\ UNCHANGED <<connected, version, cache, search, acked, wiped>>

\* Mutant: only the remover's own entries match.
OwnEntries(w) == {k \in Keys : cache[k].there /\ k[1] = writer[w].user}

\* The keys that match search:materials:*.
MatchingKeys(w) == {k \in Keys : cache[k].there}

\* deletePattern begins: SCAN returns at least the keys that exist now and
\* stay until it ends.  It returns 0 at once while Redis is unreachable.
BeginWipe(w) ==
  /\ writer[w].pc = "wipe"
  /\ writer' = [writer EXCEPT ![w] =
       IF connected
       THEN [@ EXCEPT !.pc = "scan", !.todo = MatchingKeys(w)]
       ELSE IdleWriter]
  /\ UNCHANGED <<row, deleted, connected, version, cache, search, acked, wiped>>

\* One SCAN batch and the DEL of the keys it returned.
WipeBatch(w, K) ==
  /\ writer[w].pc = "scan"
  /\ connected
  /\ cache' = [k \in Keys |-> IF k \in K THEN NoEntry ELSE cache[k]]
  /\ writer' = Forget(K)
  /\ UNCHANGED <<row, deleted, connected, version, search, acked, wiped>>

\* The cursor is back at 0: remove returns.
EndWipe(w) ==
  /\ writer[w].pc = "scan"
  /\ writer[w].todo = {}
  /\ wiped' = wiped \union writer[w].ms
  /\ writer' = [writer EXCEPT ![w] = IdleWriter]
  /\ UNCHANGED <<row, deleted, connected, version, cache, search, acked>>

\* A step of the handler throws, or the process dies: nothing is undone.
Abort(w) ==
  /\ writer[w].pc # "idle"
  /\ writer' = [writer EXCEPT ![w] = IdleWriter]
  /\ UNCHANGED <<row, deleted, connected, version, cache, search, acked, wiped>>

\* review changes the row and leaves every cache and version alone.
Review(m) ==
  /\ row[m] > 0 /\ row[m] < MaxRevision
  /\ row' = [row EXCEPT ![m] = @ + 1]
  /\ UNCHANGED <<deleted, connected, version, cache, search, writer, acked, wiped>>

-----------------------------------------------------------------------------

SearchStep(s) ==
  \/ SearchHit(s)
  \/ SearchMiss(s)
  \/ SearchQuery(s)
  \/ SearchStore(s)
  \/ SearchEnd(s)

WriteStep(w) ==
  \/ EndInserts(w)
  \/ UpdateRow(w)
  \/ Bump(w)
  \/ RemoveRow(w)
  \/ BeginWipe(w)
  \/ \E K \in SUBSET {k \in Keys : cache[k].there} : WipeBatch(w, K)
  \/ EndWipe(w)
  \/ Abort(w)

Request ==
  \/ \E s \in Searches, u \in Searchers : SearchBegin(s, u)
  \/ \E w \in Writers, u \in Users, m \in Materials :
       \/ \E ok \in BOOLEAN : Insert(w, u, m, ok)
       \/ \E what \in {"update", "remove"} : Authorize(w, u, m, what)
  \/ \E m \in Materials : Review(m)

Next ==
  \/ Request
  \/ \E s \in Searches : SearchStep(s)
  \/ \E w \in Writers : WriteStep(w)
  \/ \E k \in Keys : Expire(k)
  \/ Reconnect

Spec == Init /\ [][Next]_vars

\* Requests the server has taken run on, and Redis evicts what has expired;
\* nobody is bound to send a request.
Fairness ==
  /\ \A s \in Searches : WF_vars(SearchStep(s))
  /\ \A k \in Keys : WF_vars(Expire(k))

FairSpec == Spec /\ Fairness

-----------------------------------------------------------------------------
(* Properties *)

\* A result shows each of these revisions or a later one.
Covers(snap, revisions) ==
  \A m \in Materials : snap[m] >= revisions[m] \/ m \in deleted

\* A search a user sends after one of her creates or updates has returned
\* shows that write or a later revision (unless the material was deleted),
\* whatever is cached and whatever else is in flight: what
\* bumpUserSearchVersion is for.
ReadYourWrites ==
  \A s \in Searches :
    search[s].pc = "answered" => Covers(search[s].snap, search[s].floor)

\* Once remove has wiped the cache, an entry that still shows the material was
\* stored after the row was gone, by a search that had read it before: the
\* SCAN loop leaves no older entry behind, of any user at any version.
WipeReachesAll ==
  \A m \in wiped, k \in Keys :
    cache[k].there /\ cache[k].snap[m] > 0 => m \in cache[k].late

\* A search sent after remove has returned does not show the material: what
\* the comment above invalidateSearchCacheGlobal asks for.
DeletedStaysHidden ==
  \A s \in Searches : search[s].pc = "answered" =>
    \A m \in search[s].hidden : search[s].snap[m] = 0

Shows(m) ==
  \/ \E k \in Keys : cache[k].there /\ cache[k].snap[m] > 0
  \/ \E s \in Searches : search[s].snap[m] > 0

\* After a hard delete, whatever the searches in flight store and however the
\* Redis connection behaves, in the end no cached entry and no search shows
\* the material any more: entries expire and hits do not renew them.
DeletedFadesOut ==
  \A m \in Materials : m \in deleted ~> [](~Shows(m))
=============================================================================
