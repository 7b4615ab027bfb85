------------------------- MODULE SearchCacheProofs -------------------------
(***************************************************************************)
(* What TLAPS proves about SearchCache for every set of users, materials   *)
(* and requests and for all bounds.                                        *)
(***************************************************************************)
EXTENDS SearchCache, TLAPS

LEMMA Constants ==
  /\ Nothing \in Snapshot
  /\ NoEntry \in Slot
  /\ IdleSearch \in SearchRequest
  /\ IdleWriter \in WriteRequest
  /\ 1 \in Versions
  /\ Versions \subseteq Nat
<1>1. Nothing \in Snapshot
  BY DEF Nothing, Snapshot
<1>2. 1 \in Versions /\ Versions \subseteq Nat
  BY CacheAssumption DEF Versions
<1>3. Anon \in Searchers
  BY DEF Searchers
<1> QED
  BY <1>1, <1>2, <1>3
     DEF NoEntry, Slot, IdleSearch, SearchRequest, IdleWriter, WriteRequest

LEMMA InitTypeOK == Init => TypeOK
<1> SUFFICES ASSUME Init PROVE TypeOK
  OBVIOUS
<1>1. InitVersion \in Versions
  BY CacheAssumption DEF Versions
<1> QED
  BY <1>1, Constants DEF Init, TypeOK

LEMMA StepTypeOK == TypeOK /\ [Next]_vars => TypeOK'
<1> SUFFICES ASSUME TypeOK, [Next]_vars PROVE TypeOK'
  OBVIOUS
<1> USE DEF TypeOK
<1>1. ASSUME NEW s \in Searches, NEW u \in Searchers, SearchBegin(s, u)
      PROVE  TypeOK'
  <2>1. (IF u = Anon THEN 1 ELSE SearchVersion(u)) \in Versions
    BY Constants DEF SearchVersion, Searchers
  <2>2. (IF u = Anon THEN Nothing ELSE acked[u][version[u]]) \in Snapshot
    BY Constants DEF Searchers
  <2> QED
    BY <1>1, <2>1, <2>2, Constants DEF SearchBegin, SearchRequest
<1>2. ASSUME NEW s \in Searches, SearchStep(s) PROVE TypeOK'
  <2>1. CacheKey(s) \in Keys
    BY DEF CacheKey, SearchRequest, Keys
  <2>2. CASE SearchHit(s)
    <3>1. cache[CacheKey(s)].snap \in Snapshot
      BY <2>1 DEF Slot
    <3> QED
      BY <2>2, <3>1 DEF SearchHit, SearchRequest
  <2>3. CASE SearchMiss(s)
    BY <2>3 DEF SearchMiss, SearchRequest
  <2>4. CASE SearchQuery(s)
    BY <2>4 DEF SearchQuery, SearchRequest
  <2>5. CASE SearchStore(s)
    <3>1. Stored(search[s].snap) \in Slot
      BY DEF Stored, Slot, SearchRequest
    <3> QED
      BY <2>1, <2>5, <3>1 DEF SearchStore, SearchRequest
  <2>6. CASE SearchEnd(s)
    BY <2>6, Constants DEF SearchEnd
  <2> QED
    BY <1>2, <2>2, <2>3, <2>4, <2>5, <2>6 DEF SearchStep
<1>3. \A K \in SUBSET Keys : Forget(K) \in [Writers -> WriteRequest]
  BY DEF Forget, WriteRequest
<1>5. ASSUME NEW w \in Writers, WriteStep(w) PROVE TypeOK'
  <2>1. CASE EndInserts(w)
    BY <2>1, Constants DEF EndInserts, WriteRequest
  <2>2. CASE UpdateRow(w)
    <3>1. PICK m \in writer[w].ms :
            LET next == IF row[m] = 0 THEN 0 ELSE row[m] + 1 IN
            /\ row' = [row EXCEPT ![m] = next]
            /\ writer' = [writer EXCEPT ![w] =
                 [@ EXCEPT !.pc = "bump", !.wrote[m] = next]]
      BY <2>2 DEF UpdateRow
    <3>2. m \in Materials
      BY DEF WriteRequest
    <3> DEFINE next == IF row[m] = 0 THEN 0 ELSE row[m] + 1
    <3>3. next \in Nat
      BY <3>2 DEF Snapshot
    <3>4. row' \in Snapshot
      BY <3>1, <3>3 DEF Snapshot
    <3>5. [writer[w].wrote EXCEPT ![m] = next] \in Snapshot
      BY <3>3 DEF Snapshot, WriteRequest
    <3>6. [writer[w] EXCEPT !.pc = "bump", !.wrote[m] = next] \in WriteRequest
      BY <3>5 DEF WriteRequest
    <3> QED
      BY <2>2, <3>1, <3>4, <3>6 DEF UpdateRow
  <2>3. CASE Bump(w)
    <3> DEFINE u    == writer[w].user
               next == IF connected THEN version[u] + 1 ELSE version[u]
               new  == [m \in Materials |->
                          IF writer[w].wrote[m] > acked[u][version[u]][m]
                          THEN writer[w].wrote[m] ELSE acked[u][version[u]][m]]
    <3>1. CASE u \in Users
      <4>1. next \in Versions
        BY <2>3, <3>1, CacheAssumption DEF Bump, Versions
      <4>2. acked[u][version[u]] \in Snapshot /\ writer[w].wrote \in Snapshot
        BY <3>1 DEF WriteRequest
      <4>3. new \in Snapshot
        BY <4>2 DEF Snapshot
      <4>4. acked' = [acked EXCEPT ![u][next] = new]
        BY <2>3 DEF Bump
      <4>5. acked' \in [Users -> [Versions -> Snapshot]]
        BY <3>1, <4>1, <4>3, <4>4
      <4>6. version' \in [Users -> Versions]
        BY <2>3, <4>1 DEF Bump
      <4> QED
        BY <2>3, <4>5, <4>6, Constants DEF Bump
    <3>2. CASE u \notin Users
      <4>1. acked' = acked /\ version' = version
        BY <2>3, <3>2 DEF Bump
      <4> QED
        BY <2>3, <4>1, Constants DEF Bump
    <3> QED
      BY <3>1, <3>2
  <2>4. CASE RemoveRow(w)
    <3>1. row' \in Snapshot
      BY <2>4 DEF RemoveRow, Snapshot
    <3> QED
      BY <2>4, <3>1 DEF RemoveRow, WriteRequest
  <2>5. CASE BeginWipe(w)
    BY <2>5, Constants DEF BeginWipe, MatchingKeys, WriteRequest
  <2>6. ASSUME NEW K \in SUBSET Keys, WipeBatch(w, K) PROVE TypeOK'
    BY <2>6, <1>3, Constants DEF WipeBatch
  <2>7. CASE EndWipe(w)
    BY <2>7, Constants DEF EndWipe, WriteRequest
  <2>8. CASE Abort(w)
    BY <2>8, Constants DEF Abort
  <2> QED
    BY <1>5, <2>1, <2>2, <2>3, <2>4, <2>5, <2>6, <2>7, <2>8 DEF WriteStep
<1>6. ASSUME NEW w \in Writers, NEW u \in Users, NEW m \in Materials,
             NEW ok \in BOOLEAN, Insert(w, u, m, ok)
      PROVE  TypeOK'
  <2>1. row' \in Snapshot
    BY <1>6 DEF Insert, Snapshot
  <2>2. [writer[w].wrote EXCEPT ![m] = IF ok THEN 1 ELSE 0] \in Snapshot
    BY DEF Snapshot, WriteRequest
  <2>3. writer' \in [Writers -> WriteRequest]
    BY <1>6, <2>2 DEF Insert, WriteRequest, Searchers
  <2> QED
    BY <1>6, <2>1, <2>3 DEF Insert
<1>7. ASSUME NEW w \in Writers, NEW u \in Users, NEW m \in Materials,
             NEW what \in {"update", "remove"}, Authorize(w, u, m, what)
      PROVE  TypeOK'
  BY <1>7 DEF Authorize, WriteRequest, Searchers
<1>8. ASSUME NEW m \in Materials, Review(m) PROVE TypeOK'
  BY <1>8 DEF Review, Snapshot
<1>9. ASSUME NEW k \in Keys, Expire(k) PROVE TypeOK'
  BY <1>9, <1>3, Constants DEF Expire
<1>10. CASE Reconnect
  BY <1>10 DEF Reconnect
<1>11. CASE UNCHANGED vars
  BY <1>11 DEF vars
<1>12. CASE Request
  BY <1>1, <1>6, <1>7, <1>8, <1>12 DEF Request
<1> QED
  BY <1>2, <1>5, <1>9, <1>10, <1>11, <1>12 DEF Next

\* Every reachable state has its variables in their types.
THEOREM TypeCorrect == Spec => []TypeOK
BY InitTypeOK, StepTypeOK, PTL DEF Spec

-----------------------------------------------------------------------------
(***************************************************************************)
(* Read your writes, for users whose version key exists already and while  *)
(* the Redis connection holds.  The invariant ties every entry and every   *)
(* search to the writes acknowledged at the version in its key: a bump     *)
(* opens a version under which nothing has been stored or computed yet.    *)
(***************************************************************************)

VersionsLive ==
  /\ connected
  /\ \A u \in Users : version[u] >= 1

AckedStored ==
  \A u \in Users, v \in Versions : Covers(row, acked[u][v])

WroteStored ==
  \A w \in Writers :
    /\ Covers(row, writer[w].wrote)
    /\ writer[w].pc # "idle" => writer[w].user \in Users

SearchCovered ==
  \A s \in Searches :
    IF search[s].pc = "idle" \/ search[s].user = Anon
    THEN search[s].floor = Nothing
    ELSE LET u == search[s].user
             v == search[s].v
         IN  /\ v <= version[u]
             /\ search[s].floor = acked[u][v]
             /\ search[s].pc \in {"computed", "answered"} =>
                  Covers(search[s].snap, acked[u][v])

CacheCovered ==
  \A u \in Users, v \in Versions :
    cache[<<u, v>>].there =>
      v <= version[u] /\ Covers(cache[<<u, v>>].snap, acked[u][v])

RYWInv ==
  /\ TypeOK
  /\ VersionsLive
  /\ AckedStored
  /\ WroteStored
  /\ SearchCovered
  /\ CacheCovered

LEMMA InitRYWInv == InitVersion >= 1 /\ Init => RYWInv
<1> SUFFICES ASSUME InitVersion >= 1, Init PROVE RYWInv
  OBVIOUS
<1>1. TypeOK
  BY InitTypeOK
<1>2. \A f \in Snapshot : Covers(f, Nothing)
  BY DEF Covers, Nothing, Snapshot
<1>3. VersionsLive
  BY DEF Init, VersionsLive
<1>4. AckedStored /\ WroteStored
  BY <1>2, Constants DEF Init, AckedStored, WroteStored, IdleWriter
<1>5. SearchCovered
  BY DEF Init, SearchCovered, IdleSearch
<1>6. CacheCovered
  BY DEF Init, CacheCovered, NoEntry, Keys, Searchers
<1> QED
  BY <1>1, <1>3, <1>4, <1>5, <1>6 DEF RYWInv

\* A row never loses a revision except by being deleted, so what covered a
\* list of revisions goes on covering it.
LEMMA RowsGrow ==
  ASSUME TypeOK, [Next]_vars
  PROVE  /\ deleted \subseteq deleted'
         /\ \A m \in Materials : row'[m] >= row[m] \/ m \in deleted'
<1> USE DEF TypeOK, Snapshot
<1>1. ASSUME NEW w \in Writers, NEW u \in Users, NEW m \in Materials,
             NEW ok \in BOOLEAN, Insert(w, u, m, ok)
      PROVE  /\ deleted \subseteq deleted'
             /\ \A n \in Materials : row'[n] >= row[n] \/ n \in deleted'
  BY <1>1 DEF Insert
<1>2. ASSUME NEW m \in Materials, Review(m)
      PROVE  /\ deleted \subseteq deleted'
             /\ \A n \in Materials : row'[n] >= row[n] \/ n \in deleted'
  BY <1>2 DEF Review
<1>3. ASSUME NEW w \in Writers, UpdateRow(w)
      PROVE  /\ deleted \subseteq deleted'
             /\ \A m \in Materials : row'[m] >= row[m] \/ m \in deleted'
  BY <1>3 DEF UpdateRow
<1>4. ASSUME NEW w \in Writers, RemoveRow(w)
      PROVE  /\ deleted \subseteq deleted'
             /\ \A m \in Materials : row'[m] >= row[m] \/ m \in deleted'
  BY <1>4 DEF RemoveRow
<1>5. CASE UNCHANGED <<row, deleted>>
  BY <1>5
<1> QED
  BY <1>1, <1>2, <1>3, <1>4, <1>5
     DEF Next, Request, SearchStep, WriteStep, SearchBegin, SearchHit,
         SearchMiss, SearchQuery, SearchStore, SearchEnd, EndInserts,
         Authorize, Bump, BeginWipe, WipeBatch, EndWipe, Abort, Expire,
         Reconnect, vars

LEMMA CoversGrow ==
  ASSUME TypeOK, [Next]_vars,
         NEW f \in Snapshot, NEW g \in Snapshot, Covers(f, g)
  PROVE  \A m \in Materials : f[m] >= g[m] \/ m \in deleted'
BY RowsGrow DEF Covers

LEMMA RowCoversGrow ==
  ASSUME TypeOK, [Next]_vars, NEW g \in Snapshot, Covers(row, g)
  PROVE  \A m \in Materials : row'[m] >= g[m] \/ m \in deleted'
<1> SUFFICES ASSUME NEW m \in Materials, m \notin deleted'
             PROVE  row'[m] >= g[m]
  OBVIOUS
<1>1. row'[m] >= row[m] /\ row[m] >= g[m]
  BY RowsGrow DEF Covers
<1>2. row'[m] \in Nat /\ row[m] \in Nat /\ g[m] \in Nat
  BY StepTypeOK DEF TypeOK, Snapshot
<1> QED
  BY <1>1, <1>2

\* All steps but Bump leave the versions and the acknowledged writes alone.
LEMMA OnlyBump ==
  ASSUME [Next]_vars, ~Flaky, \A w \in Writers : ~Bump(w)
  PROVE  UNCHANGED <<version, acked, connected>>
BY DEF Next, Request, SearchStep, WriteStep, SearchBegin, SearchHit,
       SearchMiss, SearchQuery, SearchStore, SearchEnd, Insert, EndInserts,
       Authorize, UpdateRow, RemoveRow, BeginWipe, WipeBatch, EndWipe, Abort,
       Review, Expire, Reconnect, vars

\* What a bump does while Redis answers.
LEMMA BumpEffect ==
  ASSUME RYWInv, NEW w \in Writers, Bump(w)
  PROVE  LET u == writer[w].user IN
         /\ u \in Users
         /\ version[u] + 1 \in Versions
         /\ version' = [version EXCEPT ![u] = version[u] + 1]
         /\ acked' \in [Users -> [Versions -> Snapshot]]
         /\ \A x \in Users, v \in Versions :
              (x # u \/ v # version[u] + 1) => acked'[x][v] = acked[x][v]
         /\ Covers(row, acked'[u][version[u] + 1])
         /\ UNCHANGED <<row, deleted, cache, search, connected>>
         /\ writer' = [writer EXCEPT ![w] = IdleWriter]
<1> DEFINE u   == writer[w].user
           new == [m \in Materials |->
                     IF writer[w].wrote[m] > acked[u][version[u]][m]
                     THEN writer[w].wrote[m] ELSE acked[u][version[u]][m]]
<1> USE DEF RYWInv, TypeOK
<1>1. u \in Users
  BY DEF Bump, WroteStored
<1>2. connected
  BY DEF VersionsLive
<1>3. version[u] + 1 \in Versions
  BY <1>1, <1>2, CacheAssumption DEF Bump, Versions
<1>4. acked' = [acked EXCEPT ![u][version[u] + 1] = new]
  BY <1>2 DEF Bump
<1>5. acked[u][version[u]] \in Snapshot /\ writer[w].wrote \in Snapshot
  BY <1>1 DEF WriteRequest
<1>6. new \in Snapshot
  BY <1>5 DEF Snapshot
<1>7. acked' \in [Users -> [Versions -> Snapshot]]
  BY <1>1, <1>3, <1>4, <1>6
<1>8. acked'[u][version[u] + 1] = new
  BY <1>1, <1>3, <1>4
<1>9. Covers(row, new)
  BY <1>1, <1>5 DEF AckedStored, WroteStored, Covers, Snapshot
<1>10. \A x \in Users, v \in Versions :
         (x # u \/ v # version[u] + 1) => acked'[x][v] = acked[x][v]
  BY <1>1, <1>3, <1>4
<1> QED
  BY <1>1, <1>2, <1>3, <1>7, <1>8, <1>9, <1>10 DEF Bump

LEMMA StepVersionsLive ==
  ASSUME RYWInv, [Next]_vars, ~Flaky
  PROVE  VersionsLive'
<1>1. ASSUME NEW w \in Writers, Bump(w) PROVE VersionsLive'
  <2>1. /\ version' = [version EXCEPT ![writer[w].user] = @ + 1]
        /\ connected' = connected
    BY <1>1, BumpEffect
  <2>2. version \in [Users -> Nat]
    BY CacheAssumption DEF RYWInv, TypeOK, Versions
  <2> QED
    BY <2>1, <2>2 DEF RYWInv, VersionsLive
<1>2. CASE \A w \in Writers : ~Bump(w)
  BY <1>2, OnlyBump DEF RYWInv, VersionsLive
<1> QED
  BY <1>1, <1>2

LEMMA StepAckedStored ==
  ASSUME RYWInv, [Next]_vars, ~Flaky
  PROVE  AckedStored'
<1>1. ASSUME NEW w \in Writers, Bump(w) PROVE AckedStored'
  <2> SUFFICES ASSUME NEW x \in Users, NEW v \in Versions
               PROVE  Covers(row, acked[x][v])'
    BY DEF AckedStored
  <2> DEFINE u == writer[w].user
  <2>1. UNCHANGED <<row, deleted>>
    BY <1>1, BumpEffect
  <2>2. CASE x = u /\ v = version[u] + 1
    <3>1. Covers(row, acked'[x][v])
      BY <1>1, <2>2, BumpEffect
    <3> QED
      BY <2>1, <3>1 DEF Covers
  <2>3. CASE ~(x = u /\ v = version[u] + 1)
    <3>1. acked'[x][v] = acked[x][v]
      BY <1>1, <2>3, BumpEffect
    <3> QED
      BY <2>1, <3>1 DEF Covers, RYWInv, AckedStored
  <2> QED
    BY <2>2, <2>3
<1>2. CASE \A w \in Writers : ~Bump(w)
  <2> SUFFICES ASSUME NEW u \in Users, NEW v \in Versions
               PROVE  Covers(row, acked[u][v])'
    BY DEF AckedStored
  <2>1. acked[u][v] \in Snapshot /\ Covers(row, acked[u][v])
    BY DEF RYWInv, AckedStored, TypeOK
  <2> QED
    BY <1>2, <2>1, OnlyBump, RowCoversGrow DEF Covers, RYWInv
<1> QED
  BY <1>1, <1>2

LEMMA StepWroteStored ==
  ASSUME RYWInv, [Next]_vars, ~Flaky
  PROVE  WroteStored'
<1> DEFINE Good(r) == /\ Covers(row, r.wrote)
                      /\ r.pc # "idle" => r.user \in Users
<1> SUFFICES ASSUME NEW x \in Writers PROVE Good(writer[x])'
  BY DEF WroteStored
<1> USE DEF RYWInv
<1>0. Good(writer[x]) /\ writer[x].wrote \in Snapshot
  BY DEF WroteStored, TypeOK, WriteRequest
\* A request that keeps its writes and its user stays good.
<1>1. ASSUME writer'[x].wrote = writer[x].wrote,
             writer'[x].pc # "idle" => writer'[x].user \in Users
      PROVE  Good(writer[x])'
  BY <1>0, <1>1, RowCoversGrow DEF Covers
<1>2. ASSUME writer'[x].wrote = writer[x].wrote,
             writer'[x].user = writer[x].user,
             writer[x].pc # "idle" \/ writer'[x].pc = "idle"
      PROVE  Good(writer[x])'
  BY <1>0, <1>1, <1>2
\* So does one that ends.
<1>3. ASSUME writer'[x] = IdleWriter PROVE Good(writer[x])'
  <2>1. row' \in Snapshot
    BY StepTypeOK DEF TypeOK
  <2> QED
    BY <1>3, <2>1 DEF Covers, IdleWriter, Nothing, Snapshot
<1>4. ASSUME NEW w \in Writers, NEW u \in Users, NEW m \in Materials,
             NEW ok \in BOOLEAN, Insert(w, u, m, ok)
      PROVE  Good(writer[x])'
  <2>1. CASE x # w
    BY <1>2, <1>4, <2>1 DEF Insert, TypeOK
  <2>2. CASE x = w
    <3>1. writer'[x].wrote = [writer[x].wrote EXCEPT ![m] = IF ok THEN 1 ELSE 0]
      BY <1>4, <2>2 DEF Insert, TypeOK
    <3>2. row'[m] = 1 /\ \A n \in Materials : n # m => row'[n] = row[n]
      BY <1>4 DEF Insert, TypeOK, Snapshot
    <3>3. UNCHANGED deleted /\ writer'[x].user = u
      BY <1>4, <2>2 DEF Insert, TypeOK
    <3> QED
      BY <1>0, <3>1, <3>2, <3>3 DEF Covers, Snapshot
  <2> QED
    BY <2>1, <2>2
<1>5. ASSUME NEW w \in Writers, UpdateRow(w) PROVE Good(writer[x])'
  <2>1. CASE x # w
    BY <1>2, <1>5, <2>1 DEF UpdateRow, TypeOK
  <2>2. CASE x = w
    <3>1. PICK m \in writer[w].ms :
            LET next == IF row[m] = 0 THEN 0 ELSE row[m] + 1 IN
            /\ row' = [row EXCEPT ![m] = next]
            /\ writer' = [writer EXCEPT ![w] =
                 [@ EXCEPT !.pc = "bump", !.wrote[m] = next]]
      BY <1>5 DEF UpdateRow
    <3>2. m \in Materials
      BY DEF TypeOK, WriteRequest
    <3>3. /\ row'[m] = writer'[x].wrote[m]
          /\ \A n \in Materials : n # m =>
               row'[n] = row[n] /\ writer'[x].wrote[n] = writer[x].wrote[n]
          /\ writer'[x].user = writer[x].user
      BY <2>2, <3>1, <3>2 DEF TypeOK, WriteRequest, Snapshot
    <3>4. row'[m] \in Nat
      BY <3>2, StepTypeOK DEF TypeOK, Snapshot
    <3>5. UNCHANGED deleted /\ writer[x].pc # "idle"
      BY <1>5, <2>2 DEF UpdateRow
    <3> QED
      BY <1>0, <3>3, <3>4, <3>5 DEF Covers
  <2> QED
    BY <2>1, <2>2
<1>6. ASSUME NEW w \in Writers,
             EndInserts(w) \/ RemoveRow(w) \/ BeginWipe(w) \/ EndWipe(w)
                \/ Abort(w) \/ Bump(w)
      PROVE  Good(writer[x])'
  <2>1. CASE x # w
    BY <1>2, <1>6, <2>1
       DEF EndInserts, RemoveRow, BeginWipe, EndWipe, Abort, Bump, TypeOK
  <2>2. CASE x = w /\ writer'[x] = IdleWriter
    BY <1>3, <2>2
  <2>3. CASE x = w /\ writer'[x] # IdleWriter
    <3>1. writer[x].pc # "idle"
      BY <1>6, <2>3 DEF EndInserts, RemoveRow, BeginWipe, EndWipe, Abort, Bump
    <3>2. CASE EndInserts(w)
      BY <1>2, <2>3, <3>1, <3>2 DEF EndInserts, TypeOK, WriteRequest
    <3>3. CASE RemoveRow(w)
      BY <1>2, <2>3, <3>1, <3>3 DEF RemoveRow, TypeOK, WriteRequest
    <3>4. CASE BeginWipe(w)
      BY <1>2, <2>3, <3>1, <3>4 DEF BeginWipe, TypeOK, WriteRequest
    <3>5. CASE EndWipe(w) \/ Abort(w) \/ Bump(w)
      BY <2>3, <3>5 DEF EndWipe, Abort, Bump, TypeOK
    <3> QED
      BY <1>6, <3>2, <3>3, <3>4, <3>5
  <2> QED
    BY <2>1, <2>2, <2>3
<1>7. ASSUME NEW K, writer' = Forget(K) PROVE Good(writer[x])'
  BY <1>2, <1>7 DEF Forget, TypeOK, WriteRequest
<1>8. ASSUME NEW w \in Writers, NEW u \in Users, NEW m \in Materials,
             NEW what \in {"update", "remove"}, Authorize(w, u, m, what)
      PROVE  Good(writer[x])'
  <2>1. CASE x # w
    BY <1>2, <1>8, <2>1 DEF Authorize, TypeOK
  <2>2. CASE x = w
    BY <1>1, <1>8, <2>2 DEF Authorize, TypeOK, WriteRequest
  <2> QED
    BY <2>1, <2>2
<1>9. CASE UNCHANGED writer
  BY <1>2, <1>9
<1> QED
  BY <1>4, <1>5, <1>6, <1>7, <1>8, <1>9
     DEF Next, Request, SearchStep, WriteStep, SearchBegin, SearchHit,
         SearchMiss, SearchQuery, SearchStore, SearchEnd, WipeBatch, Review,
         Expire, Reconnect, vars

\* What covers the writes acknowledged at a version in use goes on doing so:
\* a bump acknowledges writes at the next version only.
LEMMA CoversAckedGrow ==
  ASSUME RYWInv, [Next]_vars, ~Flaky,
         NEW f \in Snapshot, NEW u \in Users, NEW v \in Versions,
         v <= version[u], Covers(f, acked[u][v])
  PROVE  /\ v <= version'[u]
         /\ acked'[u][v] = acked[u][v]
         /\ \A m \in Materials : f[m] >= acked[u][v][m] \/ m \in deleted'
<1>1. acked[u][v] \in Snapshot /\ version[u] \in Nat /\ v \in Nat
  BY Constants DEF RYWInv, TypeOK
<1>2. \A m \in Materials : f[m] >= acked[u][v][m] \/ m \in deleted'
  BY <1>1, CoversGrow DEF RYWInv
<1>3. ASSUME NEW w \in Writers, Bump(w)
      PROVE  v <= version'[u] /\ acked'[u][v] = acked[u][v]
  <2>1. version' = [version EXCEPT ![writer[w].user] = @ + 1]
    BY <1>3, BumpEffect
  <2>2. u # writer[w].user \/ v # version[writer[w].user] + 1
    BY <1>1
  <2>3. acked'[u][v] = acked[u][v]
    BY <1>3, <2>2, BumpEffect
  <2> QED
    BY <1>1, <2>1, <2>3 DEF RYWInv, TypeOK
<1>4. CASE \A w \in Writers : ~Bump(w)
  <2>1. version' = version /\ acked' = acked
    BY <1>4, OnlyBump
  <2> QED
    BY <1>2, <2>1
<1> QED
  BY <1>2, <1>3, <1>4

LEMMA StepSearchCovered ==
  ASSUME RYWInv, [Next]_vars, ~Flaky
  PROVE  SearchCovered'
<1> DEFINE Live(r)    == r.pc # "idle" /\ r.user # Anon
           Keyed(r)   == r.v <= version[r.user] /\ r.floor = acked[r.user][r.v]
           Current(r) == r.pc \in {"computed", "answered"} => Covers(r.snap, r.floor)
           Fine(r)    == IF Live(r) THEN Keyed(r) /\ Current(r) ELSE r.floor = Nothing
<1> SUFFICES ASSUME NEW x \in Searches PROVE Fine(search[x])'
  BY DEF SearchCovered
<1> USE DEF RYWInv
<1>1. Fine(search[x]) /\ search[x] \in SearchRequest
  BY DEF SearchCovered, TypeOK
<1>2. ASSUME Live(search[x])
      PROVE  search[x].user \in Users /\ search[x].v \in Versions
             /\ acked[search[x].user][search[x].v] \in Snapshot
  BY <1>1, <1>2 DEF SearchRequest, Searchers, TypeOK
\* The key of a live search stays that of the writes it is held to.
<1>3. ASSUME Live(search[x]), Keyed(search[x])
      PROVE  /\ search[x].v <= version'[search[x].user]
             /\ search[x].floor = acked'[search[x].user][search[x].v]
  <2>1. CASE \A w \in Writers : ~Bump(w)
    <3>1. version' = version /\ acked' = acked
      BY <2>1, OnlyBump
    <3> QED
      BY <1>3, <3>1
  <2>2. ASSUME NEW w \in Writers, Bump(w)
        PROVE  /\ search[x].v <= version'[search[x].user]
               /\ search[x].floor = acked'[search[x].user][search[x].v]
    <3> DEFINE u == search[x].user
               v == search[x].v
    <3>1. version[u] \in Nat /\ v \in Nat
      BY <1>2, <1>3, Constants DEF TypeOK
    <3>2. version' = [version EXCEPT ![writer[w].user] = @ + 1]
      BY <2>2, BumpEffect
    <3>3. u # writer[w].user \/ v # version[writer[w].user] + 1
      BY <1>3, <3>1
    <3>4. acked'[u][v] = acked[u][v]
      BY <1>2, <1>3, <2>2, <3>3, BumpEffect
    <3> QED
      BY <1>2, <1>3, <3>1, <3>2, <3>4 DEF TypeOK
  <2> QED
    BY <2>1, <2>2
<1>4. CASE search'[x] = search[x]
  <2>1. CASE Live(search[x])
    <3>1. Keyed(search[x]) /\ Current(search[x])
      BY <1>1, <2>1
    <3>2. Current(search[x])'
      BY <1>1, <1>2, <1>4, <2>1, <3>1, CoversGrow DEF Covers, SearchRequest
    <3> QED
      BY <1>3, <1>4, <2>1, <3>1, <3>2
  <2>2. CASE ~Live(search[x])
    BY <1>1, <1>4, <2>2
  <2> QED
    BY <2>1, <2>2
<1>5. ASSUME NEW u \in Searchers, SearchBegin(x, u) PROVE Fine(search[x])'
  <2>1. search'[x] =
          [pc     |-> "versioned",
           user   |-> u,
           v      |-> IF u = Anon THEN 1 ELSE SearchVersion(u),
           snap   |-> Nothing,
           floor  |-> IF u = Anon THEN Nothing ELSE acked[u][version[u]],
           hidden |-> wiped]
    BY <1>5 DEF SearchBegin, TypeOK
  <2>2. UNCHANGED <<version, acked>>
    BY <1>5 DEF SearchBegin
  <2>3. CASE u = Anon
    BY <2>1, <2>3
  <2>4. CASE u # Anon
    <3>1. u \in Users /\ version[u] \in Nat
      BY <2>4, Constants DEF Searchers, TypeOK
    <3>2. SearchVersion(u) = version[u]
      BY <3>1 DEF SearchVersion, VersionsLive
    <3> QED
      BY <2>1, <2>2, <2>4, <3>1, <3>2
  <2> QED
    BY <2>3, <2>4
<1>6. CASE SearchHit(x)
  <2>1. search'[x] = [search[x] EXCEPT !.pc = "answered",
                                       !.snap = cache[CacheKey(x)].snap]
    BY <1>6 DEF SearchHit, TypeOK
  <2>2. UNCHANGED <<version, acked, deleted>> /\ search[x].pc = "versioned"
    BY <1>6 DEF SearchHit
  <2>3. search'[x].pc = "answered" /\ search'[x].snap = cache[CacheKey(x)].snap
        /\ search'[x].user = search[x].user /\ search'[x].v = search[x].v
        /\ search'[x].floor = search[x].floor
    BY <1>1, <2>1 DEF SearchRequest
  <2>4. ASSUME Live(search[x])
        PROVE  Covers(cache[CacheKey(x)].snap, search[x].floor)
    BY <1>1, <1>2, <1>6, <2>4 DEF SearchHit, CacheCovered, CacheKey
  <2> QED
    BY <1>1, <2>2, <2>3, <2>4 DEF Covers
<1>7. CASE SearchMiss(x)
  <2>1. search'[x] = [search[x] EXCEPT !.pc = "missed"]
    BY <1>7 DEF SearchMiss, TypeOK
  <2>2. UNCHANGED <<version, acked>> /\ search[x].pc = "versioned"
    BY <1>7 DEF SearchMiss
  <2>3. search'[x].pc = "missed"
        /\ search'[x].user = search[x].user /\ search'[x].v = search[x].v
        /\ search'[x].floor = search[x].floor
    BY <1>1, <2>1 DEF SearchRequest
  <2> QED
    BY <1>1, <2>2, <2>3
<1>8. CASE SearchQuery(x)
  <2>1. search'[x] = [search[x] EXCEPT !.pc = "computed", !.snap = row]
    BY <1>8 DEF SearchQuery, TypeOK
  <2>2. UNCHANGED <<version, acked, deleted>> /\ search[x].pc = "missed"
    BY <1>8 DEF SearchQuery
  <2>3. search'[x].pc = "computed" /\ search'[x].snap = row
        /\ search'[x].user = search[x].user /\ search'[x].v = search[x].v
        /\ search'[x].floor = search[x].floor
    BY <1>1, <2>1 DEF SearchRequest
  <2>4. ASSUME Live(search[x]) PROVE Covers(row, search[x].floor)
    BY <1>1, <1>2, <2>4 DEF AckedStored
  <2> QED
    BY <1>1, <2>2, <2>3, <2>4 DEF Covers
<1>9. CASE SearchStore(x)
  <2>1. search'[x] = [search[x] EXCEPT !.pc = "answered"]
    BY <1>9 DEF SearchStore, TypeOK
  <2>2. UNCHANGED <<version, acked, deleted>> /\ search[x].pc = "computed"
    BY <1>9 DEF SearchStore
  <2>3. search'[x].pc = "answered" /\ search'[x].snap = search[x].snap
        /\ search'[x].user = search[x].user /\ search'[x].v = search[x].v
        /\ search'[x].floor = search[x].floor
    BY <1>1, <2>1 DEF SearchRequest
  <2> QED
    BY <1>1, <2>2, <2>3 DEF Covers
<1>10. CASE SearchEnd(x)
  BY <1>10 DEF SearchEnd, IdleSearch, TypeOK
<1>11. ASSUME NEW s \in Searches, s # x,
              SearchStep(s) \/ \E u \in Searchers : SearchBegin(s, u)
       PROVE  search'[x] = search[x]
  BY <1>11 DEF SearchStep, SearchBegin, SearchHit, SearchMiss, SearchQuery,
               SearchStore, SearchEnd, TypeOK
<1>12. CASE \E s \in Searches :
              SearchStep(s) \/ \E u \in Searchers : SearchBegin(s, u)
  <2>1. PICK s \in Searches :
          SearchStep(s) \/ \E u \in Searchers : SearchBegin(s, u)
    BY <1>12
  <2>2. CASE s = x
    BY <1>5, <1>6, <1>7, <1>8, <1>9, <1>10, <2>1, <2>2 DEF SearchStep
  <2>3. CASE s # x
    BY <1>4, <1>11, <2>1, <2>3
  <2> QED
    BY <2>2, <2>3
<1>13. CASE UNCHANGED search
  BY <1>4, <1>13
<1> QED
  BY <1>12, <1>13
     DEF Next, Request, WriteStep, Insert, EndInserts, Authorize, UpdateRow,
         Bump, RemoveRow, BeginWipe, WipeBatch, EndWipe, Abort, Review, Expire,
         Reconnect, vars

LEMMA StepCacheCovered ==
  ASSUME RYWInv, [Next]_vars, ~Flaky
  PROVE  CacheCovered'
<1> SUFFICES ASSUME NEW u \in Users, NEW v \in Versions,
                    cache'[<<u, v>>].there
             PROVE  v <= version'[u] /\ Covers(cache[<<u, v>>].snap, acked[u][v])'
  BY DEF CacheCovered
<1> USE DEF RYWInv
<1> DEFINE k == <<u, v>>
<1>1. k \in Keys /\ cache[k] \in Slot
  BY DEF Keys, Searchers, TypeOK
<1>2. ASSUME NEW f \in Snapshot, v <= version[u], Covers(f, acked[u][v]),
             cache'[k].snap = f
      PROVE  v <= version'[u] /\ Covers(cache[k].snap, acked[u][v])'
  BY <1>2, CoversAckedGrow DEF Covers
<1>3. CASE cache'[k] = cache[k]
  BY <1>1, <1>2, <1>3 DEF CacheCovered, Slot
<1>4. ASSUME NEW s \in Searches, SearchStore(s), CacheKey(s) = k
      PROVE  v <= version'[u] /\ Covers(cache[k].snap, acked[u][v])'
  <2>1. /\ search[s] \in SearchRequest /\ search[s].pc = "computed"
        /\ search[s].user = u /\ search[s].v = v /\ u # Anon
    BY <1>4, CacheAssumption DEF SearchStore, CacheKey, TypeOK
  <2>2. v <= version[u] /\ Covers(search[s].snap, acked[u][v])
    BY <2>1 DEF SearchCovered
  <2>3. cache'[k].snap = search[s].snap
    BY <1>1, <1>4 DEF SearchStore, Stored, VersionsLive, TypeOK
  <2> QED
    BY <1>2, <2>1, <2>2, <2>3 DEF SearchRequest
<1>5. ASSUME NEW s \in Searches, SearchStep(s)
      PROVE  v <= version'[u] /\ Covers(cache[k].snap, acked[u][v])'
  <2>1. CASE SearchStore(s) /\ CacheKey(s) # k
    BY <1>1, <1>3, <2>1 DEF SearchStore, TypeOK
  <2>2. CASE ~SearchStore(s)
    BY <1>3, <1>5, <2>2
       DEF SearchStep, SearchHit, SearchMiss, SearchQuery, SearchEnd
  <2> QED
    BY <1>4, <2>1, <2>2
<1>6. ASSUME NEW j \in Keys, Expire(j)
      PROVE  v <= version'[u] /\ Covers(cache[k].snap, acked[u][v])'
  BY <1>1, <1>3, <1>6 DEF Expire, NoEntry, TypeOK
<1>7. ASSUME NEW w \in Writers, NEW K, WipeBatch(w, K)
      PROVE  v <= version'[u] /\ Covers(cache[k].snap, acked[u][v])'
  BY <1>1, <1>3, <1>7 DEF WipeBatch, NoEntry
<1>8. CASE UNCHANGED cache
  BY <1>3, <1>8
<1> QED
  BY <1>5, <1>6, <1>7, <1>8
     DEF Next, Request, SearchBegin, WriteStep, Insert, EndInserts, Authorize,
         UpdateRow, Bump, RemoveRow, BeginWipe, EndWipe, Abort, Review,
         Reconnect, vars

\* For every number of users, materials and requests, and for all bounds:
\* while Redis answers and every user's version key exists, a search sent
\* after a write has returned shows it.
THEOREM ReadYourWritesHolds ==
  ASSUME ~Flaky, InitVersion >= 1
  PROVE  Spec => []ReadYourWrites
<1>1. Init => RYWInv
  BY InitRYWInv
<1>2. RYWInv /\ [Next]_vars => RYWInv'
  BY StepTypeOK, StepVersionsLive, StepAckedStored, StepWroteStored,
     StepSearchCovered, StepCacheCovered DEF RYWInv
<1>3. RYWInv => ReadYourWrites
  <2> SUFFICES ASSUME RYWInv, NEW s \in Searches, search[s].pc = "answered"
               PROVE  Covers(search[s].snap, search[s].floor)
    BY DEF ReadYourWrites
  <2>1. search[s].snap \in Snapshot
    BY DEF RYWInv, TypeOK, SearchRequest
  <2> QED
    BY <2>1 DEF RYWInv, SearchCovered, Covers, Nothing, Snapshot
<1> QED
  BY <1>1, <1>2, <1>3, PTL DEF Spec

-----------------------------------------------------------------------------
(***************************************************************************)
(* The wipe of a hard delete reaches every entry that is older than the    *)
(* delete.  While SCAN runs, each such entry is among the keys it still    *)
(* has to return; nothing makes a new one.                                 *)
(***************************************************************************)

Stale(k, m) == cache[k].there /\ cache[k].snap[m] > 0 /\ m \notin cache[k].late

WipeInv ==
  /\ TypeOK
  /\ wiped \subseteq deleted
  /\ \A w \in Writers :
       /\ writer[w].pc \in {"wipe", "scan"} => writer[w].ms \subseteq deleted
       /\ writer[w].pc = "scan" =>
            \A m \in writer[w].ms, k \in Keys : Stale(k, m) => k \in writer[w].todo
  /\ \A m \in wiped, k \in Keys : ~Stale(k, m)

\* An entry becomes stale for a deleted material by no step: what is stored
\* after the delete is marked late.
LEMMA StaleShrinks ==
  ASSUME TypeOK, [Next]_vars, NEW m \in deleted, NEW k \in Keys, Stale(k, m)'
  PROVE  Stale(k, m)
<1> USE DEF TypeOK
<1>1. ASSUME NEW j \in Keys, Expire(j) PROVE Stale(k, m)
  BY <1>1 DEF Expire, Stale, NoEntry
<1>2. ASSUME NEW w \in Writers, NEW K, WipeBatch(w, K) PROVE Stale(k, m)
  BY <1>2 DEF WipeBatch, Stale, NoEntry
<1>3. ASSUME NEW s \in Searches, SearchStore(s) PROVE Stale(k, m)
  <2>1. cache'[k] = cache[k] \/ cache'[k] = Stored(search[s].snap)
    BY <1>3 DEF SearchStore
  <2> QED
    BY <1>3, <2>1 DEF SearchStore, Stored, Stale
<1>4. CASE UNCHANGED cache
  BY <1>4 DEF Stale
<1> QED
  BY <1>1, <1>2, <1>3, <1>4
     DEF Next, Request, SearchStep, SearchBegin, SearchHit, SearchMiss,
         SearchQuery, SearchEnd, WriteStep, Insert, EndInserts, Authorize,
         UpdateRow, Bump, RemoveRow, BeginWipe, EndWipe, Abort, Review,
         Reconnect, vars

LEMMA InitWipeInv == Init => WipeInv
BY InitTypeOK DEF Init, WipeInv, IdleWriter

LEMMA StepWipeInv == WipeInv /\ [Next]_vars => WipeInv'
<1> DEFINE Told(r)  == r.pc \in {"wipe", "scan"} => r.ms \subseteq deleted
           Bound(r) == r.pc = "scan" =>
                         \A m \in r.ms, k \in Keys : Stale(k, m) => k \in r.todo
<1> SUFFICES ASSUME WipeInv, [Next]_vars PROVE WipeInv'
  OBVIOUS
<1> USE DEF WipeInv
<1>1. TypeOK' /\ deleted \subseteq deleted'
  BY StepTypeOK, RowsGrow
<1>2. ASSUME NEW x \in Writers PROVE Told(writer[x])' /\ Bound(writer[x])'
  <2>1. Told(writer[x]) /\ Bound(writer[x]) /\ writer[x] \in WriteRequest
    BY DEF TypeOK
  \* Between two steps of the wipe, or outside one.
  <2>2. CASE writer'[x] = writer[x]
    BY <1>1, <2>1, <2>2, StaleShrinks
  <2>3. CASE writer'[x].pc \notin {"wipe", "scan"}
    BY <2>3
  <2>4. CASE RemoveRow(x)
    BY <1>1, <2>1, <2>4 DEF RemoveRow, TypeOK, WriteRequest
  <2>5. CASE BeginWipe(x) /\ writer'[x].pc = "scan"
    <3>1. /\ writer'[x] = [writer[x] EXCEPT !.pc = "scan",
                                           !.todo = {k \in Keys : cache[k].there}]
          /\ writer[x].pc = "wipe"
          /\ UNCHANGED <<cache, deleted>>
      BY <2>5 DEF BeginWipe, MatchingKeys, TypeOK, IdleWriter
    <3>2. writer'[x].ms = writer[x].ms
          /\ writer'[x].todo = {k \in Keys : cache[k].there}
      BY <2>1, <3>1 DEF WriteRequest
    <3> QED
      BY <2>1, <3>1, <3>2 DEF Stale
  <2>6. ASSUME NEW K, writer' = Forget(K), \A k \in K : ~cache'[k].there
        PROVE  Told(writer[x])' /\ Bound(writer[x])'
    <3>1. /\ writer'[x].pc = writer[x].pc /\ writer'[x].ms = writer[x].ms
          /\ writer'[x].todo = writer[x].todo \ K
      BY <2>1, <2>6 DEF Forget, WriteRequest
    <3>2. ASSUME NEW m \in writer[x].ms, NEW k \in Keys, Stale(k, m)',
                 writer[x].pc = "scan"
          PROVE  k \in writer[x].todo /\ k \notin K
      BY <2>1, <2>6, <3>2, StaleShrinks DEF Stale
    <3> QED
      BY <1>1, <2>1, <3>1, <3>2
  <2>7. ASSUME NEW j \in Keys, Expire(j)
        PROVE  Told(writer[x])' /\ Bound(writer[x])'
    <3> DEFINE K == {j}
    <3>1. writer' = Forget(K) /\ \A k \in K : ~cache'[k].there
      BY <2>7 DEF Expire, NoEntry, TypeOK
    <3> HIDE DEF K
    <3> QED
      BY <2>6, <3>1
  <2>8. ASSUME NEW w \in Writers, NEW K \in SUBSET Keys, WipeBatch(w, K)
        PROVE  Told(writer[x])' /\ Bound(writer[x])'
    <3>1. writer' = Forget(K) /\ \A k \in K : ~cache'[k].there
      BY <2>8 DEF WipeBatch, NoEntry
    <3> QED
      BY <2>6, <3>1
  <2>9. ASSUME NEW w \in Writers,
               \/ EndInserts(w) \/ UpdateRow(w) \/ Bump(w) \/ EndWipe(w) \/ Abort(w)
               \/ \E u \in Users, m \in Materials :
                    \/ \E ok \in BOOLEAN : Insert(w, u, m, ok)
                    \/ \E what \in {"update", "remove"} : Authorize(w, u, m, what)
        PROVE  Told(writer[x])' /\ Bound(writer[x])'
    <3>1. writer'[x] = writer[x] \/ writer'[x].pc \notin {"wipe", "scan"}
      <4>1. CASE EndInserts(w) \/ Bump(w) \/ EndWipe(w) \/ Abort(w)
        BY <4>1 DEF EndInserts, Bump, EndWipe, Abort, IdleWriter, TypeOK, WriteRequest
      <4>2. CASE UpdateRow(w)
        <5>1. PICK f : writer' = [writer EXCEPT ![w] =
                         [@ EXCEPT !.pc = "bump", !.wrote = f]]
          BY <4>2 DEF UpdateRow
        <5> QED
          BY <5>1 DEF TypeOK, WriteRequest
      <4>3. ASSUME NEW u \in Users, NEW m \in Materials, NEW ok \in BOOLEAN,
                   Insert(w, u, m, ok)
            PROVE  writer'[x] = writer[x] \/ writer'[x].pc \notin {"wipe", "scan"}
        BY <4>3 DEF Insert, TypeOK
      <4>4. ASSUME NEW u \in Users, NEW m \in Materials,
                   NEW what \in {"update", "remove"}, Authorize(w, u, m, what)
            PROVE  writer'[x] = writer[x] \/ writer'[x].pc \notin {"wipe", "scan"}
        BY <4>4 DEF Authorize, TypeOK, WriteRequest
      <4> QED
        BY <2>9, <4>1, <4>2, <4>3, <4>4
    <3> QED
      BY <2>2, <2>3, <3>1
  <2>10. ASSUME NEW w \in Writers, RemoveRow(w) \/ BeginWipe(w)
         PROVE  Told(writer[x])' /\ Bound(writer[x])'
    <3>1. CASE w # x
      BY <2>2, <2>10, <3>1 DEF RemoveRow, BeginWipe, TypeOK
    <3>2. CASE w = x /\ BeginWipe(x) /\ writer'[x].pc # "scan"
      BY <2>3, <3>2 DEF BeginWipe, IdleWriter, TypeOK
    <3> QED
      BY <2>4, <2>5, <2>10, <3>1, <3>2
  <2>11. CASE UNCHANGED writer
    BY <2>2, <2>11
  <2> QED
    BY <2>7, <2>8, <2>9, <2>10, <2>11
       DEF Next, Request, SearchStep, SearchBegin, SearchHit, SearchMiss,
           SearchQuery, SearchStore, SearchEnd, WriteStep, Review, Reconnect, vars
<1>3. wiped' \subseteq deleted' /\ \A m \in wiped', k \in Keys : ~Stale(k, m)'
  <2>1. ASSUME NEW w \in Writers, EndWipe(w)
        PROVE  /\ wiped' \subseteq deleted'
               /\ \A m \in wiped', k \in Keys : ~Stale(k, m)'
    <3>1. /\ wiped' = wiped \union writer[w].ms
          /\ writer[w].pc = "scan" /\ writer[w].todo = {}
          /\ UNCHANGED <<deleted, cache>>
      BY <2>1 DEF EndWipe
    <3> QED
      BY <3>1 DEF Stale
  <2>2. CASE UNCHANGED wiped
    BY <1>1, <2>2, StaleShrinks
  <2> QED
    BY <2>1, <2>2
       DEF Next, Request, SearchStep, SearchBegin, SearchHit, SearchMiss,
           SearchQuery, SearchStore, SearchEnd, WriteStep, Insert, EndInserts,
           Authorize, UpdateRow, Bump, RemoveRow, BeginWipe, WipeBatch, Abort,
           Review, Expire, Reconnect, vars
<1> QED
  BY <1>1, <1>2, <1>3

\* Whatever is in flight, and however the Redis connection behaves, a wipe that
\* ran to its end has left no entry older than the delete.
THEOREM WipeReachesAllHolds == Spec => []WipeReachesAll
<1>1. WipeInv => WipeReachesAll
  BY DEF WipeInv, WipeReachesAll, Stale
<1> QED
  BY <1>1, InitWipeInv, StepWipeInv, PTL DEF Spec
=============================================================================
