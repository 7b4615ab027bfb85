--------------------------- MODULE SearchesProofs ---------------------------
(*****************************************************************************)
(* Proofs about the pages and answers the backend keeps or pages through:    *)
(* recommendations in Redis, the previews script, the paged lists; for any   *)
(* users, materials, rows, requests and page sizes.  The search cache has a  *)
(* module of its own; the last section composes the four.                    *)
(*****************************************************************************)
EXTENDS MCSearches, SearchCacheProofs, FiniteSetTheorems, SequenceTheorems, TLAPS

-----------------------------------------------------------------------------
(*****************************************************************************)
(* Recommendations.  What an entry misses is being deleted by the request    *)
(* that stored it, unless the entry was SET late (RecsOwed).                 *)
(*****************************************************************************)

\* The searches of a user without a department do not count.
Counts(u, k) == k = "searches" => u \in Placed

\* A request that still has to delete page p of u, because of something of kind k.
Owes(s, u, k, p) ==
  /\ recReq[s].at = "invalidate"
  /\ recReq[s].user = u /\ recReq[s].stored = k /\ p \in recReq[s].todo

\* Of an entry that was not SET late, what it misses is about to delete it.
RecsOwed ==
  \A u \in Readers \ spared, p \in RecPages, k \in Likings :
    LET e == recs[<<u, p>>]
    IN  e.there /\ ~e.late /\ Counts(u, k) /\ e.of[k] < taste[u][k]
          => \E s \in RecRequests : Owes(s, u, k, p)

RecIInv == RecTypeOK /\ RecsOwed /\ RecsFollowTheUser

-----------------------------------------------------------------------------

LEMMA TasteTypes ==
  /\ NoTaste \in Taste
  /\ \A t \in Taste, k \in Likings : t[k] \in 0 .. MaxTaste /\ t[k] \in Nat
  /\ \A t \in Taste, k \in Likings, n \in 0 .. MaxTaste : [t EXCEPT ![k] = n] \in Taste
  BY RecAssumption DEF NoTaste, Taste

\* A request in flight has all its fields.
LEMMA RecFields ==
  ASSUME RecTypeOK, NEW r \in RecRequests, recReq[r].at # "idle"
  PROVE  recReq[r] \in RecRequest
  BY DEF RecTypeOK

LEMMA RecInvInit == RecInit => RecIInv
<1> SUFFICES ASSUME RecInit PROVE RecIInv
  OBVIOUS
<1>1. NoRecs \in RecEntry /\ NoRecs.there = FALSE
  BY TasteTypes DEF NoRecs, RecEntry
<1>2. RecTypeOK
  <2>1. \A u \in Readers, k \in Likings : settled[u][k] <= taste[u][k]
    BY TasteTypes DEF RecInit
  <2> QED BY <1>1, <2>1, TasteTypes, RecAssumption DEF RecInit, RecTypeOK, RecIdle
<1>3. \A u \in Readers, p \in RecPages : ~recs[<<u, p>>].there
  BY <1>1 DEF RecInit
<1> QED BY <1>2, <1>3 DEF RecIInv, RecsOwed, RecsFollowTheUser, GetHit

\* A request that moves on, or is cut short with its user spared.
LEMMA RecMoves ==
  ASSUME RecIInv, NEW r \in RecRequests, NEW c \in RecRequest \union {RecIdle},
         recReq' = [recReq EXCEPT ![r] = c],
         spared \subseteq spared', spared' \subseteq Readers, recFaults' \in 0 .. MaxRecFaults,
         recReq[r].at = "invalidate" => recReq[r].stored = "nothing" \/ recReq[r].user \in spared',
         UNCHANGED <<taste, recs, settled>>
  PROVE  RecIInv'
<1> USE DEF RecIInv
<1>1. RecTypeOK'
  BY DEF RecTypeOK, RecIdle
<1>2. RecsOwed'
  <2> SUFFICES ASSUME NEW u \in Readers \ spared', NEW p \in RecPages, NEW k \in Likings,
                      recs[<<u, p>>].there, ~recs[<<u, p>>].late, Counts(u, k),
                      recs[<<u, p>>].of[k] < taste[u][k]
               PROVE  \E s \in RecRequests : Owes(s, u, k, p)'
    BY DEF RecsOwed, Counts
  <2>1. PICK s \in RecRequests : Owes(s, u, k, p)
    BY DEF RecsOwed
  <2>2. s # r
    BY <2>1 DEF Owes, Likings
  <2> QED BY <2>1, <2>2 DEF Owes, RecTypeOK
<1>3. RecsFollowTheUser'
  BY DEF RecsFollowTheUser, GetHit, Behind
<1> QED BY <1>1, <1>2, <1>3

\* A request that begins.
LEMMA RecBegins ==
  ASSUME RecIInv, NEW r \in RecRequests, NEW u \in Readers, NEW p \in RecPages,
         NEW at \in {"searches", "likes", "store"}, RecBegin(r, at, u, p),
         UNCHANGED <<taste, recs, settled, spared, recFaults>>
  PROVE  RecIInv'
<1> DEFINE c == [at |-> at, user |-> u, page |-> p, of |-> NoTaste, stored |-> "nothing", todo |-> {}]
<1>1. c \in RecRequest
  BY TasteTypes DEF RecRequest
<1>2. recReq[r].at # "invalidate" /\ recReq' = [recReq EXCEPT ![r] = c]
  BY DEF RecBegin, RecIdle
<1> QED BY <1>1, <1>2, RecMoves DEF RecIInv, RecTypeOK

\* The end of an invalidation: what is settled then shows in every entry that was not
\* SET late, unless the user is spared.
LEMMA RecSettles ==
  ASSUME RecIInv, NEW r \in RecRequests, recReq[r].at = "invalidate", Settle(r), RecEnd(r),
         spared \subseteq spared', spared' \subseteq Readers, recFaults' \in 0 .. MaxRecFaults,
         recReq[r].todo = {} \/ recReq[r].user \in spared', UNCHANGED <<taste, recs>>
  PROVE  RecIInv'
<1> DEFINE q == recReq[r]
<1> USE DEF RecIInv
<1>0. q \in RecRequest
  BY RecFields
<1>1. \A u \in Readers, k \in Likings :
        \/ settled'[u][k] = settled[u][k]
        \/ /\ u = q.user /\ k = q.stored /\ settled'[u][k] = taste[u][k]
           /\ \A s \in RecRequests \ {r} : ~ /\ recReq[s].at = "invalidate"
                                             /\ recReq[s].user = u /\ recReq[s].stored = k
  BY <1>0 DEF Settle, RecTypeOK, RecRequest, Taste
<1>2. settled' \in [Readers -> Taste]
  BY <1>0, TasteTypes DEF Settle, RecTypeOK, RecRequest
<1>3. \A u \in Readers, k \in Likings : settled'[u][k] <= taste[u][k]
  BY <1>1, TasteTypes DEF RecTypeOK
<1>4. RecTypeOK'
  BY <1>2, <1>3 DEF RecTypeOK, RecEnd, RecIdle
<1>5. RecsOwed'
  <2> SUFFICES ASSUME NEW u \in Readers \ spared', NEW p \in RecPages, NEW k \in Likings,
                      recs[<<u, p>>].there, ~recs[<<u, p>>].late, Counts(u, k),
                      recs[<<u, p>>].of[k] < taste[u][k]
               PROVE  \E s \in RecRequests : Owes(s, u, k, p)'
    BY DEF RecsOwed, Counts
  <2>1. PICK s \in RecRequests : Owes(s, u, k, p)
    BY DEF RecsOwed
  <2>2. s # r
    BY <2>1 DEF Owes
  <2> QED BY <2>1, <2>2 DEF Owes, RecTypeOK, RecEnd
<1>6. RecsFollowTheUser'
  <2> SUFFICES ASSUME NEW u \in Readers \ spared', NEW p \in RecPages, NEW k \in Likings,
                      recs[<<u, p>>].there, ~recs[<<u, p>>].late, Counts(u, k),
                      recs[<<u, p>>].of[k] < settled'[u][k]
               PROVE  FALSE
    <3> SUFFICES ASSUME NEW u \in Readers \ spared', NEW p \in RecPages,
                        recs[<<u, p>>].there, Behind(recs[<<u, p>>].of, settled'[u], u)
                 PROVE  recs[<<u, p>>].late
      BY DEF RecsFollowTheUser, GetHit, Behind
    <3> QED BY DEF Behind, Counts
  <2>1. settled'[u][k] = taste[u][k] /\ u = q.user /\ k = q.stored
        /\ \A s \in RecRequests \ {r} : ~Owes(s, u, k, p)
    <3>1. ~(recs[<<u, p>>].of[k] < settled[u][k])
      BY DEF RecsFollowTheUser, GetHit, Behind, Counts
    <3> QED BY <1>1, <3>1 DEF Owes
  <2>2. ~Owes(r, u, k, p)
    BY <2>1 DEF Owes
  <2> QED BY <2>1, <2>2 DEF RecsOwed
<1> QED BY <1>4, <1>5, <1>6

LEMMA RecInvStep == RecIInv /\ [RecNext]_recVars => RecIInv'
<1> SUFFICES ASSUME RecIInv, [RecNext]_recVars PROVE RecIInv'
  OBVIOUS
<1>T. RecTypeOK /\ RecsOwed /\ RecsFollowTheUser
  BY DEF RecIInv
<1>1. ASSUME NEW r \in RecRequests, NEW u \in Readers, NEW p \in RecPages, GetMiss(r, u, p)
      PROVE  RecIInv'
  BY <1>1, RecBegins DEF GetMiss
<1>2. ASSUME NEW r \in RecRequests, NEW u \in Readers, TasteBegin(r, u) PROVE RecIInv'
  <2>1. (CHOOSE p \in RecPages : TRUE) \in RecPages
    BY RecAssumption
  <2> QED BY <1>2, <2>1, RecBegins DEF TasteBegin
<1>3. ASSUME NEW r \in RecRequests, ReadSearches(r) PROVE RecIInv'
  <2> DEFINE q == recReq[r]
             c == [q EXCEPT !.at = "likes", !.of.searches = taste[q.user].searches]
  <2>1. q \in RecRequest /\ q.at = "searches" /\ q.of \in Taste /\ q.user \in Readers
    BY <1>3, <1>T, RecFields DEF ReadSearches, RecRequest
  <2>2. [q.of EXCEPT !["searches"] = taste[q.user]["searches"]] \in Taste
    BY <1>T, <2>1, TasteTypes DEF RecTypeOK, Likings
  <2>3. c \in RecRequest
    BY <2>1, <2>2 DEF RecRequest
  <2>4. recReq' = [recReq EXCEPT ![r] = c]
    BY <1>3, <1>T DEF ReadSearches, RecTypeOK
  <2> QED BY <1>3, <1>T, <2>1, <2>3, <2>4, RecMoves DEF ReadSearches, RecTypeOK
<1>4. ASSUME NEW r \in RecRequests, RankMaterials(r) PROVE RecIInv'
  <2> DEFINE q == recReq[r]
             c == [q EXCEPT !.at = "set", !.of.likes = taste[q.user].likes]
  <2>1. q \in RecRequest /\ q.at = "likes" /\ q.of \in Taste /\ q.user \in Readers
    BY <1>4, <1>T, RecFields DEF RankMaterials, RecRequest
  <2>2. [q.of EXCEPT !["likes"] = taste[q.user]["likes"]] \in Taste
    BY <1>T, <2>1, TasteTypes DEF RecTypeOK, Likings
  <2>3. c \in RecRequest
    BY <2>1, <2>2 DEF RecRequest
  <2>4. recReq' = [recReq EXCEPT ![r] = c]
    BY <1>4, <1>T DEF RankMaterials, RecTypeOK
  <2> QED BY <1>4, <1>T, <2>1, <2>3, <2>4, RecMoves DEF RankMaterials, RecTypeOK
<1>5. ASSUME NEW r \in RecRequests, SetRecs(r) PROVE RecIInv'
  <2> DEFINE q == recReq[r]
             e == [there |-> TRUE, of |-> q.of, late |-> Behind(q.of, taste[q.user], q.user)]
  <2>1. q \in RecRequest /\ q.at = "set" /\ q.of \in Taste /\ q.user \in Readers /\ q.page \in RecPages
    BY <1>5, <1>T, RecFields DEF SetRecs, RecRequest
  <2>2. Behind(q.of, taste[q.user], q.user) \in BOOLEAN
    BY DEF Behind
  <2>3. e \in RecEntry
    BY <2>1, <2>2 DEF RecEntry
  <2>4. /\ recs' = [recs EXCEPT ![<<q.user, q.page>>] = e]
        /\ recReq' = [recReq EXCEPT ![r] = RecIdle]
        /\ UNCHANGED <<taste, settled, spared, recFaults>>
    BY <1>5 DEF SetRecs, RecEnd
  <2>5. RecTypeOK'
    BY <1>T, <2>1, <2>3, <2>4 DEF RecTypeOK, RecIdle
  <2>6. ~e.late => \A k \in Likings : Counts(q.user, k) =>
                     q.of[k] >= taste[q.user][k] /\ q.of[k] >= settled[q.user][k]
    BY <1>T, <2>1, TasteTypes DEF Behind, Counts, RecTypeOK
  <2>7. \A k \in Readers \X RecPages : recs'[k] = IF k = <<q.user, q.page>> THEN e ELSE recs[k]
    BY <1>T, <2>4 DEF RecTypeOK
  <2>8. RecsOwed'
    <3> SUFFICES ASSUME NEW u \in Readers \ spared, NEW p \in RecPages, NEW k \in Likings,
                        recs'[<<u, p>>].there, ~recs'[<<u, p>>].late, Counts(u, k),
                        recs'[<<u, p>>].of[k] < taste[u][k]
                 PROVE  \E s \in RecRequests : Owes(s, u, k, p)'
      BY <2>4 DEF RecsOwed, Counts
    <3>1. <<u, p>> # <<q.user, q.page>>
      BY <1>T, <2>1, <2>6, <2>7, TasteTypes DEF RecTypeOK
    <3>2. PICK s \in RecRequests : Owes(s, u, k, p)
      BY <1>T, <2>7, <3>1 DEF RecsOwed
    <3> QED BY <1>T, <2>1, <2>4, <3>2 DEF Owes, RecTypeOK
  <2>9. RecsFollowTheUser'
    <3> SUFFICES ASSUME NEW u \in Readers \ spared, NEW p \in RecPages, NEW k \in Likings,
                        recs'[<<u, p>>].there, recs'[<<u, p>>].of[k] < settled[u][k], Counts(u, k)
                 PROVE  recs'[<<u, p>>].late
      BY <2>4 DEF RecsFollowTheUser, GetHit, Behind, Counts
    <3>1. CASE <<u, p>> = <<q.user, q.page>>
      BY <1>T, <2>1, <2>6, <2>7, <3>1, TasteTypes DEF RecTypeOK
    <3>2. CASE <<u, p>> # <<q.user, q.page>>
      BY <1>T, <2>7, <3>2 DEF RecsFollowTheUser, GetHit, Behind, Counts
    <3> QED BY <3>1, <3>2
  <2> QED BY <2>5, <2>8, <2>9 DEF RecIInv
<1>6. ASSUME NEW k \in Readers \X RecPages, recs' = [recs EXCEPT ![k] = NoRecs],
             RecTypeOK', UNCHANGED <<taste, settled, spared>>,
             \A s \in RecRequests, u \in Readers, j \in Likings, p \in RecPages :
               Owes(s, u, j, p) /\ <<u, p>> # k => Owes(s, u, j, p)'
      PROVE  RecIInv'
  <2>1. ~NoRecs.there
    BY DEF NoRecs
  <2>2. \A j \in Readers \X RecPages : recs'[j] = IF j = k THEN NoRecs ELSE recs[j]
    BY <1>6, <1>T DEF RecTypeOK
  <2>3. RecsOwed'
    <3> SUFFICES ASSUME NEW u \in Readers \ spared, NEW p \in RecPages, NEW j \in Likings,
                        recs'[<<u, p>>].there, ~recs'[<<u, p>>].late, Counts(u, j),
                        recs'[<<u, p>>].of[j] < taste[u][j]
                 PROVE  \E s \in RecRequests : Owes(s, u, j, p)'
      BY <1>6 DEF RecsOwed, Counts
    <3>1. <<u, p>> # k /\ recs'[<<u, p>>] = recs[<<u, p>>]
      BY <2>1, <2>2
    <3>2. PICK s \in RecRequests : Owes(s, u, j, p)
      BY <1>T, <3>1 DEF RecsOwed
    <3> QED BY <1>6, <3>1, <3>2
  <2>4. RecsFollowTheUser'
    BY <1>6, <1>T, <2>1, <2>2 DEF RecsFollowTheUser, GetHit, Behind
  <2> QED BY <1>6, <2>3, <2>4 DEF RecIInv
<1>7. ASSUME NEW k \in Readers \X RecPages, RecsExpire(k) PROVE RecIInv'
  <2>1. RecTypeOK'
    BY <1>7, <1>T, TasteTypes DEF RecsExpire, RecTypeOK, NoRecs, RecEntry
  <2>2. recs' = [recs EXCEPT ![k] = NoRecs] /\ UNCHANGED <<taste, settled, spared, recReq>>
    BY <1>7 DEF RecsExpire
  <2> QED BY <1>6, <2>1, <2>2 DEF Owes
<1>8. ASSUME NEW r \in RecRequests, NEW p \in RecPages, DeleteRecs(r, p) PROVE RecIInv'
  <2> DEFINE q == recReq[r]
             c == [q EXCEPT !.todo = @ \ {p}]
  <2>1. q \in RecRequest /\ q.at = "invalidate" /\ q.user \in Readers
    BY <1>8, <1>T, RecFields DEF DeleteRecs, RecRequest
  <2>2. c \in RecRequest /\ c.at = "invalidate" /\ c.user = q.user /\ c.stored = q.stored
        /\ c.todo = q.todo \ {p}
    BY <2>1 DEF RecRequest
  <2>3. /\ recReq' = [recReq EXCEPT ![r] = c] /\ recs' = [recs EXCEPT ![<<q.user, p>>] = NoRecs]
        /\ UNCHANGED <<taste, settled, spared, recFaults>>
    BY <1>8, <1>T DEF DeleteRecs, RecTypeOK
  <2>4. NoRecs \in RecEntry
    BY TasteTypes DEF NoRecs, RecEntry
  <2>5. RecTypeOK'
    BY <1>T, <2>1, <2>2, <2>3, <2>4 DEF RecTypeOK
  <2>6. ASSUME NEW s \in RecRequests, NEW u \in Readers, NEW j \in Likings, NEW o \in RecPages,
               Owes(s, u, j, o), <<u, o>> # <<q.user, p>>
        PROVE  Owes(s, u, j, o)'
    <3>1. CASE s = r
      BY <1>T, <2>2, <2>3, <2>6, <3>1 DEF Owes, RecTypeOK
    <3>2. CASE s # r
      BY <1>T, <2>3, <2>6, <3>2 DEF Owes, RecTypeOK
    <3> QED BY <3>1, <3>2
  <2>7. <<q.user, p>> \in Readers \X RecPages
    BY <2>1
  <2> QED BY <1>6, <2>3, <2>5, <2>6, <2>7
<1>9. ASSUME NEW r \in RecRequests, NEW k \in Likings, StoreTaste(r, k) PROVE RecIInv'
  <2> DEFINE q == recReq[r]
             u == q.user
             c == [q EXCEPT !.at = "invalidate", !.stored = k, !.todo = RecPatternPages]
  <2>1. q \in RecRequest /\ q.at = "store" /\ u \in Readers /\ taste[u][k] < MaxTaste
        /\ taste[u] \in Taste /\ taste[u][k] \in Nat
    BY <1>9, <1>T, RecFields, TasteTypes DEF StoreTaste, RecRequest, RecTypeOK
  <2>2. c \in RecRequest /\ c.at = "invalidate" /\ c.user = u /\ c.stored = k /\ c.todo = RecPages
    BY <2>1 DEF RecRequest, RecPatternPages
  <2>3. /\ recReq' = [recReq EXCEPT ![r] = c]
        /\ taste' = [taste EXCEPT ![u] = [taste[u] EXCEPT ![k] = taste[u][k] + 1]]
        /\ UNCHANGED <<recs, settled, spared, recFaults>>
    BY <1>9, <1>T DEF StoreTaste, RecTypeOK
  <2>4. [taste[u] EXCEPT ![k] = taste[u][k] + 1] \in Taste
    <3>1. taste[u][k] + 1 \in 0 .. MaxTaste
      BY <2>1, RecAssumption
    <3> QED BY <2>1, <3>1, TasteTypes
  <2>5. \A v \in Readers, j \in Likings :
          taste'[v][j] = IF v = u /\ j = k THEN taste[v][j] + 1 ELSE taste[v][j]
    BY <1>T, <2>1, <2>3 DEF RecTypeOK, Taste
  <2>6. RecTypeOK'
    <3>1. \A v \in Readers, j \in Likings : settled[v][j] <= taste'[v][j]
      BY <1>T, <2>5, TasteTypes DEF RecTypeOK
    <3> QED BY <1>T, <2>2, <2>3, <2>4, <3>1 DEF RecTypeOK
  <2>7. RecsOwed'
    <3> SUFFICES ASSUME NEW v \in Readers \ spared, NEW p \in RecPages, NEW j \in Likings,
                        recs[<<v, p>>].there, ~recs[<<v, p>>].late, Counts(v, j),
                        recs[<<v, p>>].of[j] < taste'[v][j]
                 PROVE  \E s \in RecRequests : Owes(s, v, j, p)'
      BY <2>3 DEF RecsOwed, Counts
    <3>1. CASE v = u /\ j = k
      BY <1>T, <2>2, <2>3, <3>1 DEF Owes, RecTypeOK
    <3>2. CASE ~(v = u /\ j = k)
      <4>1. PICK s \in RecRequests : Owes(s, v, j, p)
        BY <1>T, <2>5, <3>2 DEF RecsOwed
      <4> QED BY <1>T, <2>1, <2>3, <4>1 DEF Owes, RecTypeOK
    <3> QED BY <3>1, <3>2
  <2>8. RecsFollowTheUser'
    BY <1>T, <2>3 DEF RecsFollowTheUser, GetHit, Behind
  <2> QED BY <2>6, <2>7, <2>8 DEF RecIInv
<1>10. ASSUME NEW r \in RecRequests, StoreNothing(r) PROVE RecIInv'
  <2> DEFINE c == [recReq[r] EXCEPT !.at = "invalidate", !.todo = RecPatternPages]
  <2>1. recReq[r] \in RecRequest /\ recReq[r].at = "store"
    BY <1>10, <1>T, RecFields DEF StoreNothing
  <2>2. c \in RecRequest
    BY <2>1 DEF RecRequest, RecPatternPages
  <2>3. recReq' = [recReq EXCEPT ![r] = c]
    BY <1>10, <1>T DEF StoreNothing, RecTypeOK
  <2> QED BY <1>10, <1>T, <2>1, <2>2, <2>3, RecMoves DEF StoreNothing, RecTypeOK
<1>11. ASSUME NEW r \in RecRequests, EndInvalidate(r) PROVE RecIInv'
  BY <1>11, <1>T, RecSettles DEF EndInvalidate, RecTypeOK
<1>12. ASSUME NEW r \in RecRequests, InvalidateFails(r) PROVE RecIInv'
  <2>1. recReq[r].user \in Readers
    BY <1>12, <1>T, RecFields DEF InvalidateFails, RecRequest
  <2>2. spared' \subseteq Readers /\ recFaults' \in 0 .. MaxRecFaults
    BY <1>12, <1>T, <2>1, RecAssumption DEF InvalidateFails, RecTypeOK
  <2> QED BY <1>12, <2>1, <2>2, RecSettles DEF InvalidateFails
<1>13. ASSUME NEW r \in RecRequests, RecCut(r) PROVE RecIInv'
  <2>1. recReq[r] \in RecRequest
    BY <1>13, <1>T DEF RecCut, RecTypeOK, RecIdle
  <2>2. spared' \subseteq Readers /\ recFaults' \in 0 .. MaxRecFaults
    BY <1>13, <1>T, <2>1, RecAssumption DEF RecCut, RecTypeOK, RecRequest
  <2> QED BY <1>13, <2>1, <2>2, RecMoves DEF RecCut, RecEnd
<1>14. CASE UNCHANGED recVars
  BY <1>14, <1>T DEF recVars, RecIInv, RecTypeOK, RecsOwed, Owes, Counts, RecsFollowTheUser, GetHit, Behind
<1> QED BY <1>1, <1>2, <1>3, <1>4, <1>5, <1>7, <1>8, <1>9, <1>10, <1>11, <1>12, <1>13, <1>14 DEF RecNext

\* Every reachable state of the recommendations is well typed.
THEOREM RecTypeCorrect == RecSpec => []RecTypeOK
<1>1. RecIInv => RecTypeOK
  BY DEF RecIInv
<1> QED BY <1>1, RecInvInit, RecInvStep, PTL DEF RecSpec

\* An entry misses what its user did only when it was SET late or could not be deleted.
THEOREM RecsFollowTheUserHolds == RecSpec => []RecsFollowTheUser
<1>1. RecIInv => RecsFollowTheUser
  BY DEF RecIInv
<1> QED BY <1>1, RecInvInit, RecInvStep, PTL DEF RecSpec

-----------------------------------------------------------------------------
(*****************************************************************************)
(* Previews.  What a page says of a material is so until its preview is set  *)
(* again, from the place on that the script has reached (PagesAreTrue).      *)
(*****************************************************************************)

\* A page has a material once, and no more than fit.
AnswerFits(a) == IsInjective(a.ids) /\ Len(a.ids) <= PageLimit

\* From the given place on, what a page says of a material is still so, unless its
\* preview was set since; and no material comes back.
TrueOf(a, from, there, kept) ==
  \A j \in from .. Len(a.ids) : LET m == a.ids[j] IN
    /\ m \in there \/ kept[m] = "gone"
    /\ m \in there /\ m \notin a.since => a.shown[m] = kept[m]
AnswerTrue(a, from) == TrueOf(a, from, ToSet(newest), preview)

\* The pages in Redis, and what is left of the one the script works on.
PagesAreTrue ==
  /\ \A p \in Pages : AnswerFits(answers[p]) /\ AnswerTrue(answers[p], 1)
  /\ AnswerFits(script.list) /\ AnswerTrue(script.list, script.item)

\* What the script makes an image of is not to be skipped, by what its page says.
WorkIsDue ==
  /\ script.at \in {"item", "paused", "upload"} => script.page \in Pages
  /\ script.at \in {"paused", "upload"} =>
       script.item <= Len(script.list.ids) /\ ~Skipped(Current, script.list.shown[Current])

\* The preview of a material that is there is not gone.
GoneIsGone == \A m \in Illustrated : Exists(m) => preview[m] # "gone"

PreviewIInv == PreviewTypeOK /\ PagesAreTrue /\ WorkIsDue /\ GoneIsGone /\ ProtectedStays

-----------------------------------------------------------------------------
(* Sequences without duplicates *)

LEMMA DistinctIs ==
  ASSUME NEW S, NEW s \in Seq(S)
  PROVE  /\ IsInjective(s) <=> \A i, j \in 1 .. Len(s) : s[i] = s[j] => i = j
         /\ \A x : x \in ToSet(s) <=> \E i \in 1 .. Len(s) : s[i] = x
<1>1. DOMAIN s = 1 .. Len(s)
  BY LenProperties
<1>2. IsInjective(s) <=> \A i, j \in 1 .. Len(s) : s[i] = s[j] => i = j
  BY <1>1 DEF IsInjective
<1>3. \A x : x \in ToSet(s) <=> \E i \in 1 .. Len(s) : s[i] = x
  BY <1>1 DEF ToSet
<1> QED BY <1>2, <1>3

\* A sequence without duplicates is no longer than the set it is of.
LEMMA DistinctLen ==
  ASSUME NEW S, IsFiniteSet(S), NEW s \in Seq(S), IsInjective(s)
  PROVE  Len(s) <= Cardinality(S)
<1>1. s \in [1 .. Len(s) -> S] /\ Len(s) \in Nat
  BY LenProperties
<1>2. s \in Injection(1 .. Len(s), S)
  BY <1>1, Zenon DEF Injection
<1>3. Cardinality(1 .. Len(s)) <= Cardinality(S)
  BY <1>2, FS_Injection
<1>4. Cardinality(1 .. Len(s)) = Len(s)
  <2> DEFINE n == Len(s)
  <2>1. n \in Int /\ 1 \in Int /\ n >= 0
    BY <1>1
  <2> HIDE DEF n
  <2>2. Cardinality(1 .. n) = IF 1 > n THEN 0 ELSE n - 1 + 1
    BY <2>1, FS_Interval
  <2>3. Cardinality(1 .. n) = n
    BY <2>1, <2>2
  <2> QED BY <2>3 DEF n
<1> QED BY <1>3, <1>4

\* Taking an element out of a sequence without duplicates leaves the others.
LEMMA TakenOut ==
  ASSUME NEW S, NEW s \in Seq(S), IsInjective(s), NEW i \in 1 .. Len(s)
  PROVE  /\ RemoveAt(s, i) \in Seq(S) /\ IsInjective(RemoveAt(s, i))
         /\ \A x : x \in ToSet(RemoveAt(s, i)) <=> x \in ToSet(s) /\ x # s[i]
<1> DEFINE n == Len(s)
           front == SubSeq(s, 1, i - 1)
           back == SubSeq(s, i + 1, n)
           t == RemoveAt(s, i)
<1>0. n \in Nat /\ i \in Nat /\ \A j \in 1 .. n : s[j] \in S
  BY LenProperties, ElementOfSeq
<1>1. /\ front \in Seq(S) /\ Len(front) = i - 1
      /\ \A j \in 1 .. i - 1 : front[j] = s[j]
  <2>1. /\ front \in Seq(S) /\ Len(front) = IF 1 <= i - 1 THEN (i - 1) - 1 + 1 ELSE 0
        /\ \A j \in 1 .. (i - 1) - 1 + 1 : front[j] = s[1 + j - 1]
    BY <1>0, SubSeqProperties
  <2> HIDE DEF front
  <2> QED BY <1>0, <2>1
<1>2. /\ back \in Seq(S) /\ Len(back) = n - i
      /\ \A j \in 1 .. n - i : back[j] = s[i + j]
  <2>1. /\ back \in Seq(S) /\ Len(back) = IF i + 1 <= n THEN n - (i + 1) + 1 ELSE 0
        /\ \A j \in 1 .. n - (i + 1) + 1 : back[j] = s[(i + 1) + j - 1]
    BY <1>0, SubSeqProperties
  <2> HIDE DEF back
  <2> QED BY <1>0, <2>1
<1>3. t = front \o back
  BY DEF RemoveAt
<1> HIDE DEF front, back, t
<1>4. /\ t \in Seq(S) /\ Len(t) = n - 1
      /\ \A j \in 1 .. n - 1 : t[j] = IF j < i THEN s[j] ELSE s[j + 1]
  <2>1. /\ t \in Seq(S) /\ Len(t) = Len(front) + Len(back)
        /\ \A j \in 1 .. Len(front) + Len(back) :
             t[j] = IF j <= Len(front) THEN front[j] ELSE back[j - Len(front)]
    BY <1>1, <1>2, <1>3, ConcatProperties
  <2>2. ASSUME NEW j \in 1 .. n - 1 PROVE t[j] = IF j < i THEN s[j] ELSE s[j + 1]
    <3>0. Len(front) = i - 1 /\ j \in 1 .. Len(front) + Len(back)
      BY <1>0, <1>1, <1>2
    <3>a. t[j] = IF j <= i - 1 THEN front[j] ELSE back[j - (i - 1)]
      BY <2>1, <3>0
    <3>1. CASE j < i
      <4>1. j <= i - 1 /\ j \in 1 .. i - 1
        BY <3>1, <1>0
      <4> QED BY <3>1, <3>a, <4>1, <1>1
    <3>2. CASE j >= i
      <4>0. ~(j <= i - 1)
        BY <3>2, <1>0
      <4>1. t[j] = back[j - (i - 1)] /\ j - (i - 1) \in 1 .. n - i
        BY <3>2, <3>a, <4>0, <1>0
      <4>2. back[j - (i - 1)] = s[i + (j - (i - 1))] /\ i + (j - (i - 1)) = j + 1
        BY <4>1, <1>0, <1>2
      <4> QED BY <4>1, <4>2, <3>2, <1>0
    <3> QED BY <3>1, <3>2, <1>0
  <2> QED BY <1>0, <1>1, <1>2, <2>1, <2>2
<1>5. \A j, k \in 1 .. n : s[j] = s[k] => j = k
  BY DistinctIs
<1>6. IsInjective(t)
  <2>1. ASSUME NEW j \in 1 .. n - 1, NEW k \in 1 .. n - 1, t[j] = t[k] PROVE j = k
    BY <1>0, <1>4, <1>5, <2>1
  <2> QED BY <1>4, <2>1, DistinctIs
<1>7. ASSUME NEW x PROVE x \in ToSet(t) <=> x \in ToSet(s) /\ x # s[i]
  <2>1. ASSUME NEW k \in 1 .. n - 1, t[k] = x PROVE \E j \in 1 .. n : s[j] = x /\ j # i
    <3>1. CASE k < i
      BY <3>1, <2>1, <1>0, <1>4
    <3>2. CASE k >= i
      <4>1. k + 1 \in 1 .. n /\ k + 1 # i /\ s[k + 1] = x
        BY <3>2, <2>1, <1>0, <1>4
      <4> QED BY <4>1
    <3> QED BY <3>1, <3>2, <1>0
  <2>2. ASSUME NEW j \in 1 .. n, s[j] = x, j # i PROVE \E k \in 1 .. n - 1 : t[k] = x
    <3>1. CASE j < i
      BY <3>1, <2>2, <1>0, <1>4
    <3>2. CASE j > i
      <4>1. j - 1 \in 1 .. n - 1 /\ t[j - 1] = x
        BY <3>2, <2>2, <1>0, <1>4
      <4> QED BY <4>1
    <3> QED BY <3>1, <3>2, <2>2, <1>0
  <2>3. x \in ToSet(t) <=> \E k \in 1 .. n - 1 : t[k] = x
    BY <1>4, DistinctIs
  <2>4. x \in ToSet(s) <=> \E j \in 1 .. n : s[j] = x
    BY DistinctIs
  <2> QED BY <2>1, <2>2, <2>3, <2>4, <1>5
<1> QED BY <1>4, <1>6, <1>7 DEF t

\* Putting a new element in front.
LEMMA PutInFront ==
  ASSUME NEW S, NEW s \in Seq(S), IsInjective(s), NEW x \in S, x \notin ToSet(s)
  PROVE  /\ <<x>> \o s \in Seq(S) /\ IsInjective(<<x>> \o s)
         /\ \A y : y \in ToSet(<<x>> \o s) <=> y = x \/ y \in ToSet(s)
<1> DEFINE n == Len(s)
           t == <<x>> \o s
<1>0. n \in Nat
  BY LenProperties
<1>1. /\ t \in Seq(S) /\ Len(t) = n + 1 /\ t[1] = x
      /\ \A j \in 1 .. n : t[j + 1] = s[j]
  OBVIOUS
<1> HIDE DEF t
<1>2. \A j \in 1 .. n : s[j] # x
  BY DistinctIs
<1>3. \A j, k \in 1 .. n : s[j] = s[k] => j = k
  BY DistinctIs
<1>4. \A k \in 1 .. n + 1 : k = 1 \/ (k - 1 \in 1 .. n /\ t[k] = s[k - 1])
  <2>1. ASSUME NEW k \in 1 .. n + 1, k # 1 PROVE k - 1 \in 1 .. n /\ t[k] = s[k - 1]
    <3>1. k - 1 \in 1 .. n /\ (k - 1) + 1 = k
      BY <2>1, <1>0
    <3> QED BY <3>1, <1>1
  <2> QED BY <2>1
<1>5. IsInjective(t)
  <2>1. ASSUME NEW j \in 1 .. n + 1, NEW k \in 1 .. n + 1, t[j] = t[k] PROVE j = k
    <3>1. CASE j = 1 \/ k = 1
      BY <3>1, <2>1, <1>1, <1>2, <1>4
    <3>2. CASE j # 1 /\ k # 1
      <4>1. j - 1 = k - 1
        BY <3>2, <2>1, <1>3, <1>4
      <4> QED BY <4>1, <1>0
    <3> QED BY <3>1, <3>2
  <2> QED BY <1>1, <2>1, DistinctIs
<1>6. ASSUME NEW y PROVE y \in ToSet(t) <=> y = x \/ y \in ToSet(s)
  <2>1. y \in ToSet(t) <=> \E k \in 1 .. n + 1 : t[k] = y
    BY <1>1, DistinctIs
  <2>2. y \in ToSet(s) <=> \E j \in 1 .. n : s[j] = y
    BY DistinctIs
  <2>3. ASSUME NEW j \in 1 .. n PROVE j + 1 \in 1 .. n + 1 /\ t[j + 1] = s[j]
    BY <1>0, <1>1
  <2>4. 1 \in 1 .. n + 1
    BY <1>0
  <2> QED BY <1>1, <1>4, <2>1, <2>2, <2>3, <2>4
<1> QED BY <1>1, <1>5, <1>6 DEF t

-----------------------------------------------------------------------------
(* Pages *)

LEMMA PagesAre == Cardinality(Illustrated) \in Nat \ {0} /\ 1 \in Pages
<1>1. Cardinality(Illustrated) \in Nat
  BY PreviewAssumption, FS_CardinalityType
<1>2. Cardinality(Illustrated) # 0
  BY PreviewAssumption, FS_EmptySet
<1> QED BY <1>1, <1>2 DEF Pages

LEMMA NoAnswerFits ==
  NoAnswer \in Answer /\ ~NoAnswer.there /\ AnswerFits(NoAnswer) /\ \A k \in Nat \ {0} : AnswerTrue(NoAnswer, k)
<1>1. NoAnswer.ids = << >> /\ Len(NoAnswer.ids) = 0 /\ PageLimit >= 0
  BY PreviewAssumption DEF NoAnswer
<1>2. IsInjective(NoAnswer.ids)
  <2> DEFINE s == NoAnswer.ids
  <2>1. s \in Seq(Illustrated) /\ Len(s) = 0
    BY <1>1
  <2> HIDE DEF s
  <2>2. \A i, j \in 1 .. Len(s) : s[i] = s[j] => i = j
    BY <2>1
  <2>3. IsInjective(s)
    BY <2>1, <2>2, DistinctIs
  <2> QED BY <2>3 DEF s
<1>3. \A k \in Nat \ {0} : AnswerTrue(NoAnswer, k)
  <2>1. \A k \in Nat \ {0} : k .. 0 = {}
    OBVIOUS
  <2> QED BY <1>1, <2>1 DEF AnswerTrue, TrueOf
<1>4. NoAnswer \in Answer /\ ~NoAnswer.there
  BY DEF NoAnswer, Answer, Places
<1> QED BY <1>1, <1>2, <1>3, <1>4 DEF AnswerFits

\* A page that is computed now says what is so.
LEMMA ComputedFits ==
  ASSUME newest \in Seq(Illustrated), IsInjective(newest),
         preview \in [Illustrated -> Places \union {"gone"}],
         \A m \in Illustrated : Exists(m) => preview[m] # "gone",
         NEW p \in Pages
  PROVE  Computed(p) \in Answer /\ AnswerFits(Computed(p)) /\ AnswerTrue(Computed(p), 1)
<1> DEFINE n == Len(newest)
           a == (p - 1) * PageLimit
           b == Least(p * PageLimit, n)
           ids == SubSeq(newest, a + 1, b)
           shown == [m \in Illustrated |-> IF Exists(m) THEN preview[m] ELSE "none"]
           total == (n + PageLimit - 1) \div PageLimit
<1>1. n \in Nat /\ p \in Nat \ {0} /\ PageLimit \in Nat \ {0} /\ n <= Cardinality(Illustrated)
  BY PreviewAssumption, DistinctLen DEF Pages
<1>2. a \in Nat /\ p * PageLimit = a + PageLimit
  BY <1>1
<1>3. b \in Nat /\ b <= n /\ b <= a + PageLimit
  BY <1>1, <1>2 DEF Least
<1>4. total \in {0} \union Pages
  <2>1. total \in 0 .. n
    BY <1>1
  <2> HIDE DEF total
  <2> QED BY <1>1, <2>1, PagesAre DEF Pages
<1>5. shown \in [Illustrated -> Places] /\ \A m \in Illustrated : Exists(m) => shown[m] = preview[m]
  BY DEF Places
<1>6. Computed(p) = [there |-> TRUE, ids |-> ids, shown |-> shown, total |-> total, since |-> {}]
  BY DEF Computed
<1> HIDE DEF a, b, shown, total
<1>7. /\ ids \in Seq(Illustrated) /\ Len(ids) = (IF a + 1 <= b THEN b - a ELSE 0)
      /\ \A j \in 1 .. Len(ids) : a + j \in 1 .. n /\ ids[j] = newest[a + j]
  <2>1. \A j \in a + 1 .. b : newest[j] \in Illustrated
    BY <1>2, <1>3
  <2>2. /\ ids \in Seq(Illustrated) /\ Len(ids) = (IF a + 1 <= b THEN b - (a + 1) + 1 ELSE 0)
        /\ \A j \in 1 .. b - (a + 1) + 1 : ids[j] = newest[(a + 1) + j - 1]
    BY <1>2, <1>3, <2>1, SubSeqProperties
  <2> HIDE DEF ids
  <2>3. Len(ids) = IF a + 1 <= b THEN b - a ELSE 0
    BY <1>2, <1>3, <2>2
  <2>4. ASSUME NEW j \in 1 .. Len(ids) PROVE a + j \in 1 .. n /\ ids[j] = newest[a + j]
    <3>1. j \in 1 .. b - (a + 1) + 1 /\ (a + 1) + j - 1 = a + j /\ a + j \in 1 .. n
      BY <1>1, <1>2, <1>3, <2>3
    <3> QED BY <2>2, <3>1
  <2> QED BY <2>2, <2>3, <2>4
<1> HIDE DEF ids
<1>8. IsInjective(ids)
  <2>1. ASSUME NEW i \in 1 .. Len(ids), NEW j \in 1 .. Len(ids), ids[i] = ids[j] PROVE i = j
    <3>1. a + i \in 1 .. n /\ a + j \in 1 .. n /\ newest[a + i] = newest[a + j]
      BY <1>7, <2>1
    <3>2. a + i = a + j
      BY <3>1, DistinctIs
    <3> QED BY <3>2, <1>2
  <2> QED BY <1>7, <2>1, DistinctIs
<1>9. Len(ids) <= PageLimit
  BY <1>1, <1>2, <1>3, <1>7
<1>10. \A j \in 1 .. Len(ids) : ids[j] \in Illustrated /\ Exists(ids[j])
  <2>1. ASSUME NEW j \in 1 .. Len(ids) PROVE ids[j] \in ToSet(newest) /\ ids[j] \in Illustrated
    BY <1>1, <1>7, DistinctIs, ElementOfSeq
  <2> QED BY <2>1 DEF Exists
<1>11. Computed(p) \in Answer
  BY <1>4, <1>5, <1>6, <1>7 DEF Answer
<1>12. Computed(p).ids = ids /\ Computed(p).shown = shown
  BY <1>6
<1>13. AnswerTrue(Computed(p), 1)
  BY <1>5, <1>10, <1>12 DEF AnswerTrue, TrueOf, Exists
<1> QED BY <1>8, <1>9, <1>11, <1>12, <1>13 DEF AnswerFits

\* A page stays true when what is there, and the previews, change only for materials it
\* does not have, that are gone, or that were set since.
LEMMA StaysTrue ==
  ASSUME NEW a, NEW b, NEW k \in Nat, NEW l \in Nat, k <= l,
         NEW there, NEW there2, NEW kept, NEW kept2,
         TrueOf(a, k, there, kept), Len(a.ids) \in Nat,
         b.ids = a.ids, b.shown = a.shown, a.since \subseteq b.since,
         \A j \in l .. Len(a.ids) : LET m == a.ids[j] IN
           (m \in there \/ kept[m] = "gone") =>
             /\ m \in there2 \/ kept2[m] = "gone"
             /\ m \in there2 /\ m \notin b.since => m \in there /\ kept2[m] = kept[m]
  PROVE  TrueOf(b, l, there2, kept2)
<1> SUFFICES ASSUME NEW j \in l .. Len(b.ids)
             PROVE  LET m == b.ids[j] IN
                    /\ m \in there2 \/ kept2[m] = "gone"
                    /\ m \in there2 /\ m \notin b.since => b.shown[m] = kept2[m]
  BY DEF TrueOf
<1>1. j \in k .. Len(a.ids) /\ j \in l .. Len(a.ids)
  OBVIOUS
<1> DEFINE m == a.ids[j]
<1>2. /\ m \in there \/ kept[m] = "gone"
      /\ m \in there /\ m \notin a.since => a.shown[m] = kept[m]
  BY <1>1 DEF TrueOf
<1>3. /\ m \in there2 \/ kept2[m] = "gone"
      /\ m \in there2 /\ m \notin b.since => m \in there /\ kept2[m] = kept[m]
  BY <1>1, <1>2
<1>4. b.ids[j] = m /\ b.shown = a.shown /\ a.since \subseteq b.since
  OBVIOUS
<1> HIDE DEF m
<1> QED BY <1>2, <1>3, <1>4

-----------------------------------------------------------------------------
(* Type correctness and the invariant *)

LEMMA PreviewInitHolds == PreviewInit => PreviewIInv
<1> SUFFICES ASSUME PreviewInit PROVE PreviewIInv
  OBVIOUS
<1>1. newest \in Seq(Illustrated) /\ IsInjective(newest)
  <2>1. PICK t \in SUBSET Illustrated : newest \in SetToSeqs(t)
    BY DEF PreviewInit
  <2>2. newest \in [1 .. Cardinality(t) -> t] /\ IsInjective(newest)
    BY <2>1 DEF SetToSeqs, IsInjective
  <2>3. IsFiniteSet(t)
    BY PreviewAssumption, FS_Subset
  <2>4. Cardinality(t) \in Nat
    BY <2>3, FS_CardinalityType
  <2>5. newest \in Seq(Illustrated)
    BY <2>2, <2>4
  <2> QED BY <2>2, <2>5
<1>2. preview \in [Illustrated -> Places \union {"gone"}] /\ GoneIsGone
  BY DEF PreviewInit, GoneIsGone, Places
<1>3. \A p \in Pages : answers[p] \in Answer /\ AnswerFits(answers[p]) /\ AnswerTrue(answers[p], 1)
  <2>1. ASSUME NEW p \in Pages, answers = [q \in Pages |-> NoAnswer]
        PROVE  answers[p] \in Answer /\ AnswerFits(answers[p]) /\ AnswerTrue(answers[p], 1)
    <3>1. answers[p] = NoAnswer
      BY <2>1
    <3>2. 1 \in Nat \ {0}
      OBVIOUS
    <3> QED BY <3>1, <3>2, NoAnswerFits
  <2>2. ASSUME NEW p \in Pages, answers = [q \in Pages |-> Computed(q)]
        PROVE  answers[p] \in Answer /\ AnswerFits(answers[p]) /\ AnswerTrue(answers[p], 1)
    <3>1. answers[p] = Computed(p)
      BY <2>2
    <3> QED BY <1>1, <1>2, <3>1, ComputedFits DEF GoneIsGone
  <2> QED BY <2>1, <2>2 DEF PreviewInit
<1>4. answers \in [Pages -> Answer]
  <2>1. answers = [p \in Pages |-> answers[p]]
    BY DEF PreviewInit
  <2> QED BY <2>1, <1>3
<1>5. /\ script.at = "page" /\ script.page = 1 /\ script.total = 0
      /\ script.list = NoAnswer /\ script.item = 1
      /\ script = [at |-> "page", page |-> 1, total |-> 0, list |-> NoAnswer, item |-> 1]
  BY DEF PreviewInit
<1>6. 1 \in Nat \ {0} /\ 1 \in 1 .. PageLimit + 1 /\ 0 \in 0 .. MaxPreviewChanges
  BY PreviewAssumption
<1>7. AnswerFits(script.list) /\ AnswerTrue(script.list, script.item)
  BY <1>5, <1>6, NoAnswerFits
<1>8. PreviewTypeOK
  BY <1>1, <1>2, <1>4, <1>5, <1>6, NoAnswerFits, PagesAre DEF PreviewInit, PreviewTypeOK
<1>9. PagesAreTrue /\ WorkIsDue
  BY <1>3, <1>5, <1>7 DEF PagesAreTrue, WorkIsDue
<1> QED BY <1>2, <1>8, <1>9 DEF PreviewInit, PreviewIInv, ProtectedStays

\* What the invariant says of a state, in the words the steps use.
LEMMA PreviewFacts ==
  ASSUME PreviewIInv
  PROVE  /\ newest \in Seq(Illustrated) /\ IsInjective(newest)
         /\ preview \in [Illustrated -> Places \union {"gone"}]
         /\ \A p \in Pages : /\ answers[p] \in Answer /\ AnswerFits(answers[p])
                             /\ TrueOf(answers[p], 1, ToSet(newest), preview)
         /\ script.list \in Answer /\ AnswerFits(script.list)
         /\ TrueOf(script.list, script.item, ToSet(newest), preview)
         /\ script.item \in 1 .. PageLimit + 1
         /\ \A m \in ToSet(newest) : m \in Illustrated /\ preview[m] # "gone"
<1>1. \A m \in ToSet(newest) : m \in Illustrated
  <2>1. newest \in Seq(Illustrated)
    BY DEF PreviewIInv, PreviewTypeOK
  <2>2. \A i \in 1 .. Len(newest) : newest[i] \in Illustrated
    BY <2>1, ElementOfSeq
  <2> QED BY <2>1, <2>2, DistinctIs
<1> QED BY <1>1 DEF PreviewIInv, PreviewTypeOK, PagesAreTrue, AnswerTrue, GoneIsGone, Exists

LEMMA AnswerIs ==
  ASSUME NEW a \in Answer
  PROVE  /\ a.there \in BOOLEAN /\ a.ids \in Seq(Illustrated) /\ Len(a.ids) \in Nat
         /\ a.shown \in [Illustrated -> Places] /\ a.since \in SUBSET Illustrated
         /\ a.total \in {0} \union Pages
         /\ \A j \in 1 .. Len(a.ids) : a.ids[j] \in Illustrated
<1>1. a.ids \in Seq(Illustrated)
  BY DEF Answer
<1>2. Len(a.ids) \in Nat /\ \A j \in 1 .. Len(a.ids) : a.ids[j] \in Illustrated
  BY <1>1, LenProperties, ElementOfSeq
<1> QED BY <1>1, <1>2 DEF Answer

\* A page that says it did not see m's new preview.
LEMMA SinceGrows ==
  ASSUME NEW a \in Answer, NEW m \in Illustrated, AnswerFits(a)
  PROVE  LET b == [a EXCEPT !.since = @ \union {m}] IN
         /\ b \in Answer /\ AnswerFits(b) /\ b.ids = a.ids /\ b.shown = a.shown
         /\ b.since = a.since \union {m}
<1>1. a = [there |-> a.there, ids |-> a.ids, shown |-> a.shown, total |-> a.total, since |-> a.since]
  BY DEF Answer
<1> DEFINE b == [a EXCEPT !.since = @ \union {m}]
<1>a. b = [there |-> a.there, ids |-> a.ids, shown |-> a.shown, total |-> a.total, since |-> a.since \union {m}]
  BY <1>1
<1>2. /\ b.there = a.there /\ b.ids = a.ids /\ b.shown = a.shown /\ b.total = a.total
      /\ b.since = a.since \union {m}
      /\ b = [there |-> a.there, ids |-> a.ids, shown |-> a.shown, total |-> a.total, since |-> a.since \union {m}]
  BY <1>a
<1> HIDE DEF b
<1>3. b \in Answer
  BY <1>2, AnswerIs DEF Answer
<1>4. AnswerFits(b)
  BY <1>2 DEF AnswerFits
<1> QED BY <1>2, <1>3, <1>4 DEF b

-----------------------------------------------------------------------------
(* What users do *)

LEMMA SetPreviewStep ==
  ASSUME PreviewIInv, NEW m \in Illustrated, NEW place \in Places, SetPreview(m, place)
  PROVE  PreviewIInv'
<1>1. /\ newest' = newest /\ preview' = [preview EXCEPT ![m] = place]
      /\ answers' = [p \in Pages |-> [answers[p] EXCEPT !.since = @ \union {m}]]
      /\ script' = [script EXCEPT !.list.since = @ \union {m}]
      /\ options' = options /\ trampled' = trampled
      /\ previewChanges < MaxPreviewChanges /\ previewChanges' = previewChanges + 1
      /\ Exists(m)
  BY DEF SetPreview, UserChange, UpdateMaterialPreview
<1>2. /\ script'.at = script.at /\ script'.page = script.page /\ script'.total = script.total
      /\ script'.item = script.item
      /\ script'.list = [script.list EXCEPT !.since = @ \union {m}]
      /\ script' = [at |-> script.at, page |-> script.page, total |-> script.total,
                    list |-> [script.list EXCEPT !.since = @ \union {m}], item |-> script.item]
  BY <1>1 DEF PreviewIInv, PreviewTypeOK
<1>3. \A x \in Illustrated : preview'[x] = IF x = m THEN place ELSE preview[x]
  BY <1>1, PreviewFacts
<1>4. preview' \in [Illustrated -> Places \union {"gone"}]
  BY <1>1, PreviewFacts
<1>5. ASSUME NEW a \in Answer, NEW k \in Nat \ {0}, AnswerFits(a), TrueOf(a, k, ToSet(newest), preview)
      PROVE  LET b == [a EXCEPT !.since = @ \union {m}] IN
             b \in Answer /\ AnswerFits(b) /\ TrueOf(b, k, ToSet(newest'), preview')
  <2> DEFINE b == [a EXCEPT !.since = @ \union {m}]
  <2>1. b \in Answer /\ AnswerFits(b) /\ b.ids = a.ids /\ b.shown = a.shown /\ b.since = a.since \union {m}
    BY <1>5, SinceGrows
  <2> HIDE DEF b
  <2>2. ASSUME NEW j \in k .. Len(a.ids) PROVE a.ids[j] \in Illustrated
    BY AnswerIs
  <2>3. ASSUME NEW j \in k .. Len(a.ids), a.ids[j] \in ToSet(newest) \/ preview[a.ids[j]] = "gone"
        PROVE  /\ a.ids[j] \in ToSet(newest') \/ preview'[a.ids[j]] = "gone"
               /\ a.ids[j] \in ToSet(newest') /\ a.ids[j] \notin b.since =>
                    a.ids[j] \in ToSet(newest) /\ preview'[a.ids[j]] = preview[a.ids[j]]
    BY <1>1, <1>3, <2>1, <2>2, <2>3 DEF Exists
  <2>4. TrueOf(b, k, ToSet(newest'), preview')
    BY <1>5, <2>1, <2>3, AnswerIs, StaysTrue
  <2> QED BY <2>1, <2>4 DEF b
<1>6. \A p \in Pages : /\ answers'[p] \in Answer /\ AnswerFits(answers'[p])
                       /\ TrueOf(answers'[p], 1, ToSet(newest'), preview')
  <2>1. 1 \in Nat \ {0}
    OBVIOUS
  <2>2. ASSUME NEW p \in Pages PROVE answers'[p] = [answers[p] EXCEPT !.since = @ \union {m}]
    BY <1>1
  <2> SUFFICES ASSUME NEW p \in Pages
               PROVE  /\ answers'[p] \in Answer /\ AnswerFits(answers'[p])
                      /\ TrueOf(answers'[p], 1, ToSet(newest'), preview')
    OBVIOUS
  <2>3. answers[p] \in Answer /\ AnswerFits(answers[p]) /\ TrueOf(answers[p], 1, ToSet(newest), preview)
    BY PreviewFacts
  <2> QED BY <2>1, <2>2, <2>3, <1>5
<1>7. /\ script'.list \in Answer /\ AnswerFits(script'.list)
      /\ TrueOf(script'.list, script'.item, ToSet(newest'), preview')
  <2>1. script.item \in Nat \ {0}
    BY PreviewFacts, PreviewAssumption
  <2> QED BY <1>2, <1>5, <2>1, PreviewFacts
<1>8. answers' \in [Pages -> Answer]
  <2>1. answers' = [p \in Pages |-> answers'[p]]
    BY <1>1
  <2> QED BY <2>1, <1>6
<1>9. previewChanges' \in 0 .. MaxPreviewChanges
  BY <1>1, PreviewAssumption DEF PreviewIInv, PreviewTypeOK
<1>10. PreviewTypeOK'
  BY <1>1, <1>2, <1>4, <1>7, <1>8, <1>9 DEF PreviewIInv, PreviewTypeOK
<1>11. PagesAreTrue'
  BY <1>6, <1>7 DEF PagesAreTrue, AnswerTrue
<1>12. script'.list.ids = script.list.ids /\ script'.list.shown = script.list.shown
  BY <1>2, PreviewFacts, SinceGrows
<1>13. WorkIsDue'
  BY <1>1, <1>2, <1>12 DEF PreviewIInv, WorkIsDue, Skipped, Current
<1>14. GoneIsGone'
  BY <1>1, <1>3 DEF PreviewIInv, GoneIsGone, Exists, Places
<1> QED BY <1>1, <1>10, <1>11, <1>13, <1>14 DEF PreviewIInv, ProtectedStays

\* A new material is in no page: it is not there, and it is not gone.
LEMMA AddMaterialStep ==
  ASSUME PreviewIInv, NEW m \in Illustrated, NEW place \in Places, AddMaterial(m, place)
  PROVE  PreviewIInv'
<1>1. /\ newest' = <<m>> \o newest /\ preview' = [preview EXCEPT ![m] = place]
      /\ answers' = answers /\ script' = script /\ options' = options /\ trampled' = trampled
      /\ previewChanges < MaxPreviewChanges /\ previewChanges' = previewChanges + 1
      /\ m \notin ToSet(newest) /\ preview[m] = "none"
  BY DEF AddMaterial, UserChange, Exists
<1>2. \A x \in Illustrated : preview'[x] = IF x = m THEN place ELSE preview[x]
  BY <1>1, PreviewFacts
<1>3. /\ newest' \in Seq(Illustrated) /\ IsInjective(newest')
      /\ \A x : x \in ToSet(newest') <=> x = m \/ x \in ToSet(newest)
  BY <1>1, PreviewFacts, PutInFront
<1>4. ASSUME NEW a \in Answer, NEW k \in Nat \ {0}, TrueOf(a, k, ToSet(newest), preview)
      PROVE  TrueOf(a, k, ToSet(newest'), preview')
  <2>1. ASSUME NEW j \in k .. Len(a.ids) PROVE a.ids[j] \in Illustrated
    BY AnswerIs
  <2>2. ASSUME NEW j \in k .. Len(a.ids), a.ids[j] \in ToSet(newest) \/ preview[a.ids[j]] = "gone"
        PROVE  /\ a.ids[j] \in ToSet(newest') \/ preview'[a.ids[j]] = "gone"
               /\ a.ids[j] \in ToSet(newest') /\ a.ids[j] \notin a.since =>
                    a.ids[j] \in ToSet(newest) /\ preview'[a.ids[j]] = preview[a.ids[j]]
    <3>1. a.ids[j] # m
      BY <1>1, <2>2
    <3> QED BY <1>2, <1>3, <2>1, <2>2, <3>1
  <2> QED BY <1>4, <2>2, AnswerIs, StaysTrue
<1>5. PreviewTypeOK'
  <2>1. previewChanges' \in 0 .. MaxPreviewChanges
    BY <1>1, PreviewAssumption DEF PreviewIInv, PreviewTypeOK
  <2>2. preview' \in [Illustrated -> Places \union {"gone"}]
    BY <1>1, PreviewFacts
  <2> QED BY <1>1, <1>3, <2>1, <2>2 DEF PreviewIInv, PreviewTypeOK
<1>6. PagesAreTrue'
  <2>1. \A p \in Pages : AnswerFits(answers'[p]) /\ TrueOf(answers'[p], 1, ToSet(newest'), preview')
    <3> SUFFICES ASSUME NEW p \in Pages
                 PROVE  AnswerFits(answers'[p]) /\ TrueOf(answers'[p], 1, ToSet(newest'), preview')
      OBVIOUS
    <3>1. answers[p] \in Answer /\ AnswerFits(answers[p]) /\ TrueOf(answers[p], 1, ToSet(newest), preview)
      BY PreviewFacts
    <3>2. 1 \in Nat \ {0}
      OBVIOUS
    <3> QED BY <3>1, <3>2, <1>1, <1>4
  <2>2. AnswerFits(script'.list) /\ TrueOf(script'.list, script'.item, ToSet(newest'), preview')
    <3>1. script.item \in Nat \ {0}
      BY PreviewFacts, PreviewAssumption
    <3> QED BY <3>1, <1>1, <1>4, PreviewFacts
  <2> QED BY <2>1, <2>2 DEF PagesAreTrue, AnswerTrue
<1>7. WorkIsDue'
  BY <1>1 DEF PreviewIInv, WorkIsDue, Skipped, Current
<1>8. GoneIsGone'
  BY <1>2, <1>3, PreviewFacts DEF GoneIsGone, Exists, Places
<1> QED BY <1>1, <1>5, <1>6, <1>7, <1>8 DEF PreviewIInv, ProtectedStays

LEMMA RemoveMaterialStep ==
  ASSUME PreviewIInv, NEW m \in Illustrated, RemoveMaterial(m)
  PROVE  PreviewIInv'
<1>1. /\ preview' = [preview EXCEPT ![m] = "gone"] /\ answers' = [p \in Pages |-> NoAnswer]
      /\ script' = script /\ options' = options /\ trampled' = trampled
      /\ previewChanges < MaxPreviewChanges /\ previewChanges' = previewChanges + 1
  BY DEF RemoveMaterial, UserChange
<1>2. \A x \in Illustrated : preview'[x] = IF x = m THEN "gone" ELSE preview[x]
  BY <1>1, PreviewFacts
<1>3. /\ newest' \in Seq(Illustrated) /\ IsInjective(newest')
      /\ \A x : x \in ToSet(newest') <=> x \in ToSet(newest) /\ x # m
  <2>1. PICK i \in DOMAIN newest : newest[i] = m /\ newest' = RemoveAt(newest, i)
    BY DEF RemoveMaterial
  <2>2. i \in 1 .. Len(newest)
    BY PreviewFacts, LenProperties
  <2> QED BY <2>1, <2>2, PreviewFacts, TakenOut
<1>4. PreviewTypeOK'
  <2>1. previewChanges' \in 0 .. MaxPreviewChanges
    BY <1>1, PreviewAssumption DEF PreviewIInv, PreviewTypeOK
  <2>2. preview' \in [Illustrated -> Places \union {"gone"}]
    BY <1>1, PreviewFacts
  <2> QED BY <1>1, <1>3, <2>1, <2>2, NoAnswerFits DEF PreviewIInv, PreviewTypeOK
<1>5. ASSUME NEW p \in Pages PROVE AnswerFits(answers'[p]) /\ TrueOf(answers'[p], 1, ToSet(newest'), preview')
  <2>1. answers'[p] = NoAnswer /\ NoAnswer.ids = << >> /\ 1 .. 0 = {}
    BY <1>1 DEF NoAnswer
  <2>2. TrueOf(NoAnswer, 1, ToSet(newest'), preview')
    BY <2>1 DEF TrueOf
  <2> QED BY <2>1, <2>2, NoAnswerFits
<1>6. TrueOf(script'.list, script'.item, ToSet(newest'), preview')
  <2> DEFINE a == script.list
             k == script.item
  <2>0. a \in Answer /\ k \in Nat \ {0} /\ TrueOf(a, k, ToSet(newest), preview)
    BY PreviewFacts, PreviewAssumption
  <2> HIDE DEF a, k
  <2>1. ASSUME NEW j \in k .. Len(a.ids) PROVE a.ids[j] \in Illustrated
    BY <2>0, AnswerIs
  <2>2. ASSUME NEW j \in k .. Len(a.ids), a.ids[j] \in ToSet(newest) \/ preview[a.ids[j]] = "gone"
        PROVE  /\ a.ids[j] \in ToSet(newest') \/ preview'[a.ids[j]] = "gone"
               /\ a.ids[j] \in ToSet(newest') /\ a.ids[j] \notin a.since =>
                    a.ids[j] \in ToSet(newest) /\ preview'[a.ids[j]] = preview[a.ids[j]]
    BY <1>2, <1>3, <2>1, <2>2
  <2>3. TrueOf(a, k, ToSet(newest'), preview')
    BY <2>0, <2>2, AnswerIs, StaysTrue
  <2> QED BY <1>1, <2>3 DEF a, k
<1>7. PagesAreTrue'
  BY <1>1, <1>5, <1>6, PreviewFacts DEF PagesAreTrue, AnswerTrue
<1>8. WorkIsDue'
  BY <1>1 DEF PreviewIInv, WorkIsDue, Skipped, Current
<1>9. GoneIsGone'
  BY <1>2, <1>3, PreviewFacts DEF GoneIsGone, Exists
<1> QED BY <1>1, <1>4, <1>7, <1>8, <1>9 DEF PreviewIInv, ProtectedStays

-----------------------------------------------------------------------------
(* The pages in Redis *)

LEMMA AnswerExpiresStep ==
  ASSUME PreviewIInv, NEW p \in Pages, AnswerExpires(p)
  PROVE  PreviewIInv'
<1>1. /\ answers' = [answers EXCEPT ![p] = NoAnswer]
      /\ UNCHANGED <<newest, preview, script, options, trampled, previewChanges>>
  BY DEF AnswerExpires
<1>2. PreviewTypeOK'
  BY <1>1, NoAnswerFits DEF PreviewIInv, PreviewTypeOK
<1>3. \A q \in Pages : answers'[q] = IF q = p THEN NoAnswer ELSE answers[q]
  BY <1>1 DEF PreviewIInv, PreviewTypeOK
<1>4. TrueOf(NoAnswer, 1, ToSet(newest), preview)
  <2>1. 1 \in Nat \ {0}
    OBVIOUS
  <2> QED BY <2>1, NoAnswerFits DEF AnswerTrue
<1>5. PagesAreTrue'
  BY <1>1, <1>3, <1>4, NoAnswerFits, PreviewFacts DEF PagesAreTrue, AnswerTrue
<1>6. WorkIsDue' /\ GoneIsGone' /\ ProtectedStays'
  BY <1>1 DEF PreviewIInv, WorkIsDue, Skipped, Current, GoneIsGone, Exists, ProtectedStays
<1> QED BY <1>2, <1>5, <1>6 DEF PreviewIInv

LEMMA GetPageStep == PreviewIInv /\ GetPage => PreviewIInv'
<1> SUFFICES ASSUME PreviewIInv, GetPage PROVE PreviewIInv'
  OBVIOUS
<1> DEFINE l == Fetched(script.page)
<1>1. /\ script.page = 1 \/ script.page <= script.total
      /\ script' = [script EXCEPT !.at = "item", !.list = l, !.item = 1,
                                  !.total = IF script.page = 1 THEN l.total ELSE @]
      /\ answers' = [answers EXCEPT ![script.page] = l]
      /\ UNCHANGED <<newest, preview, options, trampled, previewChanges>>
  BY DEF GetPage
<1>2. script.page \in Pages
  <2>1. /\ script.total \in {0} \union Pages
        /\ script.page \in Pages \union {Cardinality(Illustrated) + 1}
    BY DEF PreviewIInv, PreviewTypeOK
  <2> QED BY <1>1, <2>1, PagesAre DEF Pages
<1>3. l \in Answer /\ AnswerFits(l) /\ TrueOf(l, 1, ToSet(newest), preview)
  <2>1. Computed(script.page) \in Answer /\ AnswerFits(Computed(script.page)) /\ AnswerTrue(Computed(script.page), 1)
    BY <1>2, PreviewFacts, ComputedFits DEF PreviewIInv, GoneIsGone
  <2> QED BY <1>2, <2>1, PreviewFacts DEF Fetched, AnswerTrue
<1> HIDE DEF l
<1>4. /\ script'.at = "item" /\ script'.list = l /\ script'.item = 1 /\ script'.page = script.page
      /\ script' = [at |-> "item", page |-> script.page,
                    total |-> IF script.page = 1 THEN l.total ELSE script.total, list |-> l, item |-> 1]
  BY <1>1 DEF PreviewIInv, PreviewTypeOK
<1>5. PreviewTypeOK'
  <2>1. /\ l.total \in {0} \union Pages /\ script.total \in {0} \union Pages /\ 1 \in 1 .. PageLimit + 1
    BY <1>3, AnswerIs, PreviewAssumption DEF PreviewIInv, PreviewTypeOK
  <2>2. script' \in [at : {"page", "item", "paused", "upload", "done"},
                     page : Pages \union {Cardinality(Illustrated) + 1}, total : {0} \union Pages,
                     list : Answer, item : 1 .. PageLimit + 1]
    BY <1>2, <1>3, <1>4, <2>1
  <2>3. answers' \in [Pages -> Answer]
    BY <1>1, <1>3 DEF PreviewIInv, PreviewTypeOK
  <2> QED BY <1>1, <2>2, <2>3 DEF PreviewIInv, PreviewTypeOK
<1>6. \A q \in Pages : answers'[q] = IF q = script.page THEN l ELSE answers[q]
  BY <1>1 DEF PreviewIInv, PreviewTypeOK
<1>7. PagesAreTrue'
  BY <1>1, <1>3, <1>4, <1>6, PreviewFacts DEF PagesAreTrue, AnswerTrue
<1>8. WorkIsDue'
  BY <1>2, <1>4 DEF WorkIsDue
<1>9. GoneIsGone' /\ ProtectedStays'
  BY <1>1 DEF PreviewIInv, GoneIsGone, Exists, ProtectedStays
<1> QED BY <1>5, <1>7, <1>8, <1>9 DEF PreviewIInv

-----------------------------------------------------------------------------
(* The script on a page *)

\* A step that changes only where the script is.
LEMMA ScriptMoves ==
  ASSUME PreviewIInv, NEW at \in {"page", "item", "paused", "upload", "done"},
         NEW page \in Pages \union {Cardinality(Illustrated) + 1},
         NEW item \in {script.item, script.item + 1}, item \in 1 .. PageLimit + 1,
         script' = [script EXCEPT !.at = at, !.page = page, !.item = item],
         UNCHANGED <<newest, preview, answers, options, trampled, previewChanges>>,
         at \in {"item", "paused", "upload"} => page \in Pages,
         at \in {"paused", "upload"} =>
           /\ item = script.item /\ item <= Len(script.list.ids)
           /\ ~Skipped(Current, script.list.shown[Current])
  PROVE  PreviewIInv'
<1>1. /\ script'.at = at /\ script'.page = page /\ script'.total = script.total
      /\ script'.list = script.list /\ script'.item = item
      /\ script' = [at |-> at, page |-> page, total |-> script.total, list |-> script.list, item |-> item]
  BY DEF PreviewIInv, PreviewTypeOK
<1>2. PreviewTypeOK'
  BY <1>1 DEF PreviewIInv, PreviewTypeOK
<1>3. TrueOf(script.list, item, ToSet(newest), preview)
  <2>1. script.item \in Nat /\ item \in Nat
    BY PreviewFacts, PreviewAssumption
  <2>2. script.item .. Len(script.list.ids) = script.item .. Len(script.list.ids)
        /\ Len(script.list.ids) \in Nat
    BY PreviewFacts, AnswerIs
  <2> QED BY <2>1, <2>2, PreviewFacts DEF TrueOf
<1>4. PagesAreTrue'
  BY <1>1, <1>3, PreviewFacts DEF PagesAreTrue, AnswerTrue
<1>5. WorkIsDue'
  BY <1>1 DEF WorkIsDue, Skipped, Current
<1>6. GoneIsGone' /\ ProtectedStays'
  BY DEF PreviewIInv, GoneIsGone, Exists, ProtectedStays
<1> QED BY <1>2, <1>4, <1>5, <1>6 DEF PreviewIInv

LEMMA ScriptFields ==
  ASSUME PreviewIInv
  PROVE  /\ script.at \in {"page", "item", "paused", "upload", "done"}
         /\ script.page \in Pages \union {Cardinality(Illustrated) + 1}
         /\ script.item \in 1 .. PageLimit + 1 /\ script.item \in Nat /\ Len(script.list.ids) \in Nat
         /\ script.item <= Len(script.list.ids) => script.item + 1 \in 1 .. PageLimit + 1
         /\ \A at : [script EXCEPT !.at = at]
              = [script EXCEPT !.at = at, !.page = script.page, !.item = script.item]
         /\ \A page : [script EXCEPT !.at = "page", !.page = page]
              = [script EXCEPT !.at = "page", !.page = page, !.item = script.item]
         /\ [script EXCEPT !.at = "item", !.item = @ + 1]
              = [script EXCEPT !.at = "item", !.page = script.page, !.item = script.item + 1]
<1>1. script \in [at : {"page", "item", "paused", "upload", "done"},
                  page : Pages \union {Cardinality(Illustrated) + 1}, total : {0} \union Pages,
                  list : Answer, item : 1 .. PageLimit + 1]
  BY DEF PreviewIInv, PreviewTypeOK
<1>2. script = [at |-> script.at, page |-> script.page, total |-> script.total, list |-> script.list,
                item |-> script.item]
  BY <1>1
<1>3. script.item \in 1 .. PageLimit + 1 /\ script.item \in Nat /\ Len(script.list.ids) \in Nat
  BY <1>1, AnswerIs, PreviewAssumption
<1>4. script.item <= Len(script.list.ids) => script.item + 1 \in 1 .. PageLimit + 1
  BY <1>3, PreviewFacts, PreviewAssumption DEF AnswerFits
<1>5. \A at : [script EXCEPT !.at = at]
              = [script EXCEPT !.at = at, !.page = script.page, !.item = script.item]
  BY <1>2
<1>6. \A page : [script EXCEPT !.at = "page", !.page = page]
              = [script EXCEPT !.at = "page", !.page = page, !.item = script.item]
  BY <1>2
<1>7. [script EXCEPT !.at = "item", !.item = @ + 1]
              = [script EXCEPT !.at = "item", !.page = script.page, !.item = script.item + 1]
  BY <1>2
<1> QED BY <1>1, <1>3, <1>4, <1>5, <1>6, <1>7

LEMMA WalkStep == PreviewIInv /\ (Finish \/ NextPage \/ SkipMaterial \/ MakePreview \/ MakeAgain \/ UploadFails)
                    => PreviewIInv'
<1> SUFFICES ASSUME PreviewIInv, Finish \/ NextPage \/ SkipMaterial \/ MakePreview \/ MakeAgain \/ UploadFails
             PROVE  PreviewIInv'
  OBVIOUS
<1>1. UNCHANGED <<newest, preview, answers, options, trampled, previewChanges>>
  BY DEF Finish, NextPage, SkipMaterial, MakePreview, MakeAgain, UploadFails
<1>2. script.at \in {"item", "paused", "upload"} => script.page \in Pages
  BY DEF PreviewIInv, WorkIsDue
<1>3. CASE Finish
  <2>1. script' = [script EXCEPT !.at = "done", !.page = script.page, !.item = script.item]
    BY <1>3, ScriptFields DEF Finish
  <2> QED BY <2>1, <1>1, ScriptFields, ScriptMoves
<1>4. CASE NextPage
  <2>1. script.at = "item" /\ script' = [script EXCEPT !.at = "page", !.page = script.page + 1]
    BY <1>4 DEF NextPage
  <2>2. script' = [script EXCEPT !.at = "page", !.page = script.page + 1, !.item = script.item]
    BY <2>1, ScriptFields
  <2>3. script.page + 1 \in Pages \union {Cardinality(Illustrated) + 1}
    BY <1>2, <2>1, PagesAre DEF Pages
  <2> QED BY <2>2, <2>3, <1>1, ScriptFields, ScriptMoves
<1>5. CASE Passed /\ script.at \in {"item", "paused", "upload"} /\ script.item <= Len(script.list.ids)
  <2>1. script' = [script EXCEPT !.at = "item", !.page = script.page, !.item = script.item + 1]
    BY <1>5, ScriptFields DEF Passed
  <2>2. script.item + 1 \in 1 .. PageLimit + 1
    BY <1>5, ScriptFields
  <2> QED BY <2>1, <2>2, <1>1, <1>2, <1>5, ScriptFields, ScriptMoves
<1>6. ASSUME NEW at \in {"paused", "upload"}, ScriptGoes(at), script.at \in {"item", "paused"},
             script.item <= Len(script.list.ids), ~Skipped(Current, script.list.shown[Current])
      PROVE  PreviewIInv'
  <2>1. script' = [script EXCEPT !.at = at, !.page = script.page, !.item = script.item]
    BY <1>6, ScriptFields DEF ScriptGoes
  <2>2. script.page \in Pages
    BY <1>2, <1>6
  <2> QED BY <2>1, <2>2, <1>1, <1>6, ScriptFields, ScriptMoves
<1>7. CASE SkipMaterial \/ UploadFails
  BY <1>5, <1>7 DEF SkipMaterial, UploadFails, AtItem
<1>8. CASE MakePreview
  BY <1>5, <1>6, <1>8 DEF MakePreview, AtItem
<1>9. CASE MakeAgain
  BY <1>5, <1>6, <1>9 DEF MakeAgain, AtItem, PreviewIInv, WorkIsDue
<1> QED BY <1>3, <1>4, <1>7, <1>8, <1>9

\* What it uploads was not protected by its page; a page has a material once, so what is
\* left of the page does not have it.
LEMMA UploadPreviewStep == PreviewIInv /\ UploadPreview => PreviewIInv'
<1> SUFFICES ASSUME PreviewIInv, UploadPreview PROVE PreviewIInv'
  OBVIOUS
<1> DEFINE m == Current
           k == script.item
<1>1. /\ script.at = "upload" /\ k <= Len(script.list.ids)
      /\ newest' = newest /\ options' = options /\ previewChanges' = previewChanges
      /\ preview' = IF Exists(m) THEN [preview EXCEPT ![m] = "cloudinary"] ELSE preview
      /\ answers' = [p \in Pages |-> [answers[p] EXCEPT !.since = @ \union {m}]]
      /\ script' = [script EXCEPT !.at = "item", !.item = @ + 1]
      /\ trampled' = IF Exists(m) /\ preview[m] = "cloudinary" /\ m \notin script.list.since
                     THEN trampled \union {m} ELSE trampled
  BY DEF UploadPreview, AtItem, UpdateMaterialPreview, Passed
<1>2. /\ k \in 1 .. PageLimit + 1 /\ k \in Nat \ {0} /\ Len(script.list.ids) \in Nat
      /\ k + 1 \in 1 .. PageLimit + 1 /\ k \in 1 .. Len(script.list.ids)
  <2>1. /\ k \in 1 .. PageLimit + 1 /\ k \in Nat /\ Len(script.list.ids) \in Nat
        /\ k + 1 \in 1 .. PageLimit + 1
    BY <1>1, ScriptFields
  <2>2. k >= 1
    BY <2>1, PreviewAssumption
  <2>3. k <= Len(script.list.ids)
    BY <1>1
  <2> HIDE DEF k
  <2> QED BY <2>1, <2>2, <2>3
<1>3. m \in Illustrated /\ m = script.list.ids[k]
  BY <1>2, PreviewFacts, AnswerIs DEF Current
<1>4. m \in ToSet(newest) /\ m \notin script.list.since => preview[m] # "cloudinary"
  <2>1. script.list.shown[m] # "cloudinary"
    BY <1>1 DEF PreviewIInv, WorkIsDue, Skipped
  <2>2. m \in ToSet(newest) /\ m \notin script.list.since => script.list.shown[m] = preview[m]
    BY <1>2, <1>3, PreviewFacts DEF TrueOf
  <2> QED BY <2>1, <2>2
<1>5. trampled' = trampled
  BY <1>1, <1>4 DEF Exists
<1> HIDE DEF m, k
<1>6. \A x \in Illustrated : x # m => preview'[x] = preview[x]
  BY <1>1, <1>3, PreviewFacts
<1>7. /\ preview' \in [Illustrated -> Places \union {"gone"}]
      /\ \A x \in Illustrated : preview[x] = "gone" /\ x \notin ToSet(newest) => preview'[x] = "gone"
      /\ \A x \in ToSet(newest) : preview'[x] # "gone"
  BY <1>1, <1>3, PreviewFacts DEF Places, Exists
<1>8. ASSUME NEW a \in Answer, AnswerFits(a), TrueOf(a, 1, ToSet(newest), preview)
      PROVE  LET b == [a EXCEPT !.since = @ \union {m}] IN
             b \in Answer /\ AnswerFits(b) /\ TrueOf(b, 1, ToSet(newest'), preview')
  <2> DEFINE b == [a EXCEPT !.since = @ \union {m}]
  <2>1. b \in Answer /\ AnswerFits(b) /\ b.ids = a.ids /\ b.shown = a.shown /\ b.since = a.since \union {m}
    BY <1>3, <1>8, SinceGrows
  <2> HIDE DEF b
  <2>2. ASSUME NEW j \in 1 .. Len(a.ids) PROVE a.ids[j] \in Illustrated
    BY AnswerIs
  <2>3. ASSUME NEW j \in 1 .. Len(a.ids), a.ids[j] \in ToSet(newest) \/ preview[a.ids[j]] = "gone"
        PROVE  /\ a.ids[j] \in ToSet(newest') \/ preview'[a.ids[j]] = "gone"
               /\ a.ids[j] \in ToSet(newest') /\ a.ids[j] \notin b.since =>
                    a.ids[j] \in ToSet(newest) /\ preview'[a.ids[j]] = preview[a.ids[j]]
    BY <1>1, <1>6, <1>7, <2>1, <2>2, <2>3
  <2>4. TrueOf(b, 1, ToSet(newest'), preview')
    BY <1>8, <2>1, <2>3, AnswerIs, StaysTrue
  <2> QED BY <2>1, <2>4 DEF b
<1>9. \A p \in Pages : /\ answers'[p] \in Answer /\ AnswerFits(answers'[p])
                       /\ TrueOf(answers'[p], 1, ToSet(newest'), preview')
  <2> SUFFICES ASSUME NEW p \in Pages
               PROVE  /\ answers'[p] \in Answer /\ AnswerFits(answers'[p])
                      /\ TrueOf(answers'[p], 1, ToSet(newest'), preview')
    OBVIOUS
  <2>1. answers'[p] = [answers[p] EXCEPT !.since = @ \union {m}]
    BY <1>1
  <2>2. answers[p] \in Answer /\ AnswerFits(answers[p]) /\ TrueOf(answers[p], 1, ToSet(newest), preview)
    BY PreviewFacts
  <2> QED BY <2>1, <2>2, <1>8
<1>10. /\ script'.at = "item" /\ script'.page = script.page /\ script'.total = script.total
       /\ script'.list = script.list /\ script'.item = k + 1
       /\ script' = [at |-> "item", page |-> script.page, total |-> script.total,
                     list |-> script.list, item |-> k + 1]
  BY <1>1 DEF PreviewIInv, PreviewTypeOK, k
<1>11. TrueOf(script.list, k + 1, ToSet(newest'), preview')
  <2> DEFINE a == script.list
  <2>1. /\ a \in Answer /\ TrueOf(a, k, ToSet(newest), preview) /\ k + 1 \in Nat /\ k <= k + 1
        /\ \A i, j \in 1 .. Len(a.ids) : a.ids[i] = a.ids[j] => i = j
    <3>1. a.ids \in Seq(Illustrated) /\ IsInjective(a.ids)
      BY PreviewFacts, AnswerIs DEF AnswerFits
    <3> QED BY <3>1, <1>2, PreviewFacts, DistinctIs DEF k
  <2>2. m = a.ids[k] /\ k \in 1 .. Len(a.ids)
    BY <1>2, <1>3
  <2> HIDE DEF a
  <2>3. ASSUME NEW j \in k + 1 .. Len(a.ids) PROVE a.ids[j] \in Illustrated /\ a.ids[j] # m
    <3>1. j \in 1 .. Len(a.ids) /\ j # k
      BY <1>2
    <3> QED BY <3>1, <2>1, <2>2, AnswerIs
  <2>4. ASSUME NEW j \in k + 1 .. Len(a.ids), a.ids[j] \in ToSet(newest) \/ preview[a.ids[j]] = "gone"
        PROVE  /\ a.ids[j] \in ToSet(newest') \/ preview'[a.ids[j]] = "gone"
               /\ a.ids[j] \in ToSet(newest') /\ a.ids[j] \notin a.since =>
                    a.ids[j] \in ToSet(newest) /\ preview'[a.ids[j]] = preview[a.ids[j]]
    BY <1>1, <1>6, <2>3, <2>4
  <2>5. TrueOf(a, k + 1, ToSet(newest'), preview')
    BY <1>2, <2>1, <2>4, AnswerIs, StaysTrue
  <2> QED BY <2>5 DEF a
<1>12. answers' \in [Pages -> Answer]
  <2>1. answers' = [p \in Pages |-> answers'[p]]
    BY <1>1
  <2> QED BY <2>1, <1>9
<1>13. PreviewTypeOK'
  BY <1>1, <1>2, <1>5, <1>7, <1>10, <1>12 DEF PreviewIInv, PreviewTypeOK
<1>14. PagesAreTrue'
  BY <1>9, <1>10, <1>11, PreviewFacts DEF PagesAreTrue, AnswerTrue
<1>15. WorkIsDue'
  BY <1>1, <1>10 DEF PreviewIInv, WorkIsDue
<1>16. GoneIsGone'
  BY <1>1, <1>7 DEF GoneIsGone, Exists
<1> QED BY <1>5, <1>13, <1>14, <1>15, <1>16 DEF PreviewIInv, ProtectedStays

LEMMA PreviewStep == PreviewIInv /\ [PreviewNext]_previewVars => PreviewIInv'
<1> SUFFICES ASSUME PreviewIInv, [PreviewNext]_previewVars PROVE PreviewIInv'
  OBVIOUS
<1>1. CASE UNCHANGED previewVars
  BY <1>1 DEF previewVars, PreviewIInv, PreviewTypeOK, PagesAreTrue, AnswerTrue, WorkIsDue, Skipped,
              Current, GoneIsGone, Exists, ProtectedStays
<1>2. ASSUME NEW m \in Illustrated, NEW place \in Places, SetPreview(m, place) PROVE PreviewIInv'
  BY <1>2, SetPreviewStep
<1>3. ASSUME NEW m \in Illustrated, NEW place \in Places, AddMaterial(m, place) PROVE PreviewIInv'
  BY <1>3, AddMaterialStep
<1>4. ASSUME NEW m \in Illustrated, RemoveMaterial(m) PROVE PreviewIInv'
  BY <1>4, RemoveMaterialStep
<1>5. ASSUME NEW p \in Pages, AnswerExpires(p) PROVE PreviewIInv'
  BY <1>5, AnswerExpiresStep
<1>6. CASE GetPage
  BY <1>6, GetPageStep
<1>7. CASE Finish \/ NextPage \/ SkipMaterial \/ MakePreview \/ MakeAgain \/ UploadFails
  BY <1>7, WalkStep
<1>8. CASE UploadPreview
  BY <1>8, UploadPreviewStep
<1> QED BY <1>1, <1>2, <1>3, <1>4, <1>5, <1>6, <1>7, <1>8 DEF PreviewNext

\* The pages that Redis keeps, and the place of the script on its page, have their types
\* (newest is a list without duplicates).
THEOREM PreviewTypeCorrect == PreviewSpec => []PreviewTypeOK
<1>1. PreviewIInv => PreviewTypeOK
  BY DEF PreviewIInv
<1> QED BY <1>1, PreviewInitHolds, PreviewStep, PTL DEF PreviewSpec

\* The script never replaces a preview in Cloudinary that its page had: whatever users do
\* meanwhile, it replaces one only when it was set after the page was computed.
THEOREM ProtectedStaysHolds == PreviewSpec => []ProtectedStays
<1>1. PreviewIInv => ProtectedStays
  BY DEF PreviewIInv
<1> QED BY <1>1, PreviewInitHolds, PreviewStep, PTL DEF PreviewSpec

-----------------------------------------------------------------------------
(*****************************************************************************)
(* Listings.  A page shows the rows whose rank lies between its offset and   *)
(* its limit (PageIs): rows that leave lower the ranks of the others, rows   *)
(* that join raise them.                                                     *)
(*****************************************************************************)

\* The rank of a row in a list: how many rows there are down to it.
RankOf(x, rows, pos) == Cardinality({y \in rows : pos[y] >= pos[x]})
Untied(rows, pos) == \A x, y \in rows : pos[x] = pos[y] => x = y

\* What a query of the first n rows answers, when the order is one.
TopOf(s, n, rows, pos) ==
  /\ s \subseteq rows
  /\ Cardinality(s) = IF n < Cardinality(rows) THEN n ELSE Cardinality(rows)
  /\ \A x \in s, y \in rows \ s : pos[x] >= pos[y]

\* The pages the walker has.
PagesShown ==
  IF walk.at = "done" \/ (walk.at = "count" /\ list.total = "after") THEN walk.page ELSE walk.page - 1

SeenFits == \A x \in Rows : seen[x] <= PagesShown
TiesAreKnown == Tied => "tied" \in disturbance

\* What was shown is not ahead of the pages to come,
ShownOnce ==
  disturbance \subseteq {"left", "narrowed"} =>
    \A x \in Rows : /\ seen[x] <= 1
                    /\ seen[x] > 0 /\ x \in Matching => RankOf(x, Matching, position) <= PagesShown * PageSize

\* and what was not is.
StillToCome ==
  disturbance \subseteq {"joined"} /\ PagesShown > 0 =>
    \A x \in owed : /\ x \in Matching
                    /\ seen[x] = 0 => RankOf(x, Matching, position) > PagesShown * PageSize

CountIsRight ==
  /\ walk.exact => walk.at = "fetch" /\ list.kept
  /\ list.total = "before" /\ walk.at = "fetch" /\ (walk.exact \/ disturbance \subseteq {"joined"}) =>
       walk.total = Cardinality(Matching)

\* Which lists are kept or drawn.
ListShape ==
  /\ list.kept => list.total = "before"
  /\ list.random => list.total = "before" /\ ~list.widens /\ (walk.at = "fetch" => "drawn" \in disturbance)

\* The rows of a page by their ranks.
PageByRank(p, rows, pos) ==
  {x \in rows : /\ ~(RankOf(x, rows, pos) <= (p - 1) * PageSize)
                /\ RankOf(x, rows, pos) <= p * PageSize}
RowsFound(wide, pos, found) ==
  IF wide THEN {x \in Rows : pos[x] > 0} ELSE {x \in Rows : pos[x] > 0} \intersect found

\* A page in Redis is what its query would answer, until the list changes.
StoredIs(p, wide, page, kind, pos, found) ==
  /\ page.more => p <= Cardinality(Rows)
  /\ page.wide => kind.widens
  /\ p > 1 => page.wide = wide
  /\ page.exact => /\ ~kind.random
                   /\ page.rows = PageByRank(p, RowsFound(page.wide, pos, found), pos)
                   /\ page.more <=> p * PageSize < Cardinality(RowsFound(page.wide, pos, found))
StoredRight ==
  \A p \in PageNumbers, w \in BOOLEAN :
    stored[<<p, w>>].there => StoredIs(p, w, stored[<<p, w>>], list, position, narrow)

ListIInv ==
  /\ ListTypeOK /\ SeenFits /\ TiesAreKnown /\ ShownOnce /\ StillToCome /\ CountIsRight /\ NothingMissed
  /\ ListShape /\ StoredRight

WalkType == [at : {"count", "fetch", "done"}, page : PageNumbers, total : 0 .. Cardinality(Rows),
             wide : BOOLEAN, exact : BOOLEAN]

-----------------------------------------------------------------------------
(* Ranks *)

LEMMA RankFits ==
  ASSUME NEW rows, IsFiniteSet(rows), NEW pos, NEW x
  PROVE  RankOf(x, rows, pos) \in Nat /\ RankOf(x, rows, pos) <= Cardinality(rows)
<1>1. {y \in rows : pos[y] >= pos[x]} \subseteq rows
  OBVIOUS
<1> QED BY <1>1, FS_Subset, FS_CardinalityType DEF RankOf

\* A row's rank is no smaller in a longer list.
LEMMA RankGrows ==
  ASSUME NEW rows, NEW rows2, IsFiniteSet(rows2), NEW pos, NEW pos2, NEW x,
         rows \subseteq rows2, x \in rows, \A y \in rows : pos[y] = pos2[y]
  PROVE  RankOf(x, rows, pos) <= RankOf(x, rows2, pos2)
<1>1. {y \in rows : pos[y] >= pos[x]} \subseteq {y \in rows2 : pos2[y] >= pos2[x]}
  OBVIOUS
<1>2. IsFiniteSet({y \in rows2 : pos2[y] >= pos2[x]})
  BY FS_Subset
<1> QED BY <1>1, <1>2, FS_Subset DEF RankOf

\* The first n rows are those whose rank is at most n.
LEMMA TopIsByRank ==
  ASSUME NEW rows, IsFiniteSet(rows), NEW pos, \A y \in rows : pos[y] \in Nat, Untied(rows, pos),
         NEW n \in Nat, NEW s, TopOf(s, n, rows, pos), NEW x \in rows
  PROVE  x \in s <=> RankOf(x, rows, pos) <= n
<1> DEFINE down == {y \in rows : pos[y] >= pos[x]}
<1>1. IsFiniteSet(down) /\ IsFiniteSet(s)
  <2>1. down \subseteq rows /\ s \subseteq rows
    BY DEF TopOf
  <2> QED BY <2>1, FS_Subset
<1>2. Cardinality(down) \in Nat /\ Cardinality(s) \in Nat /\ Cardinality(rows) \in Nat
  BY <1>1, FS_CardinalityType
<1>3. ASSUME x \in s PROVE Cardinality(down) <= n
  <2>1. down \subseteq s
    <3> SUFFICES ASSUME NEW y \in down, y \notin s PROVE FALSE
      OBVIOUS
    <3>1. pos[x] >= pos[y] /\ pos[y] >= pos[x] /\ pos[x] \in Nat /\ pos[y] \in Nat
      BY <1>3 DEF TopOf
    <3>2. pos[x] = pos[y]
      BY <3>1
    <3> QED BY <3>2, <1>3 DEF Untied
  <2>2. Cardinality(down) <= Cardinality(s)
    BY <2>1, <1>1, FS_Subset
  <2>3. Cardinality(s) <= n
    BY <1>2 DEF TopOf
  <2> HIDE DEF down
  <2> QED BY <2>2, <2>3, <1>2
<1>4. ASSUME x \notin s PROVE Cardinality(down) > n
  <2>1. s \subseteq down /\ x \in down
    BY <1>4 DEF TopOf
  <2>2. s # down /\ s # rows
    BY <2>1, <1>4
  <2>3. Cardinality(s) <= Cardinality(down) /\ (Cardinality(s) = Cardinality(down) => s = down)
    BY <2>1, <1>1, FS_Subset
  <2>4. Cardinality(s) = Cardinality(rows) => s = rows
    BY FS_Subset DEF TopOf
  <2>5. Cardinality(s) = n
    BY <2>2, <2>4 DEF TopOf
  <2> HIDE DEF down
  <2> QED BY <2>2, <2>3, <2>5, <1>2
<1> QED BY <1>2, <1>3, <1>4 DEF RankOf

-----------------------------------------------------------------------------
(* The list and its pages *)

LEMMA RowsAre ==
  ASSUME ListTypeOK
  PROVE  /\ IsFiniteSet(Matching) /\ Matching \subseteq Rows /\ Matching \subseteq Present
         /\ Cardinality(Matching) \in Nat /\ Cardinality(Rows) \in Nat
         /\ Cardinality(Matching) <= Cardinality(Rows)
         /\ \A x \in Rows : position[x] \in Nat /\ seen[x] \in Nat
         /\ walk.page \in Nat \ {0} /\ walk.page <= Cardinality(Rows) + 1
         /\ PageSize \in Nat \ {0}
<1>1. Matching \subseteq Rows /\ Matching \subseteq Present
  BY DEF Matching, Found, Present
<1>2. IsFiniteSet(Matching) /\ Cardinality(Matching) <= Cardinality(Rows)
  BY <1>1, ListingsAssumption, FS_Subset
<1>3. Cardinality(Matching) \in Nat /\ Cardinality(Rows) \in Nat
  BY <1>2, ListingsAssumption, FS_CardinalityType
<1>4. \A x \in Rows : position[x] \in Nat /\ seen[x] \in Nat
  BY <1>3, ListingsAssumption DEF ListTypeOK
<1>5. walk.page \in 1 .. Cardinality(Rows) + 1
  BY DEF ListTypeOK, PageNumbers
<1>6. walk.page \in Nat \ {0} /\ walk.page <= Cardinality(Rows) + 1
  BY <1>3, <1>5
<1> QED BY <1>1, <1>2, <1>3, <1>4, <1>6, ListingsAssumption

\* How many pages there are, without division.
LEMMA PagesOfIs ==
  ASSUME NEW n \in Nat, NEW p \in Nat \ {0}
  PROVE  /\ p < PagesOf(n) <=> p * PageSize < n
         /\ p < PagesOf(n) => p < n
<1>1. PageSize \in Nat \ {0}
  BY ListingsAssumption
<1> DEFINE m == PagesOf(n)
<1>2. m \in Int /\ m * PageSize <= n + PageSize - 1 /\ n + PageSize - 1 < (m + 1) * PageSize
  BY <1>1 DEF PagesOf
<1> HIDE DEF m
<1>3. p < m => p * PageSize < n
  <2> SUFFICES ASSUME p < m PROVE p * PageSize < n
    OBVIOUS
  <2>1. (p + 1) * PageSize <= m * PageSize
    BY <1>1, <1>2
  <2>2. (p + 1) * PageSize = p * PageSize + PageSize
    BY <1>1
  <2>3. p * PageSize \in Int /\ m * PageSize \in Int
    BY <1>1, <1>2
  <2> QED BY <1>1, <1>2, <2>1, <2>2, <2>3
<1>4. ~(p < m) => ~(p * PageSize < n)
  <2> SUFFICES ASSUME m <= p PROVE n <= p * PageSize
    BY <1>1, <1>2
  <2>1. (m + 1) * PageSize <= (p + 1) * PageSize
    BY <1>1, <1>2
  <2>2. (p + 1) * PageSize = p * PageSize + PageSize
    BY <1>1
  <2>3. p * PageSize \in Int /\ (m + 1) * PageSize \in Int
    BY <1>1, <1>2
  <2> QED BY <1>1, <1>2, <2>1, <2>2, <2>3
<1>5. p <= p * PageSize
  BY <1>1
<1>6. p * PageSize \in Int
  BY <1>1
<1> QED BY <1>3, <1>4, <1>5, <1>6 DEF m

\* A page is of matching rows; when the order is one, of those with its ranks.
LEMMA PageIs ==
  ASSUME ListIInv, NEW s \in RowsOf(walk.page)
  PROVE  /\ s \subseteq Matching
         /\ disturbance \intersect NoOrder = {} => s = PageByRank(walk.page, Matching, position)
<1> DEFINE a == (walk.page - 1) * PageSize
           b == walk.page * PageSize
<1>1. PICK before \in Leading(a), top \in Leading(b) : s = top \ before
  BY Zenon DEF RowsOf, RowsBetween
<1>2. before \subseteq Matching /\ top \subseteq Matching
  BY DEF Leading
<1>3. ASSUME disturbance \intersect NoOrder = {} PROVE s = PageByRank(walk.page, Matching, position)
  <2>1. TopOf(before, a, Matching, position) /\ TopOf(top, b, Matching, position)
    <3>1. disturbance \intersect {"reordered", "drawn"} = {}
      BY <1>3 DEF NoOrder
    <3> QED BY <3>1 DEF Leading, TopOf
  <2>2. Untied(Matching, position)
    <3>1. ~Tied
      BY <1>3 DEF ListIInv, TiesAreKnown, NoOrder
    <3>2. Matching \subseteq Present
      BY RowsAre DEF ListIInv
    <3> QED BY <3>1, <3>2 DEF Tied, Untied
  <2>3. a \in Nat /\ b \in Nat
    <3>1. walk.page \in Nat \ {0} /\ PageSize \in Nat \ {0}
      BY RowsAre DEF ListIInv
    <3> QED BY <3>1
  <2>4. IsFiniteSet(Matching) /\ \A y \in Matching : position[y] \in Nat
    BY RowsAre DEF ListIInv
  <2> HIDE DEF a, b
  <2>5. ASSUME NEW x \in Matching
        PROVE  x \in s <=> ~(RankOf(x, Matching, position) <= a) /\ RankOf(x, Matching, position) <= b
    <3>1. x \in before <=> RankOf(x, Matching, position) <= a
      BY <2>1, <2>2, <2>3, <2>4, TopIsByRank
    <3>2. x \in top <=> RankOf(x, Matching, position) <= b
      BY <2>1, <2>2, <2>3, <2>4, TopIsByRank
    <3> QED BY <1>1, <3>1, <3>2
  <2> QED BY <1>1, <1>2, <2>5 DEF PageByRank, a, b
<1> QED BY <1>1, <1>2, <1>3

\* A row of the list is among those down to it.
LEMMA RankIsPositive ==
  ASSUME NEW rows, IsFiniteSet(rows), NEW pos, NEW x \in rows, pos[x] \in Nat
  PROVE  RankOf(x, rows, pos) > 0
<1> DEFINE down == {y \in rows : pos[y] >= pos[x]}
<1>1. x \in down /\ down \subseteq rows
  OBVIOUS
<1>2. IsFiniteSet(down)
  BY <1>1, FS_Subset
<1>3. Cardinality(down) \in Nat /\ Cardinality(down) # 0
  BY <1>1, <1>2, FS_CardinalityType, FS_EmptySet
<1> QED BY <1>3 DEF RankOf

LEMMA FoundIsRowsFound == \A wide : Found(wide) = RowsFound(wide, position, narrow)
BY DEF Found, Present, RowsFound

LEMMA PagesShownIs ==
  ASSUME ListTypeOK
  PROVE  /\ PagesShown \in Nat /\ PagesShown <= walk.page
         /\ walk.at = "fetch" => PagesShown = walk.page - 1
         /\ PagesShown * PageSize \in Nat
<1>1. walk.page \in Nat \ {0} /\ PageSize \in Nat \ {0}
  BY RowsAre
<1>2. PagesShown \in Nat /\ PagesShown <= walk.page /\ (walk.at = "fetch" => PagesShown = walk.page - 1)
  BY <1>1 DEF PagesShown
<1>3. PagesShown * PageSize \in Nat
  BY <1>1, <1>2
<1> QED BY <1>2, <1>3

-----------------------------------------------------------------------------
(* Type correctness and the invariant *)

LEMMA FirstRequestIs ==
  ASSUME list \in ListKind
  PROVE  /\ FirstRequest(list) \in WalkType
         /\ FirstRequest(list).at = FirstStep(list) /\ FirstRequest(list).page = 1
         /\ ~FirstRequest(list).wide /\ ~FirstRequest(list).exact
         /\ FirstStep(list) \in {"count", "fetch"} /\ (FirstStep(list) = "count" <=> list.total = "before")
<1>1. Cardinality(Rows) \in Nat
  BY ListingsAssumption, FS_CardinalityType
<1>2. FirstStep(list) \in {"count", "fetch"} /\ (FirstStep(list) = "count" <=> list.total = "before")
  BY DEF FirstStep
<1>3. 1 \in PageNumbers /\ 0 \in 0 .. Cardinality(Rows)
  BY <1>1 DEF PageNumbers
<1> QED BY <1>2, <1>3 DEF FirstRequest, WalkType

LEMMA ListInitHolds == ListInit => ListIInv
<1> SUFFICES ASSUME ListInit PROVE ListIInv
  OBVIOUS
<1>1. Cardinality(Rows) \in Nat
  BY ListingsAssumption, FS_CardinalityType
<1>2. /\ list \in ListKind /\ (list.kept => list.total = "before")
      /\ list.random => list.total = "before" /\ ~list.widens
  <2>1. ASSUME NEW column \in {"created", "use", "parent"}
        PROVE  /\ Counted(column) \in ListKind /\ Counted(column).total = "before"
               /\ ~Counted(column).kept /\ ~Counted(column).random /\ ~Counted(column).widens
    BY DEF Counted, ListKind
  <2>2. ASSUME NEW column \in {"created", "use", "parent"}
        PROVE  OneExtra(column) \in ListKind /\ ~OneExtra(column).kept /\ ~OneExtra(column).random
    BY <2>1 DEF OneExtra, ListKind
  <2>3. UserList \in ListKind /\ ~UserList.kept /\ ~UserList.random
    BY <2>1 DEF UserList, ListKind
  <2>4. /\ MaterialSearch \in ListKind /\ MaterialSearch.total = "before" /\ ~MaterialSearch.random
        /\ RecommendationList \in ListKind /\ RecommendationList.total = "before"
        /\ ~RecommendationList.random /\ ~RecommendationList.widens
    BY <2>1 DEF MaterialSearch, RecommendationList, ListKind
  <2>5. /\ PlainMaterialSearch \in ListKind /\ PlainMaterialSearch.total = "before"
        /\ ~PlainMaterialSearch.random
        /\ DrawnRecommendationList \in ListKind /\ DrawnRecommendationList.total = "before"
        /\ ~DrawnRecommendationList.widens
    BY <2>4 DEF PlainMaterialSearch, DrawnRecommendationList, ListKind
  <2>6. GeneralRecommendationList = RecommendationList
    BY DEF GeneralRecommendationList, RecommendationList
  <2>7. list \in {Counted("created"), Counted("use"), Counted("parent"), OneExtra("created"), OneExtra("use"),
                  UserList, MaterialSearch, PlainMaterialSearch, RecommendationList, DrawnRecommendationList}
    BY <2>6 DEF ListInit, Lists, ClubList, ClubFlagList, ClubRequestList, AdvertList, CourseList,
         ModeratorList, NotificationList, ErrorReportList, BlogsOfCreator, BlogSearch, CommentList,
         BlogList, DepartmentLinkList, RecentList, BookmarkList, FolderList, FolderSearch
  <2> QED BY <2>1, <2>2, <2>3, <2>4, <2>5, <2>7
<1>3. position \in [Rows -> 0 .. MaxPosition]
  <2>1. position \in [Rows -> 0 .. Cardinality(Rows)]
    BY DEF ListInit
  <2>2. 0 .. Cardinality(Rows) \subseteq 0 .. MaxPosition
    BY <1>1, ListingsAssumption
  <2> QED BY <2>1, <2>2
<1>4. /\ walk \in WalkType /\ walk.page = 1 /\ ~walk.wide /\ ~walk.exact
      /\ walk.at \in {"count", "fetch"} /\ (walk.at = "count" <=> list.total = "before")
  BY <1>2, FirstRequestIs DEF ListInit
<1>5. \A x \in Rows : seen[x] = 0
  BY DEF ListInit
<1>6. PagesShown = 0
  BY <1>4 DEF PagesShown
<1>7. NoPage \in StoredPage /\ ~NoPage.there
  BY DEF NoPage, StoredPage
<1>8. stored \in [PageKeys -> StoredPage] /\ \A k \in PageKeys : ~stored[k].there
  BY <1>7 DEF ListInit
<1>9. ListTypeOK
  <2>1. seen \in [Rows -> 0 .. Cardinality(Rows) + 1]
    BY <1>1 DEF ListInit
  <2>2. narrow \in SUBSET Rows /\ (~list.widens /\ ~list.random => narrow = Rows)
    BY DEF ListInit
  <2>3. owed \in SUBSET Rows /\ disturbance \in SUBSET Disturbances /\ listChanges \in 0 .. MaxListChanges
    BY ListingsAssumption DEF ListInit, Disturbances
  <2>4. walks \in 1 .. MaxWalks
    BY ListingsAssumption DEF ListInit
  <2> QED BY <1>2, <1>3, <1>4, <1>8, <2>1, <2>2, <2>3, <2>4 DEF ListTypeOK, WalkType
<1>10. SeenFits /\ ShownOnce /\ StillToCome
  BY <1>5, <1>6 DEF SeenFits, ShownOnce, StillToCome
<1>11. TiesAreKnown
  BY DEF ListInit, TiesAreKnown
<1>12. CountIsRight /\ NothingMissed /\ ListShape
  BY <1>2, <1>4 DEF CountIsRight, NothingMissed, ListShape
<1>13. StoredRight
  BY <1>8 DEF StoredRight, PageKeys
<1> QED BY <1>9, <1>10, <1>11, <1>12, <1>13 DEF ListIInv

\* What other requests do: rows that join push others down, rows that leave draw them up,
\* and the pages in Redis are of before.
LEMMA OthersStep ==
  ASSUME ListIInv, NEW x \in Rows, JoinList(x) \/ LeaveList(x) \/ UseRow(x)
  PROVE  ListIInv'
<1>1. PICK k \in 0 .. MaxPosition :
        /\ position' = [position EXCEPT ![x] = k]
        /\ \/ position[x] = 0 /\ "joined" \in disturbance'
              /\ (list.total = "before" /\ walk.at = "fetch" => "joinedBetween" \in disturbance')
           \/ k = 0 /\ "left" \in disturbance'
           \/ "moved" \in disturbance'
  <2>1. CASE JoinList(x)
    <3>1. PICK k \in 1 .. MaxPosition : position' = [position EXCEPT ![x] = k]
      BY <2>1 DEF JoinList, Place
    <3>2. k \in 0 .. MaxPosition
      BY ListingsAssumption
    <3> QED BY <2>1, <3>1, <3>2 DEF JoinList, Disturb
  <2>2. CASE LeaveList(x)
    <3>1. 0 \in 0 .. MaxPosition
      BY ListingsAssumption
    <3> QED BY <2>2, <3>1 DEF LeaveList, Place, Disturb
  <2>3. CASE UseRow(x)
    <3>1. PICK k \in 1 .. MaxPosition : position' = [position EXCEPT ![x] = k]
      BY <2>3 DEF UseRow, Place
    <3>2. k \in 0 .. MaxPosition
      BY ListingsAssumption
    <3> QED BY <2>3, <3>1, <3>2 DEF UseRow, Disturb
  <2> QED BY <2>1, <2>2, <2>3
<1>2. /\ UNCHANGED <<list, narrow, walks, seen, owed>>
      /\ walk' = [walk EXCEPT !.exact = FALSE]
      /\ stored' = [key \in PageKeys |-> [stored[key] EXCEPT !.exact = FALSE]]
      /\ disturbance \subseteq disturbance' /\ disturbance' \in SUBSET Disturbances
      /\ Tied' => "tied" \in disturbance'
      /\ listChanges < MaxListChanges /\ listChanges' = listChanges + 1
  <2>1. CASE JoinList(x)
    BY <2>1 DEF JoinList, Disturb, ListIInv, ListTypeOK, Disturbances
  <2>2. CASE LeaveList(x)
    BY <2>2 DEF LeaveList, Disturb, ListIInv, ListTypeOK, Disturbances
  <2>3. CASE UseRow(x)
    BY <2>3 DEF UseRow, Disturb, ListIInv, ListTypeOK, Disturbances
  <2> QED BY <2>1, <2>2, <2>3
<1>3. \A y \in Rows : position'[y] = IF y = x THEN k ELSE position[y]
  BY <1>1 DEF ListIInv, ListTypeOK
<1>4. /\ walk' \in WalkType /\ walk'.at = walk.at /\ walk'.page = walk.page /\ walk'.wide = walk.wide
      /\ walk'.total = walk.total /\ ~walk'.exact
  <2>1. walk \in WalkType
    BY DEF ListIInv, ListTypeOK, WalkType
  <2> QED BY <1>2, <2>1 DEF WalkType
<1>5. ASSUME NEW key \in PageKeys
      PROVE  /\ stored'[key] \in StoredPage /\ ~stored'[key].exact
             /\ stored'[key].there = stored[key].there
             /\ stored'[key].more = stored[key].more /\ stored'[key].wide = stored[key].wide
  <2>1. stored[key] \in StoredPage
    BY DEF ListIInv, ListTypeOK
  <2>2. stored'[key] = [stored[key] EXCEPT !.exact = FALSE]
    BY <1>2
  <2> QED BY <2>1, <2>2 DEF StoredPage
<1>6. ListTypeOK'
  <2>1. position' \in [Rows -> 0 .. MaxPosition]
    BY <1>1 DEF ListIInv, ListTypeOK
  <2>2. listChanges' \in 0 .. MaxListChanges
    BY <1>2, ListingsAssumption DEF ListIInv, ListTypeOK
  <2>3. stored' \in [PageKeys -> StoredPage]
    BY <1>2, <1>5
  <2>4. ~list.kept => \A key \in PageKeys : ~stored'[key].there
    BY <1>5 DEF ListIInv, ListTypeOK
  <2> QED BY <1>2, <1>4, <2>1, <2>2, <2>3, <2>4 DEF ListIInv, ListTypeOK, WalkType
<1>7. StoredRight'
  <2> SUFFICES ASSUME NEW p \in PageNumbers, NEW w \in BOOLEAN, stored'[<<p, w>>].there
               PROVE  StoredIs(p, w, stored'[<<p, w>>], list', position', narrow')
    BY DEF StoredRight, PageNumbers
  <2>1. <<p, w>> \in PageKeys
    BY DEF PageKeys
  <2>2. StoredIs(p, w, stored[<<p, w>>], list, position, narrow)
    BY <1>5, <2>1 DEF ListIInv, StoredRight
  <2> QED BY <1>2, <1>5, <2>1, <2>2 DEF StoredIs
<1>8. PagesShown' = PagesShown /\ PagesShown * PageSize \in Nat
  BY <1>2, <1>4, PagesShownIs DEF ListIInv, PagesShown
<1>9. IsFiniteSet(Matching) /\ IsFiniteSet(Matching') /\ Matching \subseteq Rows /\ Matching' \subseteq Rows
  <2>1. IsFiniteSet(Matching) /\ Matching \subseteq Rows
    BY RowsAre DEF ListIInv
  <2>2. Matching' \subseteq Rows
    BY <1>2, <1>4 DEF Matching, Found, Present
  <2> QED BY <2>1, <2>2, ListingsAssumption, FS_Subset
<1>10. ShownOnce'
  <2> SUFFICES ASSUME disturbance' \subseteq {"left", "narrowed"}, NEW y \in Rows
               PROVE  /\ seen'[y] <= 1
                      /\ seen'[y] > 0 /\ y \in Matching' => RankOf(y, Matching', position') <= PagesShown' * PageSize
    BY DEF ShownOnce
  <2>1. k = 0
    BY <1>1
  <2>2. Matching' \subseteq Matching /\ \A z \in Matching' : position'[z] = position[z]
    BY <1>2, <1>3, <1>4, <2>1 DEF Matching, Found, Present
  <2>3. /\ seen[y] <= 1
        /\ seen[y] > 0 /\ y \in Matching => RankOf(y, Matching, position) <= PagesShown * PageSize
    BY <1>2 DEF ListIInv, ShownOnce
  <2>4. y \in Matching' => RankOf(y, Matching', position') <= RankOf(y, Matching, position)
    BY <1>9, <2>2, RankGrows
  <2>5. RankOf(y, Matching, position) \in Nat /\ RankOf(y, Matching', position') \in Nat
    BY <1>9, RankFits
  <2> QED BY <1>2, <1>8, <2>2, <2>3, <2>4, <2>5
<1>11. StillToCome'
  <2> SUFFICES ASSUME disturbance' \subseteq {"joined"}, PagesShown' > 0, NEW y \in owed'
               PROVE  /\ y \in Matching'
                      /\ seen'[y] = 0 => RankOf(y, Matching', position') > PagesShown' * PageSize
    BY DEF StillToCome
  <2>1. position[x] = 0
    BY <1>1
  <2>2. Matching \subseteq Matching' /\ \A z \in Matching : position[z] = position'[z]
    BY <1>2, <1>3, <1>4, <2>1 DEF Matching, Found, Present
  <2>3. /\ y \in Matching
        /\ seen[y] = 0 => RankOf(y, Matching, position) > PagesShown * PageSize
    BY <1>2, <1>8 DEF ListIInv, StillToCome
  <2>4. RankOf(y, Matching, position) <= RankOf(y, Matching', position')
    BY <1>9, <2>2, <2>3, RankGrows
  <2>5. RankOf(y, Matching, position) \in Nat /\ RankOf(y, Matching', position') \in Nat
    BY <1>9, RankFits
  <2> QED BY <1>2, <1>8, <2>2, <2>3, <2>4, <2>5
<1>12. CountIsRight' /\ ListShape'
  BY <1>1, <1>2, <1>4 DEF ListIInv, CountIsRight, ListShape
<1>13. SeenFits' /\ TiesAreKnown' /\ NothingMissed'
  BY <1>2, <1>4, <1>8 DEF ListIInv, SeenFits, TiesAreKnown, NothingMissed
<1> QED BY <1>6, <1>7, <1>10, <1>11, <1>12, <1>13 DEF ListIInv

-----------------------------------------------------------------------------
(* The walk *)

\* Going on or not after a page: more is what the answer says.
LEMMA WalkOnIs ==
  ASSUME ListTypeOK, NEW more \in BOOLEAN, NEW wide \in BOOLEAN, NEW what \in SUBSET Disturbances,
         WalkOn(more, wide, what), UNCHANGED <<list, position, narrow>>,
         wide => list.widens, more => walk.page <= Cardinality(Rows)
  PROVE  /\ walk' \in WalkType /\ ~walk'.exact
         /\ walk'.wide => list.widens
         /\ walk'.at = "done" <=> ~more
         /\ walk'.at = "fetch" => list.total # "before"
         /\ PagesShown' = walk.page
         /\ disturbance \union what \subseteq disturbance' /\ disturbance' \in SUBSET Disturbances
         /\ Matching' \subseteq Found(wide)
         /\ "narrowed" \notin disturbance' => Matching' = Found(wide)
<1>1. /\ walk.page \in Nat \ {0} /\ walk.page <= Cardinality(Rows) + 1 /\ Cardinality(Rows) \in Nat
      /\ walk \in WalkType /\ list \in ListKind
      /\ disturbance \in SUBSET Disturbances
  BY RowsAre DEF ListTypeOK, WalkType
<1>2. CASE more
  <2>1. PICK flag \in {wide, FALSE} :
          /\ walk' = [FirstRequest(list) EXCEPT !.page = walk.page + 1, !.wide = flag]
          /\ disturbance' = disturbance \union what
              \union (IF flag # wide THEN {"narrowed"} ELSE {})
              \union (IF flag /\ list.reorders THEN {"reordered"} ELSE {})
    BY <1>2 DEF WalkOn
  <2>2. walk.page + 1 \in PageNumbers
    BY <1>1, <1>2 DEF PageNumbers
  <2>3. /\ walk' \in WalkType /\ walk'.at = FirstStep(list) /\ walk'.page = walk.page + 1
        /\ walk'.wide = flag /\ ~walk'.exact
        /\ FirstStep(list) \in {"count", "fetch"} /\ (FirstStep(list) = "count" <=> list.total = "before")
    BY <1>1, <2>1, <2>2, FirstRequestIs DEF WalkType
  <2>4. PagesShown' = walk.page
    <3>1. list' = list /\ ~(walk'.at = "done" \/ (walk'.at = "count" /\ list.total = "after"))
      BY <2>3
    <3>2. PagesShown' = walk'.page - 1
      BY <3>1 DEF PagesShown
    <3> QED BY <2>3, <3>2, <1>1
  <2>5. /\ disturbance \union what \subseteq disturbance' /\ disturbance' \in SUBSET Disturbances
        /\ "narrowed" \notin disturbance' => flag = wide
    BY <1>1, <2>1 DEF Disturbances
  <2>6. Matching' \subseteq Found(wide) /\ ("narrowed" \notin disturbance' => Matching' = Found(wide))
    <3>1. CASE flag = wide
      <4>1. Matching' = Found(wide)
        BY <2>3, <3>1 DEF Matching, Found, Present
      <4> QED BY <4>1
    <3>2. CASE flag = FALSE
      <4>1. Matching' = Present \intersect narrow
        BY <2>3, <3>2 DEF Matching, Found, Present
      <4>2. Matching' \subseteq Found(wide)
        BY <4>1 DEF Found
      <4>3. wide = FALSE => Matching' = Found(wide)
        BY <4>1 DEF Found
      <4> QED BY <2>5, <3>2, <4>2, <4>3
    <3> QED BY <3>1, <3>2, Zenon
  <2> QED BY <1>1, <1>2, <2>1, <2>3, <2>4, <2>5, <2>6
<1>3. CASE ~more
  <2>1. walk' = [walk EXCEPT !.at = "done", !.wide = wide, !.exact = FALSE] /\ disturbance' = disturbance \union what
    BY <1>3 DEF WalkOn
  <2>2. /\ walk'.at = "done" /\ walk'.page = walk.page /\ walk'.wide = wide /\ ~walk'.exact
        /\ walk' \in WalkType
    BY <1>1, <2>1 DEF WalkType
  <2>3. PagesShown' = walk.page
    BY <2>2 DEF PagesShown
  <2>4. Matching' = Found(wide)
    BY <2>2 DEF Matching, Found, Present
  <2> QED BY <1>1, <1>3, <2>1, <2>2, <2>3, <2>4
<1> QED BY <1>2, <1>3

LEMMA FoundIs ==
  ASSUME ListTypeOK, NEW wide \in BOOLEAN
  PROVE  /\ IsFiniteSet(Found(wide)) /\ Found(wide) \subseteq Rows
         /\ Cardinality(Found(wide)) \in Nat /\ Cardinality(Found(wide)) <= Cardinality(Rows)
         /\ \A x \in Rows : RankOf(x, Found(wide), position) \in Nat
                            /\ RankOf(x, Found(wide), position) <= Cardinality(Found(wide))
<1>1. Found(wide) \subseteq Rows
  BY DEF Found, Present
<1>2. IsFiniteSet(Found(wide)) /\ Cardinality(Found(wide)) <= Cardinality(Rows)
  BY <1>1, ListingsAssumption, FS_Subset
<1>3. Cardinality(Found(wide)) \in Nat
  BY <1>2, FS_CardinalityType
<1> QED BY <1>1, <1>2, <1>3, RankFits

\* A page shows the rows with its ranks: none that was shown, when rows at most left since,
\* and all that are owed up to it, when rows at most joined.
LEMMA PageShown ==
  ASSUME ListIInv, PagesShown = walk.page - 1, UNCHANGED <<list, position, narrow>>,
         NEW s, NEW wide \in BOOLEAN, walk.page > 1 => wide = walk.wide,
         See(s, wide),
         disturbance' \intersect NoOrder = {} /\ "stale" \notin disturbance' =>
           s = PageByRank(walk.page, Found(wide), position),
         PagesShown' = walk.page, disturbance \subseteq disturbance',
         Matching' \subseteq Found(wide), "narrowed" \notin disturbance' => Matching' = Found(wide),
         walk'.at = "done" /\ disturbance' \subseteq {"joined"} =>
           ~(walk.page * PageSize < Cardinality(Found(wide)))
  PROVE  /\ seen' \in [Rows -> 0 .. Cardinality(Rows) + 1] /\ owed' \in SUBSET Rows
         /\ SeenFits' /\ ShownOnce' /\ StillToCome' /\ NothingMissed'
<1> DEFINE a == (walk.page - 1) * PageSize
           b == walk.page * PageSize
           rank(x) == RankOf(x, Found(wide), position)
<1>1. ListTypeOK
  BY DEF ListIInv
<1>2. /\ walk.page \in Nat \ {0} /\ PageSize \in Nat \ {0} /\ Cardinality(Rows) \in Nat
      /\ walk.page <= Cardinality(Rows) + 1
      /\ \A x \in Rows : position[x] \in Nat /\ seen[x] \in Nat
  BY <1>1, RowsAre
<1>3. /\ IsFiniteSet(Found(wide)) /\ Found(wide) \subseteq Rows
      /\ Cardinality(Found(wide)) \in Nat
      /\ \A x \in Rows : rank(x) \in Nat /\ rank(x) <= Cardinality(Found(wide))
  BY <1>1, FoundIs
<1>4. a \in Nat /\ b \in Nat /\ a <= b /\ (walk.page = 1 => a = 0)
  <2>1. b = a + PageSize /\ a \in Nat
    BY <1>2
  <2>2. walk.page = 1 => a = 0
    BY <1>2
  <2> HIDE DEF a, b
  <2> QED BY <2>1, <2>2, <1>2
<1>5. /\ seen' = [x \in Rows |-> seen[x] + (IF x \in s THEN 1 ELSE 0)]
      /\ owed' = IF walk.page = 1 THEN Found(wide) ELSE owed
  BY DEF See
<1>6. walk.page > 1 => Found(wide) = Matching
  BY DEF Matching
<1>7. ASSUME NEW x \in Rows
      PROVE  /\ seen'[x] = IF x \in s THEN seen[x] + 1 ELSE seen[x]
             /\ seen[x] \in Nat /\ seen[x] <= walk.page - 1
  BY <1>2, <1>5 DEF ListIInv, SeenFits
<1>8. ASSUME disturbance' \subseteq {"left", "narrowed"} \/ disturbance' \subseteq {"joined"}, NEW x \in Rows
      PROVE  x \in s <=> x \in Found(wide) /\ ~(rank(x) <= a) /\ rank(x) <= b
  <2>1. disturbance' \intersect NoOrder = {} /\ "stale" \notin disturbance'
    BY <1>8 DEF NoOrder
  <2> QED BY <1>3, <2>1 DEF PageByRank
<1> HIDE DEF a, b
<1>9. seen' \in [Rows -> 0 .. Cardinality(Rows) + 1] /\ owed' \in SUBSET Rows
  <2>1. ASSUME NEW x \in Rows PROVE seen[x] + (IF x \in s THEN 1 ELSE 0) \in 0 .. Cardinality(Rows) + 1
    <3>1. seen[x] \in Nat /\ seen[x] <= walk.page - 1
      BY <1>7
    <3> QED BY <3>1, <1>2
  <2>2. owed' \in SUBSET Rows
    BY <1>1, <1>3, <1>5 DEF ListTypeOK
  <2> QED BY <1>5, <2>1, <2>2
<1>10. SeenFits'
  <2>1. ASSUME NEW x \in Rows PROVE seen'[x] <= walk.page
    BY <1>2, <1>7
  <2> QED BY <2>1 DEF SeenFits
<1>11. ShownOnce'
  <2> SUFFICES ASSUME disturbance' \subseteq {"left", "narrowed"}, NEW x \in Rows
               PROVE  /\ seen'[x] <= 1
                      /\ seen'[x] > 0 /\ x \in Matching' => RankOf(x, Matching', position') <= PagesShown' * PageSize
    BY DEF ShownOnce
  <2>1. seen[x] <= 1 /\ (seen[x] > 0 /\ x \in Found(wide) => rank(x) <= a)
    <3>1. CASE walk.page = 1
      BY <1>7, <3>1
    <3>2. CASE walk.page > 1
      <4>1. disturbance \subseteq {"left", "narrowed"}
        OBVIOUS
      <4> QED BY <1>6, <3>2, <4>1 DEF ListIInv, ShownOnce, a
    <3> QED BY <1>2, <3>1, <3>2
  <2>2. x \in s <=> x \in Found(wide) /\ ~(rank(x) <= a) /\ rank(x) <= b
    BY <1>8
  <2>3. x \in Matching' => RankOf(x, Matching', position) <= rank(x) /\ x \in Found(wide)
    BY <1>3, RankGrows
  <2>4. RankOf(x, Matching', position) \in Nat
    <3>1. IsFiniteSet(Matching')
      BY <1>3, FS_Subset
    <3> QED BY <3>1, RankFits
  <2>5. rank(x) \in Nat
    BY <1>3
  <2> HIDE DEF rank
  <2>6. x \in s => seen[x] = 0
    BY <1>7, <2>1, <2>2
  <2>7. seen'[x] <= 1
    BY <1>7, <2>1, <2>6
  <2>8. seen'[x] > 0 /\ x \in Found(wide) => rank(x) <= b
    BY <1>4, <1>7, <2>1, <2>2, <2>5
  <2>9. seen'[x] > 0 /\ x \in Matching' => RankOf(x, Matching', position) <= b
    BY <1>4, <2>3, <2>4, <2>5, <2>8
  <2> QED BY <2>7, <2>9 DEF b
<1>12. ASSUME disturbance' \subseteq {"joined"}, NEW x \in owed'
       PROVE  x \in Found(wide) /\ (seen'[x] = 0 => rank(x) > b)
  <2>1. x \in Found(wide) /\ x \in Rows
    <3>1. CASE walk.page = 1
      BY <1>3, <1>5, <3>1
    <3>2. CASE walk.page > 1
      <4>1. PagesShown > 0 /\ disturbance \subseteq {"joined"}
        BY <1>2, <1>12, <3>2
      <4> QED BY <1>3, <1>5, <1>6, <3>2, <4>1 DEF ListIInv, StillToCome
    <3> QED BY <1>2, <3>1, <3>2
  <2>2. seen[x] = 0 => rank(x) > a
    <3>1. CASE walk.page = 1
      BY <1>2, <1>3, <1>4, <2>1, <3>1, RankIsPositive
    <3>2. CASE walk.page > 1
      <4>1. PagesShown > 0 /\ disturbance \subseteq {"joined"}
        BY <1>2, <1>12, <3>2
      <4> QED BY <1>5, <1>6, <3>2, <4>1 DEF ListIInv, StillToCome, a
    <3> QED BY <1>2, <3>1, <3>2
  <2>3. x \in s <=> x \in Found(wide) /\ ~(rank(x) <= a) /\ rank(x) <= b
    BY <1>8, <1>12, <2>1
  <2>4. rank(x) \in Nat
    BY <1>3, <2>1
  <2> HIDE DEF rank
  <2> QED BY <1>4, <1>7, <2>1, <2>2, <2>3, <2>4
<1>13. StillToCome'
  <2>1. disturbance' \subseteq {"joined"} => Matching' = Found(wide)
    OBVIOUS
  <2> QED BY <1>12, <2>1 DEF StillToCome, b
<1>14. NothingMissed'
  <2> SUFFICES ASSUME walk'.at = "done", disturbance' \subseteq {"joined"}, NEW x \in owed', ~(seen'[x] > 0)
               PROVE  FALSE
    BY DEF NothingMissed
  <2>1. x \in Rows
    BY <1>9
  <2>2. seen'[x] = 0
    BY <1>9, <1>2, <2>1
  <2>3. rank(x) > b
    BY <1>12, <2>2
  <2>4. ~(b < Cardinality(Found(wide)))
    BY DEF b
  <2>5. rank(x) \in Nat /\ rank(x) <= Cardinality(Found(wide))
    BY <1>3, <2>1
  <2> HIDE DEF rank
  <2> QED BY <1>3, <1>4, <2>3, <2>4, <2>5
<1> QED BY <1>9, <1>10, <1>11, <1>13, <1>14

\* A page from Redis.
LEMMA ServeStoredStep == ListIInv /\ ServeStored => ListIInv'
<1> SUFFICES ASSUME ListIInv, ServeStored PROVE ListIInv'
  OBVIOUS
<1> DEFINE page == stored[PageKey]
           what == IF page.exact THEN {} ELSE {"stale"}
<1>1. /\ walk.at = "count" /\ walk.wide = PageKey[2]
      /\ page.there /\ See(page.rows, page.wide) /\ WalkOn(page.more, page.wide, what)
      /\ UNCHANGED <<list, position, narrow, stored, walks, listChanges>>
  BY DEF ServeStored
<1>2. /\ ListTypeOK /\ walk \in WalkType /\ walk.page \in PageNumbers /\ walk.wide \in BOOLEAN
      /\ walk.page \in Nat \ {0}
  BY RowsAre DEF ListIInv, ListTypeOK, WalkType
<1>3. PageKey = <<walk.page, walk.wide>> /\ PageKey \in PageKeys
  BY <1>1, <1>2 DEF PageKey, PageKeys
<1>4. page \in StoredPage /\ list.kept
  BY <1>1, <1>2, <1>3 DEF ListTypeOK
<1>5. StoredIs(walk.page, walk.wide, page, list, position, narrow)
  BY <1>1, <1>2, <1>3 DEF ListIInv, StoredRight
<1>6. /\ page.more \in BOOLEAN /\ page.wide \in BOOLEAN /\ page.exact \in BOOLEAN
      /\ what \in SUBSET Disturbances
  BY <1>4 DEF StoredPage, Disturbances
<1>7. PagesShown = walk.page - 1
  BY <1>1, <1>4 DEF ListIInv, ListShape, PagesShown
<1> HIDE DEF what
<1>8. /\ walk' \in WalkType /\ ~walk'.exact
      /\ walk'.wide => list.widens
      /\ walk'.at = "done" <=> ~page.more
      /\ walk'.at = "fetch" => list.total # "before"
      /\ PagesShown' = walk.page
      /\ disturbance \union what \subseteq disturbance' /\ disturbance' \in SUBSET Disturbances
      /\ Matching' \subseteq Found(page.wide)
      /\ "narrowed" \notin disturbance' => Matching' = Found(page.wide)
  <2>1. page.wide => list.widens
    BY <1>5 DEF StoredIs
  <2>2. page.more => walk.page <= Cardinality(Rows)
    BY <1>5 DEF StoredIs
  <2> HIDE DEF page
  <2> QED BY <1>1, <1>2, <1>6, <2>1, <2>2, WalkOnIs
<1>9. "stale" \notin disturbance' => page.exact
  BY <1>6, <1>8 DEF what
<1>10. /\ seen' \in [Rows -> 0 .. Cardinality(Rows) + 1] /\ owed' \in SUBSET Rows
       /\ SeenFits' /\ ShownOnce' /\ StillToCome' /\ NothingMissed'
  <2>1. walk.page > 1 => page.wide = walk.wide
    BY <1>5 DEF StoredIs
  <2>2. "stale" \notin disturbance' => page.rows = PageByRank(walk.page, Found(page.wide), position)
    BY <1>5, <1>9, FoundIsRowsFound DEF StoredIs
  <2>3. walk'.at = "done" /\ disturbance' \subseteq {"joined"} =>
          ~(walk.page * PageSize < Cardinality(Found(page.wide)))
    BY <1>5, <1>8, <1>9, FoundIsRowsFound DEF StoredIs
  <2> HIDE DEF page
  <2> QED BY <1>1, <1>6, <1>7, <1>8, <2>1, <2>2, <2>3, PageShown
<1>11. ListTypeOK'
  BY <1>1, <1>2, <1>8, <1>10 DEF ListTypeOK, WalkType
<1>12. TiesAreKnown' /\ CountIsRight' /\ ListShape'
  BY <1>1, <1>4, <1>8 DEF ListIInv, TiesAreKnown, Tied, Present, CountIsRight, ListShape
<1>13. StoredRight'
  BY <1>1 DEF ListIInv, StoredRight, PageNumbers
<1> QED BY <1>10, <1>11, <1>12, <1>13 DEF ListIInv

\* A change of the walk that shows nothing and keeps its page.
LEMMA CountRowsStep == ListIInv /\ CountRows => ListIInv'
<1> SUFFICES ASSUME ListIInv, CountRows PROVE ListIInv'
  OBVIOUS
<1> DEFINE n == Cardinality(IF walk.wide THEN Present ELSE Present \intersect narrow')
<1>1. /\ walk.at = "count" /\ list.total = "before"
      /\ UNCHANGED <<list, position, stored, walks, seen, owed, listChanges>>
      /\ disturbance' = disturbance \union (IF list.random THEN {"drawn"} ELSE {})
      /\ narrow' \in IF list.random THEN {found \in SUBSET Rows : Favoured \subseteq found} ELSE {narrow}
      /\ walk' = IF list.widens /\ ~walk.wide /\ walk.page = 1 /\ n < Few
                 THEN [walk EXCEPT !.wide = TRUE]
                 ELSE [walk EXCEPT !.at = "fetch", !.total = n, !.exact = list.kept]
  BY DEF CountRows
<1>2. ListTypeOK /\ walk \in WalkType /\ ~walk.exact /\ list.kept \in BOOLEAN
  BY <1>1 DEF ListIInv, ListTypeOK, WalkType, CountIsRight, ListKind
<1>3. /\ walk.page \in Nat \ {0} /\ PageSize \in Nat \ {0} /\ Cardinality(Rows) \in Nat
      /\ \A x \in Rows : seen[x] \in Nat
  BY <1>2, RowsAre
<1>4. n \in 0 .. Cardinality(Rows)
  <2>1. (IF walk.wide THEN Present ELSE Present \intersect narrow') \subseteq Rows
    BY DEF Present
  <2>2. Cardinality(IF walk.wide THEN Present ELSE Present \intersect narrow') <= Cardinality(Rows)
        /\ IsFiniteSet(IF walk.wide THEN Present ELSE Present \intersect narrow')
    BY <2>1, ListingsAssumption, FS_Subset
  <2>3. n \in Nat
    BY <2>2, FS_CardinalityType
  <2> QED BY <1>3, <2>2, <2>3
<1>5. /\ narrow' \in SUBSET Rows /\ (~list.widens /\ ~list.random => narrow' = Rows)
      /\ ~list.random => narrow' = narrow
  BY <1>1, <1>2 DEF ListTypeOK
<1>6. /\ disturbance \subseteq disturbance' /\ disturbance' \in SUBSET Disturbances
      /\ list.random => "drawn" \in disturbance'
  BY <1>1, <1>2 DEF ListTypeOK, Disturbances
<1>7. StoredRight' /\ TiesAreKnown'
  <2>1. ASSUME NEW p \in PageNumbers, NEW w \in BOOLEAN, stored[<<p, w>>].there
        PROVE  StoredIs(p, w, stored[<<p, w>>], list, position, narrow')
    <3>1. StoredIs(p, w, stored[<<p, w>>], list, position, narrow)
      BY <2>1 DEF ListIInv, StoredRight
    <3>2. CASE list.random
      BY <3>1, <3>2 DEF StoredIs
    <3>3. CASE ~list.random
      BY <1>5, <3>1, <3>3
    <3> QED BY <3>2, <3>3
  <2>2. StoredRight'
    BY <1>1, <2>1 DEF StoredRight, PageNumbers
  <2> QED BY <1>1, <1>6, <2>2 DEF ListIInv, TiesAreKnown, Tied, Present
<1>8. PagesShown = walk.page - 1
  BY <1>1 DEF PagesShown
<1>9. CASE list.widens /\ ~walk.wide /\ walk.page = 1 /\ n < Few
  <2>1. walk' = [walk EXCEPT !.wide = TRUE]
    BY <1>1, <1>9 DEF n
  <2>2. walk' \in WalkType /\ walk'.at = "count" /\ walk'.page = 1 /\ walk'.wide /\ ~walk'.exact
    BY <1>1, <1>2, <1>9, <2>1 DEF WalkType
  <2>3. PagesShown = 0 /\ PagesShown' = 0
    BY <1>1, <1>8, <1>9, <2>2 DEF PagesShown
  <2>4. \A y \in Rows : seen[y] = 0
    BY <1>3, <2>3 DEF ListIInv, SeenFits
  <2>5. ListTypeOK'
    BY <1>1, <1>2, <1>5, <1>6, <1>9, <2>2 DEF ListTypeOK, WalkType
  <2>6. SeenFits' /\ ShownOnce' /\ StillToCome'
    BY <1>1, <2>3, <2>4 DEF SeenFits, ShownOnce, StillToCome
  <2>7. CountIsRight' /\ NothingMissed' /\ ListShape'
    BY <1>1, <2>2 DEF ListIInv, CountIsRight, NothingMissed, ListShape
  <2> QED BY <1>7, <2>5, <2>6, <2>7 DEF ListIInv
<1>10. CASE ~(list.widens /\ ~walk.wide /\ walk.page = 1 /\ n < Few)
  <2>1. walk' = [walk EXCEPT !.at = "fetch", !.total = n, !.exact = list.kept]
    BY <1>1, <1>10 DEF n
  <2> HIDE DEF n
  <2>2. /\ walk'.at = "fetch" /\ walk'.page = walk.page /\ walk'.wide = walk.wide /\ walk'.total = n
        /\ walk'.exact = list.kept /\ walk' \in WalkType
    BY <1>2, <1>4, <2>1 DEF WalkType
  <2>3. PagesShown' = PagesShown
    BY <1>1, <1>8, <2>2 DEF PagesShown
  <2>4. ~list.random => Matching' = Matching
    BY <1>1, <1>5, <2>2 DEF Matching, Found, Present
  <2>5. n = Cardinality(Matching')
    BY <1>1, <2>2 DEF Matching, Found, Present, n
  <2>6. ListTypeOK'
    BY <1>1, <1>2, <1>5, <1>6, <2>2 DEF ListTypeOK, WalkType
  <2>7. SeenFits' /\ NothingMissed' /\ ListShape'
    BY <1>1, <1>6, <2>2, <2>3 DEF ListIInv, SeenFits, NothingMissed, ListShape
  <2>8. ShownOnce' /\ StillToCome'
    <3>1. CASE list.random
      BY <1>6, <3>1 DEF ShownOnce, StillToCome
    <3>2. CASE ~list.random
      <4>1. disturbance' = disturbance /\ Matching' = Matching
        BY <1>1, <2>4, <3>2
      <4> QED BY <1>1, <2>3, <4>1 DEF ListIInv, ShownOnce, StillToCome
    <3> QED BY <3>1, <3>2
  <2>9. CountIsRight'
    BY <1>1, <2>2, <2>5 DEF CountIsRight
  <2> QED BY <1>7, <2>6, <2>7, <2>8, <2>9 DEF ListIInv
<1> QED BY <1>9, <1>10

\* The count after the page, which has been shown.
LEMMA CountAfterStep == ListIInv /\ CountAfter => ListIInv'
<1> SUFFICES ASSUME ListIInv, CountAfter PROVE ListIInv'
  OBVIOUS
<1> DEFINE n == Cardinality(Matching)
           more == walk.page < PagesOf(n)
<1>1. /\ walk.at = "count" /\ list.total = "after" /\ WalkOn(more, walk.wide, {})
      /\ UNCHANGED <<list, position, narrow, stored, walks, seen, owed, listChanges>>
  BY DEF CountAfter
<1>2. ListTypeOK /\ walk \in WalkType /\ walk.wide \in BOOLEAN /\ (walk.wide => list.widens)
  BY DEF ListIInv, ListTypeOK, WalkType
<1>3. /\ walk.page \in Nat \ {0} /\ PageSize \in Nat \ {0} /\ n \in Nat /\ n <= Cardinality(Rows)
      /\ Cardinality(Rows) \in Nat /\ IsFiniteSet(Matching)
      /\ \A x \in Rows : seen[x] \in Nat
  BY <1>2, RowsAre
<1> HIDE DEF n
<1>4. /\ more \in BOOLEAN /\ (more <=> walk.page * PageSize < n)
      /\ more => walk.page <= Cardinality(Rows)
  BY <1>3, PagesOfIs
<1> HIDE DEF more
<1>5. Found(walk.wide) = Matching
  BY DEF Matching
<1>6. /\ walk' \in WalkType /\ ~walk'.exact
      /\ walk'.wide => list.widens
      /\ walk'.at = "done" <=> ~more
      /\ PagesShown' = walk.page
      /\ disturbance \subseteq disturbance' /\ disturbance' \in SUBSET Disturbances
      /\ Matching' \subseteq Matching
      /\ "narrowed" \notin disturbance' => Matching' = Matching
  <2>1. {} \in SUBSET Disturbances
    OBVIOUS
  <2> QED BY <1>1, <1>2, <1>4, <1>5, <2>1, WalkOnIs
<1>7. PagesShown = walk.page
  BY <1>1 DEF PagesShown
<1>8. ListTypeOK'
  BY <1>1, <1>2, <1>6 DEF ListTypeOK, WalkType
<1>9. ShownOnce'
  <2> SUFFICES ASSUME disturbance' \subseteq {"left", "narrowed"}, NEW y \in Rows
               PROVE  /\ seen'[y] <= 1
                      /\ seen'[y] > 0 /\ y \in Matching' => RankOf(y, Matching', position') <= PagesShown' * PageSize
    BY DEF ShownOnce
  <2>1. /\ seen[y] <= 1
        /\ seen[y] > 0 /\ y \in Matching => RankOf(y, Matching, position) <= walk.page * PageSize
    BY <1>6, <1>7 DEF ListIInv, ShownOnce
  <2>2. y \in Matching' => RankOf(y, Matching', position) <= RankOf(y, Matching, position)
    BY <1>3, <1>6, RankGrows
  <2>3. IsFiniteSet(Matching')
    BY <1>3, <1>6, FS_Subset
  <2>4. RankOf(y, Matching, position) \in Nat /\ RankOf(y, Matching', position) \in Nat
    BY <1>3, <2>3, RankFits
  <2>5. walk.page * PageSize \in Nat
    BY <1>3
  <2> QED BY <1>1, <1>6, <2>1, <2>2, <2>4, <2>5
<1>10. disturbance' \subseteq {"joined"} =>
        \A y \in owed : /\ y \in Matching
                        /\ seen[y] = 0 => RankOf(y, Matching, position) > walk.page * PageSize
  BY <1>3, <1>6, <1>7 DEF ListIInv, StillToCome
<1>11. StillToCome'
  BY <1>1, <1>6, <1>10 DEF StillToCome
<1>12. NothingMissed'
  <2> SUFFICES ASSUME walk'.at = "done", disturbance' \subseteq {"joined"}, NEW y \in owed, ~(seen[y] > 0)
               PROVE  FALSE
    BY <1>1 DEF NothingMissed
  <2>1. y \in Rows
    BY <1>2 DEF ListTypeOK
  <2>2. seen[y] = 0
    BY <1>3, <2>1
  <2>3. RankOf(y, Matching, position) > walk.page * PageSize
    BY <1>10, <2>2
  <2>4. ~(walk.page * PageSize < n)
    BY <1>4, <1>6
  <2>5. RankOf(y, Matching, position) \in Nat /\ RankOf(y, Matching, position) <= n
    BY <1>3, RankFits DEF n
  <2>6. walk.page * PageSize \in Nat
    BY <1>3
  <2> QED BY <1>3, <2>3, <2>4, <2>5, <2>6
<1>13. SeenFits' /\ TiesAreKnown' /\ CountIsRight'
  BY <1>1, <1>6, <1>7 DEF ListIInv, SeenFits, TiesAreKnown, Tied, Present, CountIsRight
<1>14. ListShape' /\ StoredRight'
  <2>1. ~list.kept /\ \A k \in PageKeys : ~stored'[k].there
    BY <1>1, <1>2 DEF ListIInv, ListShape, ListTypeOK
  <2>2. StoredRight'
    BY <2>1 DEF StoredRight, PageKeys, PageNumbers
  <2>3. ~list.random
    BY <1>1 DEF ListIInv, ListShape
  <2> QED BY <1>1, <2>1, <2>2, <2>3 DEF ListIInv, ListShape
<1> QED BY <1>8, <1>9, <1>11, <1>12, <1>13, <1>14 DEF ListIInv

\* A page from the database, which Redis may get.
LEMMA FetchPageStep == ListIInv /\ FetchPage => ListIInv'
<1> SUFFICES ASSUME ListIInv, FetchPage PROVE ListIInv'
  OBVIOUS
<1> DEFINE n == Cardinality(Matching)
           b == walk.page * PageSize
           more == IF list.total = "before" THEN walk.page < PagesOf(walk.total)
                                            ELSE Cardinality(Matching) > walk.page * PageSize
           fresh == walk.exact /\ disturbance \intersect NoOrder = {}
<1>1. PICK s \in RowsOf(walk.page) :
        /\ See(s, walk.wide)
        /\ stored' \in {stored} \union
             IF ~list.kept THEN {}
             ELSE {[stored EXCEPT ![PageKey] =
                     [there |-> TRUE, rows |-> s, more |-> more, wide |-> walk.wide, exact |-> fresh]]}
        /\ IF list.total = "after" THEN walk' = [walk EXCEPT !.at = "count"] /\ UNCHANGED disturbance
                                   ELSE WalkOn(more, walk.wide, {})
  BY DEF FetchPage
<1>2. walk.at = "fetch" /\ UNCHANGED <<list, position, narrow, walks, listChanges>>
  BY DEF FetchPage
<1>3. /\ ListTypeOK /\ list \in ListKind /\ list.total \in {"before", "after", "extra"}
      /\ walk \in WalkType /\ walk.wide \in BOOLEAN /\ walk.exact \in BOOLEAN
      /\ walk.wide => list.widens
      /\ walk.page \in PageNumbers
      /\ disturbance \in SUBSET Disturbances
  BY DEF ListIInv, ListTypeOK, ListKind, WalkType
<1>4. /\ walk.page \in Nat \ {0} /\ PageSize \in Nat \ {0} /\ n \in Nat
      /\ n <= Cardinality(Rows) /\ Cardinality(Rows) \in Nat /\ Matching \subseteq Rows
  BY <1>3, RowsAre
<1>5. PagesShown = walk.page - 1
  BY <1>2, <1>3, PagesShownIs
<1>6. Found(walk.wide) = Matching
  BY DEF Matching
<1>7. /\ s \subseteq Matching
      /\ disturbance \intersect NoOrder = {} => s = PageByRank(walk.page, Matching, position)
  BY PageIs
<1>8. /\ more \in BOOLEAN /\ (more => walk.page <= Cardinality(Rows))
      /\ list.total # "before" => (more <=> b < n)
      /\ list.total = "before" => (more <=> b < walk.total)
  <2>1. walk.total \in Nat /\ walk.total <= Cardinality(Rows)
    <3>1. walk.total \in 0 .. Cardinality(Rows)
      BY <1>3 DEF WalkType
    <3> QED BY <3>1, <1>4
  <2>2. CASE list.total = "before"
    <3>1. walk.page < PagesOf(walk.total) <=> walk.page * PageSize < walk.total
      BY <1>4, <2>1, PagesOfIs
    <3>2. walk.page < PagesOf(walk.total) => walk.page < walk.total
      BY <1>4, <2>1, PagesOfIs
    <3> QED BY <1>4, <2>1, <2>2, <3>1, <3>2
  <2>3. CASE list.total # "before"
    <3>1. more <=> b < n
      BY <1>4, <2>3
    <3>2. walk.page <= b
      BY <1>4
    <3>3. b \in Nat
      BY <1>4
    <3> HIDE DEF n, b, more
    <3>4. more => walk.page <= Cardinality(Rows)
      BY <1>4, <3>1, <3>2, <3>3
    <3>5. more \in BOOLEAN
      BY <2>3 DEF more
    <3> QED BY <2>3, <3>1, <3>4, <3>5
  <2> QED BY <2>2, <2>3
<1>9. list.total = "before" /\ (walk.exact \/ disturbance \subseteq {"joined"}) => walk.total = n
  BY <1>2 DEF ListIInv, CountIsRight
<1> HIDE DEF more, n, b
\* What goes on or not after the page.
<1>10. /\ walk' \in WalkType /\ ~walk'.exact
       /\ walk'.wide => list.widens
       /\ walk'.at = "done" /\ disturbance' \subseteq {"joined"} => ~(b < n)
       /\ walk'.at = "fetch" => list.total # "before"
       /\ PagesShown' = walk.page
       /\ disturbance \subseteq disturbance' /\ disturbance' \in SUBSET Disturbances
       /\ Matching' \subseteq Matching
       /\ "narrowed" \notin disturbance' => Matching' = Matching
  <2>1. CASE list.total = "after"
    <3>1. walk' = [walk EXCEPT !.at = "count"] /\ disturbance' = disturbance
      BY <1>1, <2>1
    <3>2. ~walk.exact
      BY <2>1 DEF ListIInv, CountIsRight, ListShape
    <3>3. /\ walk'.at = "count" /\ walk'.page = walk.page /\ walk'.wide = walk.wide /\ ~walk'.exact
          /\ walk' \in WalkType
      BY <1>3, <3>1, <3>2 DEF WalkType
    <3>4. PagesShown' = walk.page
      BY <1>2, <2>1, <3>3 DEF PagesShown
    <3>5. Matching' = Matching
      BY <1>2, <3>3 DEF Matching, Found, Present
    <3> QED BY <1>3, <3>1, <3>3, <3>4, <3>5
  <2>2. CASE list.total # "after"
    <3>1. WalkOn(more, walk.wide, {}) /\ {} \in SUBSET Disturbances
      BY <1>1, <2>2
    <3>2. /\ walk' \in WalkType /\ ~walk'.exact
          /\ walk'.wide => list.widens
          /\ walk'.at = "done" <=> ~more
          /\ walk'.at = "fetch" => list.total # "before"
          /\ PagesShown' = walk.page
          /\ disturbance \subseteq disturbance' /\ disturbance' \in SUBSET Disturbances
          /\ Matching' \subseteq Matching
          /\ "narrowed" \notin disturbance' => Matching' = Matching
      BY <1>2, <1>3, <1>6, <1>8, <3>1, WalkOnIs
    <3>3. disturbance' \subseteq {"joined"} => (more <=> b < n)
      <4>1. disturbance' \subseteq {"joined"} => disturbance \subseteq {"joined"}
        BY <3>2
      <4>2. CASE list.total = "before"
        BY <1>8, <1>9, <4>1, <4>2
      <4>3. CASE list.total # "before"
        BY <1>8, <4>3
      <4> QED BY <4>2, <4>3
    <3> QED BY <3>2, <3>3
  <2> QED BY <2>1, <2>2
<1>11. /\ seen' \in [Rows -> 0 .. Cardinality(Rows) + 1] /\ owed' \in SUBSET Rows
       /\ SeenFits' /\ ShownOnce' /\ StillToCome' /\ NothingMissed'
  <2>1. disturbance' \intersect NoOrder = {} => s = PageByRank(walk.page, Found(walk.wide), position)
    BY <1>6, <1>7, <1>10
  <2>2. /\ Matching' \subseteq Found(walk.wide)
        /\ "narrowed" \notin disturbance' => Matching' = Found(walk.wide)
        /\ walk'.at = "done" /\ disturbance' \subseteq {"joined"} =>
             ~(walk.page * PageSize < Cardinality(Found(walk.wide)))
    BY <1>6, <1>10 DEF b, n
  <2> QED BY <1>1, <1>2, <1>3, <1>5, <1>10, <2>1, <2>2, PageShown
\* What Redis gets.
<1> DEFINE page == [there |-> TRUE, rows |-> s, more |-> more, wide |-> walk.wide, exact |-> fresh]
<1>12. stored' = stored \/ (list.kept /\ stored' = [stored EXCEPT ![PageKey] = page])
  BY <1>1
<1>13. PageKey \in PageKeys /\ PageKey = <<walk.page, walk.wide /\ walk.page > 1>> /\ page \in StoredPage
  BY <1>3, <1>4, <1>7, <1>8 DEF PageKey, PageKeys, StoredPage
<1>14. list.kept => StoredIs(walk.page, walk.wide /\ walk.page > 1, page, list, position, narrow)
  <2>1. page.more = more /\ page.wide = walk.wide /\ page.rows = s /\ page.exact = fresh
    OBVIOUS
  <2>2. fresh => ~list.random
    BY <1>2 DEF ListIInv, ListShape, NoOrder
  <2>3. fresh => s = PageByRank(walk.page, Found(walk.wide), position)
    BY <1>6, <1>7
  <2>4. list.kept /\ fresh => (more <=> walk.page * PageSize < Cardinality(Found(walk.wide)))
    BY <1>6, <1>8, <1>9 DEF ListIInv, ListShape, b, n
  <2> HIDE DEF page, fresh
  <2> QED BY <1>3, <1>8, <2>1, <2>2, <2>3, <2>4, FoundIsRowsFound DEF StoredIs
<1> HIDE DEF page, fresh
<1>15. stored' \in [PageKeys -> StoredPage] /\ (~list.kept => \A k \in PageKeys : ~stored'[k].there)
  BY <1>3, <1>12, <1>13 DEF ListTypeOK
<1>16. StoredRight'
  <2> SUFFICES ASSUME NEW p \in PageNumbers, NEW w \in BOOLEAN, stored'[<<p, w>>].there
               PROVE  StoredIs(p, w, stored'[<<p, w>>], list, position, narrow)
    BY <1>2 DEF StoredRight, PageNumbers
  <2>1. <<p, w>> \in PageKeys
    BY DEF PageKeys
  <2>2. CASE stored'[<<p, w>>] = stored[<<p, w>>]
    BY <2>2 DEF ListIInv, StoredRight
  <2>3. CASE stored'[<<p, w>>] # stored[<<p, w>>]
    <3>1. list.kept /\ <<p, w>> = PageKey /\ stored'[<<p, w>>] = page
      BY <1>3, <1>12, <1>13, <2>1, <2>3 DEF ListTypeOK
    <3>2. p = walk.page /\ w = (walk.wide /\ walk.page > 1)
      BY <1>13, <3>1
    <3> QED BY <1>14, <3>1, <3>2
  <2> QED BY <2>2, <2>3
<1>17. ListTypeOK'
  BY <1>2, <1>3, <1>10, <1>11, <1>15 DEF ListTypeOK, WalkType
<1>18. TiesAreKnown' /\ CountIsRight' /\ ListShape'
  BY <1>2, <1>10 DEF ListIInv, TiesAreKnown, Tied, Present, CountIsRight, ListShape
<1> QED BY <1>11, <1>16, <1>17, <1>18 DEF ListIInv

\* A new walk has been shown nothing.
LEMMA WalkAgainStep == ListIInv /\ WalkAgain => ListIInv'
<1> SUFFICES ASSUME ListIInv, WalkAgain PROVE ListIInv'
  OBVIOUS
<1>1. /\ list.kept /\ walks < MaxWalks /\ walks' = walks + 1
      /\ walk' = FirstRequest(list)
      /\ seen' = [x \in Rows |-> 0] /\ owed' = {}
      /\ disturbance' = (IF Tied THEN {"tied"} ELSE {})
      /\ UNCHANGED <<list, position, narrow, stored, listChanges>>
  BY DEF WalkAgain
<1>2. ListTypeOK /\ list \in ListKind /\ list.total = "before" /\ Cardinality(Rows) \in Nat
  BY <1>1, RowsAre DEF ListIInv, ListTypeOK, ListShape
<1>3. walk' \in WalkType /\ walk'.at = "count" /\ walk'.page = 1 /\ ~walk'.wide /\ ~walk'.exact
  BY <1>1, <1>2, FirstRequestIs
<1>4. PagesShown' = 0
  BY <1>1, <1>2, <1>3 DEF PagesShown
<1>5. \A x \in Rows : seen'[x] = 0
  BY <1>1
<1>6. ListTypeOK'
  <2>1. walks' \in 1 .. MaxWalks
    BY <1>1, <1>2, ListingsAssumption DEF ListTypeOK
  <2>2. seen' \in [Rows -> 0 .. Cardinality(Rows) + 1]
    BY <1>1, <1>2
  <2>3. disturbance' \in SUBSET Disturbances /\ owed' \in SUBSET Rows
    BY <1>1 DEF Disturbances
  <2> QED BY <1>1, <1>2, <1>3, <2>1, <2>2, <2>3 DEF ListTypeOK, WalkType
<1>7. SeenFits' /\ ShownOnce' /\ StillToCome'
  BY <1>4, <1>5 DEF SeenFits, ShownOnce, StillToCome
<1>8. TiesAreKnown' /\ CountIsRight' /\ NothingMissed' /\ ListShape'
  BY <1>1, <1>3 DEF ListIInv, TiesAreKnown, Tied, Present, CountIsRight, NothingMissed, ListShape
<1>9. StoredRight'
  BY <1>1 DEF ListIInv, StoredRight, PageNumbers
<1> QED BY <1>6, <1>7, <1>8, <1>9 DEF ListIInv

LEMMA ListStep == ListIInv /\ [ListNext]_listVars => ListIInv'
<1> SUFFICES ASSUME ListIInv, [ListNext]_listVars PROVE ListIInv'
  OBVIOUS
<1>1. CASE UNCHANGED listVars
  BY <1>1 DEF listVars, ListIInv, ListTypeOK, SeenFits, TiesAreKnown, ShownOnce, StillToCome, CountIsRight,
              NothingMissed, PagesShown, Matching, Found, Present, Tied, ListShape, StoredRight, PageNumbers
<1>2. ASSUME NEW x \in Rows, JoinList(x) \/ LeaveList(x) \/ UseRow(x) PROVE ListIInv'
  BY <1>2, OthersStep
<1>3. CASE ServeStored
  BY <1>3, ServeStoredStep
<1>4. CASE CountRows
  BY <1>4, CountRowsStep
<1>5. CASE CountAfter
  BY <1>5, CountAfterStep
<1>6. CASE FetchPage
  BY <1>6, FetchPageStep
<1>7. CASE WalkAgain
  BY <1>7, WalkAgainStep
<1> QED BY <1>1, <1>2, <1>3, <1>4, <1>5, <1>6, <1>7 DEF ListNext

\* The walker's page, its total, the times each row was shown and the pages in Redis stay
\* within their bounds: it asks for no more pages than the list may have rows, and one.
THEOREM ListTypeCorrect == ListSpec => []ListTypeOK
<1>1. ListIInv => ListTypeOK
  BY DEF ListIInv
<1> QED BY <1>1, ListInitHolds, ListStep, PTL DEF ListSpec

\* The pages of a walk show each row once, for every list and page size: none is missed
\* when rows at most joined before the count, none comes twice when rows at most left, and
\* pages from Redis change nothing of it while the list has not changed since they were
\* counted.  Of a list drawn at each query, or in no order of its own, it says nothing.
THEOREM EachRowOnceHolds == ListSpec => []EachRowOnce
<1>1. ListIInv => EachRowOnce
  BY DEF ListIInv, ShownOnce, EachRowOnce, NothingTwice
<1> QED BY <1>1, ListInitHolds, ListStep, PTL DEF ListSpec

-----------------------------------------------------------------------------
(***************************************************************************)
(* The parts together: the one that acts keeps its invariant.              *)
(***************************************************************************)

SearchesIInv ==
  /\ part \in {"search", "recommend", "previews", "lists"}
  /\ TypeOK /\ RecIInv /\ PreviewIInv /\ ListIInv

\* Whatever part acts, its state is well typed: the specification TLC checks, for all
\* values of its constants.
THEOREM SearchesTypeCorrect == SearchesSpec => []SearchesTypeOK
<1>1. SearchesInit => SearchesIInv
  BY InitTypeOK, RecInvInit, PreviewInitHolds, ListInitHolds DEF SearchesInit, SearchesIInv
<1>2. SearchesIInv /\ [SearchesNext]_<<part, vars, recVars, previewVars, listVars>> => SearchesIInv'
  <2> SUFFICES ASSUME SearchesIInv, [SearchesNext]_<<part, vars, recVars, previewVars, listVars>>
               PROVE  SearchesIInv'
    OBVIOUS
  <2>1. /\ part' = part /\ [Next]_vars /\ [RecNext]_recVars
        /\ [PreviewNext]_previewVars /\ [ListNext]_listVars
    BY DEF SearchesNext
  <2> QED BY <2>1, StepTypeOK, RecInvStep, PreviewStep, ListStep DEF SearchesIInv
<1>3. SearchesIInv => SearchesTypeOK
  BY DEF SearchesIInv, SearchesTypeOK, RecIInv, PreviewIInv, ListIInv
<1> QED BY <1>1, <1>2, <1>3, PTL DEF SearchesSpec

=============================================================================
