-------------------------- MODULE Recommendations --------------------------
(***************************************************************************)
(* The recommendations kept in Redis, one entry per user and page, for an  *)
(* hour.  They follow from the user's own searches and from the likes of   *)
(* everybody; a search with words and a like end by deleting the entries   *)
(* of the user who made them.  Other users' entries wait for their hour.   *)
(*                                                                         *)
(* An entry holds how many of the user's searches and likes it has seen:   *)
(* what those rank is one SQL query that this module does not look into.   *)
(***************************************************************************)
EXTENDS Integers, FiniteSets

CONSTANTS
  Readers,       \* signed-in users
  Placed,        \* those with a department: their searches count
  RecPages,      \* pages of the recommendations
  RecRequests,   \* requests that may be in flight at once
  MaxTaste,      \* bound: searches, and likes, of each user
  MaxRecFaults   \* bound: invalidations that fail, requests cut short

ASSUME RecAssumption ==
  /\ Placed \subseteq Readers /\ RecPages # {}
  /\ MaxTaste \in Nat /\ MaxRecFaults \in Nat

VARIABLES
  taste,      \* how often each user stored a search in search_history, and changed a like
  recs,       \* the recommendations:user:* entries
  recReq,     \* the requests in flight
  settled,    \* history: what was stored by requests that have ended
  spared,     \* history: users of whom an invalidation did not happen
  recFaults   \* invalidations that failed, requests cut short

recVars == <<taste, recs, recReq, settled, spared, recFaults>>

Likings == {"searches", "likes"}
Taste == [Likings -> 0 .. MaxTaste]
NoTaste == [k \in Likings |-> 0]

\* late: history, something was stored between the reading and the SET of the entry.
RecEntry == [there : BOOLEAN, of : Taste, late : BOOLEAN]
NoRecs == [there |-> FALSE, of |-> NoTaste, late |-> FALSE]

RecRequest ==
  [at : {"searches", "likes", "set", "store", "invalidate"},
   user : Readers, page : RecPages, of : Taste, stored : {"nothing"} \union Likings,
   todo : SUBSET RecPages]   \* entries that SCAN still has to return

RecTypeOK ==
  /\ taste \in [Readers -> Taste]
  /\ recs \in [Readers \X RecPages -> RecEntry]
  /\ recReq \in [RecRequests -> RecRequest \union {[at |-> "idle"]}]
  /\ settled \in [Readers -> Taste]
  /\ \A u \in Readers, k \in Likings : settled[u][k] <= taste[u][k]
  /\ spared \in SUBSET Readers
  /\ recFaults \in 0 .. MaxRecFaults

RecIdle == [at |-> "idle"]
RecInit ==
  /\ taste = [u \in Readers |-> NoTaste]
  /\ recs = [k \in Readers \X RecPages |-> NoRecs]
  /\ recReq = [r \in RecRequests |-> RecIdle]
  /\ settled = [u \in Readers |-> NoTaste]
  /\ spared = {}
  /\ recFaults = 0

RecBegin(r, at, u, p) ==
  /\ recReq[r] = RecIdle
  /\ recReq' = [recReq EXCEPT ![r] =
       [at |-> at, user |-> u, page |-> p, of |-> NoTaste, stored |-> "nothing", todo |-> {}]]
RecEnd(r) == recReq' = [recReq EXCEPT ![r] = RecIdle]
\* What t does not show of s, for user u.
Behind(t, s, u) == \E k \in Likings : t[k] < s[k] /\ (k = "searches" => u \in Placed)

-----------------------------------------------------------------------------
(* getRecommendations *)

\* A hit is the answer.
GetHit(u, p) == recs[<<u, p>>].there

\* The cache is asked first; who has no department is not asked for searches.
GetMiss(r, u, p) ==
  /\ ~GetHit(u, p)
  /\ RecBegin(r, IF u \in Placed THEN "searches" ELSE "likes", u, p)
  /\ UNCHANGED <<taste, recs, settled, spared, recFaults>>

\* The searches are read before the query that ranks by likes.
ReadSearches(r) ==
  /\ recReq[r].at = "searches"
  /\ recReq' = [recReq EXCEPT ![r].at = "likes",
                              ![r].of.searches = taste[recReq[r].user].searches]
  /\ UNCHANGED <<taste, recs, settled, spared, recFaults>>

RankMaterials(r) ==
  /\ recReq[r].at = "likes"
  /\ recReq' = [recReq EXCEPT ![r].at = "set", ![r].of.likes = taste[recReq[r].user].likes]
  /\ UNCHANGED <<taste, recs, settled, spared, recFaults>>

SetRecs(r) ==
  /\ recReq[r].at = "set"
  /\ LET q == recReq[r]
     IN  recs' = [recs EXCEPT ![<<q.user, q.page>>] =
           [there |-> TRUE, of |-> q.of, late |-> Behind(q.of, taste[q.user], q.user)]]
  /\ RecEnd(r)
  /\ UNCHANGED <<taste, settled, spared, recFaults>>

RecsExpire(k) ==
  /\ recs[k].there
  /\ recs' = [recs EXCEPT ![k] = NoRecs]
  /\ UNCHANGED <<taste, recReq, settled, spared, recFaults>>

-----------------------------------------------------------------------------
(* searchMaterial with words, and likeMaterial *)

TasteBegin(r, u) ==
  /\ RecBegin(r, "store", u, CHOOSE p \in RecPages : TRUE)
  /\ UNCHANGED <<taste, recs, settled, spared, recFaults>>

\* Mutant: only one page is deleted.
RecFirstPage == {CHOOSE p \in RecPages : TRUE}
\* The pages that recommendations:user:<id>:* matches.
RecPatternPages == RecPages

\* A search that was not answered from its own cache stores its words.
StoreTaste(r, k) ==
  /\ recReq[r].at = "store"
  /\ LET u == recReq[r].user
     IN  /\ taste[u][k] < MaxTaste
         /\ taste' = [taste EXCEPT ![u][k] = @ + 1]
  /\ recReq' = [recReq EXCEPT ![r].at = "invalidate", ![r].stored = k,
                              ![r].todo = RecPatternPages]
  /\ UNCHANGED <<recs, settled, spared, recFaults>>

\* Answered from the cache of searches, or the row could not be stored.
StoreNothing(r) ==
  /\ recReq[r].at = "store"
  /\ recReq' = [recReq EXCEPT ![r].at = "invalidate", ![r].todo = RecPatternPages]
  /\ UNCHANGED <<taste, recs, settled, spared, recFaults>>

\* The request has ended: what is stored by now of its kind is settled when no other
\* request still has to delete the entries.
Settle(r) ==
  LET q == recReq[r]
      open == {s \in RecRequests \ {r} : /\ recReq[s].at = "invalidate"
                                         /\ recReq[s].user = q.user /\ recReq[s].stored = q.stored}
  IN  settled' = IF q.stored = "nothing" \/ open # {} THEN settled
                 ELSE [settled EXCEPT ![q.user][q.stored] = taste[q.user][q.stored]]

\* SCAN returns the keys in pieces, and each piece is deleted.
DeleteRecs(r, p) ==
  /\ recReq[r].at = "invalidate" /\ p \in recReq[r].todo
  /\ recs' = [recs EXCEPT ![<<recReq[r].user, p>>] = NoRecs]
  /\ recReq' = [recReq EXCEPT ![r].todo = @ \ {p}]
  /\ UNCHANGED <<taste, settled, spared, recFaults>>

EndInvalidate(r) ==
  /\ recReq[r].at = "invalidate" /\ recReq[r].todo = {}
  /\ Settle(r) /\ RecEnd(r)
  /\ UNCHANGED <<taste, recs, spared, recFaults>>

\* deletePattern catches its errors and the request ends all the same.
InvalidateFails(r) ==
  /\ recReq[r].at = "invalidate" /\ recReq[r].todo # {}
  /\ recFaults < MaxRecFaults /\ recFaults' = recFaults + 1
  /\ spared' = spared \union {recReq[r].user}
  /\ Settle(r) /\ RecEnd(r)
  /\ UNCHANGED <<taste, recs>>

\* The server stops in the middle of a request.
RecCut(r) ==
  /\ recReq[r] # RecIdle
  /\ recFaults < MaxRecFaults /\ recFaults' = recFaults + 1
  /\ spared' = IF recReq[r].stored = "nothing" THEN spared ELSE spared \union {recReq[r].user}
  /\ RecEnd(r)
  /\ UNCHANGED <<taste, recs, settled>>

RecNext ==
  \/ \E r \in RecRequests, u \in Readers :
       (\E p \in RecPages : GetMiss(r, u, p)) \/ TasteBegin(r, u)
  \/ \E r \in RecRequests :
       \/ ReadSearches(r) \/ RankMaterials(r) \/ SetRecs(r)
       \/ (\E k \in Likings : StoreTaste(r, k)) \/ StoreNothing(r)
       \/ (\E p \in RecPages : DeleteRecs(r, p)) \/ EndInvalidate(r) \/ InvalidateFails(r) \/ RecCut(r)
  \/ \E k \in Readers \X RecPages : RecsExpire(k)

RecSpec == RecInit /\ [][RecNext]_recVars

-----------------------------------------------------------------------------
(* Property *)

\* A user is shown recommendations that miss a search or a like of a request of theirs
\* that has ended only from an entry that was computed before something was stored and
\* SET after it, or when the entries could not be deleted.
RecsFollowTheUser ==
  \A u \in Readers \ spared, p \in RecPages :
    GetHit(u, p) /\ Behind(recs[<<u, p>>].of, settled[u], u) => recs[<<u, p>>].late
=============================================================================
