-------------------------- MODULE SubmissionsProofs --------------------------
(*****************************************************************************)
(* Proofs about clubs, the pictures of what users put up, and likes, for any *)
(* users, requests, pictures and departments; the last section composes them *)
(* with the files and folders of materials.                                  *)
(*****************************************************************************)
EXTENDS MCSubmissions, MaterialsProofs, FiniteSetTheorems, TLAPS

-----------------------------------------------------------------------------
(*****************************************************************************)
(* Likes, for any users and any number of toggles in flight.                 *)
(*****************************************************************************)

LikeLabels == {"idle", "add", "increment", "remove", "decrement"}

\* A toggle that passed the lookup still finds what it saw there: nobody else
\* writes the user's row when she has one toggle in flight at most.
Undisturbed ==
  \A r \in LikeRequests :
    /\ pc[r] = "add" => Sender[r] \notin liked
    /\ pc[r] = "remove" => Sender[r] \in liked

\* No user has two toggles under way.
Alone ==
  \A r, s \in LikeRequests :
    pc[r] # "idle" /\ pc[s] # "idle" /\ Sender[r] = Sender[s] => r = s

Orderly == Alone /\ (Undisturbed \/ ~exists)

LikeIInv ==
  /\ LikeTypeOK
  /\ ~doubled => Orderly
  /\ CounterMatchesRows
  /\ NeverOvercounted

-----------------------------------------------------------------------------

LEMMA LikeTypeInit == LikeInit => LikeTypeOK
<1> SUFFICES ASSUME LikeInit PROVE LikeTypeOK
  OBVIOUS
<1>1. exists \in BOOLEAN /\ doubled \in BOOLEAN
  BY DEF LikeInit
<1> QED BY <1>1, LikesAssumption DEF LikeInit, LikeTypeOK

LEMMA LikeTypeStep == LikeTypeOK /\ [LikeNext]_likeVars => LikeTypeOK'
<1> SUFFICES ASSUME LikeTypeOK, [LikeNext]_likeVars PROVE LikeTypeOK'
  OBVIOUS
<1> USE LikesAssumption DEF LikeTypeOK, LikeGoto
<1>1. ASSUME NEW r \in LikeRequests, Toggle(r) PROVE LikeTypeOK'
  <2>1. doubled' \in BOOLEAN
    BY <1>1 DEF Toggle
  <2> QED BY <1>1, <2>1 DEF Toggle
<1>2. ASSUME NEW r \in LikeRequests, AddUserLike(r) PROVE LikeTypeOK'
  BY <1>2 DEF AddUserLike
<1>3. ASSUME NEW r \in LikeRequests, IncrementLikes(r) PROVE LikeTypeOK'
  BY <1>3 DEF IncrementLikes
<1>4. ASSUME NEW r \in LikeRequests, RemoveUserLike(r) PROVE LikeTypeOK'
  BY <1>4 DEF RemoveUserLike
<1>5. ASSUME NEW r \in LikeRequests, DecrementLikes(r) PROVE LikeTypeOK'
  BY <1>5 DEF DecrementLikes
<1>6. ASSUME NEW r \in LikeRequests, LikeAbort(r) PROVE LikeTypeOK'
  BY <1>6 DEF LikeAbort
<1>7. CASE RemoveEntity
  BY <1>7 DEF RemoveEntity
<1>8. CASE UNCHANGED likeVars
  BY <1>8 DEF likeVars
<1> QED BY <1>1, <1>2, <1>3, <1>4, <1>5, <1>6, <1>7, <1>8 DEF LikeNext

\* Every reachable state is well typed.
THEOREM LikeTypeCorrect == LikeSpec => []LikeTypeOK
<1>1. LikeInit => LikeTypeOK BY LikeTypeInit
<1>2. LikeTypeOK /\ [LikeNext]_likeVars => LikeTypeOK' BY LikeTypeStep
<1> QED BY <1>1, <1>2, PTL DEF LikeSpec

-----------------------------------------------------------------------------
(* Counting the requests at a label *)

LEMMA Finite ==
  ASSUME LikeTypeOK, NEW l
  PROVE  IsFiniteSet(LikesAt(l)) /\ Cardinality(LikesAt(l)) \in Nat
         /\ IsFiniteSet(liked) /\ Cardinality(liked) \in Nat
<1>1. LikesAt(l) \subseteq LikeRequests /\ liked \subseteq Users
  BY DEF LikesAt, LikeTypeOK
<1>2. IsFiniteSet(LikesAt(l)) /\ IsFiniteSet(liked)
  BY <1>1, LikesAssumption, FS_Subset
<1> QED BY <1>2, FS_CardinalityType

\* A request that moves from one label to another.
LEMMA Move ==
  ASSUME LikeTypeOK, NEW r \in LikeRequests, NEW from \in LikeLabels, NEW to \in LikeLabels,
         from # to, pc[r] = from, LikeGoto(r, to)
  PROVE  /\ Cardinality(LikesAt(from)') = Cardinality(LikesAt(from)) - 1
         /\ Cardinality(LikesAt(to)') = Cardinality(LikesAt(to)) + 1
         /\ \A l \in LikeLabels \ {from, to} : Cardinality(LikesAt(l)') = Cardinality(LikesAt(l))
<1>1. LikesAt(from)' = LikesAt(from) \ {r} /\ r \in LikesAt(from)
  BY DEF LikesAt, LikeTypeOK, LikeGoto
<1>2. LikesAt(to)' = LikesAt(to) \union {r} /\ r \notin LikesAt(to)
  BY DEF LikesAt, LikeTypeOK, LikeGoto
<1>3. \A l \in LikeLabels \ {from, to} : LikesAt(l)' = LikesAt(l)
  BY DEF LikesAt, LikeTypeOK, LikeGoto
<1>4. IsFiniteSet(LikesAt(from)) /\ IsFiniteSet(LikesAt(to))
  BY Finite
<1>5. Cardinality(LikesAt(from) \ {r}) = Cardinality(LikesAt(from)) - 1
  BY <1>1, <1>4, FS_RemoveElement
<1>6. Cardinality(LikesAt(to) \union {r}) = Cardinality(LikesAt(to)) + 1
  BY <1>2, <1>4, FS_AddElement
<1> QED BY <1>1, <1>2, <1>3, <1>5, <1>6

\* The terms of Due are natural numbers.
LEMMA DueTerms ==
  ASSUME LikeTypeOK
  PROVE  /\ Cardinality(liked) \in Nat
         /\ Cardinality(LikesAt("increment")) \in Nat
         /\ Cardinality(LikesAt("decrement")) \in Nat
         /\ likes \in Int
  BY Finite DEF LikeTypeOK

-----------------------------------------------------------------------------

LEMMA LikeInvInit == LikeInit => LikeIInv
<1> SUFFICES ASSUME LikeInit PROVE LikeIInv
  OBVIOUS
<1>1. LikeTypeOK BY LikeTypeInit
<1>2. LikesAt("increment") = {} /\ LikesAt("decrement") = {} /\ liked = {}
  BY DEF LikeInit, LikesAt
<1>3. Due = 0
  BY <1>2, FS_EmptySet DEF Due
<1> QED BY <1>1, <1>3 DEF LikeInit, LikeIInv, Orderly, Alone, Undisturbed, CounterMatchesRows, NeverOvercounted

\* How each action moves Due, in terms of the set of rows.
LEMMA LikeInvStep == LikeIInv /\ [LikeNext]_likeVars => LikeIInv'
<1> SUFFICES ASSUME LikeIInv, [LikeNext]_likeVars PROVE LikeIInv'
  OBVIOUS
<1>T. LikeTypeOK /\ LikeTypeOK'
  BY LikeTypeStep DEF LikeIInv
<1> DEFINE Rows == Cardinality(liked)
           Inc  == Cardinality(LikesAt("increment"))
           Dec  == Cardinality(LikesAt("decrement"))
<1>N. /\ Rows \in Nat /\ Inc \in Nat /\ Dec \in Nat /\ likes \in Int
      /\ Rows' \in Nat /\ Inc' \in Nat /\ Dec' \in Nat /\ likes' \in Int
  <2>1. Rows \in Nat /\ Inc \in Nat /\ Dec \in Nat /\ likes \in Int
    BY <1>T, DueTerms
  <2>2. Rows' \in Nat /\ Inc' \in Nat /\ Dec' \in Nat
    <3>1. LikesAt("increment")' \subseteq LikeRequests /\ LikesAt("decrement")' \subseteq LikeRequests
          /\ liked' \subseteq Users
      BY <1>T DEF LikesAt, LikeTypeOK
    <3>2. IsFiniteSet(LikesAt("increment")') /\ IsFiniteSet(LikesAt("decrement")') /\ IsFiniteSet(liked')
      BY <3>1, LikesAssumption, FS_Subset
    <3> QED BY <3>2, FS_CardinalityType
  <2>3. likes' \in Int
    BY <1>T DEF LikeTypeOK
  <2> QED BY <2>1, <2>2, <2>3
<1>D. Due = Rows - Inc + Dec /\ Due' = Rows' - Inc' + Dec'
  BY DEF Due
<1>C. /\ ~doubled /\ likeFaults = 0 /\ exists => likes = Rows - Inc + Dec
      /\ likeFaults = 0 /\ exists => likes <= Rows - Inc + Dec
  BY <1>D DEF LikeIInv, CounterMatchesRows, NeverOvercounted
<1>L. "idle" \in LikeLabels /\ "add" \in LikeLabels /\ "increment" \in LikeLabels
      /\ "remove" \in LikeLabels /\ "decrement" \in LikeLabels
  BY DEF LikeLabels
<1>G. ASSUME ~doubled' /\ likeFaults' = 0 /\ exists' => likes' = Rows' - Inc' + Dec',
             likeFaults' = 0 /\ exists' => likes' <= Rows' - Inc' + Dec',
             ~doubled' => Orderly'
      PROVE  LikeIInv'
  BY <1>T, <1>D, <1>G DEF LikeIInv, CounterMatchesRows, NeverOvercounted
<1> HIDE DEF Rows, Inc, Dec
<1>1. ASSUME NEW r \in LikeRequests, Toggle(r) PROVE LikeIInv'
  <2>1. PICK to \in {"remove", "add"} : LikeGoto(r, to)
    BY <1>1 DEF Toggle
  <2>2. Inc' = Inc /\ Dec' = Dec
    BY <1>1, <1>T, <1>L, <2>1, Move DEF Toggle, Inc, Dec
  <2>3. Rows' = Rows /\ likes' = likes /\ likeFaults' = likeFaults /\ exists' = exists
        /\ (doubled => doubled')
    BY <1>1 DEF Toggle, Rows
  <2>4. ~doubled' => Orderly'
    <3>1. SUFFICES ASSUME ~doubled' PROVE Orderly'
      OBVIOUS
    <3>2. ~doubled /\ \A s \in LikeRequests \ {r} : pc[s] # "idle" => Sender[s] # Sender[r]
      BY <1>1, <3>1 DEF Toggle
    <3>3. /\ pc' = [pc EXCEPT ![r] = IF Sender[r] \in liked THEN "remove" ELSE "add"]
          /\ pc[r] = "idle" /\ liked' = liked /\ exists' = exists
      BY <1>1 DEF Toggle, LikeGoto
    <3>4. Alone'
      BY <1>T, <3>2, <3>3 DEF LikeIInv, Orderly, Alone, LikeTypeOK
    <3>5. Undisturbed' \/ ~exists'
      BY <1>T, <3>2, <3>3 DEF LikeIInv, Orderly, Undisturbed, LikeTypeOK
    <3> QED BY <3>4, <3>5 DEF Orderly
  <2> QED BY <1>C, <1>G, <2>2, <2>3, <2>4
<1>2. ASSUME NEW r \in LikeRequests, AddUserLike(r) PROVE LikeIInv'
  <2>1. CASE exists /\ Sender[r] \notin liked
    <3>1. pc[r] = "add" /\ LikeGoto(r, "increment") /\ liked' = liked \union {Sender[r]}
          /\ doubled' = doubled
      BY <1>2, <2>1 DEF AddUserLike
    <3>2. Inc' = Inc + 1 /\ Dec' = Dec
      BY <1>T, <1>L, <3>1, Move DEF Inc, Dec
    <3>3. Rows' = Rows + 1
      BY <1>T, <2>1, <3>1, Finite, FS_AddElement DEF Rows
    <3>4. likes' = likes /\ likeFaults' = likeFaults /\ exists' = exists
      BY <1>2 DEF AddUserLike
    <3>5. ~doubled' => Orderly'
      BY <1>2, <1>T, <3>1, <3>4 DEF AddUserLike, LikeIInv, Orderly, Alone, Undisturbed, LikeGoto, LikeTypeOK
    <3> QED BY <1>C, <1>G, <1>N, <3>1, <3>2, <3>3, <3>4, <3>5
  <2>2. CASE ~(exists /\ Sender[r] \notin liked)
    <3>1. pc[r] = "add" /\ LikeGoto(r, "idle") /\ liked' = liked /\ doubled' = doubled
      BY <1>2, <2>2 DEF AddUserLike
    <3>2. Inc' = Inc /\ Dec' = Dec
      BY <1>T, <1>L, <3>1, Move DEF Inc, Dec
    <3>3. Rows' = Rows /\ likes' = likes /\ likeFaults' = likeFaults /\ exists' = exists
      BY <1>2, <3>1 DEF AddUserLike, Rows
    <3>4. ~doubled' => Orderly'
      BY <1>T, <3>1, <3>3 DEF LikeIInv, Orderly, Alone, Undisturbed, LikeGoto, LikeTypeOK
    <3> QED BY <1>C, <1>G, <3>1, <3>2, <3>3, <3>4
  <2> QED BY <2>1, <2>2
<1>3. ASSUME NEW r \in LikeRequests, IncrementLikes(r) PROVE LikeIInv'
  <2>1. pc[r] = "increment" /\ LikeGoto(r, "idle") /\ liked' = liked /\ likeFaults' = likeFaults
        /\ exists' = exists /\ doubled' = doubled /\ (exists => likes' = likes + 1)
    BY <1>3 DEF IncrementLikes
  <2>2. Inc' = Inc - 1 /\ Dec' = Dec
    BY <1>T, <1>L, <2>1, Move DEF Inc, Dec
  <2>3. Rows' = Rows
    BY <2>1 DEF Rows
  <2>4. ~doubled' => Orderly'
    BY <1>T, <2>1 DEF LikeIInv, Orderly, Alone, Undisturbed, LikeGoto, LikeTypeOK
  <2> QED BY <1>C, <1>G, <1>N, <2>1, <2>2, <2>3, <2>4
<1>4. ASSUME NEW r \in LikeRequests, RemoveUserLike(r) PROVE LikeIInv'
  <2>1. pc[r] = "remove" /\ LikeGoto(r, "decrement") /\ liked' = liked \ {Sender[r]}
        /\ likeFaults' = likeFaults /\ exists' = exists /\ likes' = likes /\ doubled' = doubled
    BY <1>4 DEF RemoveUserLike
  <2>2. Inc' = Inc /\ Dec' = Dec + 1
    BY <1>T, <1>L, <2>1, Move DEF Inc, Dec
  <2>3. Rows' = IF Sender[r] \in liked THEN Rows - 1 ELSE Rows
    <3>1. CASE Sender[r] \in liked
      BY <1>T, <2>1, <3>1, Finite, FS_RemoveElement DEF Rows
    <3>2. CASE Sender[r] \notin liked
      <4>1. liked' = liked
        BY <2>1, <3>2
      <4> QED BY <3>2, <4>1 DEF Rows
    <3> QED BY <3>1, <3>2
  <2>4. ~doubled /\ exists => Sender[r] \in liked
    BY <2>1 DEF LikeIInv, Orderly, Undisturbed
  <2>5. ~doubled' => Orderly'
    BY <1>T, <2>1 DEF LikeIInv, Orderly, Alone, Undisturbed, LikeGoto, LikeTypeOK
  <2> QED BY <1>C, <1>G, <1>N, <2>1, <2>2, <2>3, <2>4, <2>5
<1>5. ASSUME NEW r \in LikeRequests, DecrementLikes(r) PROVE LikeIInv'
  <2>1. pc[r] = "decrement" /\ LikeGoto(r, "idle") /\ liked' = liked /\ likeFaults' = likeFaults
        /\ exists' = exists /\ doubled' = doubled /\ (exists => likes' = likes - 1)
    BY <1>5 DEF DecrementLikes
  <2>2. Inc' = Inc /\ Dec' = Dec - 1
    BY <1>T, <1>L, <2>1, Move DEF Inc, Dec
  <2>3. Rows' = Rows
    BY <2>1 DEF Rows
  <2>4. ~doubled' => Orderly'
    BY <1>T, <2>1 DEF LikeIInv, Orderly, Alone, Undisturbed, LikeGoto, LikeTypeOK
  <2> QED BY <1>C, <1>G, <1>N, <2>1, <2>2, <2>3, <2>4
<1>6. ASSUME NEW r \in LikeRequests, LikeAbort(r) PROVE LikeIInv'
  <2>1. likeFaults' # 0
    BY <1>6, <1>T, LikesAssumption DEF LikeAbort, LikeTypeOK
  <2>2. ~doubled' => Orderly'
    BY <1>6, <1>T DEF LikeAbort, LikeIInv, Orderly, Alone, Undisturbed, LikeGoto, LikeTypeOK
  <2> QED BY <1>G, <2>1, <2>2
<1>7. CASE RemoveEntity
  <2>1. ~exists' /\ pc' = pc /\ doubled' = doubled
    BY <1>7 DEF RemoveEntity
  <2>2. ~doubled' => Orderly'
    BY <2>1 DEF LikeIInv, Orderly, Alone
  <2> QED BY <1>G, <2>1, <2>2
<1>8. CASE UNCHANGED likeVars
  <2>1. Rows' = Rows /\ Inc' = Inc /\ Dec' = Dec
    BY <1>8 DEF likeVars, Rows, Inc, Dec, LikesAt
  <2>2. likes' = likes /\ likeFaults' = likeFaults /\ exists' = exists /\ liked' = liked /\ pc' = pc
        /\ doubled' = doubled
    BY <1>8 DEF likeVars
  <2>3. ~doubled' => Orderly'
    BY <1>8, <2>2 DEF likeVars, LikeIInv, Orderly, Alone, Undisturbed
  <2> QED BY <1>C, <1>G, <2>1, <2>2, <2>3
<1> QED BY <1>1, <1>2, <1>3, <1>4, <1>5, <1>6, <1>7, <1>8 DEF LikeNext

\* With one toggle per user in flight and none cut short, the counter equals
\* the number of rows but for the toggles between their two writes.
THEOREM CounterMatchesRowsHolds == LikeSpec => []CounterMatchesRows
<1>1. LikeInit => LikeIInv BY LikeInvInit
<1>2. LikeIInv /\ [LikeNext]_likeVars => LikeIInv' BY LikeInvStep
<1>3. LikeIInv => CounterMatchesRows BY DEF LikeIInv
<1> QED BY <1>1, <1>2, <1>3, PTL DEF LikeSpec

\* Without likeFaults the counter never shows more likes than there are, whatever
\* toggles of a user overlap.
THEOREM NeverOvercountedHolds == LikeSpec => []NeverOvercounted
<1>1. LikeInit => LikeIInv BY LikeInvInit
<1>2. LikeIInv /\ [LikeNext]_likeVars => LikeIInv' BY LikeInvStep
<1>3. LikeIInv => NeverOvercounted BY DEF LikeIInv
<1> QED BY <1>1, <1>2, <1>3, PTL DEF LikeSpec

-----------------------------------------------------------------------------
(*****************************************************************************)
(* Clubs.  First what every request holds; then the departments of a public  *)
(* club, the tally of joins, and approval mails while no two approvals meet. *)
(*****************************************************************************)

\* What a request holds at each of its awaits.
ClubReqFits ==
  \A r \in ClubRequests : LET q == clubReq[r] IN
    /\ q.at = "row" => q.to \in Targetings \union {"none"}
    /\ q.at = "status" => q.read \in Statuses \union {"none"} /\ q.to \in Statuses
    /\ q.at = "mail" => q.read = "pending" /\ q.to = "live"
    /\ q.at = "join" => \E u \in Joiners : q.who = {u}

\* Nothing is under way before the club is created.
ClubUnborn ==
  club = "unborn" => approvals = 0 /\ \A r \in ClubRequests : clubReq[r].at = "idle"

\* An approval: a request that will mail, or is about to.
Approves(r) ==
  /\ clubReq[r].at \in {"status", "mail"}
  /\ clubReq[r].to = "live" /\ clubReq[r].read = "pending"

\* Unless approvals overlapped, no mail went out since the club was pending before an
\* approval that is under way, and a club whose approval is written is not pending.
MailsAlone ==
  ~together =>
    /\ club = "pending" => approvals = 0
    /\ \A r \in ClubRequests : Approves(r) =>
         /\ approvals = 0 /\ Approving(r) = {}
         /\ clubReq[r].at = "mail" => club # "pending"

ClubBase == ClubTypeOK /\ ClubReqFits /\ ClubUnborn

LEMMA ClubBaseInit == ClubInit => ClubBase
<1> SUFFICES ASSUME ClubInit PROVE ClubBase
  OBVIOUS
<1>1. extra \in Int /\ together \in BOOLEAN /\ kept \in SUBSET Targets
  <2>1. together \in BOOLEAN
    BY DEF ClubInit
  <2>2. extra \in Int /\ kept \in SUBSET Targets
    BY DEF ClubInit
  <2> QED BY <2>1, <2>2
<1>2. ClubIdle \in ClubRequest /\ ClubIdle.at = "idle"
  BY DEF ClubIdle, ClubRequest
<1> QED BY <1>1, <1>2, ClubsAssumption DEF ClubInit, ClubBase, ClubTypeOK, ClubReqFits, ClubUnborn, Statuses, Targetings

LEMMA ClubBaseStep == ClubBase /\ [ClubNext]_clubVars => ClubBase'
<1> SUFFICES ASSUME ClubBase, [ClubNext]_clubVars PROVE ClubBase'
  OBVIOUS
<1> USE ClubsAssumption DEF ClubBase, ClubTypeOK, ClubReqFits, ClubUnborn, ClubRequest, ClubIdle, ClubBegin, ClubEnd,
        ClubThere, Statuses, Targetings, rowVars, joinVars, mailVars
<1>1. ASSUME NEW r \in ClubRequests, NEW s \in Statuses, NEW t \in Targetings,
             NEW ids \in SUBSET Targets, CreateClub(r, s, t, ids)
      PROVE  ClubBase'
  <2>1. /\ club = "unborn" /\ s \in {"pending", "live"} /\ club' = s /\ targeting' = t
        /\ UNCHANGED <<target, flag, kept, clubFaults, joined, joinCount, extra, approvals, together>>
    BY <1>1 DEF CreateClub
  <2>2. CASE t # "public" /\ ids # {}
    <3> DEFINE q == [ClubIdle EXCEPT !.at = "targets", !.to = t, !.ids = ids]
    <3>1. clubReq' = [clubReq EXCEPT ![r] = q]
      BY <1>1, <2>2 DEF CreateClub
    <3>2. q \in ClubRequest
      OBVIOUS
    <3>3. clubReq' \in [ClubRequests -> ClubRequest]
      BY <3>1, <3>2
    <3>4. ClubTypeOK'
      BY <2>1, <3>3
    <3>5. ClubReqFits'
      BY <3>1
    <3> QED BY <2>1, <3>4, <3>5
  <2>3. CASE ~(t # "public" /\ ids # {})
    <3>1. UNCHANGED clubReq
      BY <1>1, <2>3 DEF CreateClub
    <3> QED BY <2>1, <3>1
  <2> QED BY <2>2, <2>3
<1>2. ASSUME NEW r \in ClubRequests, NEW t \in Targetings \union {"none"}, BeginClubUpdate(r, t)
      PROVE  ClubBase'
  BY <1>2 DEF BeginClubUpdate
<1>3. ASSUME NEW r \in ClubRequests, NEW s \in SUBSET SentStatuses, NEW n \in SUBSET SentCounts,
             NEW listed \in BOOLEAN, NEW ids \in SUBSET Targets, UpdateClubRow(r, s, n, listed, ids)
      PROVE  ClubBase'
  <2> DEFINE q == [clubReq[r] EXCEPT !.at = "targets", !.ids = ids]
  <2>1. clubReq[r] \in ClubRequest /\ q \in ClubRequest /\ ClubIdle \in ClubRequest /\ club # "unborn"
    <3>1. clubReq[r] \in ClubRequest /\ clubReq[r].at = "row"
      BY <1>3 DEF UpdateClubRow
    <3>2. club # "unborn"
      BY <3>1
    <3>3. ClubIdle \in ClubRequest
      OBVIOUS
    <3>4. q \in ClubRequest
      BY <3>1
    <3> QED BY <3>1, <3>2, <3>3, <3>4
  <2>2. clubReq' = [clubReq EXCEPT ![r] = q] \/ clubReq' = [clubReq EXCEPT ![r] = ClubIdle]
    BY <1>3 DEF UpdateClubRow
  <2>3. targeting' \in Targetings /\ kept' \in SUBSET Targets /\ UNCHANGED <<target, flag, clubFaults>>
    <3>1. targeting' \in Targetings /\ UNCHANGED <<target, flag, clubFaults>>
      BY <1>3 DEF UpdateClubRow
    <3>2. target \in SUBSET Targets /\ kept \in SUBSET Targets
      OBVIOUS
    <3>3. kept' = target \/ kept' = kept
      BY <1>3 DEF UpdateClubRow
    <3> QED BY <3>1, <3>2, <3>3
  <2>4. /\ club' = club \/ (ClubThere /\ club' \in Statuses)
        /\ approvals' \in 0 .. MaxApprovals /\ together' \in BOOLEAN
    <3>1. CASE s = {}
      <4>1. UNCHANGED <<club, approvals, together>>
        BY <1>3, <3>1 DEF UpdateClubRow
      <4> QED BY <4>1
    <3>2. CASE s # {}
      <4>1. PICK status \in s : WriteStatus(r, status)
        BY <1>3, <3>2 DEF UpdateClubRow
      <4>2. status \in Statuses
        OBVIOUS
      <4>3. club' = IF ClubThere THEN status ELSE club
        BY <4>1 DEF WriteStatus
      <4>4. approvals' \in 0 .. MaxApprovals
        BY <4>1 DEF WriteStatus
      <4>5. together' \in BOOLEAN
        BY <4>1 DEF WriteStatus
      <4> QED BY <4>2, <4>3, <4>4, <4>5
    <3> QED BY <3>1, <3>2
  <2>5. joined' = joined /\ joinCount' \in 0 .. MaxJoins /\ extra' \in Int
    <3>1. CASE n = {} \/ ~ClubThere
      BY <1>3, <3>1 DEF UpdateClubRow
    <3>2. CASE ~(n = {} \/ ~ClubThere)
      <4>1. joined' = joined /\ joinCount' \in n /\ extra' = joinCount' - Cardinality(joined)
        BY <1>3, <3>2 DEF UpdateClubRow
      <4>2. IsFiniteSet(joined)
        BY FS_Subset
      <4>3. Cardinality(joined) \in Nat
        BY <4>2, FS_CardinalityType
      <4> QED BY <4>1, <4>3
    <3> QED BY <3>1, <3>2
  <2>6. ClubThere' <=> ClubThere
    BY <2>4
  <2>7. clubReq' \in [ClubRequests -> ClubRequest]
    <3>1. clubReq \in [ClubRequests -> ClubRequest]
      OBVIOUS
    <3> HIDE DEF ClubRequest, ClubIdle, ClubReqFits, ClubTypeOK, q
    <3> QED BY <2>1, <2>2, <3>1
  <2>8. ClubTypeOK'
    <3>1. ClubTypeOK /\ club' \in Statuses \union {"unborn", "gone"}
      BY <2>4
    <3> HIDE DEF ClubThere, ClubRequest, q, ClubReqFits, ClubUnborn
    <3> QED BY <2>3, <2>4, <2>5, <2>6, <2>7, <3>1
  <2>9. clubReq'[r].at \in {"targets", "idle"} /\ \A p \in ClubRequests \ {r} : clubReq'[p] = clubReq[p]
    BY <2>1, <2>2
  <2>10. ClubReqFits'
    BY <2>9
  <2>11. ClubUnborn'
    BY <2>1, <2>4
  <2> QED BY <2>8, <2>10, <2>11
<1>4. ASSUME NEW r \in ClubRequests, SetTargetDepartments(r) PROVE ClubBase'
  BY <1>4 DEF SetTargetDepartments
<1>5. ASSUME NEW r \in ClubRequests, NEW u \in Joiners, TrackJoin(r, u) PROVE ClubBase'
  BY <1>5 DEF TrackJoin
<1>6. ASSUME NEW r \in ClubRequests, CreateJoin(r) PROVE ClubBase'
  <2>1. clubReq' = [clubReq EXCEPT ![r] = ClubIdle] /\ UNCHANGED <<rowVars, flag, clubFaults, mailVars>>
    BY <1>6 DEF CreateJoin
  <2>2. joined' \in SUBSET (IF ClubThere THEN Joiners ELSE {}) /\ joinCount' \in 0 .. MaxJoins
    BY <1>6 DEF CreateJoin
  <2>3. extra' \in Int
    BY <1>6 DEF CreateJoin
  <2> QED BY <1>6, <2>1, <2>2, <2>3 DEF CreateJoin
<1>7. ASSUME NEW r \in ClubRequests, NEW s \in Statuses, BeginUpdateStatus(r, s)
      PROVE  ClubBase'
  BY <1>7 DEF BeginUpdateStatus
<1>8. ASSUME NEW r \in ClubRequests, UpdateStatus(r) PROVE ClubBase'
  BY <1>8 DEF UpdateStatus, WriteStatus
<1>9. ASSUME NEW r \in ClubRequests, SendApproval(r) PROVE ClubBase'
  BY <1>9 DEF SendApproval
<1>10. ASSUME NEW r \in ClubRequests, NEW hide \in BOOLEAN, ResolveFlag(r, hide)
      PROVE  ClubBase'
  BY <1>10 DEF ResolveFlag
<1>11. ASSUME NEW r \in ClubRequests, HideClub(r) PROVE ClubBase'
  BY <1>11 DEF HideClub
<1>12. ASSUME NEW r \in ClubRequests, ClubAbort(r) PROVE ClubBase'
  BY <1>12 DEF ClubAbort
<1>13. CASE FlagClub
  BY <1>13 DEF FlagClub
<1>14. CASE RemoveClub
  BY <1>14 DEF RemoveClub
<1>15. CASE UNCHANGED clubVars
  BY <1>15 DEF clubVars
<1> HIDE DEF ClubBase, ClubTypeOK, ClubReqFits, ClubUnborn, ClubRequest, ClubIdle, ClubBegin, ClubEnd, ClubThere,
        Statuses, Targetings, rowVars, joinVars, mailVars
<1> QED BY <1>1, <1>2, <1>3, <1>4, <1>5, <1>6, <1>7, <1>8, <1>9, <1>10, <1>11, <1>12, <1>13, <1>14, <1>15 DEF ClubNext

\* Every reachable state of a club is well typed.
THEOREM ClubTypeCorrect == ClubSpec => []ClubTypeOK
<1>1. ClubBase => ClubTypeOK
  BY DEF ClubBase
<1> QED BY <1>1, ClubBaseInit, ClubBaseStep, PTL DEF ClubSpec

-----------------------------------------------------------------------------
(* The target departments *)

\* A step that moves neither the rows nor the row's targeting, and ends no request that
\* is about to clear them.
LEMMA TargetsAside ==
  ASSUME PublicHasNoTargets, UNCHANGED <<targeting, target>>, kept \subseteq kept',
         \A r \in ClubRequests : clubReq[r].at = "targets" => clubReq'[r] = clubReq[r]
  PROVE  PublicHasNoTargets'
  BY DEF PublicHasNoTargets

LEMMA TargetsStep == ClubBase /\ PublicHasNoTargets /\ [ClubNext]_clubVars => PublicHasNoTargets'
<1> SUFFICES ASSUME ClubBase, PublicHasNoTargets, [ClubNext]_clubVars PROVE PublicHasNoTargets'
  OBVIOUS
<1>C. ASSUME NEW r \in ClubRequests, NEW c, clubReq' = [clubReq EXCEPT ![r] = c]
      PROVE  clubReq'[r] = c /\ \A s \in ClubRequests \ {r} : clubReq'[s] = clubReq[s]
  BY <1>C DEF ClubBase, ClubTypeOK
<1>D. ASSUME NEW r \in ClubRequests, NEW c, clubReq' = [clubReq EXCEPT ![r] = c],
             clubReq[r].at # "targets", UNCHANGED <<targeting, target, kept>>
      PROVE  PublicHasNoTargets'
  BY <1>C, <1>D, TargetsAside
<1>E. UNCHANGED <<targeting, target, kept, clubReq>> => PublicHasNoTargets'
  BY TargetsAside
<1> USE DEF ClubBegin, ClubEnd, rowVars, joinVars, mailVars
<1>1. ASSUME NEW r \in ClubRequests, NEW s \in Statuses, NEW t \in Targetings,
             NEW ids \in SUBSET Targets, CreateClub(r, s, t, ids)
      PROVE  PublicHasNoTargets'
  <2>1. target' = {}
    <3>1. target = {}
      BY <1>1 DEF CreateClub, ClubBase, ClubTypeOK, ClubThere, Statuses
    <3> QED BY <1>1, <3>1 DEF CreateClub
  <2> QED BY <2>1 DEF PublicHasNoTargets
<1>2. ASSUME NEW r \in ClubRequests, NEW t \in Targetings \union {"none"}, BeginClubUpdate(r, t)
      PROVE  PublicHasNoTargets'
  <2> DEFINE c == [ClubIdle EXCEPT !.at = "row", !.read = IF t = "none" THEN targeting ELSE "none", !.to = t]
  <2>1. clubReq' = [clubReq EXCEPT ![r] = c] /\ clubReq[r] = ClubIdle /\ UNCHANGED <<targeting, target, kept>>
    BY <1>2 DEF BeginClubUpdate
  <2>2. clubReq[r].at # "targets"
    BY <2>1 DEF ClubIdle
  <2> HIDE DEF c
  <2> QED BY <1>D, <2>1, <2>2
<1>3. ASSUME NEW r \in ClubRequests, NEW s \in SUBSET SentStatuses, NEW n \in SUBSET SentCounts,
             NEW listed \in BOOLEAN, NEW ids \in SUBSET Targets, UpdateClubRow(r, s, n, listed, ids)
      PROVE  PublicHasNoTargets'
  <2> DEFINE q == clubReq[r]
             c == [q EXCEPT !.at = "targets", !.ids = ids]
  <2>1. /\ q.at = "row" /\ UNCHANGED target
        /\ targeting' = IF q.to # "none" /\ ClubThere THEN q.to ELSE targeting
        /\ kept' = IF ~listed /\ q.to = "public" THEN target ELSE kept
        /\ clubReq'[r] = IF listed /\ ClubThere THEN c ELSE ClubIdle
        /\ \A p \in ClubRequests \ {r} : clubReq'[p] = clubReq[p]
    BY <1>C, <1>3 DEF UpdateClubRow
  <2>2. c.at = "targets" /\ c.to = q.to
    BY DEF ClubBase, ClubTypeOK, ClubRequest
  <2>3. \A p \in ClubRequests : clubReq[p].at = "targets" => clubReq'[p] = clubReq[p]
    BY <2>1
  <2>4. CASE ~ClubThere
    BY <2>1, <2>4 DEF ClubBase, ClubTypeOK, PublicHasNoTargets
  <2>5. CASE ClubThere /\ q.to = "public"
    <3>1. CASE listed
      BY <2>1, <2>2, <2>5, <3>1 DEF PublicHasNoTargets
    <3>2. CASE ~listed
      BY <2>1, <2>5, <3>2 DEF PublicHasNoTargets
    <3> QED BY <3>1, <3>2
  <2>6. CASE ClubThere /\ q.to # "public"
    <3>1. CASE q.to = "none"
      BY <2>1, <2>3, <3>1, TargetsAside
    <3>2. CASE q.to # "none"
      BY <2>1, <2>6, <3>2 DEF PublicHasNoTargets
    <3> QED BY <3>1, <3>2
  <2> QED BY <2>4, <2>5, <2>6
<1>4. ASSUME NEW r \in ClubRequests, SetTargetDepartments(r) PROVE PublicHasNoTargets'
  <2>1. /\ target' = IF MeantTargeting(r) = "public" \/ ~ClubThere THEN {} ELSE clubReq[r].ids
        /\ kept' = IF ClubThere /\ MeantTargeting(r) # targeting THEN target' ELSE {}
        /\ UNCHANGED targeting
    BY <1>4 DEF SetTargetDepartments
  <2> QED BY <2>1 DEF PublicHasNoTargets
<1>5. ASSUME NEW r \in ClubRequests, NEW u \in Joiners, TrackJoin(r, u) PROVE PublicHasNoTargets'
  <2> DEFINE c == [ClubIdle EXCEPT !.at = "join", !.who = {u}]
  <2>1. clubReq' = [clubReq EXCEPT ![r] = c] /\ clubReq[r] = ClubIdle /\ UNCHANGED <<targeting, target, kept>>
    BY <1>5 DEF TrackJoin
  <2>2. clubReq[r].at # "targets"
    BY <2>1 DEF ClubIdle
  <2> HIDE DEF c
  <2> QED BY <1>D, <2>1, <2>2
<1>6. ASSUME NEW r \in ClubRequests, CreateJoin(r) PROVE PublicHasNoTargets'
  BY <1>D, <1>6 DEF CreateJoin
<1>7. ASSUME NEW r \in ClubRequests, NEW s \in Statuses, BeginUpdateStatus(r, s)
      PROVE  PublicHasNoTargets'
  <2> DEFINE c == [ClubIdle EXCEPT !.at = "status", !.read = IF s = "live" THEN club ELSE "none", !.to = s]
  <2>1. clubReq' = [clubReq EXCEPT ![r] = c] /\ clubReq[r] = ClubIdle /\ UNCHANGED <<targeting, target, kept>>
    BY <1>7 DEF BeginUpdateStatus
  <2>2. clubReq[r].at # "targets"
    BY <2>1 DEF ClubIdle
  <2> HIDE DEF c
  <2> QED BY <1>D, <2>1, <2>2
<1>8. ASSUME NEW r \in ClubRequests, UpdateStatus(r) PROVE PublicHasNoTargets'
  BY <1>D, <1>8 DEF UpdateStatus
<1>9. ASSUME NEW r \in ClubRequests, SendApproval(r) PROVE PublicHasNoTargets'
  BY <1>D, <1>9 DEF SendApproval
<1>10. ASSUME NEW r \in ClubRequests, NEW hide \in BOOLEAN, ResolveFlag(r, hide)
      PROVE  PublicHasNoTargets'
  BY <1>D, <1>E, <1>10 DEF ResolveFlag, ClubIdle
<1>11. ASSUME NEW r \in ClubRequests, HideClub(r) PROVE PublicHasNoTargets'
  BY <1>D, <1>11 DEF HideClub
<1>12. ASSUME NEW r \in ClubRequests, ClubAbort(r) PROVE PublicHasNoTargets'
  <2>1. CASE clubReq[r].at = "targets"
    BY <1>12, <2>1 DEF ClubAbort, PublicHasNoTargets
  <2>2. CASE clubReq[r].at # "targets"
    BY <1>D, <1>12, <2>2 DEF ClubAbort
  <2> QED BY <2>1, <2>2
<1>13. CASE FlagClub
  BY <1>E, <1>13 DEF FlagClub
<1>14. CASE RemoveClub
  BY <1>14 DEF RemoveClub, PublicHasNoTargets
<1>15. CASE UNCHANGED clubVars
  BY <1>E, <1>15 DEF clubVars
<1> QED BY <1>1, <1>2, <1>3, <1>4, <1>5, <1>6, <1>7, <1>8, <1>9, <1>10, <1>11, <1>12, <1>13, <1>14, <1>15 DEF ClubNext

\* A public club has no target departments, once no update that made it public is about
\* to clear them, but those an update left: one that listed no departments, that was cut
\* short before it cleared them, or that wrote its own for another targeting.
THEOREM PublicHasNoTargetsHolds == ClubSpec => []PublicHasNoTargets
<1> DEFINE Inv == ClubBase /\ PublicHasNoTargets
<1>1. ClubInit => Inv
  BY ClubBaseInit DEF ClubInit, PublicHasNoTargets
<1>2. Inv /\ [ClubNext]_clubVars => Inv'
  BY ClubBaseStep, TargetsStep
<1>3. Inv => PublicHasNoTargets
  OBVIOUS
<1> QED BY <1>1, <1>2, <1>3, PTL DEF ClubSpec

-----------------------------------------------------------------------------
(* The joins *)

JoinsTally == joinCount = Cardinality(joined) + extra

LEMMA JoinsStep == ClubBase /\ JoinsTally /\ [ClubNext]_clubVars => JoinsTally'
<1> SUFFICES ASSUME ClubBase, JoinsTally, [ClubNext]_clubVars PROVE JoinsTally'
  OBVIOUS
<1>1. IsFiniteSet(joined) /\ Cardinality(joined) \in Nat /\ joinCount \in Nat /\ extra \in Int
  <2>1. joined \subseteq Joiners /\ joinCount \in Nat /\ extra \in Int
    BY ClubsAssumption DEF ClubBase, ClubTypeOK
  <2> QED BY <2>1, ClubsAssumption, FS_Subset, FS_CardinalityType
<1>2. ASSUME NEW r \in ClubRequests, CreateJoin(r), ClubThere PROVE JoinsTally'
  <2>1. PICK u \in Joiners : clubReq[r].who = {u}
    BY <1>2 DEF CreateJoin, ClubBase, ClubReqFits
  <2>2. /\ joined' = joined \union {u} /\ joinCount' = joinCount + 1
        /\ extra' = IF u \in joined THEN extra + 1 ELSE extra
    <3>1. clubReq[r].who \subseteq joined <=> u \in joined
      BY <2>1
    <3> QED BY <1>2, <2>1, <3>1 DEF CreateJoin
  <2>3. CASE u \in joined
    <3>1. Cardinality(joined') = Cardinality(joined)
      BY <2>2, <2>3
    <3>2. joinCount' = joinCount + 1 /\ extra' = extra + 1
      BY <2>2, <2>3
    <3> QED BY <1>1, <3>1, <3>2 DEF JoinsTally
  <2>4. CASE u \notin joined
    <3>1. Cardinality(joined') = Cardinality(joined) + 1
      BY <1>1, <2>2, <2>4, FS_AddElement
    <3>2. joinCount' = joinCount + 1 /\ extra' = extra
      BY <2>2, <2>4
    <3> QED BY <1>1, <3>1, <3>2 DEF JoinsTally
  <2> QED BY <2>3, <2>4
<1>3. ASSUME NEW r \in ClubRequests, NEW s \in SUBSET SentStatuses, NEW n \in SUBSET SentCounts,
             NEW listed \in BOOLEAN, NEW ids \in SUBSET Targets, UpdateClubRow(r, s, n, listed, ids)
      PROVE  JoinsTally'
  <2>1. CASE n = {} \/ ~ClubThere
    BY <1>3, <2>1 DEF UpdateClubRow, joinVars, JoinsTally
  <2>2. CASE ~(n = {} \/ ~ClubThere)
    <3>1. joined' = joined /\ joinCount' \in n /\ extra' = joinCount' - Cardinality(joined)
      BY <1>3, <2>2 DEF UpdateClubRow
    <3>2. joinCount' \in Nat
      BY <3>1, ClubsAssumption
    <3> QED BY <1>1, <3>1, <3>2 DEF JoinsTally
  <2> QED BY <2>1, <2>2
<1>4. CASE RemoveClub
  <2>1. joined' = {} /\ joinCount' = 0 /\ extra' = 0
    BY <1>4 DEF RemoveClub
  <2> QED BY <2>1, FS_EmptySet DEF JoinsTally
<1>5. CASE UNCHANGED joinVars
  BY <1>5 DEF joinVars, JoinsTally
<1>6. ASSUME NEW r \in ClubRequests,
             \/ \E st \in Statuses, t \in Targetings, ids \in SUBSET Targets : CreateClub(r, st, t, ids)
             \/ \E t \in Targetings \union {"none"} : BeginClubUpdate(r, t)
             \/ SetTargetDepartments(r)
             \/ \E u \in Joiners : TrackJoin(r, u)
      PROVE  UNCHANGED joinVars
  BY <1>6 DEF CreateClub, BeginClubUpdate, SetTargetDepartments, TrackJoin, joinVars
<1>7. ASSUME NEW r \in ClubRequests,
             \/ CreateJoin(r) /\ ~ClubThere
             \/ \E st \in Statuses : BeginUpdateStatus(r, st)
             \/ UpdateStatus(r)
             \/ SendApproval(r)
             \/ \E hide \in BOOLEAN : ResolveFlag(r, hide)
             \/ HideClub(r)
             \/ ClubAbort(r)
      PROVE  UNCHANGED joinVars
  BY <1>7 DEF CreateJoin, BeginUpdateStatus, UpdateStatus, SendApproval, ResolveFlag, HideClub, ClubAbort,
              joinVars
<1>8. FlagClub \/ UNCHANGED clubVars => UNCHANGED joinVars
  BY DEF FlagClub, clubVars, joinVars
<1> QED BY <1>2, <1>3, <1>4, <1>5, <1>6, <1>7, <1>8 DEF ClubNext

\* The join counter exceeds the users who joined by the joins that were repeated, but
\* for what an update sent as the counter.
THEOREM JoinsAreCountedHolds == ClubSpec => []JoinsAreCounted
<1> DEFINE Inv == ClubBase /\ JoinsTally
<1>1. ClubInit => Inv
  <2>1. ClubInit => JoinsTally
    BY FS_EmptySet DEF ClubInit, JoinsTally
  <2> QED BY <2>1, ClubBaseInit
<1>2. Inv /\ [ClubNext]_clubVars => Inv'
  BY ClubBaseStep, JoinsStep
<1>3. Inv => JoinsAreCounted
  BY DEF JoinsTally, JoinsAreCounted
<1> QED BY <1>1, <1>2, <1>3, PTL DEF ClubSpec

-----------------------------------------------------------------------------
(* The approval mail *)

\* A step that sends no mail and moves no approval.
LEMMA MailsAside ==
  ASSUME MailsAlone, OneApprovalMail, UNCHANGED mailVars, club' = club \/ club' # "pending",
         \A r \in ClubRequests :
           Approves(r)' => /\ Approves(r) /\ clubReq'[r].at = clubReq[r].at
                           /\ clubReq'[r].at = "mail" => club' # "pending"
  PROVE  MailsAlone' /\ OneApprovalMail'
<1>1. \A r \in ClubRequests : Approving(r)' \subseteq Approving(r)
  BY DEF Approving, Approves
<1> QED BY <1>1 DEF MailsAlone, OneApprovalMail, mailVars

LEMMA MailsStep ==
  ClubBase /\ MailsAlone /\ OneApprovalMail /\ [ClubNext]_clubVars => MailsAlone' /\ OneApprovalMail'
<1> DEFINE Good == MailsAlone /\ OneApprovalMail
<1> SUFFICES ASSUME ClubBase, MailsAlone, OneApprovalMail, [ClubNext]_clubVars PROVE Good'
  OBVIOUS
<1>B. ClubBase'
  BY ClubBaseStep
<1>C. ASSUME NEW r \in ClubRequests, NEW c, clubReq' = [clubReq EXCEPT ![r] = c]
      PROVE  clubReq'[r] = c /\ \A s \in ClubRequests \ {r} : clubReq'[s] = clubReq[s]
  BY <1>C DEF ClubBase, ClubTypeOK
<1>D. ASSUME UNCHANGED mailVars, club' = club \/ club' # "pending",
             \A p \in ClubRequests : clubReq'[p] = clubReq[p] \/ clubReq'[p].at \notin {"status", "mail"}
      PROVE  Good'
  <2>1. \A p \in ClubRequests : Approves(p)' => Approves(p) /\ clubReq'[p].at = clubReq[p].at
    BY <1>D DEF Approves
  <2>2. \A p \in ClubRequests : Approves(p)' /\ clubReq'[p].at = "mail" /\ ~together => club' # "pending"
    BY <1>D, <2>1 DEF MailsAlone
  <2>3. CASE together
    BY <1>D, <2>3 DEF Good, MailsAlone, OneApprovalMail, mailVars
  <2>4. CASE ~together
    BY <1>D, <2>1, <2>2, <2>4, MailsAside DEF Good
  <2> QED BY <2>3, <2>4
<1>I. /\ ClubIdle.at = "idle"
      /\ \A t, ids : [ClubIdle EXCEPT !.at = "targets", !.to = t, !.ids = ids].at = "targets"
      /\ \A s, t : LET c == [ClubIdle EXCEPT !.at = "status", !.read = s, !.to = t]
                   IN  c.at = "status" /\ c.read = s /\ c.to = t
  BY DEF ClubIdle
<1> HIDE DEF Good
<1> USE DEF ClubBegin, ClubEnd, rowVars, joinVars
<1>1. ASSUME NEW r \in ClubRequests, NEW s \in Statuses, NEW t \in Targetings,
             NEW ids \in SUBSET Targets, CreateClub(r, s, t, ids)
      PROVE  Good'
  <2>1. approvals = 0 /\ UNCHANGED mailVars /\ \A p \in ClubRequests : clubReq[p].at = "idle"
    BY <1>1 DEF CreateClub, ClubBase, ClubUnborn
  <2>2. \A p \in ClubRequests \ {r} : clubReq'[p].at = "idle"
    BY <1>C, <1>1, <2>1 DEF CreateClub
  <2>3. clubReq'[r].at \in {"idle", "targets"}
    <3>1. \/ clubReq' = clubReq
          \/ clubReq'[r] = [ClubIdle EXCEPT !.at = "targets", !.to = t, !.ids = ids]
      BY <1>C, <1>1 DEF CreateClub
    <3>2. [ClubIdle EXCEPT !.at = "targets", !.to = t, !.ids = ids].at = "targets"
      BY DEF ClubIdle
    <3> QED BY <2>1, <3>1, <3>2
  <2> QED BY <2>1, <2>2, <2>3 DEF Good, MailsAlone, OneApprovalMail, Approves, mailVars
<1>2. ASSUME NEW r \in ClubRequests, NEW t \in Targetings \union {"none"}, BeginClubUpdate(r, t)
      PROVE  Good'
  <2>1. \A p \in ClubRequests : clubReq'[p] = clubReq[p] \/ clubReq'[p].at \notin {"status", "mail"}
    BY <1>C, <1>2 DEF BeginClubUpdate, ClubIdle, ClubBase, ClubTypeOK
  <2>2. UNCHANGED mailVars /\ (club' = club \/ club' # "pending")
    BY <1>2 DEF BeginClubUpdate
  <2> QED BY <1>D, <2>1, <2>2
<1>W. ASSUME NEW r \in ClubRequests, NEW status \in Statuses, WriteStatus(r, status),
             \A p \in ClubRequests \ {r} : clubReq'[p] = clubReq[p],
             Approves(r)' => Approves(r), Approves(r) => status = "live"
      PROVE  Good'
  <2>1. /\ club' = IF ClubThere THEN status ELSE club
        /\ approvals' = IF status = "pending" THEN 0 ELSE approvals
        /\ together' = (together \/ (status = "pending" /\ Approving(r) # {}))
    BY <1>W DEF WriteStatus
  <2>2. \A p \in ClubRequests \ {r} : Approves(p)' = Approves(p) /\ clubReq'[p].at = clubReq[p].at
    BY <1>W DEF Approves
  <2>3. \A p \in ClubRequests : Approving(p)' \subseteq Approving(p)
    BY <1>W, <2>2 DEF Approving, Approves
  <2>4. \A p \in ClubRequests \ {r} : Approves(p) => p \in Approving(r)
    BY DEF Approving, Approves
  <2>5. approvals \in Nat /\ (Approves(r) => club' # "pending")
    BY <1>W, <2>1, ClubsAssumption DEF ClubBase, ClubTypeOK, ClubThere, Statuses
  <2>6. CASE status = "pending"
    <3>1. approvals' = 0 /\ (~together' => ~together /\ \A p \in ClubRequests : ~Approves(p)')
      BY <1>W, <2>1, <2>2, <2>4, <2>6
    <3> QED BY <3>1 DEF Good, MailsAlone, OneApprovalMail
  <2>7. CASE status # "pending"
    <3>1. club' = club \/ club' # "pending"
      BY <2>1, <2>7
    <3> QED BY <1>W, <2>1, <2>2, <2>3, <2>5, <2>7, <3>1 DEF Good, MailsAlone, OneApprovalMail
  <2> QED BY <2>6, <2>7
<1>3. ASSUME NEW r \in ClubRequests, NEW s \in SUBSET SentStatuses, NEW n \in SUBSET SentCounts,
             NEW listed \in BOOLEAN, NEW ids \in SUBSET Targets, UpdateClubRow(r, s, n, listed, ids)
      PROVE  Good'
  <2>1. \A p \in ClubRequests \ {r} : clubReq'[p] = clubReq[p]
    BY <1>C, <1>3 DEF UpdateClubRow
  <2>2. clubReq[r].at = "row" /\ clubReq'[r].at \in {"targets", "idle"}
    BY <1>3 DEF UpdateClubRow, ClubIdle, ClubBase, ClubTypeOK, ClubRequest
  <2>3. CASE s = {}
    BY <1>D, <1>3, <2>1, <2>2, <2>3 DEF UpdateClubRow
  <2>4. CASE s # {}
    <3>1. PICK status \in s : WriteStatus(r, status)
      BY <1>3, <2>4 DEF UpdateClubRow
    <3>2. status \in Statuses /\ ~Approves(r) /\ ~Approves(r)'
      BY <2>2, ClubsAssumption DEF Approves
    <3> QED BY <1>W, <2>1, <3>1, <3>2
  <2> QED BY <2>3, <2>4
<1>4. ASSUME NEW r \in ClubRequests, SetTargetDepartments(r) PROVE Good'
  <2>1. \A p \in ClubRequests : clubReq'[p] = clubReq[p] \/ clubReq'[p].at \notin {"status", "mail"}
    BY <1>C, <1>4 DEF SetTargetDepartments, ClubIdle, ClubBase, ClubTypeOK
  <2>2. UNCHANGED mailVars /\ (club' = club \/ club' # "pending")
    BY <1>4 DEF SetTargetDepartments
  <2> QED BY <1>D, <2>1, <2>2
<1>5. ASSUME NEW r \in ClubRequests, NEW u \in Joiners, TrackJoin(r, u) PROVE Good'
  <2>1. \A p \in ClubRequests : clubReq'[p] = clubReq[p] \/ clubReq'[p].at \notin {"status", "mail"}
    BY <1>C, <1>5 DEF TrackJoin, ClubIdle, ClubBase, ClubTypeOK
  <2>2. UNCHANGED mailVars /\ (club' = club \/ club' # "pending")
    BY <1>5 DEF TrackJoin
  <2> QED BY <1>D, <2>1, <2>2
<1>6. ASSUME NEW r \in ClubRequests, CreateJoin(r) PROVE Good'
  <2>1. \A p \in ClubRequests : clubReq'[p] = clubReq[p] \/ clubReq'[p].at \notin {"status", "mail"}
    BY <1>C, <1>6 DEF CreateJoin, ClubIdle, ClubBase, ClubTypeOK
  <2>2. UNCHANGED mailVars /\ (club' = club \/ club' # "pending")
    BY <1>6 DEF CreateJoin
  <2> QED BY <1>D, <2>1, <2>2
<1>7. ASSUME NEW r \in ClubRequests, NEW s \in Statuses, BeginUpdateStatus(r, s)
      PROVE  Good'
  <2> DEFINE read == IF s = "live" THEN club ELSE "none"
             c == [ClubIdle EXCEPT !.at = "status", !.read = read, !.to = s]
  <2>1. clubReq'[r] = c /\ c.at = "status" /\ c.read = read /\ c.to = s /\ clubReq[r].at = "idle"
    <3>1. clubReq'[r] = c
      BY <1>C, <1>7 DEF BeginUpdateStatus
    <3>2. c.at = "status" /\ c.read = read /\ c.to = s
      BY DEF ClubIdle
    <3>3. clubReq[r].at = "idle"
      BY <1>7 DEF BeginUpdateStatus, ClubIdle
    <3> QED BY <3>1, <3>2, <3>3
  <2>2. /\ \A p \in ClubRequests \ {r} : clubReq'[p] = clubReq[p]
        /\ UNCHANGED <<club, approvals>>
        /\ together' = (together \/ (s = "live" /\ club = "pending" /\ Approving(r) # {}))
    BY <1>C, <1>7 DEF BeginUpdateStatus
  <2>3. Approving(r)' = Approving(r)
    BY <2>2 DEF Approving
  <2>4. Approves(r)' <=> s = "live" /\ club = "pending"
    BY <2>1 DEF Approves
  <2>5. \A p \in ClubRequests \ {r} : Approves(p)' = Approves(p) /\ clubReq'[p].at = clubReq[p].at
    BY <2>2 DEF Approves
  <2>6. \A p \in ClubRequests : Approving(p) = {x \in ClubRequests \ {p} : Approves(x)}
    BY DEF Approving, Approves
  <2>7. \A p \in ClubRequests : Approving(p)' = {x \in ClubRequests \ {p} : Approves(x)'}
    BY DEF Approving, Approves
  <2>8. CASE together'
    BY <2>8 DEF Good, MailsAlone, OneApprovalMail
  <2>9. CASE ~together' /\ ~Approves(r)'
    BY <2>2, <2>5, <2>6, <2>7, <2>9 DEF Good, MailsAlone, OneApprovalMail
  <2>10. CASE ~together' /\ Approves(r)'
    <3>1. approvals = 0 /\ ~together /\ \A p \in ClubRequests \ {r} : ~Approves(p)
      BY <2>2, <2>4, <2>6, <2>10 DEF MailsAlone
    <3> QED BY <2>1, <2>2, <2>5, <2>7, <2>10, <3>1 DEF Good, MailsAlone, OneApprovalMail
  <2> QED BY <2>8, <2>9, <2>10
<1>8. ASSUME NEW r \in ClubRequests, UpdateStatus(r) PROVE Good'
  <2> DEFINE q == clubReq[r]
             c == [q EXCEPT !.at = "mail"]
  <2>1. /\ q.at = "status" /\ q.to \in Statuses /\ WriteStatus(r, q.to)
        /\ clubReq'[r] = IF q.to = "live" /\ q.read = "pending" THEN c ELSE ClubIdle
        /\ \A p \in ClubRequests \ {r} : clubReq'[p] = clubReq[p]
    BY <1>C, <1>8 DEF UpdateStatus, ClubBase, ClubTypeOK, ClubReqFits
  <2>2. c.at = "mail" /\ c.to = q.to /\ c.read = q.read /\ ClubIdle.at = "idle"
    BY DEF ClubBase, ClubTypeOK, ClubRequest, ClubIdle
  <2>3. Approves(r)' = Approves(r) /\ (Approves(r) => q.to = "live")
    BY <2>1, <2>2 DEF Approves
  <2> QED BY <1>W, <2>1, <2>3
<1>9. ASSUME NEW r \in ClubRequests, SendApproval(r) PROVE Good'
  <2>1. /\ Approves(r) /\ clubReq[r].at = "mail" /\ approvals' = approvals + 1
        /\ UNCHANGED <<club, together>> /\ clubReq'[r].at = "idle"
        /\ \A p \in ClubRequests \ {r} : clubReq'[p] = clubReq[p]
    <3>1. Approves(r) /\ clubReq[r].at = "mail"
      BY <1>9 DEF SendApproval, Approves, ClubBase, ClubReqFits
    <3>2. clubReq'[r] = ClubIdle /\ \A p \in ClubRequests \ {r} : clubReq'[p] = clubReq[p]
      BY <1>C, <1>9 DEF SendApproval
    <3>3. clubReq'[r].at = "idle"
      BY <1>I, <3>2
    <3>4. approvals' = approvals + 1 /\ UNCHANGED <<club, together>>
      BY <1>9 DEF SendApproval
    <3> QED BY <3>1, <3>2, <3>3, <3>4
  <2>2. ~together => \A p \in ClubRequests : ~Approves(p)'
    BY <2>1 DEF MailsAlone, Approving, Approves
  <2> QED BY <2>1, <2>2 DEF Good, MailsAlone, OneApprovalMail
<1>10. ASSUME NEW r \in ClubRequests, NEW hide \in BOOLEAN, ResolveFlag(r, hide)
      PROVE  Good'
  <2>1. \A p \in ClubRequests : clubReq'[p] = clubReq[p] \/ clubReq'[p].at \notin {"status", "mail"}
    BY <1>C, <1>10 DEF ResolveFlag, ClubIdle, ClubBase, ClubTypeOK
  <2>2. UNCHANGED mailVars /\ (club' = club \/ club' # "pending")
    BY <1>10 DEF ResolveFlag
  <2> QED BY <1>D, <2>1, <2>2
<1>11. ASSUME NEW r \in ClubRequests, HideClub(r) PROVE Good'
  <2>1. \A p \in ClubRequests : clubReq'[p] = clubReq[p] \/ clubReq'[p].at \notin {"status", "mail"}
    BY <1>C, <1>11 DEF HideClub, ClubIdle, ClubBase, ClubTypeOK
  <2>2. UNCHANGED mailVars /\ (club' = club \/ club' # "pending")
    BY <1>11 DEF HideClub
  <2> QED BY <1>D, <2>1, <2>2
<1>12. ASSUME NEW r \in ClubRequests, ClubAbort(r) PROVE Good'
  <2>1. \A p \in ClubRequests : clubReq'[p] = clubReq[p] \/ clubReq'[p].at \notin {"status", "mail"}
    BY <1>C, <1>12 DEF ClubAbort, ClubIdle, ClubBase, ClubTypeOK
  <2>2. UNCHANGED mailVars /\ (club' = club \/ club' # "pending")
    BY <1>12 DEF ClubAbort
  <2> QED BY <1>D, <2>1, <2>2
<1>13. CASE FlagClub
  BY <1>D, <1>13 DEF FlagClub
<1>14. CASE RemoveClub
  BY <1>D, <1>14 DEF RemoveClub
<1>15. CASE UNCHANGED clubVars
  BY <1>D, <1>15 DEF clubVars, mailVars
<1> QED BY <1>1, <1>2, <1>3, <1>4, <1>5, <1>6, <1>7, <1>8, <1>9, <1>10, <1>11, <1>12, <1>13, <1>14, <1>15 DEF ClubNext

LEMMA MailsInit == ClubInit => MailsAlone /\ OneApprovalMail
  BY DEF ClubInit, ClubIdle, MailsAlone, OneApprovalMail, Approves

\* Unless two approvals overlapped, the organizer gets one approval mail until the club
\* is set to pending again.
THEOREM OneApprovalMailHolds == ClubSpec => []OneApprovalMail
<1> DEFINE Inv == ClubBase /\ MailsAlone /\ OneApprovalMail
<1>1. ClubInit => Inv
  BY ClubBaseInit, MailsInit
<1>2. Inv /\ [ClubNext]_clubVars => Inv'
  BY ClubBaseStep, MailsStep
<1>3. Inv => OneApprovalMail
  OBVIOUS
<1> QED BY <1>1, <1>2, <1>3, PTL DEF ClubSpec

-----------------------------------------------------------------------------
(*****************************************************************************)
(* Pictures.  The key of an upload under way is known to its own request     *)
(* (KeysAreUsed, NewIsFresh), so that no other can delete it.                *)
(*****************************************************************************)

\* What a request is for at each of its awaits; a creation is alone with its row to come.
MediaFits ==
  /\ mediaRow.at # "there" => mediaRow.key = NoPicture
  /\ \A r \in MediaRequests : LET m == media[r] IN
       /\ m.at = "refresh" => m.key # NoPicture
       /\ m.at = "insert" => m.for = "create"
       /\ m.at = "upload" => m.for \in {"create", "update"}
       /\ m.at \in {"read", "refresh", "served", "delete", "write", "drop", "remove"} => m.for # "create"
       /\ m.at = "delete" => m.for = "update"
       /\ m.for = "create" => /\ mediaRow.at = "unborn"
                              /\ \A s \in MediaRequests \ {r} : media[s] = MediaIdle

\* The key in the row and the keys read from it are of files that have been uploaded.
KeysAreUsed ==
  /\ mediaRow.key \in Or1(used)
  /\ \A r \in MediaRequests : media[r].key \in Or1(used)

\* A file a request has uploaded is stored, and nobody else knows of it yet.
NewIsFresh ==
  \A r \in MediaRequests : media[r].new # NoPicture =>
    /\ <<media[r].new, UploadPlace>> \in stored
    /\ mediaRow.key # media[r].new
    /\ \A s \in MediaRequests : media[s].key # media[r].new
    /\ \A s \in MediaRequests \ {r} : media[s].new # media[r].new

\* The link a request is about to write is of the file it has uploaded.
OwnLink(r) == LET m == media[r] IN
  m.at \in {"insert", "delete", "write"} =>
    m.link.file = m.new /\ (m.new # NoPicture => m.link.place = "private")

\* The link in a club's row is of the row's key, unless a renewal was outrun.
ClubLinks ==
  owner = "club" =>
    /\ mediaRow.link.file # NoPicture =>
         /\ mediaRow.link.place = "private"
         /\ mediaRow.link.file \in {mediaRow.key} \union outrun
    /\ \A r \in MediaRequests : OwnLink(r)

MediaIInv == MediaTypeOK /\ MediaFits /\ KeysAreUsed /\ NewIsFresh /\ RowPictureIsStored /\ ClubLinks

-----------------------------------------------------------------------------
(* What a step does to the request that takes it, and to the row *)

LEMMA PlacesFit ==
  /\ UploadPlace \in Places /\ \A p : SignPlace(p) \in Places /\ DeletePlace(p) \in Places
  /\ owner = "club" => UploadPlace = "private" /\ \A p : SignPlace(p) = "private"
  /\ \A p : DeletePlace(p) = UploadPlace => owner = "club" /\ p = "update"
BY DEF UploadPlace, SignPlace, DeletePlace, Places

LEMMA SignFits ==
  ASSUME MediaTypeOK, NEW file \in Or1(Pictures), NEW p
  PROVE  /\ Sign(file, p) \in LinkTo /\ Sign(file, p).file = file
         /\ Sign(file, p).place = SignPlace(p) /\ Sign(file, p).signed = period
BY PlacesFit DEF Sign, LinkTo, MediaTypeOK

LEMMA IdleMediaFits ==
  /\ MediaIdle \in MediaRequest /\ NoLink \in LinkTo
  /\ MediaIdle.at = "idle" /\ MediaIdle.for = "serve" /\ MediaIdle.new = NoPicture
  /\ MediaIdle.key = NoPicture /\ MediaIdle.link = NoLink
<1>1. NoLink \in LinkTo
  BY MediaAssumption DEF NoLink, LinkTo, Or1, Places
<1> QED BY <1>1 DEF MediaIdle, MediaRequest, Or1

LEMMA MediaSetMoves ==
  ASSUME MediaTypeOK, NEW r \in MediaRequests, NEW m \in MediaRequest, MediaSet(r, m)
  PROVE  /\ media' \in [MediaRequests -> MediaRequest]
         /\ media'[r] = m /\ \A s \in MediaRequests \ {r} : media'[s] = media[s]
BY DEF MediaTypeOK, MediaSet

LEMMA MediaEndMoves ==
  ASSUME MediaTypeOK, NEW r \in MediaRequests, MediaEnd(r)
  PROVE  /\ media' \in [MediaRequests -> MediaRequest]
         /\ media'[r] = MediaIdle /\ \A s \in MediaRequests \ {r} : media'[s] = media[s]
BY MediaSetMoves, IdleMediaFits DEF MediaEnd

\* Only the place in the program changes.
LEMMA MediaGotoMoves ==
  ASSUME MediaTypeOK, NEW r \in MediaRequests,
         NEW at \in {"upload", "delete", "write", "served", "drop", "remove"},
         MediaSet(r, [media[r] EXCEPT !.at = at])
  PROVE  /\ media' \in [MediaRequests -> MediaRequest]
         /\ media'[r].at = at /\ media'[r].for = media[r].for /\ media'[r].new = media[r].new
         /\ media'[r].key = media[r].key /\ media'[r].link = media[r].link
         /\ media'[r].good = media[r].good
         /\ \A s \in MediaRequests \ {r} : media'[s] = media[s]
<1> DEFINE m == [media[r] EXCEPT !.at = at]
<1>1. media[r] \in MediaRequest
  BY DEF MediaTypeOK
<1>2. /\ m \in MediaRequest /\ m.at = at /\ m.for = media[r].for /\ m.new = media[r].new
      /\ m.key = media[r].key /\ m.link = media[r].link
      /\ m.good = media[r].good
  BY <1>1 DEF MediaRequest
<1>3. MediaSet(r, m)
  OBVIOUS
<1> HIDE DEF m
<1> QED BY <1>2, <1>3, MediaSetMoves

LEMMA CreationMoves ==
  ASSUME MediaTypeOK, NEW r \in MediaRequests, NEW with, BeginCreation(r, with)
  PROVE  /\ media' \in [MediaRequests -> MediaRequest]
         /\ media'[r].at \in {"upload", "insert"} /\ media'[r].for = "create"
         /\ media'[r].new = NoPicture /\ media'[r].key = NoPicture /\ media'[r].link = NoLink
         /\ \A s \in MediaRequests : media[s] = MediaIdle
         /\ \A s \in MediaRequests \ {r} : media'[s] = MediaIdle
<1> DEFINE m == [MediaIdle EXCEPT !.at = IF with THEN "upload" ELSE "insert", !.for = "create"]
<1>1. /\ m \in MediaRequest /\ m.at \in {"upload", "insert"} /\ m.for = "create"
      /\ m.new = MediaIdle.new /\ m.key = MediaIdle.key /\ m.link = MediaIdle.link
  BY IdleMediaFits DEF MediaRequest
<1>2. MediaSet(r, m) /\ \A s \in MediaRequests : media[s] = MediaIdle
  BY DEF BeginCreation
<1> HIDE DEF m
<1> QED BY <1>1, <1>2, MediaSetMoves, IdleMediaFits

LEMMA UploadMoves ==
  ASSUME MediaTypeOK, MediaFits, NEW r \in MediaRequests, NEW f \in Pictures \ used,
         media[r].at = "upload",
         MediaSet(r, [media[r] EXCEPT
            !.new = f, !.link = Sign(f, media[r].for),
            !.at = IF media[r].for = "create" THEN "insert"
                   ELSE IF owner \in {"club", "advert"} THEN "delete" ELSE "write"])
  PROVE  /\ media' \in [MediaRequests -> MediaRequest]
         /\ media'[r].new = f /\ media'[r].key = media[r].key /\ media'[r].for = media[r].for
         /\ media'[r].link = Sign(f, media[r].for)
         /\ IF media[r].for = "create" THEN media'[r].at = "insert"
            ELSE IF owner \in {"club", "advert"} THEN media'[r].at = "delete" ELSE media'[r].at = "write"
         /\ \A s \in MediaRequests \ {r} : media'[s] = media[s]
<1> DEFINE at == IF media[r].for = "create" THEN "insert"
                 ELSE IF owner \in {"club", "advert"} THEN "delete" ELSE "write"
           link == Sign(f, media[r].for)
           m == [media[r] EXCEPT !.new = f, !.link = link, !.at = at]
<1>1. media[r] \in MediaRequest /\ f \in Or1(Pictures)
  BY DEF MediaTypeOK, Or1
<1>2. link \in LinkTo /\ at \in {"insert", "delete", "write"}
  BY <1>1, SignFits
<1>3. MediaSet(r, m)
  OBVIOUS
<1>4. at = IF media[r].for = "create" THEN "insert"
           ELSE IF owner \in {"club", "advert"} THEN "delete" ELSE "write"
  OBVIOUS
<1>5. link = Sign(f, media[r].for)
  OBVIOUS
<1> HIDE DEF at, link
<1>6. /\ m \in MediaRequest /\ m.new = f /\ m.key = media[r].key /\ m.for = media[r].for
      /\ m.link = link /\ m.at = at
  BY <1>1, <1>2 DEF MediaRequest
<1> HIDE DEF m
<1> QED BY <1>3, <1>4, <1>5, <1>6, MediaSetMoves

LEMMA ReadMoves ==
  ASSUME MediaTypeOK, NEW r \in MediaRequests, NEW p \in {"serve", "flags", "update", "remove"}, ReadRow(r, p)
  PROVE  /\ media' \in [MediaRequests -> MediaRequest]
         /\ media'[r].at \in {"refresh", "read"} /\ media'[r].for = p /\ media'[r].new = NoPicture
         /\ media'[r].key = mediaRow.key /\ media'[r].link = mediaRow.link
         /\ media'[r].good = ~Expired(mediaRow.link.signed)
         /\ media'[r].at = "refresh" => mediaRow.key # NoPicture
         /\ \A s \in MediaRequests \ {r} : media'[s] = media[s]
<1> DEFINE renews == Expired(mediaRow.updated) /\ mediaRow.key # NoPicture /\ p # "flags"
                     /\ (owner \in {"club", "advert"} \/ (owner = "blog" /\ p = "serve"))
           good == ~Expired(mediaRow.link.signed)
           m == [at |-> IF renews THEN "refresh" ELSE "read", for |-> p,
                 new |-> NoPicture, key |-> mediaRow.key, link |-> mediaRow.link,
                 good |-> good]
<1>1. mediaRow.key \in Or1(Pictures) /\ mediaRow.link \in LinkTo /\ good \in BOOLEAN
  BY DEF MediaTypeOK, Row
<1>2. renews \/ ~renews
  OBVIOUS
<1>3. MediaSet(r, m)
  BY DEF ReadRow
<1>4. renews => mediaRow.key # NoPicture
  OBVIOUS
<1>5. good = ~Expired(mediaRow.link.signed)
  OBVIOUS
<1> HIDE DEF renews, good
<1>6. /\ m \in MediaRequest /\ m.at = (IF renews THEN "refresh" ELSE "read") /\ m.for = p
      /\ m.new = NoPicture /\ m.key = mediaRow.key /\ m.link = mediaRow.link
      /\ m.good = good
  BY <1>1 DEF MediaRequest, Or1
<1> HIDE DEF m
<1>7. /\ media' \in [MediaRequests -> MediaRequest] /\ media'[r] = m
      /\ \A s \in MediaRequests \ {r} : media'[s] = media[s]
  BY <1>3, <1>6, MediaSetMoves
<1> QED BY <1>4, <1>5, <1>6, <1>7

LEMMA RefreshMoves ==
  ASSUME MediaTypeOK, NEW r \in MediaRequests, RefreshLink(r)
  PROVE  LET link == Sign(media[r].key, "serve") IN
         /\ media' \in [MediaRequests -> MediaRequest]
         /\ media'[r].at = "read" /\ media'[r].for = media[r].for /\ media'[r].new = media[r].new
         /\ media'[r].key = media[r].key /\ media'[r].link = link /\ media'[r].good
         /\ \A s \in MediaRequests \ {r} : media'[s] = media[s]
         /\ mediaRow' \in Row /\ mediaRow'.at = mediaRow.at /\ mediaRow'.key = mediaRow.key
         /\ mediaRow.at = "there" => mediaRow'.link = link /\ mediaRow'.updated = period
<1> DEFINE link == Sign(media[r].key, "serve")
           m == [media[r] EXCEPT !.at = "read", !.link = link, !.good = TRUE]
           newRow == [mediaRow EXCEPT !.link = link, !.updated = period]
<1>1. media[r] \in MediaRequest /\ mediaRow \in Row /\ period \in 0 .. MaxPeriods
  BY DEF MediaTypeOK
<1>2. link \in LinkTo /\ link = Sign(media[r].key, "serve")
  BY <1>1, SignFits DEF MediaRequest
<1>3. MediaSet(r, m) /\ mediaRow' = IF mediaRow.at = "there" THEN newRow ELSE mediaRow
  BY DEF RefreshLink
<1> HIDE DEF link
<1>4. /\ m \in MediaRequest /\ m.at = "read" /\ m.for = media[r].for /\ m.new = media[r].new
      /\ m.key = media[r].key /\ m.link = link /\ m.good
  BY <1>1, <1>2 DEF MediaRequest
<1>5. /\ newRow \in Row /\ newRow.at = mediaRow.at /\ newRow.key = mediaRow.key
      /\ newRow.link = link /\ newRow.updated = period
  BY <1>1, <1>2 DEF Row
<1> HIDE DEF m, newRow
<1> QED BY <1>1, <1>2, <1>3, <1>4, <1>5, MediaSetMoves

\* The row's time moves, and nothing else of it.
LEMMA RowTouched ==
  ASSUME MediaTypeOK, mediaRow' \in {mediaRow, [mediaRow EXCEPT !.updated = period]}
  PROVE  /\ mediaRow' \in Row /\ mediaRow'.at = mediaRow.at /\ mediaRow'.key = mediaRow.key
         /\ mediaRow'.link = mediaRow.link
BY DEF MediaTypeOK, Row

LEMMA GoOnMoves ==
  ASSUME MediaTypeOK, MediaFits, NEW r \in MediaRequests, GoOn(r)
  PROVE  /\ mediaRow' \in {mediaRow, [mediaRow EXCEPT !.updated = period]}
         /\ owner = "club" => mediaRow' = mediaRow
         /\ \E at \in {"served", "upload", "delete", "drop"} :
              /\ MediaSet(r, [media[r] EXCEPT !.at = at])
              /\ at \in {"upload", "delete"} => media[r].for = "update"
              /\ at = "delete" => owner = "blog"
<1>1. /\ mediaRow' \in {mediaRow, [mediaRow EXCEPT !.updated = period]}
      /\ owner = "club" => mediaRow' = mediaRow
  BY DEF GoOn
<1>2. CASE media[r].for \in {"serve", "flags"}
  BY <1>1, <1>2 DEF GoOn
<1>3. CASE media[r].for = "update"
  BY <1>1, <1>3 DEF GoOn
<1>4. CASE media[r].for \notin {"serve", "flags", "update"}
  BY <1>1, <1>4 DEF GoOn
<1> QED BY <1>2, <1>3, <1>4

\* The row after a write of a new picture.
LEMMA WriteMovesRow ==
  ASSUME MediaTypeOK, NEW r \in MediaRequests, WriteRow(r)
  PROVE  /\ mediaRow' \in Row /\ mediaRow'.at = mediaRow.at
         /\ mediaRow.at = "there" => /\ mediaRow'.key = media[r].new /\ mediaRow'.link = media[r].link
                                     /\ mediaRow'.updated = period
         /\ mediaRow.at # "there" => mediaRow' = mediaRow
<1> DEFINE newRow == [mediaRow EXCEPT !.key = media[r].new, !.link = media[r].link, !.updated = period]
<1>1. /\ media[r].new \in Or1(Pictures) /\ media[r].link \in LinkTo
      /\ mediaRow \in Row /\ period \in 0 .. MaxPeriods
  BY DEF MediaTypeOK, MediaRequest
<1>2. /\ newRow \in Row /\ newRow.at = mediaRow.at /\ newRow.key = media[r].new /\ newRow.link = media[r].link
      /\ newRow.updated = period
  BY <1>1 DEF Row
<1>3. mediaRow' = IF mediaRow.at = "there" THEN newRow ELSE mediaRow
  BY DEF WriteRow
<1> HIDE DEF newRow
<1> QED BY <1>1, <1>2, <1>3

LEMMA InsertMovesRow ==
  ASSUME MediaTypeOK, NEW r \in MediaRequests, InsertRow(r)
  PROVE  /\ mediaRow' \in Row /\ mediaRow'.at = "there"
         /\ mediaRow'.key \in {NoPicture, media[r].new} /\ mediaRow'.link = media[r].link
         /\ mediaRow'.updated = period
<1>1. /\ media[r].new \in Or1(Pictures) /\ media[r].link \in LinkTo /\ period \in 0 .. MaxPeriods
      /\ NoPicture \in Or1(Pictures)
  BY DEF MediaTypeOK, MediaRequest, Or1
<1> QED BY <1>1 DEF InsertRow, Row

LEMMA RemoveMovesRow ==
  ASSUME MediaTypeOK, NEW r \in MediaRequests, RemoveOwner(r)
  PROVE  mediaRow' \in Row /\ mediaRow'.at = "gone" /\ mediaRow'.key = NoPicture
<1>1. mediaRow \in Row /\ NoPicture \in Or1(Pictures) /\ NoLink \in LinkTo /\ 0 \in 0 .. MaxPeriods
  BY IdleMediaFits, MediaAssumption DEF MediaTypeOK, Or1
<1> QED BY <1>1 DEF RemoveOwner, Row

-----------------------------------------------------------------------------
(* Types, and what a request is for *)

MediaBase == MediaTypeOK /\ MediaFits /\ KeysAreUsed

LEMMA MediaBaseInit == MediaInit => MediaBase
<1> SUFFICES ASSUME MediaInit PROVE MediaBase
  OBVIOUS
<1>1. mediaRow \in Row /\ mediaRow.key = NoPicture
  <2>1. NoLink \in LinkTo /\ NoPicture \in Or1(Pictures) /\ 0 \in 0 .. MaxPeriods
    BY IdleMediaFits, MediaAssumption DEF Or1
  <2> QED BY <2>1 DEF MediaInit, Row
<1>2. MediaTypeOK
  <2>1. 0 \in 0 .. MaxPeriods /\ 0 \in 0 .. MaxMediaFaults
    BY MediaAssumption
  <2>2. stored \in SUBSET (used \X Places) /\ used \in SUBSET Pictures
    BY DEF MediaInit
  <2>3. media \in [MediaRequests -> MediaRequest] /\ \A r \in MediaRequests : media[r].new \in Or1(used)
    BY IdleMediaFits DEF MediaInit, Or1
  <2> QED BY <1>1, <2>1, <2>2, <2>3 DEF MediaInit, MediaTypeOK
<1>3. MediaFits
  BY <1>1, IdleMediaFits DEF MediaInit, MediaFits
<1>4. KeysAreUsed
  BY <1>1, IdleMediaFits DEF MediaInit, KeysAreUsed, Or1
<1> QED BY <1>2, <1>3, <1>4 DEF MediaBase

LEMMA MediaBaseStep == MediaBase /\ [MediaNext]_mediaVars => MediaBase'
<1> SUFFICES ASSUME MediaBase, [MediaNext]_mediaVars PROVE MediaBase'
  OBVIOUS
<1>T. MediaTypeOK /\ MediaFits /\ KeysAreUsed
  BY DEF MediaBase
<1>N. Or1(used) \subseteq Or1(Pictures) /\ NoPicture \in Or1(used)
  BY <1>T DEF MediaTypeOK, Or1
<1>M. \A r \in MediaRequests : media[r] \in MediaRequest /\ media[r].new \in Or1(used)
                               /\ media[r].key \in Or1(used)
  BY <1>T DEF MediaTypeOK, KeysAreUsed
\* A request that goes on with what it has, and a row whose picture stays.
<1>A. ASSUME NEW r \in MediaRequests, media[r].at # "idle", media' \in [MediaRequests -> MediaRequest],
             \A s \in MediaRequests \ {r} : media'[s] = media[s],
             media'[r].new = media[r].new, media'[r].key = media[r].key,
             media'[r].for = media[r].for, media[r].for # "create",
             media'[r].at \notin {"insert", "refresh"},
             media'[r].at \in {"upload", "delete"} => media[r].for = "update",
             mediaRow' \in Row, mediaRow'.at = mediaRow.at, mediaRow'.key = mediaRow.key,
             stored' \in SUBSET (used \X Places), outrun' \in SUBSET Pictures, UNCHANGED <<owner, used, period, halfReplaced, mediaFaults>>
      PROVE  MediaBase'
  <2>1. MediaTypeOK'
    BY <1>A, <1>T, <1>M DEF MediaTypeOK
  <2>2. MediaFits'
    BY <1>A, <1>T, <1>M, IdleMediaFits DEF MediaFits
  <2>3. KeysAreUsed'
    BY <1>A, <1>T, <1>M DEF KeysAreUsed
  <2> QED BY <2>1, <2>2, <2>3 DEF MediaBase
\* A request that ends, leaving a row that fits.
<1>B. ASSUME NEW r \in MediaRequests, MediaEnd(r),
             mediaRow' \in Row, mediaRow'.key \in Or1(used),
             mediaRow'.at # "there" => mediaRow'.key = NoPicture,
             \A s \in MediaRequests \ {r} : media[s].for = "create" => mediaRow'.at = "unborn",
             halfReplaced' \in SUBSET Pictures, outrun' \in SUBSET Pictures,
             mediaFaults' \in 0 .. MaxMediaFaults,
             UNCHANGED <<owner, stored, used, period>>
      PROVE  MediaBase'
  <2>1. /\ media' \in [MediaRequests -> MediaRequest]
        /\ media'[r] = MediaIdle /\ \A s \in MediaRequests \ {r} : media'[s] = media[s]
    BY <1>B, <1>T, MediaEndMoves
  <2>2. MediaTypeOK'
    BY <1>B, <1>T, <1>N, <1>M, <2>1, IdleMediaFits DEF MediaTypeOK
  <2>3. MediaFits'
    BY <1>B, <1>T, <2>1, IdleMediaFits DEF MediaFits
  <2>4. KeysAreUsed'
    BY <1>B, <1>M, <1>N, <2>1, IdleMediaFits DEF KeysAreUsed
  <2> QED BY <2>2, <2>3, <2>4 DEF MediaBase
<1>S. /\ mediaRow \in Row /\ mediaRow.key \in Or1(used) /\ halfReplaced \in SUBSET Pictures
      /\ outrun \in SUBSET Pictures /\ mediaFaults \in 0 .. MaxMediaFaults /\ stored \in SUBSET (used \X Places)
      /\ (mediaRow.at # "there" => mediaRow.key = NoPicture)
      /\ \A r \in MediaRequests : media[r].for = "create" =>
           mediaRow.at = "unborn" /\ \A s \in MediaRequests \ {r} : media[s] = MediaIdle
  BY <1>T DEF MediaTypeOK, KeysAreUsed, MediaFits
<1>D. \A f, p : DeletePictureFile(f, p) \in SUBSET (used \X Places)
  BY <1>S DEF DeletePictureFile
<1>1. ASSUME NEW r \in MediaRequests, NEW with \in BOOLEAN, BeginCreation(r, with) PROVE MediaBase'
  <2>1. /\ mediaRow.at = "unborn"
        /\ UNCHANGED <<owner, mediaRow, stored, used, period, halfReplaced, outrun, mediaFaults>>
    BY <1>1 DEF BeginCreation
  <2>2. MediaTypeOK'
    BY <1>1, <1>T, <1>N, <1>M, <2>1, CreationMoves, IdleMediaFits DEF MediaTypeOK
  <2>3. MediaFits'
    BY <1>1, <1>T, <2>1, CreationMoves, IdleMediaFits DEF MediaFits
  <2>4. KeysAreUsed'
    BY <1>1, <1>T, <1>N, <1>M, <2>1, CreationMoves, IdleMediaFits DEF KeysAreUsed
  <2> QED BY <2>2, <2>3, <2>4 DEF MediaBase
<1>2. ASSUME NEW r \in MediaRequests, UploadPicture(r) PROVE MediaBase'
  <2>1. PICK f \in Pictures \ used :
          /\ used' = used \union {f}
          /\ stored' = stored \union {<<f, UploadPlace>>}
          /\ MediaSet(r, [media[r] EXCEPT
               !.new = f, !.link = Sign(f, media[r].for),
               !.at = IF media[r].for = "create" THEN "insert"
                      ELSE IF owner \in {"club", "advert"} THEN "delete" ELSE "write"])
    BY <1>2 DEF UploadPicture
  <2>2. /\ media[r].at = "upload" /\ media[r].for \in {"create", "update"}
        /\ UNCHANGED <<owner, mediaRow, period, halfReplaced, outrun, mediaFaults>>
    BY <1>2, <1>T DEF UploadPicture, MediaFits
  <2>3. /\ media' \in [MediaRequests -> MediaRequest]
        /\ media'[r].new = f /\ media'[r].key = media[r].key /\ media'[r].for = media[r].for
        /\ IF media[r].for = "create" THEN media'[r].at = "insert"
           ELSE IF owner \in {"club", "advert"} THEN media'[r].at = "delete" ELSE media'[r].at = "write"
        /\ \A s \in MediaRequests \ {r} : media'[s] = media[s]
    BY <2>1, <2>2, <1>T, UploadMoves
  <2>4. stored' \in SUBSET (used' \X Places) /\ used' \in SUBSET Pictures
        /\ Or1(used) \subseteq Or1(used') /\ f \in Or1(used')
    BY <2>1, <1>T, PlacesFit DEF MediaTypeOK, Or1
  <2>5. MediaTypeOK'
    BY <1>T, <1>M, <2>2, <2>3, <2>4 DEF MediaTypeOK
  <2>6. MediaFits'
    BY <1>T, <2>2, <2>3, IdleMediaFits DEF MediaFits
  <2>7. KeysAreUsed'
    BY <1>T, <1>M, <2>2, <2>3, <2>4 DEF KeysAreUsed
  <2> QED BY <2>5, <2>6, <2>7 DEF MediaBase
<1>3. ASSUME NEW r \in MediaRequests, InsertRow(r) PROVE MediaBase'
  <2>1. /\ media[r].at = "insert" /\ MediaEnd(r)
        /\ UNCHANGED <<owner, stored, used, period, halfReplaced, outrun, mediaFaults>>
    BY <1>3 DEF InsertRow
  <2>2. \A s \in MediaRequests \ {r} : media[s] = MediaIdle
    BY <2>1, <1>T DEF MediaFits
  <2> QED BY <1>3, <2>1, <2>2, <1>B, <1>T, <1>S, <1>M, <1>N, InsertMovesRow, IdleMediaFits
<1>4. ASSUME NEW r \in MediaRequests, NEW p \in {"serve", "flags", "update", "remove"}, ReadRow(r, p)
      PROVE  MediaBase'
  <2>1. /\ mediaRow.at = "there"
        /\ UNCHANGED <<owner, mediaRow, stored, used, period, halfReplaced, outrun, mediaFaults>>
    BY <1>4, <1>S DEF ReadRow
  <2>2. MediaTypeOK'
    BY <1>4, <1>T, <1>M, <1>N, <2>1, ReadMoves DEF MediaTypeOK
  <2>3. MediaFits'
    BY <1>4, <1>T, <1>S, <2>1, ReadMoves DEF MediaFits
  <2>4. KeysAreUsed'
    BY <1>4, <1>T, <1>M, <2>1, ReadMoves DEF KeysAreUsed
  <2> QED BY <2>2, <2>3, <2>4 DEF MediaBase
<1>5. ASSUME NEW r \in MediaRequests, RefreshLink(r) PROVE MediaBase'
  <2>1. /\ media[r].at = "refresh" /\ outrun' = outrun \union OutrunBy(r)
        /\ UNCHANGED <<owner, stored, used, period, halfReplaced, mediaFaults>>
    BY <1>5 DEF RefreshLink
  <2>2. media[r].for # "create"
    BY <2>1, <1>T DEF MediaFits
  <2>3. outrun' \in SUBSET Pictures
    <3>1. OutrunBy(r) \subseteq Pictures
      BY <1>M, <1>N, <1>T, <2>1 DEF OutrunBy, MediaFits, Or1
    <3> QED BY <2>1, <3>1, <1>S
  <2> QED BY <1>5, <2>1, <2>2, <2>3, <1>A, <1>S, <1>T, RefreshMoves
<1>6. ASSUME NEW r \in MediaRequests, GoOn(r) PROVE MediaBase'
  <2>1. /\ media[r].at = "read"
        /\ UNCHANGED <<owner, stored, used, period, halfReplaced, outrun, mediaFaults>>
    BY <1>6 DEF GoOn
  <2>2. media[r].for # "create"
    BY <2>1, <1>T DEF MediaFits
  <2>3. PICK at \in {"served", "upload", "delete", "drop"} :
          /\ MediaSet(r, [media[r] EXCEPT !.at = at])
          /\ at \in {"upload", "delete"} => media[r].for = "update"
    BY <1>6, <1>T, GoOnMoves
  <2>4. mediaRow' \in Row /\ mediaRow'.at = mediaRow.at /\ mediaRow'.key = mediaRow.key
    BY <1>6, <1>T, GoOnMoves, RowTouched
  <2>5. /\ media' \in [MediaRequests -> MediaRequest]
        /\ media'[r].at = at /\ media'[r].for = media[r].for /\ media'[r].new = media[r].new
        /\ media'[r].key = media[r].key /\ \A s \in MediaRequests \ {r} : media'[s] = media[s]
    BY <2>3, <1>T, MediaGotoMoves
  <2> QED BY <2>1, <2>2, <2>3, <2>4, <2>5, <1>A, <1>S
<1>7. ASSUME NEW r \in MediaRequests, Answer(r) PROVE MediaBase'
  BY <1>7, <1>B, <1>S DEF Answer
<1>8. ASSUME NEW r \in MediaRequests, DeleteOldPicture(r) PROVE MediaBase'
  <2>1. /\ media[r].at = "delete" /\ stored' \in SUBSET (used \X Places)
        /\ MediaSet(r, [media[r] EXCEPT !.at = IF owner = "blog" THEN "upload" ELSE "write"])
        /\ UNCHANGED <<owner, mediaRow, used, period, halfReplaced, outrun, mediaFaults>>
    BY <1>8, <1>S, <1>D DEF DeleteOldPicture
  <2>2. media[r].for = "update"
    BY <2>1, <1>T DEF MediaFits
  <2> QED BY <2>1, <2>2, <1>A, <1>S, <1>T, MediaGotoMoves
<1>9. ASSUME NEW r \in MediaRequests, WriteRow(r) PROVE MediaBase'
  <2>1. /\ media[r].at = "write" /\ MediaEnd(r)
        /\ UNCHANGED <<owner, stored, used, period, halfReplaced, outrun, mediaFaults>>
    BY <1>9 DEF WriteRow
  <2>2. /\ mediaRow' \in Row /\ mediaRow'.at = mediaRow.at
        /\ mediaRow'.key \in Or1(used) /\ (mediaRow'.at # "there" => mediaRow'.key = NoPicture)
    BY <1>9, <1>T, <1>S, <1>M, WriteMovesRow
  <2> QED BY <2>1, <2>2, <1>B, <1>S
<1>10. ASSUME NEW r \in MediaRequests, DropPicture(r) PROVE MediaBase'
  <2>1. /\ media[r].at = "drop" /\ stored' \in SUBSET (used \X Places)
        /\ MediaSet(r, [media[r] EXCEPT !.at = "remove"])
        /\ UNCHANGED <<owner, mediaRow, used, period, halfReplaced, outrun, mediaFaults>>
    BY <1>10, <1>S, <1>D DEF DropPicture
  <2>2. media[r].for # "create"
    BY <2>1, <1>T DEF MediaFits
  <2> QED BY <2>1, <2>2, <1>A, <1>S, <1>T, MediaGotoMoves
<1>11. ASSUME NEW r \in MediaRequests, RemoveOwner(r) PROVE MediaBase'
  <2>1. /\ media[r].at = "remove" /\ MediaEnd(r)
        /\ UNCHANGED <<owner, stored, used, period, halfReplaced, outrun, mediaFaults>>
    BY <1>11 DEF RemoveOwner
  <2>2. \A s \in MediaRequests \ {r} : media[s].for # "create"
    BY <2>1, <1>S, IdleMediaFits
  <2> QED BY <1>11, <2>1, <2>2, <1>B, <1>S, <1>N, <1>T, RemoveMovesRow
<1>12. ASSUME NEW r \in MediaRequests, MediaAbort(r) PROVE MediaBase'
  <2>1. /\ MediaEnd(r) /\ mediaFaults' \in 0 .. MaxMediaFaults
        /\ UNCHANGED <<owner, mediaRow, stored, used, period, outrun>>
    BY <1>12, <1>S, MediaAssumption DEF MediaAbort
  <2>2. halfReplaced' \in SUBSET Pictures
    <3>1. media[r].key \in Or1(Pictures) /\ halfReplaced \subseteq Pictures
      BY <1>M, <1>N, <1>S
    <3>2. {media[r].key} \ {NoPicture} \subseteq Pictures
      BY <3>1 DEF Or1
    <3> QED BY <1>12, <3>1, <3>2 DEF MediaAbort
  <2> QED BY <2>1, <2>2, <1>B, <1>S
<1>13. ASSUME TouchRow PROVE MediaBase'
  <2>1. mediaRow' \in Row /\ mediaRow'.at = mediaRow.at /\ mediaRow'.key = mediaRow.key
    BY <1>13, <1>T, RowTouched DEF TouchRow
  <2> QED BY <1>13, <2>1, <1>T DEF TouchRow, MediaBase, MediaTypeOK, MediaFits, KeysAreUsed
<1>14. ASSUME PeriodPasses PROVE MediaBase'
  <2>1. period' \in 0 .. MaxPeriods
    BY <1>14, <1>T, MediaAssumption DEF PeriodPasses, MediaTypeOK
  <2> QED BY <1>14, <2>1, <1>T DEF PeriodPasses, MediaBase, MediaTypeOK, MediaFits, KeysAreUsed
<1>15. ASSUME UNCHANGED mediaVars PROVE MediaBase'
  BY <1>15, <1>T DEF mediaVars, MediaBase, MediaTypeOK, MediaFits, KeysAreUsed
<1> QED
  BY <1>1, <1>2, <1>3, <1>4, <1>5, <1>6, <1>7, <1>8, <1>9, <1>10, <1>11, <1>12, <1>13, <1>14, <1>15
  DEF MediaNext

\* Every variable of the component keeps its type: nothing is stored that was not
\* uploaded, and no request holds a file of its own that is not.
THEOREM MediaTypeCorrect == MediaSpec => []MediaTypeOK
<1>1. MediaBase => MediaTypeOK
  BY DEF MediaBase
<1> QED BY <1>1, MediaBaseInit, MediaBaseStep, PTL DEF MediaSpec

-----------------------------------------------------------------------------
(* Files that are stored *)

LEMMA FreshStep == MediaBase /\ NewIsFresh /\ [MediaNext]_mediaVars => NewIsFresh'
<1> SUFFICES ASSUME MediaBase, NewIsFresh, [MediaNext]_mediaVars PROVE NewIsFresh'
  OBVIOUS
<1>T. MediaTypeOK /\ MediaFits /\ KeysAreUsed
  BY DEF MediaBase
<1>A. ASSUME NEW r \in MediaRequests, owner' = owner,
             \A s \in MediaRequests \ {r} : media'[s] = media[s],
             media'[r].new \in {NoPicture, media[r].new},
             media'[r].key \in {NoPicture, media[r].key, mediaRow.key},
             \/ mediaRow'.key \in {NoPicture, mediaRow.key}
             \/ mediaRow'.key = media[r].new /\ media'[r].new = NoPicture,
             \A s \in MediaRequests : media[s].new # NoPicture => <<media[s].new, UploadPlace>> \in stored'
      PROVE  NewIsFresh'
  BY <1>A DEF NewIsFresh, UploadPlace
<1>S. \A s \in MediaRequests : media[s].new # NoPicture => <<media[s].new, UploadPlace>> \in stored
  BY DEF NewIsFresh
<1>D. \A s, r \in MediaRequests : \A p :
        media[s].new # NoPicture => <<media[s].new, UploadPlace>> \in DeletePictureFile(media[r].key, p)
  BY DEF NewIsFresh, DeletePictureFile
<1>E. ASSUME NEW r \in MediaRequests, MediaEnd(r), owner' = owner, stored' = stored,
             mediaRow'.key \in {NoPicture, mediaRow.key, media[r].new}
      PROVE  NewIsFresh'
  BY <1>E, <1>A, <1>S, <1>T, MediaEndMoves, IdleMediaFits
<1>1. ASSUME NEW r \in MediaRequests, NEW with \in BOOLEAN, BeginCreation(r, with) PROVE NewIsFresh'
  <2>1. UNCHANGED <<owner, mediaRow, stored>>
    BY <1>1 DEF BeginCreation
  <2> QED BY <1>1, <2>1, <1>A, <1>S, <1>T, CreationMoves
<1>2. ASSUME NEW r \in MediaRequests, UploadPicture(r) PROVE NewIsFresh'
  <2>1. PICK f \in Pictures \ used :
          /\ stored' = stored \union {<<f, UploadPlace>>}
          /\ MediaSet(r, [media[r] EXCEPT
               !.new = f, !.link = Sign(f, media[r].for),
               !.at = IF media[r].for = "create" THEN "insert"
                      ELSE IF owner \in {"club", "advert"} THEN "delete" ELSE "write"])
    BY <1>2 DEF UploadPicture
  <2>2. media[r].at = "upload" /\ UNCHANGED <<owner, mediaRow>>
    BY <1>2 DEF UploadPicture
  <2>3. /\ media'[r].new = f /\ media'[r].key = media[r].key
        /\ \A s \in MediaRequests \ {r} : media'[s] = media[s]
    BY <2>1, <2>2, <1>T, UploadMoves
  <2>4. /\ mediaRow.key # f
        /\ \A s \in MediaRequests : media[s].key # f /\ media[s].new # f
    BY <1>T, MediaAssumption DEF KeysAreUsed, MediaTypeOK, Or1
  <2> QED BY <2>1, <2>2, <2>3, <2>4 DEF NewIsFresh, UploadPlace
<1>3. ASSUME NEW r \in MediaRequests, InsertRow(r) PROVE NewIsFresh'
  <2>1. MediaEnd(r) /\ UNCHANGED <<owner, stored>>
    BY <1>3 DEF InsertRow
  <2> QED BY <1>3, <2>1, <1>E, <1>T, InsertMovesRow
<1>4. ASSUME NEW r \in MediaRequests, NEW p \in {"serve", "flags", "update", "remove"}, ReadRow(r, p)
      PROVE  NewIsFresh'
  <2>1. UNCHANGED <<owner, mediaRow, stored>>
    BY <1>4 DEF ReadRow
  <2> QED BY <1>4, <2>1, <1>A, <1>S, <1>T, ReadMoves
<1>5. ASSUME NEW r \in MediaRequests, RefreshLink(r) PROVE NewIsFresh'
  <2>1. UNCHANGED <<owner, stored>>
    BY <1>5 DEF RefreshLink
  <2> QED BY <1>5, <2>1, <1>A, <1>S, <1>T, RefreshMoves
<1>6. ASSUME NEW r \in MediaRequests, GoOn(r) PROVE NewIsFresh'
  <2>1. UNCHANGED <<owner, stored>>
    BY <1>6 DEF GoOn
  <2>2. PICK at \in {"served", "upload", "delete", "drop"} : MediaSet(r, [media[r] EXCEPT !.at = at])
    BY <1>6, <1>T, GoOnMoves
  <2>3. mediaRow'.key = mediaRow.key
    BY <1>6, <1>T, GoOnMoves, RowTouched
  <2> QED BY <2>1, <2>2, <2>3, <1>A, <1>S, <1>T, MediaGotoMoves
<1>7. ASSUME NEW r \in MediaRequests, Answer(r) \/ MediaAbort(r) PROVE NewIsFresh'
  BY <1>7, <1>E DEF Answer, MediaAbort
<1>8. ASSUME NEW r \in MediaRequests, DeleteOldPicture(r) \/ DropPicture(r) PROVE NewIsFresh'
  <2>1. /\ UNCHANGED <<owner, mediaRow>>
        /\ \E p : stored' = DeletePictureFile(media[r].key, p)
        /\ \E at \in {"upload", "write", "remove"} : MediaSet(r, [media[r] EXCEPT !.at = at])
    BY <1>8 DEF DeleteOldPicture, DropPicture
  <2> QED BY <2>1, <1>A, <1>D, <1>T, MediaGotoMoves
<1>9. ASSUME NEW r \in MediaRequests, WriteRow(r) PROVE NewIsFresh'
  <2>1. MediaEnd(r) /\ UNCHANGED <<owner, stored>>
    BY <1>9 DEF WriteRow
  <2>2. mediaRow'.key \in {mediaRow.key, media[r].new}
    BY <1>9, <1>T, WriteMovesRow
  <2> QED BY <2>1, <2>2, <1>E
<1>10. ASSUME NEW r \in MediaRequests, RemoveOwner(r) PROVE NewIsFresh'
  <2>1. MediaEnd(r) /\ UNCHANGED <<owner, stored>>
    BY <1>10 DEF RemoveOwner
  <2> QED BY <1>10, <2>1, <1>E, <1>T, RemoveMovesRow
<1>11. ASSUME TouchRow PROVE NewIsFresh'
  <2>1. mediaRow'.key = mediaRow.key
    BY <1>11, <1>T, RowTouched DEF TouchRow
  <2> QED BY <1>11, <2>1 DEF TouchRow, NewIsFresh, UploadPlace
<1>12. ASSUME PeriodPasses \/ UNCHANGED mediaVars PROVE NewIsFresh'
  BY <1>12 DEF PeriodPasses, mediaVars, NewIsFresh, UploadPlace
<1> QED
  BY <1>1, <1>2, <1>3, <1>4, <1>5, <1>6, <1>7, <1>8, <1>9, <1>10, <1>11, <1>12 DEF MediaNext

LEMMA KeyStep ==
  MediaBase /\ NewIsFresh /\ RowPictureIsStored /\ [MediaNext]_mediaVars => RowPictureIsStored'
<1> SUFFICES ASSUME MediaBase, NewIsFresh, RowPictureIsStored, [MediaNext]_mediaVars
             PROVE  RowPictureIsStored'
  OBVIOUS
<1>T. MediaTypeOK /\ MediaFits
  BY DEF MediaBase
\* A step of a request that deletes no file from where pictures are uploaded to, and
\* that leaves a deletion of its own as it is, or on record.
<1>A. ASSUME NEW r \in MediaRequests, owner' = owner,
             \A s \in MediaRequests \ {r} : media'[s] = media[s],
             mediaRow'.key \in {NoPicture, mediaRow.key}, halfReplaced \subseteq halfReplaced',
             PictureDeleted(r) /\ media[r].key = mediaRow.key /\ mediaRow'.key # NoPicture =>
               (PictureDeleted(r)' /\ media'[r].key = media[r].key) \/ media[r].key \in halfReplaced',
             <<mediaRow.key, UploadPlace>> \in stored => <<mediaRow.key, UploadPlace>> \in stored'
      PROVE  RowPictureIsStored'
  <2> SUFFICES ASSUME mediaRow'.key # NoPicture, <<mediaRow'.key, UploadPlace>> \notin stored',
                      mediaRow'.key \notin halfReplaced'
               PROVE  \E s \in MediaRequests : PictureDeleted(s)' /\ media'[s].key = mediaRow'.key
    BY <1>A DEF RowPictureIsStored, UploadPlace
  <2>1. mediaRow'.key = mediaRow.key
    BY <1>A
  <2>2. PICK s \in MediaRequests : PictureDeleted(s) /\ media[s].key = mediaRow.key
    BY <1>A, <2>1 DEF RowPictureIsStored
  <2>3. CASE s = r
    BY <1>A, <2>1, <2>2, <2>3
  <2>4. CASE s # r
    BY <1>A, <2>1, <2>2, <2>4 DEF PictureDeleted
  <2> QED BY <2>3, <2>4
<1>P. \A r \in MediaRequests : PictureDeleted(r) => media[r].at \in {"write", "upload"}
  BY DEF PictureDeleted
<1>1. ASSUME NEW r \in MediaRequests, NEW with \in BOOLEAN, BeginCreation(r, with)
      PROVE  RowPictureIsStored'
  <2>1. media[r].at = "idle" /\ UNCHANGED <<owner, mediaRow, stored, halfReplaced>>
    BY <1>1, IdleMediaFits DEF BeginCreation
  <2> QED BY <1>1, <2>1, <1>A, <1>P, <1>T, CreationMoves
<1>2. ASSUME NEW r \in MediaRequests, UploadPicture(r) PROVE RowPictureIsStored'
  <2>1. PICK f \in Pictures \ used :
          /\ stored' = stored \union {<<f, UploadPlace>>}
          /\ MediaSet(r, [media[r] EXCEPT
               !.new = f, !.link = Sign(f, media[r].for),
               !.at = IF media[r].for = "create" THEN "insert"
                      ELSE IF owner \in {"club", "advert"} THEN "delete" ELSE "write"])
    BY <1>2 DEF UploadPicture
  <2>2. media[r].at = "upload" /\ UNCHANGED <<owner, mediaRow, halfReplaced>>
    BY <1>2 DEF UploadPicture
  <2>3. /\ media'[r].key = media[r].key
        /\ IF media[r].for = "create" THEN media'[r].at = "insert"
           ELSE IF owner \in {"club", "advert"} THEN media'[r].at = "delete" ELSE media'[r].at = "write"
        /\ \A s \in MediaRequests \ {r} : media'[s] = media[s]
    BY <2>1, <2>2, <1>T, UploadMoves
  <2>4. media[r].for = "create" => mediaRow.key = NoPicture
    BY <1>T DEF MediaFits
  <2>5. PictureDeleted(r) /\ mediaRow.key # NoPicture => PictureDeleted(r)'
    BY <2>2, <2>3, <2>4 DEF PictureDeleted
  <2> QED BY <2>1, <2>2, <2>3, <2>5, <1>A
<1>3. ASSUME NEW r \in MediaRequests, InsertRow(r) PROVE RowPictureIsStored'
  <2>1. UNCHANGED <<owner, stored>> /\ mediaRow'.key \in {NoPicture, media[r].new}
    BY <1>3, <1>T, InsertMovesRow DEF InsertRow
  <2> QED BY <2>1 DEF RowPictureIsStored, NewIsFresh, UploadPlace
<1>4. ASSUME NEW r \in MediaRequests, NEW p \in {"serve", "flags", "update", "remove"}, ReadRow(r, p)
      PROVE  RowPictureIsStored'
  <2>1. media[r].at = "idle" /\ UNCHANGED <<owner, mediaRow, stored, halfReplaced>>
    BY <1>4, IdleMediaFits DEF ReadRow
  <2> QED BY <1>4, <2>1, <1>A, <1>P, <1>T, ReadMoves
<1>5. ASSUME NEW r \in MediaRequests, RefreshLink(r) PROVE RowPictureIsStored'
  <2>1. media[r].at = "refresh" /\ UNCHANGED <<owner, stored, halfReplaced>>
    BY <1>5 DEF RefreshLink
  <2> QED BY <1>5, <2>1, <1>A, <1>P, <1>T, RefreshMoves
<1>6. ASSUME NEW r \in MediaRequests, GoOn(r) PROVE RowPictureIsStored'
  <2>1. media[r].at = "read" /\ UNCHANGED <<owner, stored, halfReplaced>>
    BY <1>6 DEF GoOn
  <2>2. PICK at \in {"served", "upload", "delete", "drop"} : MediaSet(r, [media[r] EXCEPT !.at = at])
    BY <1>6, <1>T, GoOnMoves
  <2>3. mediaRow'.key = mediaRow.key
    BY <1>6, <1>T, GoOnMoves, RowTouched
  <2> QED BY <2>1, <2>2, <2>3, <1>A, <1>P, <1>T, MediaGotoMoves
<1>7. ASSUME NEW r \in MediaRequests, Answer(r) PROVE RowPictureIsStored'
  <2>1. media[r].at = "served" /\ MediaEnd(r) /\ UNCHANGED <<owner, mediaRow, stored, halfReplaced>>
    BY <1>7 DEF Answer
  <2> QED BY <2>1, <1>A, <1>P, <1>T, MediaEndMoves
\* The file that is deleted is the one whose key was read: if it is the row's, the
\* request is about to write another.
<1>8. ASSUME NEW r \in MediaRequests, DeleteOldPicture(r) PROVE RowPictureIsStored'
  <2>1. /\ media[r].at = "delete" /\ UNCHANGED <<owner, mediaRow, halfReplaced>>
        /\ stored' = DeletePictureFile(media[r].key, DeletePlace("update"))
        /\ MediaSet(r, [media[r] EXCEPT !.at = IF owner = "blog" THEN "upload" ELSE "write"])
    BY <1>8 DEF DeleteOldPicture
  <2>2. CASE media[r].key # mediaRow.key
    <3>1. <<mediaRow.key, UploadPlace>> \in stored => <<mediaRow.key, UploadPlace>> \in stored'
      BY <2>1, <2>2 DEF DeletePictureFile
    <3> QED BY <2>1, <3>1, <1>A, <1>P, <1>T, MediaGotoMoves
  <2>3. CASE media[r].key = mediaRow.key
    <3>1. media'[r].key = media[r].key /\ media'[r].at = IF owner = "blog" THEN "upload" ELSE "write"
      BY <2>1, <1>T, MediaGotoMoves
    <3>2. PictureDeleted(r)'
      BY <2>1, <3>1 DEF PictureDeleted
    <3> QED BY <2>1, <2>3, <3>1, <3>2 DEF RowPictureIsStored
  <2> QED BY <2>2, <2>3
<1>9. ASSUME NEW r \in MediaRequests, WriteRow(r) PROVE RowPictureIsStored'
  <2>1. UNCHANGED <<owner, stored>>
    BY <1>9 DEF WriteRow
  <2>2. mediaRow'.key \in {NoPicture, media[r].new}
    BY <1>9, <1>T, WriteMovesRow DEF MediaFits
  <2> QED BY <2>1, <2>2 DEF RowPictureIsStored, NewIsFresh, UploadPlace
<1>10. ASSUME NEW r \in MediaRequests, DropPicture(r) PROVE RowPictureIsStored'
  <2>1. /\ media[r].at = "drop" /\ UNCHANGED <<owner, mediaRow, halfReplaced>>
        /\ stored' = DeletePictureFile(media[r].key, DeletePlace("remove"))
        /\ MediaSet(r, [media[r] EXCEPT !.at = "remove"])
    BY <1>10 DEF DropPicture
  <2>2. <<mediaRow.key, UploadPlace>> \in stored => <<mediaRow.key, UploadPlace>> \in stored'
    BY <2>1, PlacesFit DEF DeletePictureFile
  <2> QED BY <2>1, <2>2, <1>A, <1>P, <1>T, MediaGotoMoves
<1>11. ASSUME NEW r \in MediaRequests, RemoveOwner(r) PROVE RowPictureIsStored'
  BY <1>11, <1>T, RemoveMovesRow DEF RowPictureIsStored
<1>12. ASSUME NEW r \in MediaRequests, MediaAbort(r) PROVE RowPictureIsStored'
  <2>1. /\ MediaEnd(r) /\ UNCHANGED <<owner, mediaRow, stored>>
        /\ halfReplaced' = IF PictureDeleted(r) THEN halfReplaced \union ({media[r].key} \ {NoPicture})
                           ELSE halfReplaced
    BY <1>12 DEF MediaAbort
  <2>2. halfReplaced \subseteq halfReplaced'
    BY <2>1
  <2>3. PictureDeleted(r) /\ media[r].key = mediaRow.key /\ mediaRow'.key # NoPicture
          => media[r].key \in halfReplaced'
    BY <2>1
  <2>4. \A s \in MediaRequests \ {r} : media'[s] = media[s]
    BY <2>1, <1>T, MediaEndMoves
  <2> QED BY <2>1, <2>2, <2>3, <2>4, <1>A
<1>13. ASSUME TouchRow PROVE RowPictureIsStored'
  <2>1. mediaRow'.key = mediaRow.key
    BY <1>13, <1>T, RowTouched DEF TouchRow
  <2> QED BY <1>13, <2>1 DEF TouchRow, RowPictureIsStored, PictureDeleted, UploadPlace
<1>14. ASSUME PeriodPasses \/ UNCHANGED mediaVars PROVE RowPictureIsStored'
  BY <1>14 DEF PeriodPasses, mediaVars, RowPictureIsStored, PictureDeleted, UploadPlace
<1> QED
  BY <1>1, <1>2, <1>3, <1>4, <1>5, <1>6, <1>7, <1>8, <1>9, <1>10, <1>11, <1>12, <1>13, <1>14
  DEF MediaNext

-----------------------------------------------------------------------------
(* Links of clubs *)

LEMMA LinksStep == MediaBase /\ ClubLinks /\ [MediaNext]_mediaVars => ClubLinks'
<1> SUFFICES ASSUME MediaBase, ClubLinks, [MediaNext]_mediaVars PROVE ClubLinks'
  OBVIOUS
<1>T. MediaTypeOK /\ MediaFits
  BY DEF MediaBase
<1> DEFINE RowLink == mediaRow.link.file # NoPicture =>
                        /\ mediaRow.link.place = "private"
                        /\ mediaRow.link.file \in {mediaRow.key} \union outrun
<1>H. owner = "club" => RowLink /\ \A r \in MediaRequests : OwnLink(r)
  BY DEF ClubLinks
<1>K. ASSUME owner' = owner, mediaRow'.link = mediaRow.link, mediaRow'.key = mediaRow.key, outrun' = outrun,
             owner = "club"
      PROVE  RowLink'
  BY <1>K, <1>H
<1> HIDE DEF RowLink
\* A step of one request.
<1>A. ASSUME NEW r \in MediaRequests, owner' = owner,
             \A s \in MediaRequests \ {r} : media'[s] = media[s],
             owner = "club" => RowLink' /\ OwnLink(r)'
      PROVE  ClubLinks'
  <2>1. \A s \in MediaRequests \ {r} : owner = "club" => OwnLink(s)'
    BY <1>A, <1>H DEF OwnLink
  <2> QED BY <1>A, <2>1 DEF ClubLinks, RowLink
<1>E. ASSUME NEW r \in MediaRequests, MediaEnd(r), owner' = owner, owner = "club" => RowLink'
      PROVE  ClubLinks'
  <2>1. media'[r] = MediaIdle /\ \A s \in MediaRequests \ {r} : media'[s] = media[s]
    BY <1>E, <1>T, MediaEndMoves
  <2>2. OwnLink(r)'
    BY <2>1, IdleMediaFits DEF OwnLink
  <2> QED BY <1>E, <2>1, <2>2, <1>A
\* A request that moves on with what it has.
<1>G. ASSUME NEW r \in MediaRequests,
             NEW at \in {"upload", "delete", "write", "served", "drop", "remove"},
             MediaSet(r, [media[r] EXCEPT !.at = at]), owner' = owner, outrun' = outrun,
             mediaRow'.link = mediaRow.link, mediaRow'.key = mediaRow.key,
             owner = "club" /\ at \in {"delete", "write"} => media[r].at = "delete"
      PROVE  ClubLinks'
  <2>1. /\ media'[r].at = at /\ media'[r].new = media[r].new /\ media'[r].link = media[r].link
        /\ \A s \in MediaRequests \ {r} : media'[s] = media[s]
    BY <1>G, <1>T, MediaGotoMoves
  <2>2. owner = "club" => OwnLink(r)'
    BY <1>G, <1>H, <2>1 DEF OwnLink
  <2> QED BY <1>G, <1>K, <2>1, <2>2, <1>A
<1>1. ASSUME NEW r \in MediaRequests, NEW with \in BOOLEAN, BeginCreation(r, with) PROVE ClubLinks'
  <2>1. UNCHANGED <<owner, mediaRow, outrun>>
    BY <1>1 DEF BeginCreation
  <2>2. /\ media'[r].new = NoPicture /\ media'[r].link.file = NoPicture
        /\ \A s \in MediaRequests \ {r} : media'[s] = media[s]
    BY <1>1, <1>T, CreationMoves, IdleMediaFits DEF NoLink
  <2>3. OwnLink(r)'
    BY <2>2 DEF OwnLink
  <2> QED BY <2>1, <2>2, <2>3, <1>A, <1>K
<1>2. ASSUME NEW r \in MediaRequests, UploadPicture(r) PROVE ClubLinks'
  <2>1. PICK f \in Pictures \ used :
          MediaSet(r, [media[r] EXCEPT
               !.new = f, !.link = Sign(f, media[r].for),
               !.at = IF media[r].for = "create" THEN "insert"
                      ELSE IF owner \in {"club", "advert"} THEN "delete" ELSE "write"])
    BY <1>2 DEF UploadPicture
  <2>2. media[r].at = "upload" /\ UNCHANGED <<owner, mediaRow, outrun>>
    BY <1>2 DEF UploadPicture
  <2>3. /\ media'[r].new = f /\ media'[r].link = Sign(f, media[r].for)
        /\ \A s \in MediaRequests \ {r} : media'[s] = media[s]
    BY <2>1, <2>2, <1>T, UploadMoves
  <2>4. Sign(f, media[r].for).file = f /\ (owner = "club" => Sign(f, media[r].for).place = "private")
    BY <1>T, SignFits, PlacesFit DEF Or1
  <2>5. owner = "club" => OwnLink(r)'
    BY <2>3, <2>4 DEF OwnLink
  <2> QED BY <2>2, <2>3, <2>5, <1>A, <1>K
<1>3. ASSUME NEW r \in MediaRequests, InsertRow(r) PROVE ClubLinks'
  <2>1. media[r].at = "insert" /\ MediaEnd(r) /\ UNCHANGED <<owner, outrun>>
    BY <1>3 DEF InsertRow
  <2>2. owner = "club" => mediaRow'.key = media[r].new /\ mediaRow'.link = media[r].link
    BY <1>3 DEF InsertRow
  <2>3. owner = "club" => OwnLink(r)
    BY <1>H
  <2>4. owner = "club" => RowLink'
    BY <2>1, <2>2, <2>3 DEF RowLink, OwnLink
  <2> QED BY <2>1, <2>4, <1>E
<1>4. ASSUME NEW r \in MediaRequests, NEW p \in {"serve", "flags", "update", "remove"}, ReadRow(r, p)
      PROVE  ClubLinks'
  <2>1. UNCHANGED <<owner, mediaRow, outrun>>
    BY <1>4 DEF ReadRow
  <2>2. /\ media'[r].at \in {"refresh", "read"} /\ \A s \in MediaRequests \ {r} : media'[s] = media[s]
    BY <1>4, <1>T, ReadMoves
  <2>3. OwnLink(r)'
    BY <2>2 DEF OwnLink
  <2> QED BY <2>1, <2>2, <2>3, <1>A, <1>K
\* The link is of the row's key, or the renewal was outrun.
<1>5. ASSUME NEW r \in MediaRequests, RefreshLink(r) PROVE ClubLinks'
  <2> DEFINE link == Sign(media[r].key, "serve")
  <2>1. owner' = owner /\ outrun' = outrun \union OutrunBy(r)
    BY <1>5 DEF RefreshLink
  <2>2. /\ media'[r].at = "read" /\ \A s \in MediaRequests \ {r} : media'[s] = media[s]
        /\ mediaRow'.key = mediaRow.key
        /\ mediaRow.at = "there" => mediaRow'.link = link
    BY <1>5, <1>T, RefreshMoves
  <2>3. mediaRow.at # "there" => mediaRow' = mediaRow
    BY <1>5 DEF RefreshLink
  <2>4. link.file = media[r].key /\ (owner = "club" => link.place = "private")
    BY <1>T, SignFits, PlacesFit DEF MediaTypeOK, MediaRequest
  <2> HIDE DEF link
  <2>5. owner = "club" => RowLink'
    <3>1. CASE mediaRow.at = "there"
      BY <2>1, <2>2, <2>4, <3>1 DEF RowLink, OutrunBy
    <3>2. CASE mediaRow.at # "there"
      BY <2>1, <2>3, <3>2, <1>H DEF RowLink
    <3> QED BY <3>1, <3>2
  <2>6. OwnLink(r)'
    BY <2>2 DEF OwnLink
  <2> QED BY <2>1, <2>2, <2>5, <2>6, <1>A
<1>6. ASSUME NEW r \in MediaRequests, GoOn(r) PROVE ClubLinks'
  <2>1. UNCHANGED <<owner, outrun>>
    BY <1>6 DEF GoOn
  <2>2. PICK at \in {"served", "upload", "delete", "drop"} :
          MediaSet(r, [media[r] EXCEPT !.at = at]) /\ (at = "delete" => owner = "blog")
    BY <1>6, <1>T, GoOnMoves
  <2>3. mediaRow'.key = mediaRow.key /\ mediaRow'.link = mediaRow.link
    BY <1>6, <1>T, GoOnMoves, RowTouched
  <2> QED BY <2>1, <2>2, <2>3, <1>G
<1>7. ASSUME NEW r \in MediaRequests, Answer(r) \/ MediaAbort(r) PROVE ClubLinks'
  <2>1. MediaEnd(r) /\ UNCHANGED <<owner, mediaRow, outrun>>
    BY <1>7 DEF Answer, MediaAbort
  <2> QED BY <2>1, <1>E, <1>K
<1>8. ASSUME NEW r \in MediaRequests, DeleteOldPicture(r) PROVE ClubLinks'
  <2>1. /\ media[r].at = "delete" /\ UNCHANGED <<owner, mediaRow, outrun>>
        /\ MediaSet(r, [media[r] EXCEPT !.at = IF owner = "blog" THEN "upload" ELSE "write"])
    BY <1>8 DEF DeleteOldPicture
  <2> QED BY <2>1, <1>G
<1>9. ASSUME NEW r \in MediaRequests, WriteRow(r) PROVE ClubLinks'
  <2>1. media[r].at = "write" /\ MediaEnd(r) /\ UNCHANGED <<owner, outrun>>
    BY <1>9 DEF WriteRow
  <2>2. /\ mediaRow.at = "there" => mediaRow'.key = media[r].new /\ mediaRow'.link = media[r].link
        /\ mediaRow.at # "there" => mediaRow' = mediaRow
    BY <1>9, <1>T, WriteMovesRow
  <2>3. owner = "club" => RowLink /\ OwnLink(r)
    BY <1>H
  <2>4. owner = "club" => RowLink'
    BY <2>1, <2>2, <2>3 DEF RowLink, OwnLink
  <2> QED BY <2>1, <2>4, <1>E
<1>10. ASSUME NEW r \in MediaRequests, DropPicture(r) PROVE ClubLinks'
  <2>1. /\ UNCHANGED <<owner, mediaRow, outrun>>
        /\ MediaSet(r, [media[r] EXCEPT !.at = "remove"])
    BY <1>10 DEF DropPicture
  <2> QED BY <2>1, <1>G
<1>11. ASSUME NEW r \in MediaRequests, RemoveOwner(r) PROVE ClubLinks'
  <2>1. MediaEnd(r) /\ owner' = owner
    BY <1>11 DEF RemoveOwner
  <2>2. mediaRow'.link.file = NoPicture
    BY <1>11, <1>T DEF RemoveOwner, MediaTypeOK, Row, NoLink
  <2> QED BY <2>1, <2>2, <1>E DEF RowLink
<1>12. ASSUME TouchRow PROVE ClubLinks'
  <2>1. mediaRow'.key = mediaRow.key /\ mediaRow'.link = mediaRow.link
    BY <1>12, <1>T, RowTouched DEF TouchRow
  <2>2. UNCHANGED <<owner, media, outrun>>
    BY <1>12 DEF TouchRow
  <2>3. owner = "club" => RowLink' /\ \A r \in MediaRequests : OwnLink(r)'
    BY <2>1, <2>2, <1>K, <1>H DEF OwnLink
  <2> QED BY <2>2, <2>3 DEF ClubLinks, RowLink
<1>13. ASSUME PeriodPasses \/ UNCHANGED mediaVars PROVE ClubLinks'
  BY <1>13 DEF PeriodPasses, mediaVars, ClubLinks, OwnLink
<1> QED
  BY <1>1, <1>2, <1>3, <1>4, <1>5, <1>6, <1>7, <1>8, <1>9, <1>10, <1>11, <1>12, <1>13 DEF MediaNext

-----------------------------------------------------------------------------

LEMMA MediaIInvHolds == MediaSpec => []MediaIInv
<1>1. MediaInit => MediaIInv
  <2> SUFFICES ASSUME MediaInit PROVE MediaIInv
    OBVIOUS
  <2>1. MediaBase
    BY MediaBaseInit
  <2>2. /\ \A r \in MediaRequests : media[r] = MediaIdle
        /\ mediaRow.key = NoPicture /\ mediaRow.link = NoLink
    BY DEF MediaInit
  <2>3. NewIsFresh
    BY <2>2, IdleMediaFits DEF NewIsFresh
  <2>4. RowPictureIsStored
    BY <2>2 DEF RowPictureIsStored
  <2>5. ClubLinks
    BY <2>2, IdleMediaFits DEF ClubLinks, OwnLink, NoLink
  <2> QED BY <2>1, <2>3, <2>4, <2>5 DEF MediaBase, MediaIInv
<1>2. MediaIInv /\ [MediaNext]_mediaVars => MediaIInv'
  BY MediaBaseStep, FreshStep, KeyStep, LinksStep DEF MediaIInv, MediaBase
<1> QED BY <1>1, <1>2, PTL DEF MediaSpec

\* The file of the key in a club's, advert's, blog's or profile's row is stored where it
\* was uploaded, but for a file that an update has deleted and is still to replace, or
\* never did, however updates, renewals of the link and removals overlap: each update
\* deletes the file whose key it has read and writes its own.
THEOREM RowPictureIsStoredHolds == MediaSpec => []RowPictureIsStored
<1>1. MediaIInv => RowPictureIsStored
  BY DEF MediaIInv
<1> QED BY <1>1, MediaIInvHolds, PTL

\* The link in a club's row leads to a stored file, but for one that is being replaced,
\* whose replacement was cut short, or that a renewal begun before the replacement has
\* put back.
THEOREM LinkLeadsToPictureHolds == MediaSpec => []LinkLeadsToPicture
<1>1. ASSUME MediaIInv PROVE LinkLeadsToPicture
  <2> DEFINE f == mediaRow.link.file
  <2> SUFFICES ASSUME owner = "club", f # NoPicture, <<f, mediaRow.link.place>> \notin stored,
                      f \notin outrun
               PROVE  \/ \E r \in MediaRequests : PictureDeleted(r) /\ media[r].key = f
                      \/ f \in halfReplaced
    BY DEF LinkLeadsToPicture
  <2>1. f = mediaRow.key /\ mediaRow.link.place = UploadPlace
    BY <1>1, PlacesFit DEF MediaIInv, ClubLinks
  <2> QED BY <1>1, <2>1 DEF MediaIInv, RowPictureIsStored
<1> QED BY <1>1, MediaIInvHolds, PTL

-----------------------------------------------------------------------------
(***************************************************************************)
(* The parts together: the one that acts keeps its types.                  *)
(***************************************************************************)

SubmissionsBase ==
  /\ part \in {"files", "folders", "clubs", "pictures", "likes"}
  /\ FilesIInv /\ NestTypeOK /\ ClubBase /\ MediaBase /\ LikeTypeOK

\* Whatever part acts, its state is well typed: the specification TLC checks, for all
\* values of its constants.
THEOREM SubmissionsTypeCorrect == SubmissionsSpec => []SubmissionsTypeOK
<1>1. SubmissionsInit => SubmissionsBase
  BY FilesInvInit, NestTypeInit, ClubBaseInit, MediaBaseInit, LikeTypeInit
  DEF SubmissionsInit, SubmissionsBase
<1> DEFINE all == <<part, vars, nestVars, clubVars, mediaVars, likeVars>>
<1>2. SubmissionsBase /\ [SubmissionsNext]_all => SubmissionsBase'
  <2> SUFFICES ASSUME SubmissionsBase, [SubmissionsNext]_all
               PROVE  SubmissionsBase'
    OBVIOUS
  <2>1. /\ part' = part /\ [Next]_vars /\ [NestNext]_nestVars
        /\ [ClubNext]_clubVars /\ [MediaNext]_mediaVars /\ [LikeNext]_likeVars
    BY DEF SubmissionsNext, Rest
  <2> QED BY <2>1, FilesInvStep, NestTypeStep, ClubBaseStep, MediaBaseStep, LikeTypeStep
          DEF SubmissionsBase
<1>3. SubmissionsBase => SubmissionsTypeOK
  BY DEF SubmissionsBase, SubmissionsTypeOK, FilesIInv, ClubBase, MediaBase
<1> QED BY <1>1, <1>2, <1>3, PTL DEF SubmissionsSpec

=============================================================================
