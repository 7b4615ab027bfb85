---------------------------- MODULE MembersProofs ----------------------------
(*****************************************************************************)
(* Proofs about what is a user's own: the application as a moderator, the    *)
(* points, the rate limit of an address, folders and bookmarks, recent       *)
(* views; for any users, requests, rows and bounds.  Accounts and reset      *)
(* links have modules of their own; the last section composes the seven.     *)
(*****************************************************************************)
EXTENDS MCMembers, AccountsProofs, PasswordResetProofs, FiniteSetTheorems, SequenceTheorems, TLAPS

-----------------------------------------------------------------------------
(*****************************************************************************)
(* Moderators.  While no two requests are about one user, who has a review   *)
(* has applied.                                                              *)
(*****************************************************************************)

\* A request in flight is about one user, who has signed up.
ModRequestsFit ==
  \A r \in ModRequests :
    /\ modReq[r].at = "idle" => modReq[r].about = {}
    /\ modReq[r].at # "idle" => \E u \in Applicants : modReq[r].about = {u}

ModKnown ==
  \A u \in Applicants : u \in application \/ Handled(u) => modRole[u] # "none"

\* No two requests under way are about one user.
ModAlone ==
  \A u \in Applicants \ appealed : \A r, s \in ModRequests :
    u \in modReq[r].about /\ u \in modReq[s].about => r = s

\* What a review has read, and what a rejection has written, still holds.
ModReviewed ==
  \A u \in Applicants \ appealed : \A r \in ModRequests :
    u \in modReq[r].about =>
      /\ modReq[r].at = "role" => u \in application
      /\ modReq[r].at = "withdraw" => modRole[u] = "student"

\* A moderator has an application, or is at the sign-up that is about to insert it.
ModApplies ==
  \A u \in Applicants \ appealed :
    modRole[u] = "moderator" =>
      u \in application \/ \E r \in ModRequests : modReq[r].at = "apply" /\ u \in modReq[r].about

ModIInv == ModTypeOK /\ ModRequestsFit /\ ModKnown /\ ModAlone /\ ModReviewed /\ ModApplies

-----------------------------------------------------------------------------

LEMMA ModTypeInit == ModInit => ModTypeOK
  BY ModeratorsAssumption DEF ModInit, ModTypeOK, ModIdle, ModRequest

LEMMA ModTypeStep == ModTypeOK /\ [ModNext]_modVars => ModTypeOK'
<1> SUFFICES ASSUME ModTypeOK, [ModNext]_modVars PROVE ModTypeOK'
  OBVIOUS
<1> USE ModeratorsAssumption DEF ModTypeOK, ModRequest, ModIdle, ModBegin, ModEnd
<1>1. ASSUME NEW r \in ModRequests, NEW u \in Applicants, SignUpAsModerator(r, u) PROVE ModTypeOK'
  BY <1>1 DEF SignUpAsModerator
<1>2. ASSUME NEW r \in ModRequests, CreateApplication(r) PROVE ModTypeOK'
  BY <1>2 DEF CreateApplication
<1>3. ASSUME NEW r \in ModRequests, NEW u \in Applicants, NEW a \in {"approved", "rejected"},
             ReadApplication(r, u, a)
      PROVE  ModTypeOK'
  BY <1>3 DEF ReadApplication
<1>4. ASSUME NEW r \in ModRequests, UpdateRole(r) PROVE ModTypeOK'
  BY <1>4 DEF UpdateRole
<1>5. ASSUME NEW r \in ModRequests, DeleteApplication(r) PROVE ModTypeOK'
  BY <1>5 DEF DeleteApplication
<1>6. ASSUME NEW r \in ModRequests, ModAbort(r) PROVE ModTypeOK'
  BY <1>6 DEF ModAbort
<1>7. CASE UNCHANGED modVars
  BY <1>7 DEF modVars
<1> QED BY <1>1, <1>2, <1>3, <1>4, <1>5, <1>6, <1>7 DEF ModNext

\* Every reachable state of roles and applications is well typed.
THEOREM ModTypeCorrect == ModSpec => []ModTypeOK
  BY ModTypeInit, ModTypeStep, PTL DEF ModSpec

LEMMA ModInvInit == ModInit => ModIInv
  BY ModTypeInit
  DEF ModInit, ModIInv, ModIdle, ModRequestsFit, ModKnown, ModAlone, ModReviewed, ModApplies, Handled

LEMMA ModInvStep == ModIInv /\ [ModNext]_modVars => ModIInv'
<1> SUFFICES ASSUME ModIInv, [ModNext]_modVars PROVE ModIInv'
  OBVIOUS
<1> DEFINE Good == ModRequestsFit /\ ModKnown /\ ModAlone /\ ModReviewed /\ ModApplies
<1>T. ModTypeOK /\ ModTypeOK' /\ Good
  BY ModTypeStep DEF ModIInv
<1> SUFFICES Good'
  BY <1>T DEF ModIInv
<1> USE <1>T DEF ModTypeOK, ModRequest, ModIdle, ModBegin, ModEnd, Handled,
                 ModRequestsFit, ModKnown, ModAlone, ModReviewed, ModApplies
<1>1. ASSUME NEW r \in ModRequests, NEW u \in Applicants, SignUpAsModerator(r, u) PROVE Good'
  BY <1>1 DEF SignUpAsModerator
<1>2. ASSUME NEW r \in ModRequests, CreateApplication(r) PROVE Good'
  BY <1>2 DEF CreateApplication
<1>3. ASSUME NEW r \in ModRequests, NEW u \in Applicants, NEW a \in {"approved", "rejected"},
             ReadApplication(r, u, a)
      PROVE  Good'
  BY <1>3 DEF ReadApplication
<1>4. ASSUME NEW r \in ModRequests, UpdateRole(r) PROVE Good'
  <2>1. PICK u \in Applicants : modReq[r].about = {u}
    BY <1>4 DEF UpdateRole
  <2>2. CASE modReq[r].action = "rejected"
    <3>1. /\ modRole' = [modRole EXCEPT ![u] = "student"] /\ UNCHANGED <<application, appealed>>
          /\ modReq' = [modReq EXCEPT ![r].at = "withdraw"]
      BY <1>4, <2>1, <2>2 DEF UpdateRole
    <3> QED BY <1>4, <2>1, <3>1 DEF UpdateRole
  <2>3. CASE modReq[r].action # "rejected"
    <3>1. /\ modRole' = [modRole EXCEPT ![u] = "moderator"] /\ UNCHANGED <<application, appealed>>
          /\ modReq' = [modReq EXCEPT ![r] = ModIdle]
      BY <1>4, <2>1, <2>3 DEF UpdateRole
    <3>2. u \in application \/ u \in appealed
      BY <1>4, <2>1 DEF UpdateRole
    <3> QED BY <1>4, <2>1, <3>1, <3>2
  <2> QED BY <2>2, <2>3
<1>5. ASSUME NEW r \in ModRequests, DeleteApplication(r) PROVE Good'
  BY <1>5 DEF DeleteApplication
<1>6. ASSUME NEW r \in ModRequests, ModAbort(r) PROVE Good'
  BY <1>6 DEF ModAbort
<1>7. CASE UNCHANGED modVars
  BY <1>7 DEF modVars
<1> QED BY <1>1, <1>2, <1>3, <1>4, <1>5, <1>6, <1>7 DEF ModNext

\* Whoever has the role of a moderator has an application that can still be rejected,
\* unless two reviews of it overlapped or a request was cut short.
THEOREM ModeratorsHaveAppliedHolds == ModSpec => []ModeratorsHaveApplied
<1>1. ModIInv => ModeratorsHaveApplied
  BY DEF ModIInv, ModApplies, ModeratorsHaveApplied, Handled
<1> QED BY <1>1, ModInvInit, ModInvStep, PTL DEF ModSpec

-----------------------------------------------------------------------------
(*****************************************************************************)
(* Points.  Uploads and downloads paid and still to pay add up to those      *)
(* counted; readings that do not overlap pay the day once.                   *)
(*****************************************************************************)

\* Requests that have counted an upload or download and not yet paid it.
Unpaid == {r \in PayRequests : pay[r] = "row"}

\* Unless readings overlapped, one request at most is between the look-up and the
\* insert, and what it found still holds.
ReadingsAlone ==
  ~racing => /\ \A r, s \in PayRequests : {pay[r], pay[s]} \subseteq {"read", "award"} => r = s
             /\ \A r \in PayRequests : pay[r] = "award" => today.reading = 0

PayIInv ==
  /\ PointsTypeOK
  /\ IsFiniteSet(Unpaid)
  /\ today.other <= paid
  /\ PaidAsCounted
  /\ ReadingsAlone
  /\ ReadingPaidOnce

-----------------------------------------------------------------------------

LEMMA PayInvInit == PointsInit => PayIInv
<1> SUFFICES ASSUME PointsInit PROVE PayIInv
  OBVIOUS
<1>1. Unpaid = {}
  BY DEF PointsInit, Unpaid
<1>2. IsFiniteSet(Unpaid) /\ Cardinality(Unpaid) = 0
  BY <1>1, FS_EmptySet
<1>3. PointsTypeOK
  <2>1. answered \in BOOLEAN /\ racing \in BOOLEAN
    BY DEF PointsInit
  <2> QED BY <2>1, PointsAssumption DEF PointsInit, PointsTypeOK
<1>4. PaidAsCounted
  BY <1>2 DEF PaidAsCounted, Unpaid, PointsInit
<1> QED BY <1>2, <1>3, <1>4 DEF PointsInit, PayIInv, ReadingsAlone, ReadingPaidOnce

\* What the counters owe to the requests under way, as numbers.
LEMMA UnpaidCounts ==
  ASSUME PayIInv
  PROVE  /\ IsFiniteSet(Unpaid) /\ Cardinality(Unpaid) \in Nat
         /\ counted - payFaults <= paid + Cardinality(Unpaid)
         /\ paid + Cardinality(Unpaid) <= counted
  BY FS_CardinalityType DEF PayIInv, PaidAsCounted, Unpaid

\* A step that leaves the counters alone and moves no request to or from its payment.
LEMMA PayAside ==
  ASSUME PayIInv, UNCHANGED <<counted, paid>>, payFaults' \in 0 .. MaxPayFaults,
         payFaults' >= payFaults, Unpaid' = Unpaid
  PROVE  IsFiniteSet(Unpaid)' /\ PaidAsCounted'
<1>1. /\ Cardinality(Unpaid) \in Nat /\ counted - payFaults <= paid + Cardinality(Unpaid)
      /\ paid + Cardinality(Unpaid) <= counted
  BY UnpaidCounts
<1> QED BY <1>1, UnpaidCounts, PointsAssumption DEF PaidAsCounted, Unpaid, PayIInv, PointsTypeOK

LEMMA PayInvStep == PayIInv /\ [PointsNext]_payVars => PayIInv'
<1> SUFFICES ASSUME PayIInv, [PointsNext]_payVars PROVE PayIInv'
  OBVIOUS
<1> DEFINE n == Cardinality(Unpaid)
<1>T. PointsTypeOK /\ ReadingsAlone /\ ReadingPaidOnce /\ today.other <= paid
  BY DEF PayIInv
<1>N. /\ IsFiniteSet(Unpaid) /\ n \in Nat
      /\ counted - payFaults <= paid + n /\ paid + n <= counted
  BY UnpaidCounts
<1> USE <1>T, PointsAssumption DEF PointsTypeOK, PayGoto
<1>1. ASSUME NEW r \in PayRequests, AllocateReadingPoints(r) PROVE PayIInv'
  <2>1. PointsTypeOK'
    BY <1>1 DEF AllocateReadingPoints
  <2>2. Unpaid' = Unpaid
    BY <1>1 DEF AllocateReadingPoints, Unpaid
  <2>3. IsFiniteSet(Unpaid)' /\ PaidAsCounted'
    BY <1>1, <2>2, PayAside DEF AllocateReadingPoints
  <2>4. ReadingsAlone' /\ ReadingPaidOnce'
    BY <1>1 DEF AllocateReadingPoints, ReadingsAlone, ReadingPaidOnce
  <2> QED BY <1>1, <2>1, <2>3, <2>4 DEF PayIInv, AllocateReadingPoints
<1>2. ASSUME NEW r \in PayRequests, FindPointsOfToday(r) PROVE PayIInv'
  <2>1. PointsTypeOK'
    BY <1>2 DEF FindPointsOfToday
  <2>2. Unpaid' = Unpaid
    BY <1>2 DEF FindPointsOfToday, Unpaid
  <2>3. IsFiniteSet(Unpaid)' /\ PaidAsCounted'
    BY <1>2, <2>2, PayAside DEF FindPointsOfToday
  <2>4. ReadingsAlone' /\ ReadingPaidOnce'
    BY <1>2 DEF FindPointsOfToday, ReadingsAlone, ReadingPaidOnce
  <2> QED BY <1>2, <2>1, <2>3, <2>4 DEF PayIInv, FindPointsOfToday
<1>3. ASSUME NEW r \in PayRequests, InsertReadingPoints(r) PROVE PayIInv'
  <2>1. PointsTypeOK'
    BY <1>3 DEF InsertReadingPoints
  <2>2. Unpaid' = Unpaid
    BY <1>3 DEF InsertReadingPoints, Unpaid
  <2>3. IsFiniteSet(Unpaid)' /\ PaidAsCounted'
    BY <1>3, <2>2, PayAside DEF InsertReadingPoints
  <2>4. ReadingsAlone' /\ ReadingPaidOnce'
    BY <1>3 DEF InsertReadingPoints, ReadingsAlone, ReadingPaidOnce
  <2> QED BY <1>3, <2>1, <2>3, <2>4 DEF PayIInv, InsertReadingPoints
<1>4. ASSUME NEW r \in PayRequests, NotifyAward(r) PROVE PayIInv'
  <2>1. PointsTypeOK'
    BY <1>4 DEF NotifyAward
  <2>2. Unpaid' = Unpaid
    BY <1>4 DEF NotifyAward, Unpaid
  <2>3. IsFiniteSet(Unpaid)' /\ PaidAsCounted'
    BY <1>4, <2>2, PayAside DEF NotifyAward
  <2>4. ReadingsAlone' /\ ReadingPaidOnce'
    BY <1>4 DEF NotifyAward, ReadingsAlone, ReadingPaidOnce
  <2> QED BY <1>4, <2>1, <2>3, <2>4 DEF PayIInv, NotifyAward
<1>5. ASSUME NEW r \in PayRequests, IncrementCount(r) PROVE PayIInv'
  <2>1. PointsTypeOK'
    BY <1>5 DEF IncrementCount
  <2>2. Unpaid' = Unpaid \union {r} /\ r \notin Unpaid
    BY <1>5 DEF IncrementCount, Unpaid
  <2>3. IsFiniteSet(Unpaid') /\ Cardinality(Unpaid') = n + 1
    BY <1>N, <2>2, FS_AddElement
  <2>4. PaidAsCounted'
    BY <1>5, <1>N, <2>3 DEF IncrementCount, PaidAsCounted, Unpaid
  <2>5. ReadingsAlone' /\ ReadingPaidOnce'
    BY <1>5 DEF IncrementCount, ReadingsAlone, ReadingPaidOnce
  <2> QED BY <1>5, <2>1, <2>3, <2>4, <2>5 DEF PayIInv, IncrementCount
<1>6. ASSUME NEW r \in PayRequests, AllocatePointsImmediate(r) PROVE PayIInv'
  <2>1. Unpaid' = Unpaid \ {r} /\ r \in Unpaid
    BY <1>6 DEF AllocatePointsImmediate, Unpaid
  <2>2. IsFiniteSet(Unpaid') /\ Cardinality(Unpaid') = n - 1 /\ Cardinality(Unpaid') \in Nat
    BY <1>N, <2>1, FS_RemoveElement, FS_CardinalityType
  <2>3. PointsTypeOK'
    BY <1>6, <1>N, <2>2 DEF AllocatePointsImmediate
  <2>4. PaidAsCounted'
    BY <1>6, <1>N, <2>2 DEF AllocatePointsImmediate, PaidAsCounted, Unpaid
  <2>5. ReadingsAlone' /\ ReadingPaidOnce'
    BY <1>6 DEF AllocatePointsImmediate, ReadingsAlone, ReadingPaidOnce
  <2> QED BY <1>6, <2>2, <2>3, <2>4, <2>5 DEF PayIInv, AllocatePointsImmediate
<1>7. ASSUME NEW r \in PayRequests, PayAbort(r) PROVE PayIInv'
  <2>1. PointsTypeOK'
    BY <1>7 DEF PayAbort
  <2>2. IsFiniteSet(Unpaid)' /\ PaidAsCounted'
    <3>1. CASE pay[r] = "row"
      <4>1. Unpaid' = Unpaid \ {r} /\ r \in Unpaid
        BY <1>7, <3>1 DEF PayAbort, Unpaid
      <4>2. IsFiniteSet(Unpaid') /\ Cardinality(Unpaid') = n - 1
        BY <1>N, <4>1, FS_RemoveElement
      <4> QED BY <1>7, <1>N, <4>2 DEF PayAbort, PaidAsCounted, Unpaid
    <3>2. CASE pay[r] # "row"
      <4>1. Unpaid' = Unpaid
        BY <1>7, <3>2 DEF PayAbort, Unpaid
      <4> QED BY <1>7, <2>1, <4>1, PayAside DEF PayAbort
    <3> QED BY <3>1, <3>2
  <2>3. ReadingsAlone' /\ ReadingPaidOnce'
    BY <1>7 DEF PayAbort, ReadingsAlone, ReadingPaidOnce
  <2> QED BY <1>7, <2>1, <2>2, <2>3 DEF PayIInv, PayAbort
<1>8. CASE Midnight
  <2>1. PointsTypeOK'
    <3>1. answered' \in BOOLEAN /\ racing' \in BOOLEAN
      BY <1>8 DEF Midnight
    <3> QED BY <1>8, <3>1 DEF Midnight
  <2>2. Unpaid' = Unpaid
    BY <1>8 DEF Midnight, Unpaid
  <2>3. IsFiniteSet(Unpaid)' /\ PaidAsCounted'
    BY <1>8, <2>2, PayAside DEF Midnight
  <2>4. ReadingsAlone' /\ ReadingPaidOnce'
    BY <1>8 DEF Midnight, ReadingsAlone, ReadingPaidOnce
  <2> QED BY <1>8, <2>1, <2>3, <2>4 DEF PayIInv, Midnight
<1>9. CASE UNCHANGED payVars
  <2>1. Unpaid' = Unpaid
    BY <1>9 DEF payVars, Unpaid
  <2>2. IsFiniteSet(Unpaid)' /\ PaidAsCounted'
    BY <1>9, <2>1, PayAside DEF payVars
  <2> QED BY <1>9, <2>2 DEF payVars, PayIInv, ReadingsAlone, ReadingPaidOnce
<1> QED BY <1>1, <1>2, <1>3, <1>4, <1>5, <1>6, <1>7, <1>8, <1>9 DEF PointsNext

\* Every reachable state of the points is well typed.
THEOREM PointsTypeCorrect == PointsSpec => []PointsTypeOK
<1>1. PayIInv => PointsTypeOK
  BY DEF PayIInv
<1> QED BY <1>1, PayInvInit, PayInvStep, PTL DEF PointsSpec

\* Reading is paid once a day at most unless two readings overlapped, and uploads and
\* downloads as often as they were counted, but for those under way or cut short.
THEOREM PaidOnceHolds == PointsSpec => []PaidOnce
<1>1. PayIInv => PaidOnce
  BY DEF PayIInv, PaidOnce
<1> QED BY <1>1, PayInvInit, PayInvStep, PTL DEF PointsSpec

-----------------------------------------------------------------------------
(*****************************************************************************)
(* The rate limit.  A request let in has not missed a ban since (LetIn), and *)
(* a counter without an expiry has a request that will set it.               *)
(*****************************************************************************)

\* A request that asked, was let in and has not missed a ban since finds none.
LetIn ==
  \A r \in Calls :
    call[r].at \in {"incr", "expire", "burstBan", "bans", "ban"} /\ ~call[r].missed => ban = "none"

LimitIInv == LimitTypeOK /\ CountersExpire /\ LetIn /\ BansHold

-----------------------------------------------------------------------------

LEMMA LimitNumbers ==
  /\ Cardinality(Calls) \in Nat
  /\ \A k \in Counters : LimitOf(k) \in Nat /\ Highest(k) \in Nat
<1>1. Cardinality(Calls) \in Nat
  BY LimitAssumption, FS_CardinalityType
<1>2. ASSUME NEW k \in Counters PROVE LimitOf(k) \in Nat
  BY LimitAssumption DEF LimitOf, Counters
<1> QED BY <1>1, <1>2 DEF Highest

\* A request in flight has all its fields.
LEMMA CallFields ==
  ASSUME LimitTypeOK, NEW r \in Calls, call[r].at # "idle"
  PROVE  call[r] \in Call /\ call[r].key \in Counters /\ call[r].route \in Counters
<1>1. call[r] \in Call
  BY DEF LimitTypeOK, NoCall
<1> QED BY <1>1 DEF Call, Counters

\* After a counter has answered, the request is at another counter, at a ban or over.
LEMMA AfterCounter ==
  ASSUME LimitTypeOK, NEW r \in Calls, call[r].at \in {"incr", "expire"},
         NEW n \in Nat, CounterReturns(r, call[r].key, n)
  PROVE  \E c \in Call \union {NoCall} :
           /\ call' = [call EXCEPT ![r] = c]
           /\ c.at \in {"idle", "burstBan", "incr", "bans"}
           /\ c.at # "idle" => c.missed = call[r].missed
<1>0. call[r] \in Call /\ call[r].key \in Counters /\ call[r].route \in Counters
  BY CallFields
<1> DEFINE Over == call' = [call EXCEPT ![r] = NoCall]
           Goes(c) == call' = [call EXCEPT ![r] = c]
           Burst == [call[r] EXCEPT !.at = "burstBan"]
           Next(k) == [call[r] EXCEPT !.at = "incr", !.key = k]
           Bans(k) == [call[r] EXCEPT !.at = "bans", !.key = k]
<1>1. \/ Over \/ Goes(Burst) \/ Goes(Next(call[r].route)) \/ Goes(Next("violations"))
      \/ Goes(Bans("violations"))
  BY <1>0 DEF CounterReturns, CallEnds, CallGoesTo, CallCounts, LimitTypeOK
<1>2. /\ Burst \in Call /\ Burst.at = "burstBan" /\ Burst.missed = call[r].missed
      /\ \A k \in Counters : /\ Next(k) \in Call /\ Next(k).at = "incr"
                             /\ Next(k).missed = call[r].missed
                             /\ Bans(k) \in Call /\ Bans(k).at = "bans"
                             /\ Bans(k).missed = call[r].missed
  BY <1>0 DEF Call
<1>3. "violations" \in Counters
  BY DEF Counters
<1>4. CASE Over
  <2>1. NoCall.at = "idle"
    BY DEF NoCall
  <2> QED BY <1>4, <2>1
<1>5. CASE Goes(Burst)
  BY <1>2, <1>5
<1>6. ASSUME NEW k \in Counters, Goes(Next(k)) \/ Goes(Bans(k))
      PROVE  \E c \in Call \union {NoCall} :
               /\ call' = [call EXCEPT ![r] = c]
               /\ c.at \in {"idle", "burstBan", "incr", "bans"}
               /\ c.at # "idle" => c.missed = call[r].missed
  BY <1>2, <1>6
<1> QED BY <1>0, <1>1, <1>3, <1>4, <1>5, <1>6

LEMMA LimitInvInit == LimitInit => LimitIInv
<1> SUFFICES ASSUME LimitInit PROVE LimitIInv
  OBVIOUS
<1>1. shortened \in BOOLEAN /\ ~shortened
  BY DEF LimitInit
<1>2. \A r \in Calls : call[r].at = "idle"
  BY DEF LimitInit, NoCall
<1>3. LimitTypeOK
  BY <1>1, LimitNumbers, LimitAssumption DEF LimitInit, LimitTypeOK
<1> QED BY <1>1, <1>2, <1>3 DEF LimitIInv, LimitInit, CountersExpire, LetIn, BansHold

\* A step of one request that touches no counter and no ban keeps the invariant when
\* the request is not at an EXPIRE, and is let in only where no ban is.
LEMMA CallMoves ==
  ASSUME LimitIInv, NEW r \in Calls, NEW c \in Call \union {NoCall},
         call' = [call EXCEPT ![r] = c], call[r].at # "expire",
         c.at \in {"incr", "expire", "burstBan", "bans", "ban"} /\ ~c.missed => ban = "none",
         UNCHANGED <<counter, expires, ban, shortened, spoiled>>,
         banCount' \in 0 .. MaxBans, limitFaults' \in 0 .. MaxLimitFaults
  PROVE  LimitIInv'
<1> USE DEF LimitIInv, LimitTypeOK
<1>1. LimitTypeOK'
  BY DEF Highest
<1>2. CountersExpire'
  BY DEF CountersExpire
<1>3. LetIn'
  BY DEF LetIn
<1> QED BY <1>1, <1>2, <1>3 DEF BansHold

LEMMA LimitInvStep == LimitIInv /\ [LimitNext]_limitVars => LimitIInv'
<1> SUFFICES ASSUME LimitIInv, [LimitNext]_limitVars PROVE LimitIInv'
  OBVIOUS
<1>T. LimitTypeOK /\ CountersExpire /\ LetIn /\ BansHold
  BY DEF LimitIInv
<1>1. ASSUME NEW r \in Calls, NEW route \in Windows, Arrive(r, route) PROVE LimitIInv'
  <2> DEFINE c == [at |-> "ask", route |-> route, key |-> "burst", counted |-> 0, missed |-> FALSE]
  <2>1. c \in Call /\ c.at = "ask"
    BY DEF Call, Counters
  <2>2. call' = [call EXCEPT ![r] = c] /\ call[r].at # "expire"
    BY <1>1 DEF Arrive, NoCall
  <2> QED BY <1>1, <1>T, <2>1, <2>2, CallMoves DEF Arrive, LimitTypeOK
<1>2. ASSUME NEW r \in Calls, Ask(r) PROVE LimitIInv'
  <2>1. call[r] \in Call
    BY <1>2, <1>T, CallFields DEF Ask
  <2>2. CASE Blacklisted
    <3>1. call' = [call EXCEPT ![r] = NoCall] /\ NoCall.at = "idle"
      BY <1>2, <2>2 DEF Ask, CallEnds, NoCall
    <3> QED BY <1>2, <1>T, <3>1, CallMoves DEF Ask, LimitTypeOK
  <2>3. CASE ~Blacklisted
    <3> DEFINE c == [call[r] EXCEPT !.at = "incr", !.key = "burst"]
    <3>1. call' = [call EXCEPT ![r] = c]
      BY <1>2, <1>T, <2>3 DEF Ask, CallCounts, LimitTypeOK
    <3>2. c \in Call
      BY <2>1 DEF Call, Counters
    <3> QED BY <1>2, <1>T, <2>3, <3>1, <3>2, CallMoves DEF Ask, Blacklisted, LimitTypeOK
  <2> QED BY <2>2, <2>3
<1>3. ASSUME NEW r \in Calls, Incr(r) PROVE LimitIInv'
  <2> DEFINE k == call[r].key
             n == counter[k] + 1
  <2>1. call[r] \in Call /\ k \in Counters /\ n \in Nat /\ call[r].at = "incr"
    BY <1>3, <1>T, CallFields DEF Incr, LimitTypeOK
  <2>2. /\ counter' = [counter EXCEPT ![k] = n] /\ n <= Highest(k)
        /\ UNCHANGED <<expires, ban, banCount, spoiled, shortened, limitFaults>>
    BY <1>3 DEF Incr
  <2>3. PICK c \in Call \union {NoCall} :
          /\ call' = [call EXCEPT ![r] = c]
          /\ c.at \in {"idle", "burstBan", "incr", "bans", "expire"}
          /\ c.at # "idle" => c.missed = call[r].missed
          /\ n = 1 => c.at = "expire" /\ c.key = k
    <3>1. CASE NewCounter(n)
      <4> DEFINE c == [call[r] EXCEPT !.at = "expire", !.counted = n]
      <4>1. c \in Call /\ c.at = "expire" /\ c.key = k /\ c.missed = call[r].missed
        BY <2>1 DEF Call
      <4>2. call' = [call EXCEPT ![r] = c]
        BY <1>3, <1>T, <3>1 DEF Incr, LimitTypeOK
      <4> QED BY <4>1, <4>2
    <3>2. CASE ~NewCounter(n)
      <4>1. CounterReturns(r, k, n) /\ n # 1
        BY <1>3, <3>2 DEF Incr, NewCounter
      <4> QED BY <1>T, <2>1, <4>1, AfterCounter
    <3> QED BY <3>1, <3>2
  <2>4. LimitTypeOK'
    BY <1>T, <2>1, <2>2, <2>3 DEF LimitTypeOK, Highest
  <2>5. CountersExpire'
    <3>1. \A j \in Counters : counter'[j] > 0 /\ counter[j] = 0 => j = k /\ n = 1
      BY <1>T, <2>1, <2>2 DEF LimitTypeOK
    <3>2. call'[r] = c /\ \A q \in Calls \ {r} : call'[q] = call[q]
      BY <1>T, <2>3 DEF LimitTypeOK
    <3>3. \A j \in Counters : counter[j] \in Nat
      BY <1>T DEF LimitTypeOK
    <3> QED BY <1>T, <2>1, <2>2, <2>3, <3>1, <3>2, <3>3 DEF CountersExpire
  <2>6. LetIn'
    BY <1>T, <2>1, <2>2, <2>3 DEF LetIn, LimitTypeOK
  <2> QED BY <1>T, <2>2, <2>4, <2>5, <2>6 DEF LimitIInv, BansHold
<1>4. ASSUME NEW r \in Calls, SetWindow(r) PROVE LimitIInv'
  <2> DEFINE k == call[r].key
  <2>1. call[r] \in Call /\ k \in Counters /\ call[r].counted \in Nat /\ call[r].at = "expire"
    BY <1>4, <1>T, CallFields DEF SetWindow, Call
  <2>2. PICK c \in Call \union {NoCall} :
          /\ call' = [call EXCEPT ![r] = c]
          /\ c.at \in {"idle", "burstBan", "incr", "bans"}
          /\ c.at # "idle" => c.missed = call[r].missed
    BY <1>4, <1>T, <2>1, AfterCounter DEF SetWindow
  <2>3. /\ expires' = IF counter[k] > 0 THEN expires \union {k} ELSE expires
        /\ UNCHANGED <<counter, ban, banCount, spoiled, shortened, limitFaults>>
    BY <1>4 DEF SetWindow
  <2>4. LimitTypeOK'
    BY <1>T, <2>1, <2>2, <2>3 DEF LimitTypeOK, Highest
  <2>5. CountersExpire'
    BY <1>T, <2>1, <2>2, <2>3 DEF CountersExpire, LimitTypeOK
  <2>6. LetIn'
    BY <1>T, <2>1, <2>2, <2>3 DEF LetIn, LimitTypeOK
  <2> QED BY <1>T, <2>3, <2>4, <2>5, <2>6 DEF LimitIInv, BansHold
<1>5. ASSUME NEW r \in Calls, NEW at \in {"clear", "countBan"},
             call[r].at \in {"burstBan", "ban"}, ban' \in {"hour", "day"},
             call' = AsEndedBy(r, [call[r] EXCEPT !.at = at]),
             shortened' \in BOOLEAN, ~shortened',
             UNCHANGED <<counter, expires, banCount, spoiled, limitFaults>>
      PROVE  LimitIInv'
  <2>1. call[r] \in Call
    BY <1>5, <1>T, CallFields
  <2>2. ASSUME NEW c \in Call
        PROVE  /\ [c EXCEPT !.missed = TRUE] \in Call
               /\ [c EXCEPT !.missed = TRUE].at = c.at /\ [c EXCEPT !.missed = TRUE].key = c.key
               /\ [c EXCEPT !.missed = TRUE].missed
               /\ [c EXCEPT !.at = at] \in Call /\ [c EXCEPT !.at = at].at = at
    BY DEF Call
  <2>3. call' = [q \in Calls |-> call'[q]] /\ call'[r] = [call[r] EXCEPT !.at = at]
    BY <1>5 DEF AsEndedBy
  <2>4. ASSUME NEW q \in Calls \ {r}
        PROVE  /\ call'[q] \in Call \union {NoCall} /\ call'[q].at = call[q].at
               /\ call[q].at # "idle" => call'[q].missed /\ call'[q].key = call[q].key
    <3>1. call'[q] = IF call[q] # NoCall THEN [call[q] EXCEPT !.missed = TRUE] ELSE NoCall
      BY <1>5 DEF AsEndedBy
    <3>2. CASE call[q] = NoCall
      BY <3>1, <3>2 DEF NoCall
    <3>3. CASE call[q] # NoCall
      <4>1. call[q] \in Call
        BY <1>T, <3>3 DEF LimitTypeOK
      <4> QED BY <2>2, <3>1, <3>3, <4>1
    <3> QED BY <3>2, <3>3
  <2>5. \A q \in Calls : call'[q] \in Call \union {NoCall}
    BY <2>1, <2>2, <2>3, <2>4
  <2>6. call'[r].at = at
    BY <2>1, <2>2, <2>3
  <2>7. LimitTypeOK'
    <3>1. call' \in [Calls -> Call \union {NoCall}]
      BY <2>3, <2>5
    <3> QED BY <1>5, <1>T, <3>1 DEF LimitTypeOK, Highest
  <2>8. CountersExpire'
    BY <1>5, <1>T, <2>4 DEF CountersExpire
  <2>9. LetIn'
    BY <1>5, <2>4, <2>6 DEF LetIn
  <2> QED BY <1>5, <2>7, <2>8, <2>9 DEF LimitIInv, BansHold
<1>6. ASSUME NEW r \in Calls, BlacklistForBurst(r) PROVE LimitIInv'
  BY <1>5, <1>6, <1>T DEF BlacklistForBurst, BansHold, LimitTypeOK
<1>7. ASSUME NEW r \in Calls, WriteBan(r) PROVE LimitIInv'
  <2>1. ~call[r].missed => ban = "none"
    BY <1>7, <1>T DEF WriteBan, LetIn
  <2>2. ~shortened'
    BY <1>7, <1>T, <2>1 DEF WriteBan, BansHold
  <2>3. shortened' \in BOOLEAN
    BY <1>7 DEF WriteBan
  <2> QED BY <1>5, <1>7, <2>2, <2>3 DEF WriteBan, Level
<1>8. ASSUME NEW r \in Calls, ClearCounter(r) PROVE LimitIInv'
  <2> DEFINE k == call[r].key
  <2>1. call[r].at = "clear" /\ k \in Counters
    BY <1>8, <1>T, CallFields DEF ClearCounter
  <2>2. /\ counter' = [counter EXCEPT ![k] = 0] /\ expires' = expires \ {k} /\ spoiled' = spoiled \ {k}
        /\ call' = [call EXCEPT ![r] = NoCall] /\ NoCall.at = "idle"
        /\ UNCHANGED <<ban, banCount, shortened, limitFaults>>
    BY <1>8 DEF ClearCounter, CallEnds, NoCall
  <2>3. LimitTypeOK'
    BY <1>T, <2>1, <2>2, LimitNumbers DEF LimitTypeOK, Highest
  <2>4. CountersExpire'
    BY <1>T, <2>1, <2>2 DEF CountersExpire, LimitTypeOK
  <2>5. LetIn'
    BY <1>T, <2>2 DEF LetIn, LimitTypeOK
  <2> QED BY <1>T, <2>2, <2>3, <2>4, <2>5 DEF LimitIInv, BansHold
<1>9. ASSUME NEW r \in Calls, ReadBans(r) PROVE LimitIInv'
  <2> DEFINE c == [call[r] EXCEPT !.at = "ban", !.counted = banCount]
  <2>1. c \in Call /\ c.missed = call[r].missed /\ call[r].at = "bans"
    <3>1. call[r] \in Call /\ call[r].at = "bans" /\ banCount \in Nat
      BY <1>9, <1>T, CallFields, LimitAssumption DEF ReadBans, LimitTypeOK
    <3> QED BY <3>1 DEF Call
  <2>2. call' = [call EXCEPT ![r] = c]
    BY <1>9, <1>T DEF ReadBans, LimitTypeOK
  <2> QED BY <1>9, <1>T, <2>1, <2>2, CallMoves DEF ReadBans, LetIn, LimitTypeOK
<1>10. ASSUME NEW r \in Calls, CountBan(r) PROVE LimitIInv'
  <2> DEFINE c == [call[r] EXCEPT !.at = "clear"]
  <2>1. c \in Call /\ c.at = "clear" /\ call[r].at = "countBan" /\ call[r].counted \in Nat
    BY <1>10, <1>T, CallFields DEF CountBan, Call
  <2>2. call' = [call EXCEPT ![r] = c] /\ banCount' \in 0 .. MaxBans
    BY <1>10, <1>T, <2>1, LimitAssumption DEF CountBan, CallGoesTo, LimitTypeOK
  <2> QED BY <1>10, <1>T, <2>1, <2>2, CallMoves DEF CountBan, LimitTypeOK
<1>11. ASSUME NEW r \in Calls, call[r].at = "expire", NEW c \in Call \union {NoCall},
              call' = [call EXCEPT ![r] = c], spoiled' = spoiled \union {call[r].key}, LimitFault,
              c.at \in {"idle", "burstBan", "incr", "bans"},
              c.at # "idle" => c.missed = call[r].missed,
              UNCHANGED <<counter, expires, ban, banCount, shortened>>
       PROVE  LimitIInv'
  <2>1. call[r].key \in Counters
    BY <1>11, <1>T, CallFields
  <2>2. LimitTypeOK'
    BY <1>11, <1>T, <2>1, LimitAssumption DEF LimitTypeOK, Highest, LimitFault
  <2>3. CountersExpire'
    BY <1>11, <1>T DEF CountersExpire, LimitTypeOK
  <2>4. LetIn'
    BY <1>11, <1>T DEF LetIn, LimitTypeOK
  <2> QED BY <1>11, <1>T, <2>2, <2>3, <2>4 DEF LimitIInv, BansHold
<1>12. ASSUME NEW r \in Calls, CommandFails(r) PROVE LimitIInv'
  <2>1. call[r] \in Call /\ call[r].key \in Counters
    <3>1. call[r] \in Call
      BY <1>12, <1>T DEF CommandFails, LimitTypeOK
    <3> QED BY <3>1 DEF Call
  <2>2. limitFaults' \in 0 .. MaxLimitFaults /\ banCount' \in 0 .. MaxBans
    BY <1>12, <1>T, LimitAssumption DEF CommandFails, LimitFault, LimitTypeOK
  <2>3. call[r].at \in {"ask", "incr", "expire", "burstBan", "clear", "bans", "ban", "countBan"}
    BY <2>1 DEF Call
  <2>4. CASE call[r].at = "expire"
    <3>1. CounterReturns(r, call[r].key, 0) /\ spoiled' = spoiled \union {call[r].key}
      BY <1>12, <2>4 DEF CommandFails, Spoils
    <3>2. PICK c \in Call \union {NoCall} :
            /\ call' = [call EXCEPT ![r] = c]
            /\ c.at \in {"idle", "burstBan", "incr", "bans"}
            /\ c.at # "idle" => c.missed = call[r].missed
      BY <1>T, <2>4, <3>1, AfterCounter
    <3> QED BY <1>11, <1>12, <2>4, <3>1, <3>2 DEF CommandFails
  <2>5. CASE call[r].at # "expire"
    <3>1. UNCHANGED <<counter, expires, ban, shortened, spoiled>>
      BY <1>12, <2>5 DEF CommandFails, Spoils
    <3>2. CASE call[r].at = "ask"
      <4> DEFINE c == [call[r] EXCEPT !.at = "incr", !.missed = TRUE]
      <4>1. c \in Call /\ c.missed
        BY <2>1 DEF Call
      <4>2. call' = [call EXCEPT ![r] = c]
        BY <1>12, <1>T, <3>2 DEF CommandFails, LimitTypeOK
      <4> QED BY <2>2, <2>5, <3>1, <4>1, <4>2, CallMoves
    <3>3. CASE call[r].at = "incr"
      <4>1. CounterReturns(r, call[r].key, 0)
        BY <1>12, <3>3 DEF CommandFails
      <4>2. PICK c \in Call \union {NoCall} :
              /\ call' = [call EXCEPT ![r] = c]
              /\ c.at \in {"idle", "burstBan", "incr", "bans"}
              /\ c.at # "idle" => c.missed = call[r].missed
        BY <1>T, <3>3, <4>1, AfterCounter
      <4>3. c.at # "idle" /\ ~c.missed => ban = "none"
        BY <1>T, <3>3, <4>2 DEF LetIn
      <4> QED BY <2>2, <2>5, <3>1, <4>2, <4>3, CallMoves
    <3>4. CASE call[r].at = "bans"
      <4> DEFINE c == [call[r] EXCEPT !.at = "ban", !.counted = 0]
      <4>1. c \in Call /\ c.missed = call[r].missed
        BY <2>1 DEF Call
      <4>2. call' = [call EXCEPT ![r] = c]
        BY <1>12, <1>T, <3>4 DEF CommandFails, LimitTypeOK
      <4>3. ~c.missed => ban = "none"
        BY <1>T, <3>4, <4>1 DEF LetIn
      <4> QED BY <2>2, <2>5, <3>1, <4>1, <4>2, <4>3, CallMoves
    <3>5. CASE call[r].at \in {"ban", "burstBan", "countBan"}
      <4>1. PICK at \in {"countBan", "clear"} : CallGoesTo(r, at)
        BY <1>12, <3>5 DEF CommandFails
      <4> DEFINE c == [call[r] EXCEPT !.at = at]
      <4>2. c \in Call /\ c.at = at
        BY <2>1 DEF Call
      <4>3. call' = [call EXCEPT ![r] = c]
        BY <1>T, <4>1 DEF CallGoesTo, LimitTypeOK
      <4> QED BY <2>2, <2>5, <3>1, <4>2, <4>3, CallMoves
    <3>6. CASE call[r].at = "clear"
      <4>1. call' = [call EXCEPT ![r] = NoCall] /\ NoCall.at = "idle"
        BY <1>12, <3>6 DEF CommandFails, CallEnds, NoCall
      <4> QED BY <2>2, <2>5, <3>1, <4>1, CallMoves
    <3> QED BY <2>3, <2>5, <3>2, <3>3, <3>4, <3>5, <3>6
  <2> QED BY <2>4, <2>5
<1>13. ASSUME NEW r \in Calls, CallCut(r) PROVE LimitIInv'
  <2>1. call' = [call EXCEPT ![r] = NoCall] /\ NoCall.at = "idle"
    BY <1>13 DEF CallCut, CallEnds, NoCall
  <2>2. limitFaults' \in 0 .. MaxLimitFaults /\ banCount' \in 0 .. MaxBans
    BY <1>13, <1>T, LimitAssumption DEF CallCut, LimitFault, LimitTypeOK
  <2>3. CASE call[r].at = "expire"
    BY <1>11, <1>13, <2>1, <2>3 DEF CallCut, Spoils
  <2>4. CASE call[r].at # "expire"
    BY <1>13, <2>1, <2>2, <2>4, CallMoves DEF CallCut, Spoils
  <2> QED BY <2>3, <2>4
<1>14. ASSUME NEW k \in Counters, WindowEnds(k) PROVE LimitIInv'
  <2>1. LimitTypeOK'
    BY <1>14, <1>T, LimitNumbers DEF WindowEnds, LimitTypeOK, Highest
  <2>2. CountersExpire'
    BY <1>14, <1>T DEF WindowEnds, CountersExpire, LimitTypeOK
  <2> QED BY <1>14, <1>T, <2>1, <2>2 DEF WindowEnds, LimitIInv, LetIn, BansHold
<1>15. CASE BanEnds
  <2>1. LimitTypeOK'
    BY <1>15, <1>T DEF BanEnds, LimitTypeOK, Highest
  <2> QED BY <1>15, <1>T, <2>1 DEF BanEnds, LimitIInv, CountersExpire, LetIn, BansHold
<1>16. CASE UNCHANGED limitVars
  <2>1. LimitTypeOK'
    BY <1>16, <1>T DEF limitVars, LimitTypeOK, Highest
  <2> QED BY <1>16, <1>T, <2>1 DEF limitVars, LimitIInv, CountersExpire, LetIn, BansHold
<1> QED BY <1>1, <1>2, <1>3, <1>4, <1>6, <1>7, <1>8, <1>9, <1>10, <1>12, <1>13, <1>14, <1>15, <1>16
        DEF LimitNext

\* Every reachable state of counters and bans is well typed.
THEOREM LimitTypeCorrect == LimitSpec => []LimitTypeOK
<1>1. LimitIInv => LimitTypeOK
  BY DEF LimitIInv
<1> QED BY <1>1, LimitInvInit, LimitInvStep, PTL DEF LimitSpec

\* A counter without a time to live waits for its EXPIRE or lost it to a failure.
THEOREM CountersExpireHolds == LimitSpec => []CountersExpire
<1>1. LimitIInv => CountersExpire
  BY DEF LimitIInv
<1> QED BY <1>1, LimitInvInit, LimitInvStep, PTL DEF LimitSpec

\* A day's ban becomes an hour's only through a request that missed it.
THEOREM BansHoldHolds == LimitSpec => []BansHold
<1>1. LimitIInv => BansHold
  BY DEF LimitIInv
<1> QED BY <1>1, LimitInvInit, LimitInvStep, PTL DEF LimitSpec

-----------------------------------------------------------------------------
(*****************************************************************************)
(* Folders and bookmarks.  First what every request holds; then the counts   *)
(* of a card and the bookmarks of a user, while requests do not meet.        *)
(*****************************************************************************)

\* What a request holds at each of its awaits.
LibFits ==
  \A r \in LibRequests : LET q == lib[r] IN
    /\ q.at \in {"update", "remove"} => q.f \in Shelves
    /\ q.at \in {"look", "insert", "take"} => q.f \in Shelves /\ q.m \in Items
    /\ q.at \in {"bookmarked", "shelved", "save"} => q.who \in Members /\ (q.m # Nil \/ q.f # Nil)
    /\ q.at = "bookmarked" => q.m # Nil
    /\ q.at = "shelved" => q.f # Nil

Inserting(r, f, m) == lib[r].at = "insert" /\ lib[r].f = f /\ lib[r].m = m

\* A pair that was not looked up before another's insert has one row at most, and none
\* while the one request that found none is about to insert it.
PairOnce ==
  \A f \in Shelves, m \in Items : <<f, m>> \notin contentTwice =>
    /\ content[<<f, m>>] \in {0, 1}
    /\ \A r \in LibRequests : Inserting(r, f, m) =>
         /\ content[<<f, m>>] = 0
         /\ \A s \in LibRequests : Inserting(s, f, m) => s = r

\* A request of u that has found no bookmark of the target and goes on.
Past(r, u, target) ==
  /\ lib[r].who = u
  /\ \/ lib[r].at \in {"shelved", "save"} /\ lib[r].m = target
     \/ lib[r].at = "save" /\ lib[r].f = target

\* The same of a user's bookmarks of a target.
TargetOnce ==
  \A u \in Members, target \in Items \union Shelves : <<u, target>> \notin bookmarkTwice =>
    /\ \A b, c \in Bookmarked(u, target) : b = c
    /\ \A r \in LibRequests : Past(r, u, target) =>
         /\ Bookmarked(u, target) = {}
         /\ \A s \in LibRequests : Past(s, u, target) => s = r

LibIInv == LibTypeOK /\ LibFits /\ PairOnce /\ TargetOnce

-----------------------------------------------------------------------------
(* What a step does to the request that takes it *)

LEMMA LibIdleFits ==
  /\ LibIdle \in LibRequest /\ LibIdle.at = "idle" /\ LibIdle.who = Nil
  /\ LibIdle.f = Nil /\ LibIdle.m = Nil
BY LibraryAssumption DEF LibIdle, LibRequest

LEMMA LibOneMoves ==
  ASSUME LibTypeOK, NEW r \in LibRequests, NEW c \in LibRequest, lib' = [lib EXCEPT ![r] = c]
  PROVE  /\ lib' \in [LibRequests -> LibRequest]
         /\ lib'[r] = c /\ \A s \in LibRequests \ {r} : lib'[s] = lib[s]
BY DEF LibTypeOK

LEMMA LibEndMoves ==
  ASSUME LibTypeOK, NEW r \in LibRequests, LibEnd(r)
  PROVE  /\ lib' \in [LibRequests -> LibRequest] /\ lib'[r].at = "idle"
         /\ \A s \in LibRequests \ {r} : lib'[s] = lib[s]
BY LibOneMoves, LibIdleFits DEF LibEnd

LEMMA LibGotoMoves ==
  ASSUME LibTypeOK, NEW r \in LibRequests, NEW at \in {"insert", "shelved", "save"}, LibGoto(r, at)
  PROVE  /\ lib' \in [LibRequests -> LibRequest]
         /\ lib'[r].at = at /\ lib'[r].who = lib[r].who
         /\ lib'[r].f = lib[r].f /\ lib'[r].m = lib[r].m
         /\ \A s \in LibRequests \ {r} : lib'[s] = lib[s]
<1> DEFINE c == [lib[r] EXCEPT !.at = at]
<1>1. lib[r] \in LibRequest
  BY DEF LibTypeOK
<1>2. /\ c \in LibRequest /\ c.at = at /\ c.who = lib[r].who
      /\ c.f = lib[r].f /\ c.m = lib[r].m
  BY <1>1 DEF LibRequest
<1>3. lib' = [lib EXCEPT ![r] = c]
  BY DEF LibGoto
<1> QED BY <1>2, <1>3, LibOneMoves

LEMMA LibStartMoves ==
  ASSUME LibTypeOK, NEW r \in LibRequests,
         NEW at \in {"update", "remove", "look", "take", "bookmarked", "shelved"},
         NEW u \in Members \union {Nil}, NEW f \in Shelves \union {Nil},
         NEW m \in Items \union {Nil}, LibStart(r, at, u, f, m)
  PROVE  /\ lib' \in [LibRequests -> LibRequest] /\ lib[r].at = "idle"
         /\ lib'[r].at = at /\ lib'[r].who = u /\ lib'[r].f = f /\ lib'[r].m = m
         /\ \A s \in LibRequests \ {r} : lib'[s] = lib[s]
<1> DEFINE c == [LibIdle EXCEPT !.at = at, !.who = u, !.f = f, !.m = m]
<1>1. c \in LibRequest
  BY LibIdleFits DEF LibRequest
<1>2. c.at = at /\ c.who = u /\ c.f = f /\ c.m = m
  BY DEF LibIdle
<1>3. lib[r] = LibIdle /\ lib' = [lib EXCEPT ![r] = c]
  BY DEF LibStart
<1> QED BY <1>1, <1>2, <1>3, LibOneMoves, LibIdleFits

LEMMA LibDropMoves ==
  ASSUME LibTypeOK, NEW r \in LibRequests, NEW b \in bookmark, FindBookmarkById(r, b)
  PROVE  /\ lib' \in [LibRequests -> LibRequest] /\ lib'[r].at = "drop"
         /\ \A s \in LibRequests \ {r} : lib'[s] = lib[s]
<1> DEFINE c == [LibIdle EXCEPT !.at = "drop", !.id = b.id]
<1>1. b.id \in 0 .. MaxBookmarks
  BY LibraryAssumption DEF LibTypeOK, BookmarkRow
<1>2. c \in LibRequest
  BY <1>1, LibIdleFits DEF LibRequest
<1>3. c.at = "drop"
  BY DEF LibIdle
<1>4. lib' = [lib EXCEPT ![r] = c]
  BY DEF FindBookmarkById
<1> QED BY <1>2, <1>3, <1>4, LibOneMoves

\* The row SaveBookmark inserts.
LEMMA SavedRow ==
  ASSUME LibTypeOK, LibFits, NEW r \in LibRequests, lib[r].at = "save", nextId <= MaxBookmarks
  PROVE  /\ lib[r].who \in Members /\ lib[r].m \in Items \union {Nil}
         /\ lib[r].f \in Shelves \union {Nil} /\ (lib[r].m # Nil \/ lib[r].f # Nil)
         /\ [id |-> nextId, user |-> lib[r].who, m |-> lib[r].m, f |-> lib[r].f] \in BookmarkRow
<1>1. lib[r] \in LibRequest
  BY DEF LibTypeOK
<1>2. /\ lib[r].who \in Members /\ lib[r].m \in Items \union {Nil}
      /\ lib[r].f \in Shelves \union {Nil} /\ (lib[r].m # Nil \/ lib[r].f # Nil)
  BY <1>1 DEF LibRequest, LibFits
<1>3. nextId \in 1 .. MaxBookmarks
  BY LibraryAssumption DEF LibTypeOK
<1> QED BY <1>2, <1>3 DEF BookmarkRow

-----------------------------------------------------------------------------
(* Types *)

LibBase == LibTypeOK /\ LibFits

LEMMA LibBaseInit == LibInit => LibBase
<1> SUFFICES ASSUME LibInit PROVE LibBase
  OBVIOUS
<1>1. LibTypeOK
  BY LibIdleFits, LibraryAssumption DEF LibInit, LibTypeOK, There
<1>2. LibFits
  BY LibIdleFits DEF LibInit, LibFits
<1> QED BY <1>1, <1>2 DEF LibBase

\* A step that only moves its request, to where it still fits.
LEMMA OnlyMoves ==
  ASSUME LibBase, NEW r \in LibRequests, lib' \in [LibRequests -> LibRequest],
         \A s \in LibRequests \ {r} : lib'[s] = lib[s],
         lib'[r].at \in {"idle", "drop"} \/ LibFits',
         UNCHANGED <<shelf, item, content, bookmark, nextId>>,
         contentTwice' \in SUBSET (Shelves \X Items),
         bookmarkTwice' \in SUBSET (Members \X (Items \union Shelves))
  PROVE  LibBase'
<1>1. LibTypeOK'
  BY DEF LibBase, LibTypeOK, There
<1>2. LibFits'
  BY DEF LibBase, LibFits
<1> QED BY <1>1, <1>2 DEF LibBase

LEMMA LibBaseStep == LibBase /\ [LibNext]_libVars => LibBase'
<1> SUFFICES ASSUME LibBase, [LibNext]_libVars PROVE LibBase'
  OBVIOUS
<1>T. LibTypeOK /\ LibFits
  BY DEF LibBase
<1>Q. /\ contentTwice \in SUBSET (Shelves \X Items)
      /\ bookmarkTwice \in SUBSET (Members \X (Items \union Shelves))
  BY <1>T DEF LibTypeOK
<1>1. ASSUME NEW f \in Shelves, NEW v \in {"public", "private"}, CreateFolder(f, v)
      PROVE  LibBase'
  <2>1. LibTypeOK'
    BY <1>1, <1>T DEF CreateFolder, LibTypeOK, There
  <2>2. LibFits'
    BY <1>1, <1>T DEF CreateFolder, LibFits
  <2> QED BY <2>1, <2>2 DEF LibBase
<1>2. ASSUME NEW m \in Items, DeleteItem(m) PROVE LibBase'
  <2>1. content' \in [Shelves \X Items -> Nat]
    BY <1>2, <1>T DEF DeleteItem, LibTypeOK
  <2>2. \A f \in Shelves, n \in Items : content'[<<f, n>>] > 0 => There(f)' /\ n \in item'
    BY <1>2, <1>T DEF DeleteItem, LibTypeOK, There
  <2>3. LibTypeOK'
    BY <1>2, <1>T, <2>1, <2>2 DEF DeleteItem, LibTypeOK, There
  <2>4. LibFits'
    BY <1>2, <1>T DEF DeleteItem, LibFits
  <2> QED BY <2>3, <2>4 DEF LibBase
<1>3. ASSUME NEW r \in LibRequests, NEW f \in Shelves, NEW m \in Items \union {Nil},
             NEW at \in {"update", "remove", "take"}, OwnerReads(r, f, m, at), at = "take" => m # Nil
      PROVE  LibBase'
  <2>1. LibStart(r, at, Nil, f, m)
    BY <1>3 DEF OwnerReads
  <2>2. LibFits'
    BY <1>3, <1>T, <2>1, LibStartMoves DEF LibFits
  <2>3. /\ lib' \in [LibRequests -> LibRequest]
        /\ \A s \in LibRequests \ {r} : lib'[s] = lib[s]
    BY <2>1, <1>T, LibStartMoves
  <2>4. UNCHANGED <<shelf, item, content, bookmark, nextId, contentTwice, bookmarkTwice>>
    BY <1>3 DEF OwnerReads
  <2> QED BY <1>Q, <2>2, <2>3, <2>4, OnlyMoves
<1>4. ASSUME NEW r \in LibRequests, NEW v \in {"public", "private"}, UpdateFolder(r, v)
      PROVE  LibBase'
  <2>1. lib[r].f \in Shelves /\ LibEnd(r)
    BY <1>4, <1>T DEF UpdateFolder, LibFits
  <2>2. shelf' \in [Shelves -> {"unborn", "public", "private", "gone"}]
        /\ \A f \in Shelves : There(f) => There(f)'
    BY <1>4, <1>T, <2>1 DEF UpdateFolder, LibTypeOK, There
  <2>3. LibTypeOK'
    <3>1. \A b \in bookmark : b.f = Nil \/ b.f \in Shelves
      BY <1>T DEF LibTypeOK, BookmarkRow
    <3> QED BY <1>4, <1>T, <2>1, <2>2, <3>1, LibEndMoves DEF UpdateFolder, LibTypeOK
  <2>4. LibFits'
    BY <1>T, <2>1, LibEndMoves DEF LibFits
  <2> QED BY <2>3, <2>4 DEF LibBase
<1>5. ASSUME NEW r \in LibRequests, RemoveFolder(r) PROVE LibBase'
  <2>1. lib[r].f \in Shelves /\ LibEnd(r)
    BY <1>5, <1>T DEF RemoveFolder, LibFits
  <2>2. shelf' \in [Shelves -> {"unborn", "public", "private", "gone"}]
        /\ \A f \in Shelves \ {lib[r].f} : There(f) => There(f)'
    BY <1>5, <1>T, <2>1 DEF RemoveFolder, LibTypeOK, There
  <2>3. content' \in [Shelves \X Items -> Nat]
        /\ \A f \in Shelves, m \in Items : content'[<<f, m>>] = IF f = lib[r].f THEN 0 ELSE content[<<f, m>>]
    BY <1>5, <1>T DEF RemoveFolder, LibTypeOK
  <2>4. \A f \in Shelves, m \in Items : content'[<<f, m>>] > 0 => There(f)' /\ m \in item'
    BY <1>5, <1>T, <2>2, <2>3 DEF RemoveFolder, LibTypeOK
  <2>5. bookmark' \in SUBSET BookmarkRow
        /\ \A b \in bookmark' : b \in bookmark /\ b.f # lib[r].f /\ (b.f = Nil \/ b.f \in Shelves)
    BY <1>5, <1>T DEF RemoveFolder, LibTypeOK, BookmarkRow
  <2>6. LibTypeOK'
    BY <1>5, <1>T, <2>1, <2>2, <2>3, <2>4, <2>5, LibEndMoves DEF RemoveFolder, LibTypeOK
  <2>7. LibFits'
    BY <1>T, <2>1, LibEndMoves DEF LibFits
  <2> QED BY <2>6, <2>7 DEF LibBase
<1>6. ASSUME NEW r \in LibRequests, NEW u \in Members, NEW f \in Shelves, NEW m \in Items,
             AddMaterialToFolder(r, u, f, m)
      PROVE  LibBase'
  <2>1. LibStart(r, "look", Nil, f, m)
    BY <1>6 DEF AddMaterialToFolder
  <2>2. /\ lib' \in [LibRequests -> LibRequest]
        /\ lib'[r].at = "look" /\ lib'[r].f = f /\ lib'[r].m = m
        /\ \A s \in LibRequests \ {r} : lib'[s] = lib[s]
    BY <2>1, <1>T, LibStartMoves
  <2>3. LibFits'
    BY <1>T, <2>2 DEF LibFits
  <2>4. UNCHANGED <<shelf, item, content, bookmark, nextId, contentTwice, bookmarkTwice>>
    BY <1>6 DEF AddMaterialToFolder
  <2> QED BY <1>Q, <2>2, <2>3, <2>4, OnlyMoves
<1>7. ASSUME NEW r \in LibRequests, FindContentByMaterial(r) PROVE LibBase'
  <2>1. lib[r].at = "look" /\ lib[r].f \in Shelves /\ lib[r].m \in Items
        /\ (LibEnd(r) \/ LibGoto(r, "insert"))
    BY <1>7, <1>T DEF FindContentByMaterial, LibFits
  <2>2. contentTwice' \in SUBSET (Shelves \X Items)
    BY <1>7, <2>1, <1>Q DEF FindContentByMaterial
  <2>3. LibFits'
    BY <1>T, <2>1, LibEndMoves, LibGotoMoves DEF LibFits
  <2> QED
    BY <1>7, <1>T, <1>Q, <2>1, <2>2, <2>3, LibEndMoves, LibGotoMoves, OnlyMoves
    DEF FindContentByMaterial
<1>8. ASSUME NEW r \in LibRequests, AddMaterial(r) PROVE LibBase'
  <2>1. lib[r].f \in Shelves /\ lib[r].m \in Items /\ LibEnd(r)
    BY <1>8, <1>T DEF AddMaterial, LibFits
  <2>2. content' \in [Shelves \X Items -> Nat]
        /\ \A f \in Shelves, m \in Items : content'[<<f, m>>] > 0 => There(f) /\ m \in item
    BY <1>8, <1>T, <2>1 DEF AddMaterial, LibTypeOK
  <2>3. LibTypeOK'
    BY <1>8, <1>T, <2>1, <2>2, LibEndMoves DEF AddMaterial, LibTypeOK, There
  <2>4. LibFits'
    BY <1>T, <2>1, LibEndMoves DEF LibFits
  <2> QED BY <2>3, <2>4 DEF LibBase
<1>9. ASSUME NEW r \in LibRequests, RemoveMaterial(r) PROVE LibBase'
  <2>1. lib[r].f \in Shelves /\ lib[r].m \in Items /\ LibEnd(r)
    BY <1>9, <1>T DEF RemoveMaterial, LibFits
  <2>2. content' \in [Shelves \X Items -> Nat]
        /\ \A f \in Shelves, m \in Items : content'[<<f, m>>] > 0 => There(f) /\ m \in item
    BY <1>9, <1>T, <2>1 DEF RemoveMaterial, LibTypeOK
  <2>5. contentTwice' \in SUBSET (Shelves \X Items)
    BY <1>9, <1>Q DEF RemoveMaterial
  <2>3. LibTypeOK'
    BY <1>9, <1>T, <2>1, <2>2, <2>5, LibEndMoves DEF RemoveMaterial, LibTypeOK, There
  <2>4. LibFits'
    BY <1>T, <2>1, LibEndMoves DEF LibFits
  <2> QED BY <2>3, <2>4 DEF LibBase
<1>10. ASSUME NEW r \in LibRequests, NEW u \in Members, NEW m \in Items \union {Nil},
              NEW f \in Shelves \union {Nil}, AddBookmark(r, u, m, f)
       PROVE  LibBase'
  <2>1. LibStart(r, IF m # Nil THEN "bookmarked" ELSE "shelved", u, f, m) /\ (m # Nil \/ f # Nil)
    BY <1>10 DEF AddBookmark
  <2>2. LibFits'
    BY <1>T, <2>1, LibStartMoves DEF LibFits
  <2> QED BY <1>10, <1>T, <1>Q, <2>1, <2>2, LibStartMoves, OnlyMoves DEF AddBookmark
<1>11. ASSUME NEW r \in LibRequests, FindBookmarkByMaterial(r) PROVE LibBase'
  <2>1. /\ lib[r].at = "bookmarked" /\ lib[r].who \in Members /\ lib[r].m # Nil
        /\ LibEnd(r) \/ LibGoto(r, IF lib[r].f # Nil THEN "shelved" ELSE "save")
    BY <1>11, <1>T DEF FindBookmarkByMaterial, LibFits
  <2>2. lib[r].m \in Items
    BY <1>T, <2>1 DEF LibTypeOK, LibRequest
  <2>3. bookmarkTwice' \in SUBSET (Members \X (Items \union Shelves))
    BY <1>11, <2>1, <2>2, <1>Q DEF FindBookmarkByMaterial
  <2>4. LibFits'
    BY <1>T, <2>1, LibEndMoves, LibGotoMoves DEF LibFits
  <2> QED
    BY <1>11, <1>T, <1>Q, <2>1, <2>3, <2>4, LibEndMoves, LibGotoMoves, OnlyMoves
    DEF FindBookmarkByMaterial
<1>12. ASSUME NEW r \in LibRequests, FindBookmarkByFolder(r) PROVE LibBase'
  <2>1. /\ lib[r].at = "shelved" /\ lib[r].who \in Members /\ lib[r].f # Nil
        /\ LibEnd(r) \/ LibGoto(r, "save")
    BY <1>12, <1>T DEF FindBookmarkByFolder, LibFits
  <2>2. lib[r].f \in Shelves
    BY <1>T, <2>1 DEF LibTypeOK, LibRequest
  <2>3. bookmarkTwice' \in SUBSET (Members \X (Items \union Shelves))
    BY <1>12, <2>1, <2>2, <1>Q DEF FindBookmarkByFolder
  <2>4. LibFits'
    BY <1>T, <2>1, LibEndMoves, LibGotoMoves DEF LibFits
  <2> QED
    BY <1>12, <1>T, <1>Q, <2>1, <2>3, <2>4, LibEndMoves, LibGotoMoves, OnlyMoves
    DEF FindBookmarkByFolder
<1>13. ASSUME NEW r \in LibRequests, SaveBookmark(r) PROVE LibBase'
  <2> DEFINE m == lib[r].m
             f == lib[r].f
             b == [id |-> nextId, user |-> lib[r].who, m |-> m, f |-> f]
  <2>1. lib[r].at = "save" /\ nextId <= MaxBookmarks /\ LibEnd(r)
        /\ UNCHANGED <<shelf, item, content, contentTwice, bookmarkTwice>>
    BY <1>13 DEF SaveBookmark
  <2>2. b \in BookmarkRow /\ (m # Nil \/ f # Nil)
    BY <1>T, <2>1, SavedRow
  <2>3. CASE (m = Nil \/ m \in item) /\ (f = Nil \/ There(f))
    <3>1. bookmark' = bookmark \union {b} /\ nextId' = nextId + 1
      BY <1>13, <2>3 DEF SaveBookmark
    <3>2. b.id = nextId /\ b.m = m /\ b.f = f
      OBVIOUS
    <3> HIDE DEF b, m, f
    <3>3. nextId' \in 1 .. MaxBookmarks + 1 /\ nextId \in Int
      BY <2>1, <3>1, <1>T, LibraryAssumption DEF LibTypeOK
    <3>4. \A c \in bookmark : c.id \in Int
      BY <1>T, LibraryAssumption DEF LibTypeOK, BookmarkRow
    <3>5. \A c \in bookmark' : /\ c.m = Nil \/ c.m \in item
                               /\ c.f = Nil \/ There(c.f)
                               /\ c.m # Nil \/ c.f # Nil
                               /\ c.id < nextId'
      BY <2>2, <2>3, <3>1, <3>2, <3>3, <3>4, <1>T DEF LibTypeOK
    <3>6. bookmark' \in SUBSET BookmarkRow
      BY <2>2, <3>1, <1>T DEF LibTypeOK
    <3>7. LibTypeOK'
      BY <2>1, <3>3, <3>5, <3>6, <1>T, LibEndMoves DEF LibTypeOK, There
    <3>8. LibFits'
      BY <1>T, <2>1, LibEndMoves DEF LibFits
    <3> QED BY <3>7, <3>8 DEF LibBase
  <2>4. CASE ~((m = Nil \/ m \in item) /\ (f = Nil \/ There(f)))
    BY <1>13, <1>T, <1>Q, <2>1, <2>4, LibEndMoves, OnlyMoves DEF SaveBookmark
  <2> QED BY <2>3, <2>4
<1>14. ASSUME NEW r \in LibRequests, NEW b \in bookmark, FindBookmarkById(r, b) PROVE LibBase'
  BY <1>14, <1>T, <1>Q, LibDropMoves, OnlyMoves DEF FindBookmarkById
<1>15. ASSUME NEW r \in LibRequests, RemoveBookmark(r) PROVE LibBase'
  <2>1. LibEnd(r) /\ bookmark' \subseteq bookmark
    BY <1>15 DEF RemoveBookmark
  <2>2. LibTypeOK'
    BY <1>15, <1>T, <2>1, LibEndMoves DEF RemoveBookmark, LibTypeOK, There
  <2>3. LibFits'
    BY <1>T, <2>1, LibEndMoves DEF LibFits
  <2> QED BY <2>2, <2>3 DEF LibBase
<1>16. ASSUME UNCHANGED libVars PROVE LibBase'
  BY <1>16, <1>T DEF libVars, LibBase, LibTypeOK, LibFits, There
<1> QED
  BY <1>1, <1>2, <1>3, <1>4, <1>5, <1>6, <1>7, <1>8, <1>9, <1>10, <1>11, <1>12, <1>13, <1>14,
     <1>15, <1>16, LibraryAssumption DEF LibNext

\* Every variable of the component keeps its type, and every row refers to a folder, a
\* material and a user that are still there (the cascading foreign keys of both tables).
THEOREM LibTypeCorrect == LibSpec => []LibTypeOK
<1>1. LibBase => LibTypeOK
  BY DEF LibBase
<1> QED BY <1>1, LibBaseInit, LibBaseStep, PTL DEF LibSpec

-----------------------------------------------------------------------------
(* Rows of a folder and a material *)

\* PairOnce of one pair.
PairHolds(f, m) ==
  /\ content[<<f, m>>] \in {0, 1}
  /\ \A r \in LibRequests : Inserting(r, f, m) =>
       /\ content[<<f, m>>] = 0
       /\ \A s \in LibRequests : Inserting(s, f, m) => s = r

\* A step that starts no insert and adds no row.
LEMMA PairKept ==
  ASSUME NEW f \in Shelves, NEW m \in Items, PairHolds(f, m),
         content'[<<f, m>>] \in {0, content[<<f, m>>]},
         \A r \in LibRequests : Inserting(r, f, m)' => Inserting(r, f, m)
  PROVE  PairHolds(f, m)'
BY DEF PairHolds

LEMMA PairStep == LibBase /\ LibBase' /\ PairOnce /\ [LibNext]_libVars => PairOnce'
<1> SUFFICES ASSUME LibBase, LibBase', PairOnce, [LibNext]_libVars,
                    NEW f \in Shelves, NEW m \in Items, <<f, m>> \notin contentTwice'
             PROVE  PairHolds(f, m)'
  BY DEF PairOnce, PairHolds
<1>T. LibTypeOK /\ LibFits /\ LibTypeOK'
  BY DEF LibBase
<1>C. content[<<f, m>>] \in Nat /\ content'[<<f, m>>] \in Nat
  BY <1>T DEF LibTypeOK
<1>P. <<f, m>> \notin contentTwice => PairHolds(f, m)
  BY DEF PairOnce, PairHolds
<1>I. ASSUME NEW r \in LibRequests, lib'[r].at # "insert",
             \A s \in LibRequests \ {r} : lib'[s] = lib[s]
      PROVE  \A s \in LibRequests : Inserting(s, f, m)' => s # r /\ Inserting(s, f, m)
  BY <1>I DEF Inserting
<1>1. ASSUME NEW g \in Shelves, NEW v \in {"public", "private"}, CreateFolder(g, v)
      PROVE  PairHolds(f, m)'
  BY <1>1, <1>P, PairKept DEF CreateFolder, Inserting
<1>2. ASSUME NEW n \in Items, DeleteItem(n) PROVE PairHolds(f, m)'
  <2>1. content'[<<f, m>>] \in {0, content[<<f, m>>]}
    BY <1>2, <1>T DEF DeleteItem, LibTypeOK
  <2> QED BY <1>2, <1>P, <2>1, PairKept DEF DeleteItem, Inserting
<1>3. ASSUME NEW r \in LibRequests, NEW g \in Shelves \union {Nil}, NEW n \in Items \union {Nil},
             NEW u \in Members \union {Nil},
             NEW at \in {"update", "remove", "look", "take", "bookmarked", "shelved"},
             LibStart(r, at, u, g, n), content' = content, contentTwice' = contentTwice
      PROVE  PairHolds(f, m)'
  <2>1. lib'[r].at # "insert" /\ \A s \in LibRequests \ {r} : lib'[s] = lib[s]
    BY <1>3, <1>T, LibStartMoves
  <2> QED BY <1>3, <1>P, <1>I, <2>1, PairKept
<1>4. ASSUME NEW r \in LibRequests, LibEnd(r), contentTwice' = contentTwice,
             content'[<<f, m>>] \in {0, content[<<f, m>>]}
      PROVE  PairHolds(f, m)'
  <2>1. lib'[r].at # "insert" /\ \A s \in LibRequests \ {r} : lib'[s] = lib[s]
    BY <1>4, <1>T, LibEndMoves
  <2> QED BY <1>4, <1>P, <1>I, <2>1, PairKept
<1>5. ASSUME NEW r \in LibRequests, RemoveFolder(r) PROVE PairHolds(f, m)'
  <2>1. content'[<<f, m>>] \in {0, content[<<f, m>>]}
    BY <1>5, <1>T DEF RemoveFolder, LibTypeOK
  <2> QED BY <1>5, <1>4, <2>1 DEF RemoveFolder
<1>6. ASSUME NEW r \in LibRequests, FindContentByMaterial(r) PROVE PairHolds(f, m)'
  <2>1. <<f, m>> \notin contentTwice /\ content' = content /\ lib[r].at = "look"
        /\ (lib[r].f = f /\ lib[r].m = m => AboutToInsert(r) = {})
    BY <1>6 DEF FindContentByMaterial
  <2>2. CASE content[<<lib[r].f, lib[r].m>>] > 0
    BY <1>6, <2>2, <1>P, <1>T, <2>1, LibEndMoves, <1>I, PairKept DEF FindContentByMaterial
  <2>3. CASE ~(content[<<lib[r].f, lib[r].m>>] > 0)
    <3>1. LibGoto(r, "insert")
      BY <1>6, <2>3 DEF FindContentByMaterial
    <3>2. /\ lib'[r].f = lib[r].f /\ lib'[r].m = lib[r].m
          /\ \A s \in LibRequests \ {r} : lib'[s] = lib[s]
      BY <1>T, <3>1, LibGotoMoves
    <3>3. CASE lib[r].f = f /\ lib[r].m = m
      <4>1. content[<<f, m>>] = 0
        BY <2>3, <3>3, <1>C
      <4>2. \A s \in LibRequests \ {r} : ~Inserting(s, f, m)
        BY <2>1, <3>3 DEF AboutToInsert, Inserting
      <4>3. \A s \in LibRequests : Inserting(s, f, m)' => s = r
        BY <3>2, <4>2 DEF Inserting
      <4> QED BY <2>1, <4>1, <4>3 DEF PairHolds
    <3>4. CASE ~(lib[r].f = f /\ lib[r].m = m)
      <4>1. \A s \in LibRequests : Inserting(s, f, m)' => Inserting(s, f, m)
        BY <3>2, <3>4 DEF Inserting
      <4> QED BY <4>1, <2>1, <1>P, PairKept
    <3> QED BY <3>3, <3>4
  <2> QED BY <2>2, <2>3
<1>7. ASSUME NEW r \in LibRequests, AddMaterial(r) PROVE PairHolds(f, m)'
  <2>1. /\ lib[r].at = "insert" /\ lib[r].f \in Shelves /\ lib[r].m \in Items
        /\ LibEnd(r) /\ contentTwice' = contentTwice
    BY <1>7, <1>T DEF AddMaterial, LibFits
  <2>2. CASE lib[r].f = f /\ lib[r].m = m
    <3>1. Inserting(r, f, m) /\ PairHolds(f, m)
      BY <2>1, <2>2, <1>P DEF Inserting
    <3>2. content[<<f, m>>] = 0 /\ \A s \in LibRequests : Inserting(s, f, m) => s = r
      BY <3>1 DEF PairHolds
    <3>3. content'[<<f, m>>] \in {0, 1}
      BY <1>7, <1>T, <2>2, <3>2 DEF AddMaterial, LibTypeOK
    <3>4. \A s \in LibRequests : ~Inserting(s, f, m)'
      BY <2>1, <1>T, LibEndMoves, <1>I, <3>2
    <3> QED BY <3>3, <3>4 DEF PairHolds
  <2>3. CASE ~(lib[r].f = f /\ lib[r].m = m)
    <3>1. content'[<<f, m>>] = content[<<f, m>>]
      BY <1>7, <1>T, <2>1, <2>3 DEF AddMaterial, LibTypeOK
    <3> QED BY <3>1, <2>1, <1>4
  <2> QED BY <2>2, <2>3
<1>8. ASSUME NEW r \in LibRequests, RemoveMaterial(r) PROVE PairHolds(f, m)'
  <2>1. lib[r].at = "take" /\ LibEnd(r)
        /\ content' = [content EXCEPT ![<<lib[r].f, lib[r].m>>] = 0]
    BY <1>8 DEF RemoveMaterial
  <2>2. lib'[r].at # "insert" /\ \A s \in LibRequests \ {r} : lib'[s] = lib[s]
    BY <2>1, <1>T, LibEndMoves
  <2>3. \A s \in LibRequests : Inserting(s, f, m)' => s # r /\ Inserting(s, f, m)
    BY <2>2, <1>I
  <2>4. CASE <<f, m>> \notin contentTwice
    <3>1. content'[<<f, m>>] \in {0, content[<<f, m>>]}
      BY <2>1, <1>T DEF LibTypeOK
    <3> QED BY <2>3, <2>4, <3>1, <1>P, PairKept
  \* The pair leaves the history: no row and no request about to insert one.
  <2>5. CASE <<f, m>> \in contentTwice
    <3>1. lib[r].f = f /\ lib[r].m = m /\ AboutToInsert(r) = {}
      BY <1>8, <2>5 DEF RemoveMaterial
    <3>2. content'[<<f, m>>] = 0
      BY <2>1, <3>1, <1>T DEF LibTypeOK
    <3>3. \A s \in LibRequests : ~Inserting(s, f, m)'
      BY <2>3, <3>1 DEF AboutToInsert, Inserting
    <3> QED BY <3>2, <3>3 DEF PairHolds
  <2> QED BY <2>4, <2>5
<1>9. ASSUME NEW r \in LibRequests, NEW at \in {"shelved", "save"}, LibGoto(r, at),
             content' = content, contentTwice' = contentTwice
      PROVE  PairHolds(f, m)'
  <2>1. lib'[r].at # "insert" /\ \A s \in LibRequests \ {r} : lib'[s] = lib[s]
    BY <1>9, <1>T, LibGotoMoves
  <2> QED BY <1>9, <1>P, <1>I, <2>1, PairKept
<1>10. ASSUME NEW r \in LibRequests, NEW b \in bookmark, FindBookmarkById(r, b)
       PROVE  PairHolds(f, m)'
  <2>1. lib'[r].at # "insert" /\ \A s \in LibRequests \ {r} : lib'[s] = lib[s]
    BY <1>10, <1>T, LibDropMoves
  <2> QED BY <1>10, <1>P, <1>I, <2>1, PairKept DEF FindBookmarkById
<1>11. ASSUME UNCHANGED libVars PROVE PairHolds(f, m)'
  BY <1>11, <1>P, PairKept DEF libVars, Inserting
<1> QED
  BY <1>1, <1>2, <1>3, <1>4, <1>5, <1>6, <1>7, <1>8, <1>9, <1>10, <1>11
  DEF LibNext, OwnerReads, UpdateFolder, AddMaterialToFolder, AddBookmark,
      FindBookmarkByMaterial, FindBookmarkByFolder, SaveBookmark, RemoveBookmark

\* A pair with one row at most is listed once at most.
LEMMA OneRowOneEntry ==
  ASSUME NEW f \in Shelves, NEW m \in Items, content[<<f, m>>] \in {0, 1}
  PROVE  \A c, d \in {e \in Opened(f) : e[1] = m} : c = d
<1> DEFINE Copies(k) == {<<k, n>> : n \in 1 .. content[<<f, k>>]}
<1>1. \A p : p \in Opened(f) <=> \E k \in Items : p \in Copies(k)
  BY DEF Opened
<1>2. \A k \in Items : \A p \in Copies(k) : p[1] = k
  OBVIOUS
<1>3. \A p \in Copies(m) : p = <<m, 1>>
  <2>1. CASE content[<<f, m>>] = 0
    <3>1. 1 .. content[<<f, m>>] = {}
      BY <2>1
    <3> QED BY <3>1
  <2>2. CASE content[<<f, m>>] = 1
    <3>1. 1 .. content[<<f, m>>] = {1}
      BY <2>2
    <3> QED BY <3>1
  <2> QED BY <2>1, <2>2
<1> HIDE DEF Copies
<1>4. ASSUME NEW e \in Opened(f), e[1] = m PROVE e = <<m, 1>>
  BY <1>1, <1>2, <1>3, <1>4
<1> QED BY <1>4

-----------------------------------------------------------------------------
(* Bookmarks of a user and a target *)

TargetHolds(u, target) ==
  /\ \A b, c \in Bookmarked(u, target) : b = c
  /\ \A r \in LibRequests : Past(r, u, target) =>
       /\ Bookmarked(u, target) = {}
       /\ \A s \in LibRequests : Past(s, u, target) => s = r

\* A step that lets no request past a look-up of the target and adds no bookmark of it.
LEMMA TargetKept ==
  ASSUME NEW u, NEW target, TargetHolds(u, target),
         Bookmarked(u, target)' \subseteq Bookmarked(u, target),
         \A r \in LibRequests : Past(r, u, target)' => Past(r, u, target)
  PROVE  TargetHolds(u, target)'
BY DEF TargetHolds

LEMMA FewerBookmarks ==
  ASSUME NEW u, NEW target, bookmark' \subseteq bookmark
  PROVE  Bookmarked(u, target)' \subseteq Bookmarked(u, target)
BY DEF Bookmarked, BookmarksOf

LEMMA TargetStep == LibBase /\ LibBase' /\ TargetOnce /\ [LibNext]_libVars => TargetOnce'
<1> SUFFICES ASSUME LibBase, LibBase', TargetOnce, [LibNext]_libVars,
                    NEW u \in Members, NEW target \in Items \union Shelves,
                    <<u, target>> \notin bookmarkTwice'
             PROVE  TargetHolds(u, target)'
  BY DEF TargetOnce, TargetHolds
<1>T. LibTypeOK /\ LibFits /\ LibTypeOK'
  BY DEF LibBase
<1>N. target # Nil
  BY LibraryAssumption
<1>P. <<u, target>> \notin bookmarkTwice => TargetHolds(u, target)
  BY DEF TargetOnce, TargetHolds
<1>I. ASSUME NEW r \in LibRequests, lib'[r].at \notin {"shelved", "save"},
             \A s \in LibRequests \ {r} : lib'[s] = lib[s]
      PROVE  \A s \in LibRequests : Past(s, u, target)' => s # r /\ Past(s, u, target)
  BY <1>I DEF Past
<1>1. ASSUME lib' = lib, bookmark' \subseteq bookmark, bookmarkTwice' = bookmarkTwice
      PROVE  TargetHolds(u, target)'
  BY <1>1, <1>P, TargetKept, FewerBookmarks DEF Past
<1>2. ASSUME NEW r \in LibRequests, lib'[r].at \notin {"shelved", "save"},
             \A s \in LibRequests \ {r} : lib'[s] = lib[s],
             bookmark' \subseteq bookmark, bookmarkTwice' = bookmarkTwice
      PROVE  TargetHolds(u, target)'
  <2>1. \A s \in LibRequests : Past(s, u, target)' => Past(s, u, target)
    BY <1>I, <1>2
  <2> QED BY <1>2, <1>P, <2>1, TargetKept, FewerBookmarks
<1>3. ASSUME NEW r \in LibRequests, NEW f \in Shelves \union {Nil}, NEW m \in Items \union {Nil},
             NEW v \in Members \union {Nil}, NEW at \in {"update", "remove", "look", "take", "bookmarked"},
             LibStart(r, at, v, f, m), bookmark' = bookmark, bookmarkTwice' = bookmarkTwice
      PROVE  TargetHolds(u, target)'
  <2>1. lib'[r].at = at /\ \A s \in LibRequests \ {r} : lib'[s] = lib[s]
    BY <1>3, <1>T, LibStartMoves
  <2> QED BY <1>2, <1>3, <2>1
<1>4. ASSUME NEW r \in LibRequests, LibEnd(r), bookmark' \subseteq bookmark,
             bookmarkTwice' = bookmarkTwice
      PROVE  TargetHolds(u, target)'
  BY <1>2, <1>4, <1>T, LibEndMoves
\* A request for a folder alone has looked nothing up yet.
<1>5. ASSUME NEW r \in LibRequests, NEW v \in Members, NEW f \in Shelves,
             LibStart(r, "shelved", v, f, Nil), bookmark' = bookmark, bookmarkTwice' = bookmarkTwice
      PROVE  TargetHolds(u, target)'
  <2>1. lib'[r].at = "shelved" /\ lib'[r].m = Nil /\ \A s \in LibRequests \ {r} : lib'[s] = lib[s]
    BY <1>5, <1>T, LibStartMoves
  <2>2. \A s \in LibRequests : Past(s, u, target)' => Past(s, u, target)
    BY <2>1, <1>N DEF Past
  <2> QED BY <1>5, <1>P, <2>2, TargetKept, FewerBookmarks
<1>6. ASSUME NEW r \in LibRequests, NEW v \in Members, NEW m \in Items \union {Nil},
             NEW f \in Shelves \union {Nil}, AddBookmark(r, v, m, f)
      PROVE  TargetHolds(u, target)'
  BY <1>3, <1>5, <1>6 DEF AddBookmark
<1>7. ASSUME NEW r \in LibRequests, FindContentByMaterial(r) PROVE TargetHolds(u, target)'
  <2>1. LibEnd(r) \/ LibGoto(r, "insert")
    BY <1>7 DEF FindContentByMaterial
  <2>2. lib'[r].at \notin {"shelved", "save"} /\ \A s \in LibRequests \ {r} : lib'[s] = lib[s]
    BY <2>1, <1>T, LibEndMoves, LibGotoMoves
  <2> QED BY <1>2, <1>7, <2>2 DEF FindContentByMaterial
<1>8. ASSUME NEW r \in LibRequests, FindBookmarkByMaterial(r) PROVE TargetHolds(u, target)'
  <2> DEFINE found == \E b \in BookmarksOf(lib[r].who) : b.m = lib[r].m
             next == IF lib[r].f # Nil THEN "shelved" ELSE "save"
  <2>1. /\ <<u, target>> \notin bookmarkTwice /\ bookmark' = bookmark
        /\ lib[r].at = "bookmarked" /\ lib[r].m # Nil
        /\ IF found THEN LibEnd(r) ELSE LibGoto(r, next)
        /\ lib[r].who = u /\ lib[r].m = target => Ahead(r, {"shelved", "save"}, lib[r].m, Nil) = {}
    BY <1>8, <1>T DEF FindBookmarkByMaterial, LibFits
  <2>2. CASE found
    <3>1. lib'[r].at = "idle" /\ \A s \in LibRequests \ {r} : lib'[s] = lib[s]
      BY <2>1, <2>2, <1>T, LibEndMoves
    <3>2. \A s \in LibRequests : Past(s, u, target)' => Past(s, u, target)
      BY <1>I, <3>1
    <3> QED BY <2>1, <3>2, <1>P, TargetKept, FewerBookmarks
  <2>3. CASE ~found
    <3>1. LibGoto(r, next) /\ next \in {"shelved", "save"}
      BY <2>1, <2>3
    <3>2. /\ lib'[r].at = next /\ lib'[r].who = lib[r].who
          /\ lib'[r].f = lib[r].f /\ lib'[r].m = lib[r].m
          /\ \A s \in LibRequests \ {r} : lib'[s] = lib[s]
      BY <1>T, <3>1, LibGotoMoves
    <3>3. CASE lib[r].who = u /\ lib[r].m = target
      <4>1. Bookmarked(u, target) = {}
        <5>1. ASSUME NEW b \in Bookmarked(u, target) PROVE FALSE
          <6>1. b \in BookmarksOf(u) /\ b \in bookmark /\ (b.m = target \/ b.f = target)
            BY <5>1 DEF Bookmarked, BookmarksOf
          <6>2. b.m # target
            BY <6>1, <2>3, <3>3
          <6>3. b.f \in Shelves \union {Nil} /\ target \in Items
            BY <6>1, <3>3, <2>1, <1>T DEF LibTypeOK, BookmarkRow, LibRequest
          <6> QED BY <6>1, <6>2, <6>3, LibraryAssumption
        <5> QED BY <5>1
      <4>2. \A s \in LibRequests \ {r} : ~Past(s, u, target)
        <5>1. ASSUME NEW s \in LibRequests \ {r}, Past(s, u, target) PROVE FALSE
          <6>1. lib[s].at \in {"shelved", "save"} /\ lib[s].who = u /\ lib[s].m # target
                /\ lib[s].f = target
            BY <5>1, <2>1, <3>3 DEF Past, Ahead
          <6>2. lib[s].f \in Shelves \union {Nil} /\ target \in Items
            BY <3>3, <2>1, <1>T DEF LibTypeOK, LibRequest
          <6> QED BY <6>1, <6>2, LibraryAssumption
        <5> QED BY <5>1
      <4>3. \A s \in LibRequests : Past(s, u, target)' => s = r
        BY <3>2, <4>2 DEF Past
      <4>4. Bookmarked(u, target)' = {}
        BY <4>1, <2>1, FewerBookmarks
      <4> QED BY <4>3, <4>4 DEF TargetHolds
    <3>4. CASE ~(lib[r].who = u /\ lib[r].m = target)
      <4>1. CASE next = "shelved" \/ lib[r].f # target
        <5>1. \A s \in LibRequests : Past(s, u, target)' => Past(s, u, target)
          BY <3>2, <3>4, <4>1 DEF Past
        <5> QED BY <2>1, <5>1, <1>P, TargetKept, FewerBookmarks
      <4>2. CASE ~(next = "shelved" \/ lib[r].f # target)
        BY <4>2, <1>N
      <4> QED BY <4>1, <4>2
    <3> QED BY <3>3, <3>4
  <2> QED BY <2>2, <2>3
<1>9. ASSUME NEW r \in LibRequests, FindBookmarkByFolder(r) PROVE TargetHolds(u, target)'
  <2> DEFINE found == \E b \in BookmarksOf(lib[r].who) : b.f = lib[r].f
  <2>1. /\ <<u, target>> \notin bookmarkTwice /\ bookmark' = bookmark
        /\ lib[r].at = "shelved" /\ lib[r].f # Nil
        /\ IF found THEN LibEnd(r) ELSE LibGoto(r, "save")
        /\ lib[r].who = u /\ lib[r].f = target => Ahead(r, {"save"}, Nil, lib[r].f) = {}
    BY <1>9, <1>T DEF FindBookmarkByFolder, LibFits
  <2>2. CASE found
    <3>1. lib'[r].at = "idle" /\ \A s \in LibRequests \ {r} : lib'[s] = lib[s]
      BY <2>1, <2>2, <1>T, LibEndMoves
    <3>2. \A s \in LibRequests : Past(s, u, target)' => Past(s, u, target)
      BY <1>I, <3>1
    <3> QED BY <2>1, <3>2, <1>P, TargetKept, FewerBookmarks
  <2>3. CASE ~found
    <3>1. LibGoto(r, "save")
      BY <2>1, <2>3
    <3>2. /\ lib'[r].at = "save" /\ lib'[r].who = lib[r].who
          /\ lib'[r].f = lib[r].f /\ lib'[r].m = lib[r].m
          /\ \A s \in LibRequests \ {r} : lib'[s] = lib[s]
      BY <1>T, <3>1, LibGotoMoves
    <3>3. CASE lib[r].who = u /\ lib[r].f = target
      <4>1. Bookmarked(u, target) = {}
        <5>1. ASSUME NEW b \in Bookmarked(u, target) PROVE FALSE
          <6>1. b \in BookmarksOf(u) /\ b \in bookmark /\ (b.m = target \/ b.f = target)
            BY <5>1 DEF Bookmarked, BookmarksOf
          <6>2. b.f # target
            BY <6>1, <2>3, <3>3
          <6>3. b.m \in Items \union {Nil} /\ target \in Shelves
            BY <6>1, <3>3, <2>1, <1>T DEF LibTypeOK, BookmarkRow, LibRequest
          <6> QED BY <6>1, <6>2, <6>3, LibraryAssumption
        <5> QED BY <5>1
      <4>2. \A s \in LibRequests \ {r} : ~Past(s, u, target)
        <5>1. ASSUME NEW s \in LibRequests \ {r}, Past(s, u, target) PROVE FALSE
          <6>1. lib[s].who = u /\ lib[s].m = target
            BY <5>1, <2>1, <3>3 DEF Past, Ahead
          <6>2. lib[s].m \in Items \union {Nil} /\ target \in Shelves
            BY <3>3, <2>1, <1>T DEF LibTypeOK, LibRequest
          <6> QED BY <6>1, <6>2, LibraryAssumption
        <5> QED BY <5>1
      <4>3. \A s \in LibRequests : Past(s, u, target)' => s = r
        BY <3>2, <4>2 DEF Past
      <4>4. Bookmarked(u, target)' = {}
        BY <4>1, <2>1, FewerBookmarks
      <4> QED BY <4>3, <4>4 DEF TargetHolds
    <3>4. CASE ~(lib[r].who = u /\ lib[r].f = target)
      <4>1. \A s \in LibRequests : Past(s, u, target)' => Past(s, u, target)
        BY <2>1, <3>2, <3>4 DEF Past
      <4> QED BY <2>1, <4>1, <1>P, TargetKept, FewerBookmarks
    <3> QED BY <3>3, <3>4
  <2> QED BY <2>2, <2>3
<1>10. ASSUME NEW r \in LibRequests, SaveBookmark(r) PROVE TargetHolds(u, target)'
  <2> DEFINE b == [id |-> nextId, user |-> lib[r].who, m |-> lib[r].m, f |-> lib[r].f]
  <2>1. /\ lib[r].at = "save" /\ LibEnd(r) /\ bookmarkTwice' = bookmarkTwice
        /\ bookmark' = bookmark \/ bookmark' = bookmark \union {b}
    BY <1>10 DEF SaveBookmark
  <2>2. CASE Past(r, u, target)
    <3>1. /\ Bookmarked(u, target) = {}
          /\ \A s \in LibRequests : Past(s, u, target) => s = r
      BY <2>1, <2>2, <1>P DEF TargetHolds
    <3>2. Bookmarked(u, target)' \subseteq {b}
      BY <2>1, <3>1 DEF Bookmarked, BookmarksOf
    <3>3. \A s \in LibRequests : ~Past(s, u, target)'
      BY <2>1, <1>T, <3>1, <1>I, LibEndMoves
    <3> QED BY <3>2, <3>3 DEF TargetHolds
  <2>3. CASE ~Past(r, u, target)
    <3>1. ~(b.user = u /\ (b.m = target \/ b.f = target))
      BY <2>1, <2>3 DEF Past
    <3> HIDE DEF b
    <3>2. Bookmarked(u, target)' \subseteq Bookmarked(u, target)
      BY <2>1, <3>1 DEF Bookmarked, BookmarksOf
    <3>3. \A s \in LibRequests : Past(s, u, target)' => Past(s, u, target)
      BY <2>1, <1>T, <1>I, LibEndMoves
    <3> QED BY <2>1, <3>2, <3>3, <1>P, TargetKept
  <2> QED BY <2>2, <2>3
<1>11. ASSUME NEW r \in LibRequests, NEW b \in bookmark, FindBookmarkById(r, b)
       PROVE  TargetHolds(u, target)'
  BY <1>2, <1>11, <1>T, LibDropMoves DEF FindBookmarkById
<1>12. ASSUME NEW r \in LibRequests, RemoveFolder(r) \/ RemoveBookmark(r)
       PROVE  TargetHolds(u, target)'
  <2>1. LibEnd(r) /\ bookmark' \subseteq bookmark /\ bookmarkTwice' = bookmarkTwice
    BY <1>12 DEF RemoveFolder, RemoveBookmark
  <2> QED BY <1>4, <2>1
<1>13. ASSUME NEW m \in Items, DeleteItem(m) PROVE TargetHolds(u, target)'
  <2>1. lib' = lib /\ bookmark' \subseteq bookmark /\ bookmarkTwice' = bookmarkTwice
    BY <1>13 DEF DeleteItem
  <2> QED BY <1>1, <2>1
<1>14. ASSUME UNCHANGED libVars PROVE TargetHolds(u, target)'
  BY <1>14, <1>1 DEF libVars
<1> QED
  BY <1>1, <1>3, <1>4, <1>6, <1>7, <1>8, <1>9, <1>10, <1>11, <1>12, <1>13, <1>14
  DEF LibNext, CreateFolder, OwnerReads, UpdateFolder, AddMaterialToFolder, AddMaterial,
      RemoveMaterial

\* A set all of whose elements are equal has one at most.
LEMMA AtMostOne ==
  ASSUME NEW S, \A b, c \in S : b = c PROVE Cardinality(S) <= 1
<1>1. CASE S = {}
  BY <1>1, FS_EmptySet
<1>2. ASSUME NEW b \in S PROVE Cardinality(S) <= 1
  <2>1. S = {b}
    OBVIOUS
  <2> QED BY <2>1, FS_Singleton
<1> QED BY <1>1, <1>2

-----------------------------------------------------------------------------

LEMMA LibIInvHolds == LibSpec => []LibIInv
<1>1. LibInit => LibIInv
  <2> SUFFICES ASSUME LibInit PROVE LibIInv
    OBVIOUS
  <2>1. LibBase
    BY LibBaseInit
  <2>2. PairOnce
    BY LibIdleFits DEF LibInit, PairOnce, Inserting
  <2>3. TargetOnce
    BY LibIdleFits DEF LibInit, TargetOnce, Past, Bookmarked, BookmarksOf
  <2> QED BY <2>1, <2>2, <2>3 DEF LibBase, LibIInv
<1>2. LibIInv /\ [LibNext]_libVars => LibIInv'
  BY LibBaseStep, PairStep, TargetStep DEF LibIInv, LibBase
<1> QED BY <1>1, <1>2, PTL DEF LibSpec

\* A folder lists a material once, and counts it once, unless two additions of it
\* overlapped and no removal came since: no unique key keeps the rows apart, and the
\* look-up of an addition and its insert are two awaits.
THEOREM ListedOnceHolds == LibSpec => []ListedOnce
<1>1. LibIInv => ListedOnce
  <2> SUFFICES ASSUME LibIInv, NEW f \in Shelves, NEW m \in Items, <<f, m>> \notin contentTwice
               PROVE  Cardinality({e \in Opened(f) : e[1] = m}) <= 1
    BY DEF ListedOnce
  <2>1. content[<<f, m>>] \in {0, 1}
    BY DEF LibIInv, PairOnce
  <2>2. \A c, d \in {e \in Opened(f) : e[1] = m} : c = d
    BY <2>1, OneRowOneEntry
  <2> QED BY <2>2, AtMostOne
<1> QED BY <1>1, LibIInvHolds, PTL

\* A user has at most one bookmark of a material or folder unless two requests
\* for it overlapped, also when a request names a material and a folder at once:
\* what one look-up found is still true after the other.
THEOREM OneBookmarkHolds == LibSpec => []OneBookmark
<1>1. LibIInv => OneBookmark
  BY AtMostOne DEF LibIInv, TargetOnce, OneBookmark
<1> QED BY <1>1, LibIInvHolds, PTL

-----------------------------------------------------------------------------
(*****************************************************************************)
(* Recent views.  A list is bounded by the trimming and the room of the      *)
(* views that have yet to write (RoomIsLeft); while views follow one another *)
(* it is the beginning of all that was viewed (OneByOne).  Lemmas on what    *)
(* is left of a sequence come first.                                         *)
(*****************************************************************************)

\* What a view under way names and keeps.
ViewFits ==
  \A r \in ViewRequests : LET v == view[r] IN
    /\ v.at = "idle" => v = NoView
    /\ Cardinality(v.ids) <= Size[r]
    /\ Cardinality(v.keep) <= Limit - 1

\* The room of the views that have not written since they saw that there was room.
Writing(r) == view[r].at \in {"upsert", "clear", "insert"}
RoomTaken == {p \in RoomNamed : ~Writing(p[1])}
RoomIsLeft == Len(recents) <= Limit - 1 + Cardinality(RoomTaken)

\* While views are tracked one after another the list is the beginning of the history,
\* but for what a batch deletes to insert it again.
Begins(s, t) == Len(s) <= Len(t) /\ \A i \in 1 .. Len(s) : s[i] = t[i]
LongEnough(n) == n = Len(shown) \/ n >= Limit - 1
Latest == Begins(recents, shown) /\ LongEnough(Len(recents))
NotTooLong == Len(recents) < Limit \/ \E r \in ViewRequests : Len(recents) <= Limit - 1 + Size[r]

OneByOne ==
  ~crossed =>
    /\ \A r, s \in ViewRequests : view[r].at # "idle" /\ view[s].at # "idle" => r = s
    /\ (\A r \in ViewRequests : ~Writing(r)) => Latest /\ NotTooLong
    /\ \A r \in ViewRequests : LET v == view[r] IN
         /\ v.at \in {"choose", "trim"} => Len(recents) >= Limit
         /\ v.at = "trim" => v.keep = {recents[i] : i \in 1 .. Limit - 1}
         /\ v.at \in {"upsert", "clear"} => Latest /\ Len(recents) < Limit
         /\ v.at = "insert" =>
              \E n \in 0 .. Len(shown) :
                n < Limit /\ LongEnough(n) /\ recents = Without(SubSeq(shown, 1, n), v.ids)

ViewIInv == ViewsTypeOK /\ ViewFits /\ RoomIsLeft /\ OneByOne

-----------------------------------------------------------------------------
(* Sequences, and what is left of them *)

LEMMA ElementsAre ==
  ASSUME NEW V, NEW s \in Seq(V)
  PROVE  /\ DOMAIN s = 1 .. Len(s) /\ Len(s) \in Nat /\ \A i \in 1 .. Len(s) : s[i] \in V
         /\ IsInjective(s) <=> \A i, j \in 1 .. Len(s) : s[i] = s[j] => i = j
         /\ \A x : x \in ToSet(s) <=> \E i \in 1 .. Len(s) : s[i] = x
<1>1. DOMAIN s = 1 .. Len(s) /\ Len(s) \in Nat /\ \A i \in 1 .. Len(s) : s[i] \in V
  BY LenProperties, ElementOfSeq
<1>2. IsInjective(s) <=> \A i, j \in 1 .. Len(s) : s[i] = s[j] => i = j
  BY <1>1 DEF IsInjective
<1>3. \A x : x \in ToSet(s) <=> \E i \in 1 .. Len(s) : s[i] = x
  BY <1>1 DEF ToSet
<1> QED BY <1>1, <1>2, <1>3

LEMMA OneToOne ==
  ASSUME NEW A, NEW B, NEW f \in [A -> B], \A a, b \in A : f[a] = f[b] => a = b, IsFiniteSet(B)
  PROVE  /\ f \in Injection(A, B) /\ IsFiniteSet(A) /\ Cardinality(A) <= Cardinality(B)
<1>1. DOMAIN f = A
  OBVIOUS
<1>2. IsInjective(f)
  BY <1>1 DEF IsInjective
<1>3. f \in Injection(A, B)
  BY <1>2, Zenon DEF Injection
<1>4. IsFiniteSet(A) /\ Cardinality(A) <= Cardinality(B)
  BY <1>3, FS_Injection
<1> QED BY <1>3, <1>4

LEMMA IntervalIs ==
  ASSUME NEW n \in Nat
  PROVE  IsFiniteSet(1 .. n) /\ Cardinality(1 .. n) = n
<1>1. 1 \in Int /\ n \in Int
  OBVIOUS
<1>2. IsFiniteSet(1 .. n) /\ Cardinality(1 .. n) = IF 1 > n THEN 0 ELSE n - 1 + 1
  BY <1>1, FS_Interval
<1> QED BY <1>2

\* The ranks of a set of places number it from 1 on.
LEMMA RanksAre ==
  ASSUME NEW n \in Nat, NEW I, I \subseteq 1 .. n
  PROVE  /\ IsFiniteSet(I) /\ Cardinality(I) \in Nat /\ Cardinality(I) <= n
         /\ \A i \in I : Rank(I, i) \in 1 .. Cardinality(I) /\ Nth(I, Rank(I, i)) = i
         /\ \A j \in 1 .. Cardinality(I) : Nth(I, j) \in I /\ Rank(I, Nth(I, j)) = j
         /\ \A i, j \in I : i < j <=> Rank(I, i) < Rank(I, j)
<1>1. IsFiniteSet(1 .. n) /\ Cardinality(1 .. n) = n
  BY IntervalIs
<1>2. IsFiniteSet(I) /\ Cardinality(I) <= n /\ Cardinality(I) \in Nat
  BY <1>1, FS_Subset, FS_CardinalityType
<1> DEFINE c == Cardinality(I)
           upto(i) == {k \in I : k <= i}
<1>3. \A i : IsFiniteSet(upto(i)) /\ Cardinality(upto(i)) \in Nat /\ Cardinality(upto(i)) <= c
  <2> SUFFICES ASSUME NEW i PROVE IsFiniteSet(upto(i)) /\ Cardinality(upto(i)) \in Nat /\ Cardinality(upto(i)) <= c
    OBVIOUS
  <2>1. upto(i) \subseteq I
    OBVIOUS
  <2> HIDE DEF upto
  <2> QED BY <1>2, <2>1, FS_Subset, FS_CardinalityType
<1>4. \A i \in I : Rank(I, i) \in 1 .. c
  <2> SUFFICES ASSUME NEW i \in I PROVE Rank(I, i) \in 1 .. c
    OBVIOUS
  <2>1. upto(i) # {}
    BY <1>1
  <2>2. Cardinality(upto(i)) # 0
    BY <1>3, <2>1, FS_EmptySet
  <2>3. Rank(I, i) = Cardinality(upto(i))
    BY DEF Rank
  <2> HIDE DEF upto, c
  <2>4. Cardinality(upto(i)) \in Nat /\ Cardinality(upto(i)) <= c
    BY <1>3
  <2>5. c \in Nat
    BY <1>2 DEF c
  <2> QED BY <2>2, <2>3, <2>4, <2>5
<1>5. ASSUME NEW i \in I, NEW j \in I, i < j PROVE Rank(I, i) < Rank(I, j)
  <2>1. upto(i) \subseteq upto(j) /\ j \in upto(j) /\ j \notin upto(i)
    <3>1. i \in Int /\ j \in Int /\ \A k \in I : k \in Int
      OBVIOUS
    <3>2. \A k \in I : k <= i => k <= j
      BY <1>5, <3>1
    <3>3. j <= j /\ ~(j <= i)
      BY <1>5, <3>1
    <3> QED BY <3>2, <3>3
  <2>2. upto(i) # upto(j)
    BY <2>1
  <2> HIDE DEF upto
  <2>3. Cardinality(upto(i)) <= Cardinality(upto(j)) /\ Cardinality(upto(i)) # Cardinality(upto(j))
    BY <1>3, <2>1, <2>2, FS_Subset
  <2>4. Rank(I, i) = Cardinality(upto(i)) /\ Rank(I, j) = Cardinality(upto(j))
    BY DEF Rank, upto
  <2> QED BY <1>3, <2>3, <2>4
<1>6. \A i, j \in I : i < j <=> Rank(I, i) < Rank(I, j)
  <2> SUFFICES ASSUME NEW i \in I, NEW j \in I, ~(i < j) PROVE ~(Rank(I, i) < Rank(I, j))
    BY <1>5
  <2>1. i = j \/ j < i
    OBVIOUS
  <2>2. Rank(I, i) \in Nat /\ Rank(I, j) \in Nat
    BY <1>4, <1>2
  <2> QED BY <1>5, <2>1, <2>2
<1>7. \A i, j \in I : Rank(I, i) = Rank(I, j) => i = j
  <2> SUFFICES ASSUME NEW i \in I, NEW j \in I, i # j PROVE Rank(I, i) # Rank(I, j)
    OBVIOUS
  <2>1. i < j \/ j < i
    OBVIOUS
  <2>2. Rank(I, i) \in Nat /\ Rank(I, j) \in Nat
    BY <1>4, <1>2
  <2> QED BY <1>5, <2>1, <2>2
<1> HIDE DEF upto, c
<1>8. \A j \in 1 .. c : \E i \in I : Rank(I, i) = j
  <2> DEFINE f == [i \in I |-> Rank(I, i)]
  <2>1. f \in [I -> 1 .. c] /\ \A i \in I : f[i] = Rank(I, i)
    BY <1>4
  <2> HIDE DEF f
  <2>2. \A i, j \in I : f[i] = f[j] => i = j
    BY <1>7, <2>1
  <2>4. c \in Nat /\ c = Cardinality(I)
    BY <1>2 DEF c
  <2>5. IsFiniteSet(1 .. c) /\ Cardinality(1 .. c) = c
    BY <2>4, IntervalIs
  <2>7. \A j \in 1 .. c : \E i \in I : f[i] = j
    <3>1. Cardinality(I) = Cardinality(1 .. c)
      BY <2>4, <2>5
    <3>2. f \in [I -> 1 .. c]
      BY <2>1
    <3>3. f \in Injection(I, 1 .. c)
      BY <2>2, <2>5, <3>2, OneToOne
    <3>4. f \in Surjection(I, 1 .. c)
      BY <2>5, <3>1, <3>3, FS_Injection
    <3> QED BY <3>4, Zenon DEF Surjection
  <2> QED BY <2>1, <2>7
<1>9. ASSUME NEW j \in 1 .. c PROVE Nth(I, j) \in I /\ Rank(I, Nth(I, j)) = j
  <2>1. \E i \in I : Rank(I, i) = j
    BY <1>8, <1>9
  <2> QED BY <2>1, Zenon DEF Nth
<1>10. ASSUME NEW i \in I PROVE Nth(I, Rank(I, i)) = i
  BY <1>4, <1>7, <1>9, <1>10
<1> QED BY <1>2, <1>4, <1>6, <1>9, <1>10 DEF c

\* The rest of a sequence, row by row.
LEMMA WithoutIs ==
  ASSUME NEW V, NEW s \in Seq(V), NEW S
  PROVE  /\ Left(s, S) = {i \in 1 .. Len(s) : s[i] \notin S}
         /\ Without(s, S) \in Seq(V) /\ Len(Without(s, S)) = Cardinality(Left(s, S))
         /\ Len(Without(s, S)) \in Nat /\ Len(Without(s, S)) <= Len(s)
         /\ \A i \in Left(s, S) : /\ Rank(Left(s, S), i) \in 1 .. Len(Without(s, S))
                                  /\ Without(s, S)[Rank(Left(s, S), i)] = s[i]
         /\ \A j \in 1 .. Len(Without(s, S)) :
              Nth(Left(s, S), j) \in Left(s, S) /\ Without(s, S)[j] = s[Nth(Left(s, S), j)]
<1> DEFINE I == Left(s, S)
           t == Without(s, S)
<1>1. I = {i \in 1 .. Len(s) : s[i] \notin S} /\ Len(s) \in Nat /\ \A i \in 1 .. Len(s) : s[i] \in V
  BY ElementsAre DEF Left
<1>2. t = [j \in 1 .. Cardinality(I) |-> s[Nth(I, j)]]
  BY DEF Without
<1> HIDE DEF I, t
<1>3. I \subseteq 1 .. Len(s)
  BY <1>1
<1>4. /\ Cardinality(I) \in Nat /\ Cardinality(I) <= Len(s)
      /\ \A i \in I : Rank(I, i) \in 1 .. Cardinality(I) /\ Nth(I, Rank(I, i)) = i
      /\ \A j \in 1 .. Cardinality(I) : Nth(I, j) \in I
  BY <1>1, <1>3, RanksAre
<1>5. \A j \in 1 .. Cardinality(I) : s[Nth(I, j)] \in V
  BY <1>1, <1>3, <1>4
<1>6. t \in Seq(V) /\ Len(t) = Cardinality(I)
  BY <1>2, <1>4, <1>5
<1>7. \A j \in 1 .. Cardinality(I) : t[j] = s[Nth(I, j)]
  BY <1>2
<1> QED BY <1>1, <1>4, <1>6, <1>7 DEF I, t

LEMMA WithoutElements ==
  ASSUME NEW V, NEW s \in Seq(V), NEW S
  PROVE  /\ \A x : x \in ToSet(Without(s, S)) <=> x \in ToSet(s) /\ x \notin S
         /\ IsInjective(s) => IsInjective(Without(s, S))
<1> DEFINE I == Left(s, S)
           t == Without(s, S)
<1>1. /\ I = {i \in 1 .. Len(s) : s[i] \notin S} /\ t \in Seq(V) /\ Len(t) = Cardinality(I)
      /\ \A i \in I : Rank(I, i) \in 1 .. Len(t) /\ t[Rank(I, i)] = s[i]
      /\ \A j \in 1 .. Len(t) : Nth(I, j) \in I /\ t[j] = s[Nth(I, j)]
  BY WithoutIs
<1> HIDE DEF I, t
<1>2. Len(s) \in Nat /\ I \subseteq 1 .. Len(s)
  BY <1>1, ElementsAre
<1>3. ASSUME NEW x PROVE x \in ToSet(t) <=> x \in ToSet(s) /\ x \notin S
  <2>1. x \in ToSet(t) <=> \E j \in 1 .. Len(t) : t[j] = x
    <3>1. t \in Seq(V)
      BY <1>1
    <3> QED BY <3>1, ElementsAre
  <2>2. x \in ToSet(s) <=> \E i \in 1 .. Len(s) : s[i] = x
    BY ElementsAre
  <2> QED BY <1>1, <2>1, <2>2
<1>4. ASSUME IsInjective(s) PROVE IsInjective(t)
  <2>1. ASSUME NEW j \in 1 .. Len(t), NEW k \in 1 .. Len(t), t[j] = t[k] PROVE j = k
    <3>1. Nth(I, j) = Nth(I, k)
      BY <1>1, <1>2, <1>4, <2>1, ElementsAre
    <3>2. Rank(I, Nth(I, j)) = j /\ Rank(I, Nth(I, k)) = k
      BY <1>1, <1>2, RanksAre
    <3> QED BY <3>1, <3>2
  <2> QED BY <1>1, <2>1, ElementsAre
<1> QED BY <1>3, <1>4 DEF t

\* Of a list without duplicates no more rows go than S has,
LEMMA FewAreTaken ==
  ASSUME NEW V, NEW s \in Seq(V), IsInjective(s), NEW S, IsFiniteSet(S)
  PROVE  Len(s) <= Len(Without(s, S)) + Cardinality(S)
<1> DEFINE D == 1 .. Len(s)
           I == Left(s, S)
           G == D \ I
<1>1. I = {i \in D : s[i] \notin S} /\ Len(Without(s, S)) = Cardinality(I) /\ Len(s) \in Nat
  BY WithoutIs, ElementsAre
<1>2. IsFiniteSet(D) /\ Cardinality(D) = Len(s)
  BY <1>1, IntervalIs
<1>3. \A i, j \in D : s[i] = s[j] => i = j
  BY ElementsAre
<1> HIDE DEF D, I
<1>4. IsFiniteSet(G) /\ Cardinality(G) = Cardinality(D) - Cardinality(D \cap I)
  BY <1>2, FS_Difference
<1>5. D \cap I = I
  BY <1>1
<1>6. Cardinality(G) <= Cardinality(S)
  <2> DEFINE f == [i \in G |-> s[i]]
  <2>1. f \in [G -> S] /\ \A i, j \in G : f[i] = f[j] => i = j
    BY <1>1, <1>3
  <2> HIDE DEF f, G
  <2> QED BY <2>1, OneToOne
<1>7. Cardinality(S) \in Nat /\ Cardinality(I) \in Nat
  <2>1. IsFiniteSet(I)
    BY <1>1, <1>2, FS_Subset
  <2> QED BY <2>1, FS_CardinalityType
<1> HIDE DEF G
<1>8. Cardinality(G) = Len(s) - Cardinality(I)
  BY <1>2, <1>4, <1>5
<1> QED BY <1>1, <1>6, <1>7, <1>8

\* and no more stay than those that are kept.
LEMMA FewAreKept ==
  ASSUME NEW V, NEW s \in Seq(V), IsInjective(s), NEW K, IsFiniteSet(K)
  PROVE  Len(Without(s, ToSet(s) \ K)) <= Cardinality(K)
<1> DEFINE I == Left(s, ToSet(s) \ K)
<1>1. I = {i \in 1 .. Len(s) : s[i] \notin ToSet(s) \ K} /\ Len(Without(s, ToSet(s) \ K)) = Cardinality(I)
  BY WithoutIs
<1>2. \A i \in I : s[i] \in K /\ i \in 1 .. Len(s)
  BY <1>1, ElementsAre
<1>3. \A i, j \in I : s[i] = s[j] => i = j
  BY <1>2, ElementsAre
<1> DEFINE f == [i \in I |-> s[i]]
<1> HIDE DEF I
<1>4. f \in [I -> K] /\ \A i, j \in I : f[i] = f[j] => i = j
  BY <1>2, <1>3
<1> HIDE DEF f
<1>6. Cardinality(I) <= Cardinality(K)
  BY <1>4, OneToOne
<1> QED BY <1>1, <1>6

\* When what is left is the front of a list, the rest is that front.
LEMMA FrontIsLeft ==
  ASSUME NEW V, NEW s \in Seq(V), NEW S, NEW n \in 0 .. Len(s), Left(s, S) = 1 .. n
  PROVE  Len(Without(s, S)) = n /\ \A i \in 1 .. n : Without(s, S)[i] = s[i]
<1>1. n \in Nat
  BY ElementsAre
<1>2. Len(Without(s, S)) = n
  BY <1>1, WithoutIs, IntervalIs
<1>3. ASSUME NEW i \in 1 .. n PROVE Rank(1 .. n, i) = i
  <2>1. {k \in 1 .. n : k <= i} = 1 .. i /\ i \in Nat
    BY <1>1
  <2> QED BY <2>1, IntervalIs DEF Rank
<1> QED BY <1>2, <1>3, WithoutIs

LEMMA NothingIsTaken ==
  ASSUME NEW V, NEW s \in Seq(V), NEW S, \A x \in S : x \notin ToSet(s)
  PROVE  Without(s, S) = s
<1>1. Len(s) \in Nat /\ Left(s, S) = 1 .. Len(s)
  <2>1. Len(s) \in Nat /\ Left(s, S) = {i \in 1 .. Len(s) : s[i] \notin S}
    BY WithoutIs, ElementsAre
  <2>2. \A i \in 1 .. Len(s) : s[i] \in ToSet(s)
    BY ElementsAre
  <2> QED BY <2>1, <2>2
<1>2. /\ Len(Without(s, S)) = Len(s) /\ \A i \in 1 .. Len(s) : Without(s, S)[i] = s[i]
      /\ Without(s, S) \in Seq(V)
  BY <1>1, FrontIsLeft, WithoutIs
<1> QED BY <1>2, SeqEqual

\* Keeping the front of a list without duplicates.
LEMMA FrontIsKept ==
  ASSUME NEW V, NEW s \in Seq(V), IsInjective(s), NEW n \in 0 .. Len(s)
  PROVE  /\ Len(Without(s, ToSet(s) \ {s[k] : k \in 1 .. n})) = n
         /\ \A i \in 1 .. n : Without(s, ToSet(s) \ {s[k] : k \in 1 .. n})[i] = s[i]
<1> DEFINE S == ToSet(s) \ {s[k] : k \in 1 .. n}
<1> HIDE DEF S
<1>1. Left(s, S) = {i \in 1 .. Len(s) : s[i] \notin S}
  BY WithoutIs
<1>2. ASSUME NEW i \in 1 .. Len(s) PROVE s[i] \notin S <=> i \in 1 .. n
  <2>1. \A j \in 1 .. Len(s) : s[i] = s[j] => i = j
    BY ElementsAre
  <2>2. s[i] \in ToSet(s) /\ Len(s) \in Nat /\ 1 .. n \subseteq 1 .. Len(s)
    BY ElementsAre
  <2> QED BY <2>1, <2>2 DEF S
<1>3. 1 .. n \subseteq 1 .. Len(s)
  BY ElementsAre
<1>4. Left(s, S) = 1 .. n
  BY <1>1, <1>2, <1>3
<1>5. Len(Without(s, S)) = n /\ \A i \in 1 .. n : Without(s, S)[i] = s[i]
  BY <1>4, FrontIsLeft
<1> QED BY <1>5 DEF S

\* What is left of a beginning is a beginning of what is left.
LEMMA BeginningIsLeft ==
  ASSUME NEW V, NEW p \in Seq(V), NEW s \in Seq(V), NEW S, Begins(p, s)
  PROVE  Begins(Without(p, S), Without(s, S))
<1> DEFINE I == Left(p, S)
           J == Left(s, S)
<1>1. /\ I = {i \in 1 .. Len(p) : p[i] \notin S} /\ J = {i \in 1 .. Len(s) : s[i] \notin S}
      /\ Len(p) \in Nat /\ Len(s) \in Nat
  BY WithoutIs, ElementsAre
<1>2. /\ Len(Without(p, S)) = Cardinality(I) /\ Len(Without(s, S)) = Cardinality(J)
      /\ \A j \in 1 .. Cardinality(I) : Nth(I, j) \in I /\ Without(p, S)[j] = p[Nth(I, j)]
      /\ \A i \in J : Without(s, S)[Rank(J, i)] = s[i]
  BY WithoutIs
<1> HIDE DEF I, J
<1>3. /\ I \subseteq J /\ I \subseteq 1 .. Len(p) /\ J \subseteq 1 .. Len(s)
      /\ \A k \in J : k <= Len(p) => k \in I
  BY <1>1 DEF Begins
<1>4. Cardinality(I) <= Cardinality(J)
  BY <1>1, <1>3, RanksAre, FS_Subset
<1>5. ASSUME NEW j \in 1 .. Cardinality(I) PROVE Without(p, S)[j] = Without(s, S)[j]
  <2> DEFINE i == Nth(I, j)
  <2>1. i \in I /\ Rank(I, i) = j /\ Without(p, S)[j] = p[i]
    BY <1>1, <1>2, <1>3, RanksAre
  <2> HIDE DEF i
  <2>2. {k \in J : k <= i} = {k \in I : k <= i}
    <3>1. i <= Len(p) /\ i \in Nat
      BY <1>1, <1>3, <2>1
    <3>2. ASSUME NEW k \in J, k <= i PROVE k \in I
      BY <1>1, <1>3, <3>1, <3>2
    <3> QED BY <1>3, <3>2
  <2>3. Rank(J, i) = j
    BY <2>1, <2>2 DEF Rank
  <2>4. i \in J /\ p[i] = s[i]
    BY <1>3, <2>1 DEF Begins
  <2> QED BY <1>2, <2>1, <2>3, <2>4
<1> QED BY <1>2, <1>4, <1>5 DEF Begins

\* Writing rows on top of a list.
LEMMA OnTopIs ==
  ASSUME NEW V, NEW a \in Seq(V), IsInjective(a), NEW s \in Seq(V), IsInjective(s)
  PROVE  /\ OnTop(a, s) \in Seq(V) /\ IsInjective(OnTop(a, s)) /\ Len(OnTop(a, s)) \in Nat
         /\ Len(OnTop(a, s)) <= Len(a) + Len(s) /\ Len(s) <= Len(OnTop(a, s))
<1> DEFINE t == Without(s, ToSet(a))
           b == a \o t
<1>1. t \in Seq(V) /\ Len(t) \in Nat /\ Len(t) <= Len(s)
  BY WithoutIs
<1>2. IsInjective(t) /\ \A x : x \in ToSet(t) => x \notin ToSet(a)
  BY WithoutElements
<1>3. Len(a) \in Nat /\ Len(s) \in Nat
  BY LenProperties
<1>4. IsFiniteSet(ToSet(a)) /\ Cardinality(ToSet(a)) <= Len(a) /\ Cardinality(ToSet(a)) \in Nat
  <2> DEFINE A == ToSet(a)
             f == [x \in A |-> CHOOSE i \in 1 .. Len(a) : a[i] = x]
  <2>1. \A x \in A : \E i \in 1 .. Len(a) : a[i] = x
    BY ElementsAre
  <2>2. \A x \in A : f[x] \in 1 .. Len(a) /\ a[f[x]] = x
    BY <2>1, Zenon
  <2>3. f \in [A -> 1 .. Len(a)]
    BY <2>2, Zenon
  <2> HIDE DEF f, A
  <2>4. \A x, y \in A : f[x] = f[y] => x = y
    BY <2>2, Zenon
  <2>5. IsFiniteSet(1 .. Len(a)) /\ Cardinality(1 .. Len(a)) = Len(a)
    BY <1>3, IntervalIs
  <2>6. IsFiniteSet(A) /\ Cardinality(A) <= Len(a)
    BY <2>3, <2>4, <2>5, OneToOne
  <2> QED BY <2>6, FS_CardinalityType DEF A
<1>5. Len(s) <= Len(t) + Cardinality(ToSet(a))
  BY <1>4, FewAreTaken
<1> HIDE DEF t
<1>6. /\ b \in Seq(V) /\ Len(b) = Len(a) + Len(t)
      /\ \A i \in 1 .. Len(a) + Len(t) : b[i] = IF i <= Len(a) THEN a[i] ELSE t[i - Len(a)]
  BY <1>1, ConcatProperties
<1> HIDE DEF b
<1>7. ASSUME NEW i \in 1 .. Len(b), NEW j \in 1 .. Len(b), b[i] = b[j] PROVE i = j
  <2>1. \A k, l \in 1 .. Len(a) : a[k] = a[l] => k = l
    BY ElementsAre
  <2>2. \A k, l \in 1 .. Len(t) : t[k] = t[l] => k = l
    BY <1>1, <1>2, ElementsAre
  <2>3. \A k \in 1 .. Len(a), l \in 1 .. Len(t) : a[k] # t[l]
    <3>1. \A k \in 1 .. Len(a) : a[k] \in ToSet(a)
      BY ElementsAre
    <3>2. \A l \in 1 .. Len(t) : t[l] \in ToSet(t)
      BY <1>1, ElementsAre
    <3> QED BY <1>2, <3>1, <3>2
  <2>4. \A k \in 1 .. Len(b) : \/ k \in 1 .. Len(a) /\ b[k] = a[k]
                               \/ k - Len(a) \in 1 .. Len(t) /\ b[k] = t[k - Len(a)]
    BY <1>1, <1>3, <1>6
  <2>5. CASE i \in 1 .. Len(a) /\ b[i] = a[i]
    <3>1. CASE j \in 1 .. Len(a) /\ b[j] = a[j]
      BY <1>7, <2>1, <2>5, <3>1
    <3>2. CASE j - Len(a) \in 1 .. Len(t) /\ b[j] = t[j - Len(a)]
      BY <1>7, <2>3, <2>5, <3>2
    <3> QED BY <2>4, <3>1, <3>2
  <2>6. CASE i - Len(a) \in 1 .. Len(t) /\ b[i] = t[i - Len(a)]
    <3>1. CASE j \in 1 .. Len(a) /\ b[j] = a[j]
      <4>1. a[j] # t[i - Len(a)]
        BY <2>3, <2>6, <3>1
      <4> QED BY <1>7, <2>6, <3>1, <4>1
    <3>2. CASE j - Len(a) \in 1 .. Len(t) /\ b[j] = t[j - Len(a)]
      <4>1. t[i - Len(a)] = t[j - Len(a)]
        BY <1>7, <2>6, <3>2
      <4>2. i - Len(a) = j - Len(a)
        BY <2>2, <2>6, <3>2, <4>1
      <4>3. Len(b) \in Nat
        BY <1>1, <1>3, <1>6
      <4> QED BY <1>3, <4>2, <4>3
    <3> QED BY <2>4, <3>1, <3>2
  <2> QED BY <2>4, <2>5, <2>6
<1>8. IsInjective(b)
  BY <1>6, <1>7, ElementsAre
<1>9. Len(b) \in Nat /\ Len(b) <= Len(a) + Len(s) /\ Len(s) <= Len(b)
  BY <1>1, <1>3, <1>4, <1>5, <1>6
<1> QED BY <1>6, <1>8, <1>9 DEF OnTop, t, b

LEMMA OnTopOfBeginning ==
  ASSUME NEW V, NEW a \in Seq(V), NEW p \in Seq(V), NEW s \in Seq(V), Begins(p, s)
  PROVE  Begins(OnTop(a, p), OnTop(a, s))
<1> DEFINE u == Without(p, ToSet(a))
           t == Without(s, ToSet(a))
<1>1. Begins(u, t)
  BY BeginningIsLeft
<1>2. u \in Seq(V) /\ t \in Seq(V) /\ Len(u) \in Nat /\ Len(t) \in Nat /\ Len(a) \in Nat
  BY WithoutIs, LenProperties
<1> HIDE DEF u, t
<1>3. /\ Len(a \o u) = Len(a) + Len(u)
      /\ \A i \in 1 .. Len(a) + Len(u) : (a \o u)[i] = IF i <= Len(a) THEN a[i] ELSE u[i - Len(a)]
  BY <1>2, ConcatProperties
<1>4. /\ Len(a \o t) = Len(a) + Len(t)
      /\ \A i \in 1 .. Len(a) + Len(t) : (a \o t)[i] = IF i <= Len(a) THEN a[i] ELSE t[i - Len(a)]
  BY <1>2, ConcatProperties
<1> DEFINE v == a \o u
           w == a \o t
<1> HIDE DEF v, w
<1>5. Len(u) <= Len(t) /\ \A i \in 1 .. Len(u) : u[i] = t[i]
  BY <1>1 DEF Begins
<1>6. Len(v) <= Len(w) /\ \A i \in 1 .. Len(v) : v[i] = w[i]
  <2>1. Len(v) <= Len(w)
    BY <1>2, <1>3, <1>4, <1>5 DEF v, w
  <2>2. ASSUME NEW i \in 1 .. Len(v) PROVE v[i] = w[i]
    <3>1. i \in 1 .. Len(a) + Len(u) /\ i \in 1 .. Len(a) + Len(t)
      BY <1>2, <1>3, <1>4, <1>5 DEF v
    <3>2. CASE i <= Len(a)
      BY <1>3, <1>4, <3>1, <3>2 DEF v, w
    <3>3. CASE ~(i <= Len(a))
      <4>1. i - Len(a) \in 1 .. Len(u)
        BY <1>2, <3>1, <3>3
      <4> QED BY <1>3, <1>4, <1>5, <3>1, <3>3, <4>1 DEF v, w
    <3> QED BY <3>2, <3>3
  <2> QED BY <2>1, <2>2
<1> QED BY <1>6 DEF OnTop, Begins, u, t, v, w

\* A beginning is what SubSeq cuts off, and a prefix.
LEMMA BeginningIsCut ==
  ASSUME NEW V, NEW p \in Seq(V), NEW s \in Seq(V), Begins(p, s)
  PROVE  /\ p = SubSeq(s, 1, Len(p)) /\ IsPrefix(p, s)
         /\ Len(p) = Len(s) => p = s
<1>1. Len(p) \in Nat /\ Len(s) \in Nat /\ Len(p) <= Len(s) /\ \A i \in 1 .. Len(p) : p[i] = s[i] /\ s[i] \in V
  BY ElementsAre DEF Begins
<1> DEFINE n == Len(p)
<1>2. /\ SubSeq(s, 1, n) \in Seq(V) /\ Len(SubSeq(s, 1, n)) = n
      /\ \A i \in 1 .. n : SubSeq(s, 1, n)[i] = s[i]
  <2>1. 1 \in Int /\ n \in Int /\ \A i \in 1 .. n : s[i] \in V
    BY <1>1
  <2>2. /\ SubSeq(s, 1, n) \in Seq(V)
        /\ Len(SubSeq(s, 1, n)) = IF 1 <= n THEN n - 1 + 1 ELSE 0
        /\ \A i \in 1 .. n - 1 + 1 : SubSeq(s, 1, n)[i] = s[1 + i - 1]
    BY <2>1, SubSeqProperties
  <2> HIDE DEF n
  <2>3. n \in Nat
    BY <1>1 DEF n
  <2> QED BY <2>2, <2>3
<1>3. p = SubSeq(s, 1, n)
  BY <1>1, <1>2, SeqEqual
<1>4. SubSeq(p, 1, n) = p
  <2>1. 1 \in Int /\ n \in Int /\ \A i \in 1 .. n : p[i] \in V
    BY <1>1
  <2>2. /\ SubSeq(p, 1, n) \in Seq(V)
        /\ Len(SubSeq(p, 1, n)) = IF 1 <= n THEN n - 1 + 1 ELSE 0
        /\ \A i \in 1 .. n - 1 + 1 : SubSeq(p, 1, n)[i] = p[1 + i - 1]
    BY <2>1, SubSeqProperties
  <2>3. Len(SubSeq(p, 1, n)) = n /\ \A i \in 1 .. n : SubSeq(p, 1, n)[i] = p[i]
    <3> HIDE DEF n
    <3>1. n \in Nat
      BY <1>1 DEF n
    <3> QED BY <2>2, <3>1
  <2> QED BY <2>2, <2>3, SeqEqual
<1>5. Len(p) = Len(s) => p = s
  BY <1>1, SeqEqual
<1> QED BY <1>1, <1>3, <1>4, <1>5 DEF IsPrefix

\* The rows of a view, in some order.
LEMMA SetToSeqsAre ==
  ASSUME NEW S, IsFiniteSet(S), NEW new \in SetToSeqs(S)
  PROVE  new \in Seq(S) /\ IsInjective(new) /\ Len(new) = Cardinality(S) /\ ToSet(new) = S
<1> DEFINE c == Cardinality(S)
<1>1. c \in Nat
  BY FS_CardinalityType
<1>2. new \in [1 .. c -> S] /\ \A i, j \in 1 .. c : i # j => new[i] # new[j]
  BY DEF SetToSeqs
<1> HIDE DEF c
<1>3. new \in Seq(S) /\ Len(new) = c
  BY <1>1, <1>2
<1>4. IsInjective(new)
  BY <1>2, <1>3, ElementsAre
<1>5. new \in Injection(1 .. c, S)
  BY <1>2, OneToOne
<1>6. Cardinality(1 .. c) = Cardinality(S)
  BY <1>1, IntervalIs DEF c
<1>7. new \in Surjection(1 .. c, S)
  BY <1>5, <1>6, FS_Injection
<1>8. \A x \in S : \E i \in 1 .. c : new[i] = x
  BY <1>7, Zenon DEF Surjection
<1>9. \A x : x \in ToSet(new) <=> x \in S
  <2>1. \A x : x \in ToSet(new) <=> \E i \in 1 .. c : new[i] = x
    BY <1>3, ElementsAre
  <2> QED BY <1>2, <1>8, <2>1
<1> QED BY <1>3, <1>4, <1>9 DEF c

LEMMA SetToSeqIsOne ==
  ASSUME NEW S, IsFiniteSet(S)
  PROVE  SetToSeq(S) \in SetToSeqs(S)
<1> DEFINE D == 1 .. Cardinality(S)
           f == SetToSeq(S)
<1>1. \E g \in [D -> S] : IsInjective(g)
  <2>1. ExistsBijection(D, S)
    BY FS_CardinalityType
  <2> QED BY <2>1, Zenon DEF ExistsBijection, Bijection, Injection
<1>2. f \in [D -> S] /\ IsInjective(f)
  BY <1>1, Zenon DEF SetToSeq
<1> HIDE DEF D, f
<1>3. \A i, j \in D : i # j => f[i] # f[j]
  BY <1>2 DEF IsInjective
<1> QED BY <1>2, <1>3 DEF SetToSeqs, D, f

-----------------------------------------------------------------------------
(* The room the views name *)

LEMMA RoomIsFinite == IsFiniteSet(RoomNamed)
<1> DEFINE rooms == {{r} \X (1 .. Size[r]) : r \in ViewRequests}
           f == [r \in ViewRequests |-> {r} \X (1 .. Size[r])]
<1>1. f \in Surjection(ViewRequests, rooms)
  <2>1. f \in [ViewRequests -> rooms] /\ \A t \in rooms : \E r \in ViewRequests : f[r] = t
    OBVIOUS
  <2> HIDE DEF f, rooms
  <2> QED BY <2>1, Zenon DEF Surjection
<1>2. IsFiniteSet(rooms)
  <2> HIDE DEF f, rooms
  <2> QED BY <1>1, RecentViewsAssumption, FS_Surjection
<1>3. \A t \in rooms : IsFiniteSet(t)
  <2> SUFFICES ASSUME NEW r \in ViewRequests PROVE IsFiniteSet({r} \X (1 .. Size[r]))
    OBVIOUS
  <2>1. IsFiniteSet({r}) /\ IsFiniteSet(1 .. Size[r])
    BY RecentViewsAssumption, FS_Singleton, IntervalIs
  <2> QED BY <2>1, FS_Product
<1> HIDE DEF rooms
<1>4. IsFiniteSet(UNION rooms)
  BY <1>2, <1>3, FS_UNION
<1> QED BY <1>4 DEF RoomNamed, rooms

LEMMA RoomOfOne ==
  ASSUME NEW r \in ViewRequests
  PROVE  IsFiniteSet({r} \X (1 .. Size[r])) /\ Cardinality({r} \X (1 .. Size[r])) = Size[r]
<1>1. Size[r] \in Nat
  BY RecentViewsAssumption
<1>2. IsFiniteSet({r}) /\ Cardinality({r}) = 1
  BY FS_Singleton
<1>3. IsFiniteSet(1 .. Size[r]) /\ Cardinality(1 .. Size[r]) = Size[r]
  BY <1>1, IntervalIs
<1> DEFINE T == 1 .. Size[r]
<1> HIDE DEF T
<1>4. IsFiniteSet({r} \X T) /\ Cardinality({r} \X T) = Cardinality({r}) * Cardinality(T)
  BY <1>2, <1>3, FS_Product DEF T
<1> QED BY <1>1, <1>2, <1>3, <1>4 DEF T

-----------------------------------------------------------------------------
(* What the steps do to the views under way *)

ViewSteps == {"idle", "count", "choose", "trim", "upsert", "clear", "insert"}

LEMMA ViewIs ==
  ASSUME NEW v \in View
  PROVE  /\ v.at \in ViewSteps /\ v.ids \subseteq Viewables /\ v.batch \in BOOLEAN /\ v.keep \subseteq Viewables
         /\ IsFiniteSet(v.ids) /\ IsFiniteSet(v.keep)
         /\ Cardinality(v.ids) \in Nat /\ Cardinality(v.keep) \in Nat
<1>1. v.at \in ViewSteps /\ v.ids \subseteq Viewables /\ v.batch \in BOOLEAN /\ v.keep \subseteq Viewables
  BY DEF View, ViewSteps
<1> QED BY <1>1, RecentViewsAssumption, FS_Subset, FS_CardinalityType

LEMMA NoViewIs == NoView \in View /\ NoView.at = "idle" /\ NoView.ids = {} /\ NoView.keep = {}
BY DEF NoView, View

LEMMA GotoIs ==
  ASSUME ViewsTypeOK, NEW r \in ViewRequests, NEW at \in ViewSteps, ViewGoto(r, at)
  PROVE  /\ view' \in [ViewRequests -> View]
         /\ view'[r].at = at /\ view'[r].ids = view[r].ids /\ view'[r].keep = view[r].keep
         /\ \A s \in ViewRequests \ {r} : view'[s] = view[s]
<1>1. view \in [ViewRequests -> View] /\ view' = [view EXCEPT ![r].at = at]
  BY DEF ViewsTypeOK, ViewGoto
<1> DEFINE q == [view[r] EXCEPT !.at = at]
<1>2. q \in View /\ q.at = at /\ q.ids = view[r].ids /\ q.keep = view[r].keep
  BY <1>1 DEF View, ViewSteps
<1>3. view' = [view EXCEPT ![r] = q]
  BY <1>1
<1> HIDE DEF q
<1> QED BY <1>1, <1>2, <1>3

LEMMA DoneIs ==
  ASSUME ViewsTypeOK, NEW r \in ViewRequests, ViewDone(r)
  PROVE  /\ view' \in [ViewRequests -> View] /\ view'[r] = NoView
         /\ \A s \in ViewRequests \ {r} : view'[s] = view[s]
BY NoViewIs DEF ViewsTypeOK, ViewDone

LEMMA RowsDeletedIs ==
  ASSUME ViewsTypeOK, NEW r \in ViewRequests, NEW gone, RowsDeleted(r, gone)
  PROVE  /\ view' \in [ViewRequests -> View]
         /\ view'[r].at = IF view[r].at = "clear" THEN "insert" ELSE AfterCleanup(r)
         /\ view'[r].ids = view[r].ids /\ view'[r].keep = {}
         /\ \A s \in ViewRequests \ {r} : /\ view'[s].at = view[s].at /\ view'[s].ids = view[s].ids
                                          /\ view'[s].keep = view[s].keep \ gone
                                          /\ view[s] = NoView => view'[s] = NoView
         /\ recents' = Without(recents, gone) /\ recents' \in Seq(Viewables) /\ IsInjective(recents')
         /\ Len(recents') \in Nat /\ Len(recents') <= Len(recents)
<1>1. /\ view \in [ViewRequests -> View] /\ recents \in Seq(Viewables) /\ IsInjective(recents)
      /\ recents' = Without(recents, gone)
      /\ view' = [s \in ViewRequests |->
               [view[s] EXCEPT !.keep = IF s = r THEN {} ELSE @ \ gone,
                               !.at = IF s # r THEN @ ELSE IF @ = "clear" THEN "insert" ELSE AfterCleanup(r)]]
  BY DEF ViewsTypeOK, RowsDeleted
<1> DEFINE next == IF view[r].at = "clear" THEN "insert" ELSE AfterCleanup(r)
<1>2. next \in ViewSteps
  BY DEF AfterCleanup, ViewSteps
<1> HIDE DEF next
<1>3. /\ view'[r] \in View /\ view'[r].at = next
      /\ view'[r].ids = view[r].ids /\ view'[r].keep = {}
  <2> DEFINE q == [view[r] EXCEPT !.keep = {}, !.at = next]
  <2>1. view'[r] = q
    BY <1>1 DEF next
  <2>2. q \in View /\ q.at = next /\ q.ids = view[r].ids /\ q.keep = {}
    BY <1>1, <1>2 DEF View, ViewSteps
  <2> HIDE DEF q
  <2> QED BY <2>1, <2>2
<1>4. ASSUME NEW s \in ViewRequests \ {r}
      PROVE  /\ view'[s] \in View /\ view'[s].at = view[s].at /\ view'[s].ids = view[s].ids
             /\ view'[s].keep = view[s].keep \ gone
             /\ view[s] = NoView => view'[s] = NoView
  <2> DEFINE q == [view[s] EXCEPT !.keep = @ \ gone]
  <2>1. view'[s] = [view[s] EXCEPT !.keep = @ \ gone, !.at = @]
    BY <1>1
  <2>2. view[s] \in View
    BY <1>1
  <2>3. view'[s] = q
    BY <2>1, <2>2 DEF View
  <2>4. q \in View /\ q.at = view[s].at /\ q.ids = view[s].ids /\ q.keep = view[s].keep \ gone
    BY <2>2 DEF View
  <2>5. view[s] = NoView => q = NoView
    BY DEF NoView
  <2> HIDE DEF q
  <2> QED BY <2>3, <2>4, <2>5
<1>5. view' \in [ViewRequests -> View]
  <2>1. \A s \in ViewRequests : view'[s] \in View
    BY <1>3, <1>4
  <2>2. DOMAIN view' = ViewRequests /\ view' = [s \in ViewRequests |-> view'[s]]
    BY <1>1
  <2> QED BY <2>1, <2>2
<1>6. recents' \in Seq(Viewables) /\ IsInjective(recents') /\ Len(recents') \in Nat /\ Len(recents') <= Len(recents)
  BY <1>1, WithoutIs, WithoutElements
<1> QED BY <1>1, <1>3, <1>4, <1>5, <1>6 DEF next

\* Rows written for a view, whatever it names.
LEMMA WrittenIs ==
  ASSUME ViewsTypeOK, NEW r \in ViewRequests, NEW new \in SetToSeqs(view[r].ids),
         recents' = OnTop(new, recents), shown' = Shown(new)
  PROVE  /\ new \in Seq(Viewables) /\ IsInjective(new) /\ Len(new) = Cardinality(view[r].ids)
         /\ ToSet(new) = view[r].ids
         /\ recents' \in Seq(Viewables) /\ IsInjective(recents') /\ Len(recents') \in Nat
         /\ Len(recents') <= Len(recents) + Cardinality(view[r].ids)
         /\ shown' \in Seq(Viewables) /\ IsInjective(shown')
<1>1. view[r] \in View /\ recents \in Seq(Viewables) /\ IsInjective(recents)
      /\ shown \in Seq(Viewables) /\ IsInjective(shown)
  BY DEF ViewsTypeOK
<1>2. IsFiniteSet(view[r].ids) /\ view[r].ids \subseteq Viewables /\ Cardinality(view[r].ids) \in Nat
  BY <1>1, ViewIs
<1>3. new \in Seq(view[r].ids) /\ IsInjective(new) /\ Len(new) = Cardinality(view[r].ids) /\ ToSet(new) = view[r].ids
  BY <1>2, SetToSeqsAre
<1>4. new \in Seq(Viewables)
  BY <1>2, <1>3
<1>5. /\ recents' \in Seq(Viewables) /\ IsInjective(recents') /\ Len(recents') \in Nat
      /\ Len(recents') <= Len(new) + Len(recents)
  BY <1>1, <1>3, <1>4, OnTopIs
<1>6. shown' \in Seq(Viewables) /\ IsInjective(shown')
  BY <1>1, <1>3, <1>4, OnTopIs DEF Shown
<1>7. Len(recents) \in Nat
  BY <1>1, LenProperties
<1> QED BY <1>2, <1>3, <1>4, <1>5, <1>6, <1>7

LEMMA KeptAre ==
  ASSUME NEW V, NEW s \in Seq(V)
  PROVE  LET firstOnes == {j \in DOMAIN s : j < Limit}
             kept == {s[i] : i \in firstOnes}
         IN  kept \subseteq V /\ Cardinality(kept) <= Limit - 1
<1> DEFINE firstOnes == {j \in DOMAIN s : j < Limit}
           K == {s[i] : i \in firstOnes}
           f == [x \in K |-> CHOOSE i \in firstOnes : s[i] = x]
<1>1. Limit \in Nat \ {0}
  BY RecentViewsAssumption
<1>2. /\ DOMAIN s = 1 .. Len(s) /\ Len(s) \in Nat /\ firstOnes \subseteq 1 .. Limit - 1
      /\ \A i \in firstOnes : s[i] \in V
  BY <1>1, ElementsAre
<1>3. \A x \in K : \E i \in firstOnes : s[i] = x
  OBVIOUS
<1>4. K \subseteq V
  BY <1>2
<1> HIDE DEF firstOnes, K
<1>6. \A x \in K : f[x] \in firstOnes /\ s[f[x]] = x
  BY <1>3, Zenon
<1>7. f \in [K -> 1 .. Limit - 1]
  <2>1. f \in [K -> firstOnes]
    BY <1>6, Zenon
  <2> HIDE DEF f
  <2> QED BY <1>2, <2>1
<1> HIDE DEF f
<1>8. \A x, y \in K : f[x] = f[y] => x = y
  BY <1>6, Zenon
<1>9. Limit - 1 \in Nat
  BY <1>1
<1>10. IsFiniteSet(1 .. Limit - 1) /\ Cardinality(1 .. Limit - 1) = Limit - 1
  BY <1>9, IntervalIs
<1>11. Cardinality(K) <= Cardinality(1 .. Limit - 1)
  BY <1>7, <1>8, <1>10, OneToOne
<1> QED BY <1>4, <1>10, <1>11 DEF K, firstOnes

LEMMA FitsStep ==
  ASSUME ViewsTypeOK, ViewFits, [ViewsNext]_viewVars
  PROVE  ViewsTypeOK' /\ ViewFits'
<1>1. /\ view \in [ViewRequests -> View] /\ crossed \in BOOLEAN
      /\ recents \in Seq(Viewables) /\ IsInjective(recents)
      /\ shown \in Seq(Viewables) /\ IsInjective(shown)
  BY DEF ViewsTypeOK
<1>2. \A s \in ViewRequests : /\ view[s].at = "idle" => view[s] = NoView
                              /\ Cardinality(view[s].ids) <= Size[s] /\ Cardinality(view[s].keep) <= Limit - 1
  BY DEF ViewFits
<1>3. Limit \in Nat \ {0} /\ Size \in [ViewRequests -> Nat \ {0}]
  BY RecentViewsAssumption
<1>4. /\ NoView \in View /\ Cardinality(NoView.ids) = 0 /\ Cardinality(NoView.keep) = 0
      /\ Cardinality({}) = 0
  BY NoViewIs, FS_EmptySet
\* Only one view changes, and it fits.
<1>5. ASSUME NEW r \in ViewRequests, view' \in [ViewRequests -> View],
             \A s \in ViewRequests \ {r} : view'[s] = view[s],
             view'[r].at = "idle" => view'[r] = NoView,
             Cardinality(view'[r].ids) <= Size[r], Cardinality(view'[r].keep) <= Limit - 1
      PROVE  ViewFits'
  BY <1>2, <1>5 DEF ViewFits
<1>6. ASSUME UNCHANGED viewVars PROVE ViewsTypeOK' /\ ViewFits'
  BY <1>1, <1>2, <1>6 DEF viewVars, ViewsTypeOK, ViewFits
<1>7. ASSUME NEW r \in ViewRequests, NEW ids \in SUBSET Viewables, NEW batch \in BOOLEAN,
             TrackViews(r, ids, batch)
      PROVE  ViewsTypeOK' /\ ViewFits'
  <2> DEFINE q == [at |-> "count", ids |-> ids, batch |-> batch, keep |-> {}]
  <2>1. /\ view' = [view EXCEPT ![r] = q] /\ recents' = recents /\ Cardinality(ids) <= Size[r]
        /\ shown' = (IF crossed' THEN << >> ELSE shown)
        /\ crossed' = (crossed \/ \E s \in ViewRequests \ {r} : view[s] # NoView)
    BY <1>7 DEF TrackViews
  <2>2. q \in View /\ q.at = "count" /\ q.ids = ids /\ q.keep = {}
    BY DEF View
  <2> HIDE DEF q
  <2>3. /\ view' \in [ViewRequests -> View] /\ view'[r] = q
        /\ \A s \in ViewRequests \ {r} : view'[s] = view[s]
    BY <1>1, <2>1, <2>2
  <2>4. ViewFits'
    <3>1. view'[r].at = "count" /\ view'[r].ids = ids /\ view'[r].keep = {}
      BY <2>2, <2>3
    <3>2. Cardinality(view'[r].ids) <= Size[r]
      BY <2>1, <3>1
    <3>3. Cardinality(view'[r].keep) <= Limit - 1
      BY <1>3, <1>4, <3>1
    <3> QED BY <1>5, <2>3, <3>1, <3>2, <3>3
  <2>5. << >> \in Seq(Viewables) /\ IsInjective(<< >>)
    BY DEF IsInjective
  <2>6. shown' \in Seq(Viewables) /\ IsInjective(shown')
    BY <1>1, <2>1, <2>5
  <2>7. crossed' \in BOOLEAN
    BY <2>1, Zenon
  <2> QED BY <1>1, <2>1, <2>3, <2>4, <2>6, <2>7 DEF ViewsTypeOK
<1>8. ASSUME NEW r \in ViewRequests, CountEntries(r) PROVE ViewsTypeOK' /\ ViewFits'
  <2> DEFINE at == IF Len(recents) >= Limit THEN "choose" ELSE AfterCleanup(r)
  <2>1. ViewGoto(r, at) /\ recents' = recents /\ shown' = shown /\ crossed' = crossed
    BY <1>8 DEF CountEntries
  <2>2. at \in ViewSteps /\ at # "idle"
    BY DEF AfterCleanup, ViewSteps
  <2> HIDE DEF at
  <2>3. /\ view' \in [ViewRequests -> View] /\ view'[r].at = at
        /\ view'[r].ids = view[r].ids /\ view'[r].keep = view[r].keep
        /\ \A s \in ViewRequests \ {r} : view'[s] = view[s]
    BY <2>1, <2>2, GotoIs
  <2>4. ViewFits'
    BY <1>2, <1>5, <2>2, <2>3
  <2> QED BY <1>1, <2>1, <2>3, <2>4 DEF ViewsTypeOK
<1>9. ASSUME NEW r \in ViewRequests, EntriesToKeep(r) PROVE ViewsTypeOK' /\ ViewFits'
  <2> DEFINE K == {recents[i] : i \in {j \in DOMAIN recents : j < Limit}}
             q == [view[r] EXCEPT !.at = "trim", !.keep = K]
  <2>1. /\ view' = [view EXCEPT ![r] = q] /\ recents' = recents /\ shown' = shown /\ crossed' = crossed
    BY <1>1, <1>9 DEF EntriesToKeep
  <2>2. K \subseteq Viewables /\ Cardinality(K) <= Limit - 1
    BY <1>1, KeptAre
  <2> HIDE DEF K
  <2>3. q \in View /\ q.at = "trim" /\ q.ids = view[r].ids /\ q.keep = K
    BY <1>1, <2>2 DEF View
  <2> HIDE DEF q
  <2>4. /\ view' \in [ViewRequests -> View] /\ view'[r] = q
        /\ \A s \in ViewRequests \ {r} : view'[s] = view[s]
    BY <1>1, <2>1, <2>3
  <2>5. ViewFits'
    BY <1>2, <1>5, <2>2, <2>3, <2>4
  <2> QED BY <1>1, <2>1, <2>4, <2>5 DEF ViewsTypeOK
<1>10. ASSUME NEW r \in ViewRequests, NEW gone, RowsDeleted(r, gone), shown' = shown, crossed' = crossed,
              view[r].at \in {"trim", "clear"}
       PROVE  ViewsTypeOK' /\ ViewFits'
  <2>1. /\ view' \in [ViewRequests -> View]
        /\ view'[r].at = IF view[r].at = "clear" THEN "insert" ELSE AfterCleanup(r)
        /\ view'[r].ids = view[r].ids /\ view'[r].keep = {}
        /\ \A s \in ViewRequests \ {r} : /\ view'[s].at = view[s].at /\ view'[s].ids = view[s].ids
                                         /\ view'[s].keep = view[s].keep \ gone
                                         /\ view[s] = NoView => view'[s] = NoView
        /\ recents' \in Seq(Viewables) /\ IsInjective(recents')
    BY <1>10, RowsDeletedIs
  <2>2. view'[r].at # "idle"
    BY <2>1 DEF AfterCleanup
  <2>3. ASSUME NEW s \in ViewRequests
        PROVE  /\ view'[s].at = "idle" => view'[s] = NoView
               /\ Cardinality(view'[s].ids) <= Size[s] /\ Cardinality(view'[s].keep) <= Limit - 1
    <3>1. CASE s = r
      <4>1. Cardinality(view'[r].keep) <= Limit - 1
        BY <1>3, <1>4, <2>1
      <4>2. Cardinality(view'[r].ids) <= Size[r]
        BY <1>2, <2>1
      <4> QED BY <2>2, <3>1, <4>1, <4>2
    <3>2. CASE s # r
      <4>1. s \in ViewRequests \ {r} /\ view[s] \in View /\ view'[s] \in View
        BY <1>1, <2>1, <3>2
      <4>2. IsFiniteSet(view[s].keep) /\ Cardinality(view[s].keep) \in Nat /\ Cardinality(view'[s].keep) \in Nat
        BY <4>1, ViewIs
      <4>3. view'[s].keep \subseteq view[s].keep
        BY <2>1, <4>1
      <4>4. Cardinality(view'[s].keep) <= Cardinality(view[s].keep)
        BY <4>2, <4>3, FS_Subset
      <4> QED BY <1>2, <1>3, <2>1, <4>1, <4>2, <4>4
    <3> QED BY <3>1, <3>2
  <2> QED BY <1>1, <1>10, <2>1, <2>3 DEF ViewsTypeOK, ViewFits
<1>11. ASSUME NEW r \in ViewRequests, DeleteOthers(r) PROVE ViewsTypeOK' /\ ViewFits'
  BY <1>10, <1>11 DEF DeleteOthers
<1>12. ASSUME NEW r \in ViewRequests, DeleteBatch(r) PROVE ViewsTypeOK' /\ ViewFits'
  BY <1>10, <1>12 DEF DeleteBatch
\* A view is done: its rows are written, or nothing is.
<1>13. ASSUME NEW r \in ViewRequests, ViewDone(r), crossed' = crossed,
              recents' \in Seq(Viewables) /\ IsInjective(recents'), shown' \in Seq(Viewables) /\ IsInjective(shown')
       PROVE  ViewsTypeOK' /\ ViewFits'
  <2>1. /\ view' \in [ViewRequests -> View] /\ view'[r] = NoView
        /\ \A s \in ViewRequests \ {r} : view'[s] = view[s]
    BY <1>13, DoneIs
  <2>2. ViewFits'
    BY <1>3, <1>4, <1>5, <2>1
  <2> QED BY <1>1, <1>13, <2>1, <2>2 DEF ViewsTypeOK
<1>14. ASSUME NEW r \in ViewRequests, UpsertView(r) PROVE ViewsTypeOK' /\ ViewFits'
  <2>1. /\ recents' = OnTop(SetToSeq(view[r].ids), recents) /\ shown' = Shown(SetToSeq(view[r].ids))
        /\ ViewDone(r) /\ crossed' = crossed
    BY <1>14 DEF UpsertView
  <2>2. SetToSeq(view[r].ids) \in SetToSeqs(view[r].ids)
    BY <1>1, ViewIs, SetToSeqIsOne
  <2>3. recents' \in Seq(Viewables) /\ IsInjective(recents') /\ shown' \in Seq(Viewables) /\ IsInjective(shown')
    BY <2>1, <2>2, WrittenIs
  <2> QED BY <1>13, <2>1, <2>3
<1>15. ASSUME NEW r \in ViewRequests, InsertBatch(r) PROVE ViewsTypeOK' /\ ViewFits'
  <2>1. ViewDone(r) /\ crossed' = crossed
    BY <1>15 DEF InsertBatch
  <2>2. CASE recents' = recents /\ shown' = shown
    BY <1>1, <1>13, <2>1, <2>2
  <2>3. ASSUME NEW new \in SetToSeqs(view[r].ids), recents' = OnTop(new, recents), shown' = Shown(new)
        PROVE  ViewsTypeOK' /\ ViewFits'
    <3>1. recents' \in Seq(Viewables) /\ IsInjective(recents') /\ shown' \in Seq(Viewables) /\ IsInjective(shown')
      BY <2>3, WrittenIs
    <3> QED BY <1>13, <2>1, <3>1
  <2> QED BY <1>15, <2>2, <2>3 DEF InsertBatch
<1> QED BY <1>6, <1>7, <1>8, <1>9, <1>11, <1>12, <1>14, <1>15 DEF ViewsNext

-----------------------------------------------------------------------------
(* The list is bounded *)

LEMMA RoomStep ==
  ASSUME ViewsTypeOK, ViewFits, RoomIsLeft, [ViewsNext]_viewVars
  PROVE  RoomIsLeft'
<1>1. view \in [ViewRequests -> View] /\ recents \in Seq(Viewables) /\ IsInjective(recents) /\ Len(recents) \in Nat
  BY LenProperties DEF ViewsTypeOK
<1>2. Limit \in Nat \ {0} /\ Size \in [ViewRequests -> Nat \ {0}]
  BY RecentViewsAssumption
<1>3. ViewsTypeOK' /\ Len(recents') \in Nat
  BY FitsStep, LenProperties DEF ViewsTypeOK
<1> DEFINE R == RoomTaken
           R2 == RoomTaken'
<1>4. /\ R = {p \in RoomNamed : view[p[1]].at \notin {"upsert", "clear", "insert"}}
      /\ R2 = {p \in RoomNamed : view'[p[1]].at \notin {"upsert", "clear", "insert"}}
  BY DEF RoomTaken, Writing
<1>5. /\ IsFiniteSet(R) /\ IsFiniteSet(R2) /\ Cardinality(R) \in Nat /\ Cardinality(R2) \in Nat
      /\ Len(recents) <= Limit - 1 + Cardinality(R)
  <2>1. R \subseteq RoomNamed /\ R2 \subseteq RoomNamed
    BY <1>4
  <2> HIDE DEF R2
  <2> QED BY <2>1, RoomIsFinite, FS_Subset, FS_CardinalityType DEF RoomIsLeft
<1>6. Len(recents') <= Limit - 1 + Cardinality(R2) => RoomIsLeft'
  BY DEF RoomIsLeft
<1> HIDE DEF R, R2
\* No list grows while no room is taken,
<1>7. ASSUME Len(recents') <= Len(recents),
             \A s \in ViewRequests : view'[s].at \in {"upsert", "clear", "insert"}
                                       => view[s].at \in {"upsert", "clear", "insert"}
      PROVE  RoomIsLeft'
  <2>1. \A p \in RoomNamed : p[1] \in ViewRequests
    BY DEF RoomNamed
  <2>2. R \subseteq R2
    BY <1>4, <1>7, <2>1
  <2>3. Cardinality(R) <= Cardinality(R2)
    BY <1>5, <2>2, FS_Subset
  <2> QED BY <1>1, <1>2, <1>3, <1>5, <1>6, <1>7, <2>3
\* room is taken when the list is short,
<1>8. ASSUME Len(recents') <= Limit - 1 PROVE RoomIsLeft'
  BY <1>2, <1>3, <1>5, <1>6, <1>8
\* and given back by the view that fills it.
<1>9. ASSUME NEW r \in ViewRequests, view[r].at \in {"upsert", "insert"}, ViewDone(r),
             Len(recents') <= Len(recents) + Cardinality(view[r].ids)
      PROVE  RoomIsLeft'
  <2> DEFINE W == {r} \X (1 .. Size[r])
  <2>1. /\ view' \in [ViewRequests -> View] /\ view'[r].at = "idle"
        /\ \A s \in ViewRequests \ {r} : view'[s] = view[s]
    BY <1>9, DoneIs, NoViewIs
  <2>2. IsFiniteSet(W) /\ Cardinality(W) = Size[r]
    BY RoomOfOne
  <2>3. W \subseteq RoomNamed /\ \A p \in W : p[1] = r
    BY DEF RoomNamed
  <2>4. \A p \in RoomNamed : p[1] \in ViewRequests
    BY DEF RoomNamed
  <2> HIDE DEF W
  <2>5. R \cap W = {} /\ R \cup W \subseteq R2
    BY <1>4, <1>9, <2>1, <2>3, <2>4
  <2>6. Cardinality(R \cup W) = Cardinality(R) + Size[r]
    <3>1. Cardinality(R \cup W) = Cardinality(R) + Cardinality(W) - Cardinality(R \cap W)
      BY <1>5, <2>2, FS_Union
    <3>2. Cardinality(R \cap W) = 0
      BY <2>5, FS_EmptySet
    <3> QED BY <1>2, <1>5, <2>2, <3>1, <3>2
  <2>7. Cardinality(R \cup W) <= Cardinality(R2)
    BY <1>5, <2>5, FS_Subset
  <2>8. Cardinality(view[r].ids) <= Size[r] /\ Cardinality(view[r].ids) \in Nat
    BY <1>1, ViewIs DEF ViewFits
  <2> QED BY <1>1, <1>2, <1>3, <1>5, <1>6, <1>9, <2>6, <2>7, <2>8
<1>10. ASSUME UNCHANGED viewVars PROVE RoomIsLeft'
  BY <1>1, <1>7, <1>10 DEF viewVars
<1>11. ASSUME NEW r \in ViewRequests, NEW ids \in SUBSET Viewables, NEW batch \in BOOLEAN,
              TrackViews(r, ids, batch)
       PROVE  RoomIsLeft'
  <2>1. /\ recents' = recents
        /\ view' = [view EXCEPT ![r] = [at |-> "count", ids |-> ids, batch |-> batch, keep |-> {}]]
    BY <1>11 DEF TrackViews
  <2>2. view'[r].at = "count" /\ \A s \in ViewRequests \ {r} : view'[s] = view[s]
    BY <1>1, <2>1
  <2> QED BY <1>1, <1>7, <2>1, <2>2
<1>12. ASSUME NEW r \in ViewRequests, CountEntries(r) PROVE RoomIsLeft'
  <2>1. recents' = recents
    BY <1>12 DEF CountEntries
  <2>2. CASE Len(recents) >= Limit
    <3>1. ViewGoto(r, "choose") /\ "choose" \in ViewSteps
      BY <1>12, <2>2 DEF CountEntries, ViewSteps
    <3>2. view'[r].at = "choose" /\ \A s \in ViewRequests \ {r} : view'[s] = view[s]
      BY <3>1, GotoIs
    <3> QED BY <1>1, <1>7, <2>1, <3>2
  <2>3. CASE ~(Len(recents) >= Limit)
    BY <1>1, <1>2, <1>8, <2>1, <2>3
  <2> QED BY <2>2, <2>3
<1>13. ASSUME NEW r \in ViewRequests, EntriesToKeep(r) PROVE RoomIsLeft'
  <2> DEFINE K == {recents[i] : i \in {j \in DOMAIN recents : j < Limit}}
             q == [view[r] EXCEPT !.at = "trim", !.keep = K]
  <2>1. recents' = recents /\ view' = [view EXCEPT ![r] = q]
    BY <1>1, <1>13 DEF EntriesToKeep
  <2> HIDE DEF K
  <2>2. q.at = "trim"
    BY <1>1 DEF View
  <2> HIDE DEF q
  <2>3. view'[r] = q /\ \A s \in ViewRequests \ {r} : view'[s] = view[s]
    BY <1>1, <2>1
  <2> QED BY <1>1, <1>7, <2>1, <2>2, <2>3
<1>14. ASSUME NEW r \in ViewRequests, DeleteOthers(r) PROVE RoomIsLeft'
  <2>1. recents' = Without(recents, ToSet(recents) \ view[r].keep)
    BY <1>14 DEF DeleteOthers, RowsDeleted
  <2>2. /\ IsFiniteSet(view[r].keep) /\ Cardinality(view[r].keep) \in Nat
        /\ Cardinality(view[r].keep) <= Limit - 1
    BY <1>1, ViewIs DEF ViewFits
  <2>3. Len(recents') <= Cardinality(view[r].keep)
    BY <1>1, <2>1, <2>2, FewAreKept
  <2> QED BY <1>2, <1>3, <1>8, <2>2, <2>3
<1>15. ASSUME NEW r \in ViewRequests, DeleteBatch(r) PROVE RoomIsLeft'
  <2>1. RowsDeleted(r, view[r].ids) /\ view[r].at = "clear"
    BY <1>15 DEF DeleteBatch
  <2>2. Len(recents') <= Len(recents) /\ \A s \in ViewRequests \ {r} : view'[s].at = view[s].at
    BY <2>1, RowsDeletedIs
  <2> QED BY <1>7, <2>1, <2>2
<1>16. ASSUME NEW r \in ViewRequests, UpsertView(r) PROVE RoomIsLeft'
  <2>1. /\ recents' = OnTop(SetToSeq(view[r].ids), recents) /\ shown' = Shown(SetToSeq(view[r].ids))
        /\ ViewDone(r) /\ view[r].at = "upsert"
    BY <1>16 DEF UpsertView
  <2>2. SetToSeq(view[r].ids) \in SetToSeqs(view[r].ids)
    BY <1>1, ViewIs, SetToSeqIsOne
  <2>3. Len(recents') <= Len(recents) + Cardinality(view[r].ids)
    BY <2>1, <2>2, WrittenIs
  <2> QED BY <1>9, <2>1, <2>3
<1>17. ASSUME NEW r \in ViewRequests, InsertBatch(r) PROVE RoomIsLeft'
  <2>1. ViewDone(r) /\ view[r].at = "insert"
    BY <1>17 DEF InsertBatch
  <2>2. CASE recents' = recents
    <3>1. Cardinality(view[r].ids) \in Nat
      BY <1>1, ViewIs
    <3> QED BY <1>1, <1>9, <2>1, <2>2, <3>1
  <2>3. ASSUME NEW new \in SetToSeqs(view[r].ids), recents' = OnTop(new, recents), shown' = Shown(new)
        PROVE  RoomIsLeft'
    <3>1. Len(recents') <= Len(recents) + Cardinality(view[r].ids)
      BY <2>3, WrittenIs
    <3> QED BY <1>9, <2>1, <3>1
  <2> QED BY <1>17, <2>2, <2>3 DEF InsertBatch
<1> QED BY <1>10, <1>11, <1>12, <1>13, <1>14, <1>15, <1>16, <1>17 DEF ViewsNext

-----------------------------------------------------------------------------
(* The list is what was viewed last *)

\* Writing the rows of one view, on top of p where the history begins with p.
LEMMA LatestOnTop ==
  ASSUME NEW V, NEW a \in Seq(V), IsInjective(a), NEW s \in Seq(V), IsInjective(s),
         NEW p \in Seq(V), IsInjective(p), Begins(p, s), Len(p) = Len(s) \/ Len(p) >= Limit - 1
  PROVE  LET t == OnTop(a, p)
             u == OnTop(a, s)
         IN  Begins(t, u) /\ (Len(t) = Len(u) \/ Len(t) >= Limit - 1)
<1> DEFINE t == OnTop(a, p)
           u == OnTop(a, s)
<1>1. Begins(t, u)
  BY OnTopOfBeginning
<1>2. Len(t) \in Nat /\ Len(p) <= Len(t) /\ Len(p) \in Nat
  BY OnTopIs, LenProperties
<1>3. Len(p) = Len(s) => t = u
  BY BeginningIsCut
<1>4. Limit \in Nat
  BY RecentViewsAssumption
<1> HIDE DEF t, u
<1>5. Len(t) = Len(u) \/ Len(t) >= Limit - 1
  BY <1>2, <1>3, <1>4
<1> QED BY <1>1, <1>5 DEF t, u

LEMMA OneByOneStep ==
  ASSUME ViewsTypeOK, ViewFits, OneByOne, [ViewsNext]_viewVars
  PROVE  OneByOne'
<1>1. /\ view \in [ViewRequests -> View] /\ recents \in Seq(Viewables) /\ IsInjective(recents) /\ Len(recents) \in Nat
      /\ shown \in Seq(Viewables) /\ IsInjective(shown) /\ Len(shown) \in Nat
  BY LenProperties DEF ViewsTypeOK
<1>2. Limit \in Nat \ {0} /\ Size \in [ViewRequests -> Nat \ {0}]
  BY RecentViewsAssumption
<1> SUFFICES ASSUME ~crossed' PROVE OneByOne'
  BY DEF OneByOne
<1> DEFINE isLatest == Begins(recents, shown) /\ (Len(recents) = Len(shown) \/ Len(recents) >= Limit - 1)
           short == Len(recents) < Limit \/ \E r \in ViewRequests : Len(recents) <= Limit - 1 + Size[r]
           isLatest2 == Begins(recents', shown') /\ (Len(recents') = Len(shown') \/ Len(recents') >= Limit - 1)
           short2 == Len(recents') < Limit \/ \E r \in ViewRequests : Len(recents') <= Limit - 1 + Size[r]
<1>3. (isLatest <=> Latest) /\ (short <=> NotTooLong) /\ (isLatest2 <=> Latest') /\ (short2 <=> NotTooLong')
  BY DEF Latest, LongEnough, NotTooLong
<1> HIDE DEF isLatest, short, isLatest2, short2
\* What holds before the step of a view under way,
<1>4. ASSUME NEW r \in ViewRequests, view[r].at # "idle", ~crossed
      PROVE  /\ \A s \in ViewRequests \ {r} : view[s].at = "idle" /\ view[s] = NoView
             /\ view[r].at \in {"count", "choose", "trim"} => isLatest /\ short
             /\ view[r].at \in {"choose", "trim"} => Len(recents) >= Limit
             /\ view[r].at = "trim" => view[r].keep = {recents[i] : i \in 1 .. Limit - 1}
             /\ view[r].at \in {"upsert", "clear"} => isLatest /\ Len(recents) < Limit
             /\ view[r].at = "insert" => \E n \in 0 .. Len(shown) :
                  /\ n < Limit /\ (n = Len(shown) \/ n >= Limit - 1)
                  /\ recents = Without(SubSeq(shown, 1, n), view[r].ids)
  <2>1. \A s \in ViewRequests \ {r} : view[s].at = "idle" /\ view[s] = NoView
    BY <1>4 DEF OneByOne, ViewFits
  <2>2. view[r].at \in {"count", "choose", "trim"} => isLatest /\ short
    <3> SUFFICES ASSUME view[r].at \in {"count", "choose", "trim"} PROVE isLatest /\ short
      OBVIOUS
    <3>1. \A s \in ViewRequests : ~Writing(s)
      BY <2>1 DEF Writing
    <3> QED BY <1>3, <1>4, <3>1 DEF OneByOne
  <2> QED BY <1>3, <1>4, <2>1, <2>2 DEF OneByOne, LongEnough
\* and what must hold after a step that leaves at most one under way.
<1>5. ASSUME NEW r \in ViewRequests, view' \in [ViewRequests -> View],
             \A s \in ViewRequests \ {r} : view'[s].at = "idle",
             view'[r].at \notin {"upsert", "clear", "insert"} => isLatest2 /\ short2,
             view'[r].at \in {"choose", "trim"} => Len(recents') >= Limit,
             view'[r].at = "trim" => view'[r].keep = {recents'[i] : i \in 1 .. Limit - 1},
             view'[r].at \in {"upsert", "clear"} => isLatest2 /\ Len(recents') < Limit,
             view'[r].at = "insert" => \E n \in 0 .. Len(shown') :
                  /\ n < Limit /\ (n = Len(shown') \/ n >= Limit - 1)
                  /\ recents' = Without(SubSeq(shown', 1, n), view'[r].ids)
      PROVE  OneByOne'
  <2>1. \A s, t \in ViewRequests : view'[s].at # "idle" /\ view'[t].at # "idle" => s = t
    BY <1>5
  <2>2. (\A s \in ViewRequests : ~Writing(s)') => Latest' /\ NotTooLong'
    BY <1>3, <1>5 DEF Writing
  <2>3. ASSUME NEW s \in ViewRequests
        PROVE  /\ view'[s].at \in {"choose", "trim"} => Len(recents') >= Limit
               /\ view'[s].at = "trim" => view'[s].keep = {recents'[i] : i \in 1 .. Limit - 1}
               /\ view'[s].at \in {"upsert", "clear"} => Latest' /\ Len(recents') < Limit
               /\ view'[s].at = "insert" =>
                    \E n \in 0 .. Len(shown') :
                      /\ n < Limit /\ LongEnough(n)'
                      /\ recents' = Without(SubSeq(shown', 1, n), view'[s].ids)
    <3>1. CASE s # r
      BY <1>5, <3>1
    <3>2. CASE s = r
      <4>1. /\ view'[r].at \in {"choose", "trim"} => Len(recents') >= Limit
            /\ view'[r].at = "trim" => view'[r].keep = {recents'[i] : i \in 1 .. Limit - 1}
            /\ view'[r].at \in {"upsert", "clear"} => Latest' /\ Len(recents') < Limit
        BY <1>3, <1>5
      <4>2. view'[r].at = "insert" =>
              \E n \in 0 .. Len(shown') :
                /\ n < Limit /\ LongEnough(n)'
                /\ recents' = Without(SubSeq(shown', 1, n), view'[r].ids)
        BY <1>5 DEF LongEnough
      <4> QED BY <3>2, <4>1, <4>2
    <3> QED BY <3>1, <3>2
  <2> QED BY <2>1, <2>2, <2>3 DEF OneByOne
<1>6. recents' = recents /\ shown' = shown => isLatest2 = isLatest /\ short2 = short
  BY DEF isLatest, short, isLatest2, short2
<1>7. ASSUME UNCHANGED viewVars PROVE OneByOne'
  BY <1>7 DEF viewVars, OneByOne, Writing, Latest, LongEnough, NotTooLong
<1>8. ASSUME NEW r \in ViewRequests, NEW ids \in SUBSET Viewables, NEW batch \in BOOLEAN,
             TrackViews(r, ids, batch)
      PROVE  OneByOne'
  <2>1. /\ view' = [view EXCEPT ![r] = [at |-> "count", ids |-> ids, batch |-> batch, keep |-> {}]]
        /\ recents' = recents /\ shown' = shown /\ view[r] = NoView
        /\ crossed' = (crossed \/ \E s \in ViewRequests \ {r} : view[s] # NoView)
    BY <1>8 DEF TrackViews
  <2>2. ~crossed /\ \A s \in ViewRequests : view[s] = NoView
    BY <2>1
  <2>3. \A s \in ViewRequests : ~Writing(s)
    BY <2>2, NoViewIs DEF Writing
  <2>4. isLatest /\ short
    BY <1>3, <2>2, <2>3 DEF OneByOne
  <2>5. view' \in [ViewRequests -> View]
    BY FitsStep DEF ViewsTypeOK
  <2>6. view'[r].at = "count" /\ \A s \in ViewRequests \ {r} : view'[s].at = "idle"
    BY <1>1, <2>1, <2>2, NoViewIs
  <2> QED BY <1>5, <1>6, <2>1, <2>4, <2>5, <2>6
<1>9. ASSUME NEW r \in ViewRequests, CountEntries(r) PROVE OneByOne'
  <2> DEFINE at == IF Len(recents) >= Limit THEN "choose" ELSE AfterCleanup(r)
  <2>1. ViewGoto(r, at) /\ recents' = recents /\ shown' = shown /\ ~crossed /\ view[r].at = "count"
    BY <1>9 DEF CountEntries
  <2>2. at \in ViewSteps /\ (at = "choose" => Len(recents) >= Limit)
        /\ (at # "choose" => at \in {"upsert", "clear"} /\ ~(Len(recents) >= Limit))
    BY DEF AfterCleanup, ViewSteps
  <2> HIDE DEF at
  <2>3. /\ view' \in [ViewRequests -> View] /\ view'[r].at = at
        /\ \A s \in ViewRequests \ {r} : view'[s] = view[s]
    BY <2>1, <2>2, GotoIs
  <2>4. isLatest /\ short /\ \A s \in ViewRequests \ {r} : view[s].at = "idle"
    BY <1>4, <2>1
  <2>5. at # "choose" => Len(recents) < Limit
    BY <1>1, <1>2, <2>2
  <2> QED BY <1>5, <1>6, <2>1, <2>2, <2>3, <2>4, <2>5
<1>10. ASSUME NEW r \in ViewRequests, EntriesToKeep(r) PROVE OneByOne'
  <2> DEFINE K == {recents[i] : i \in {j \in DOMAIN recents : j < Limit}}
             q == [view[r] EXCEPT !.at = "trim", !.keep = K]
  <2>1. /\ recents' = recents /\ shown' = shown /\ ~crossed /\ view[r].at = "choose"
        /\ view' = [view EXCEPT ![r] = q]
    BY <1>1, <1>10 DEF EntriesToKeep
  <2>2. isLatest /\ short /\ Len(recents) >= Limit /\ \A s \in ViewRequests \ {r} : view[s].at = "idle"
    BY <1>4, <2>1
  <2>3. K = {recents[i] : i \in 1 .. Limit - 1}
    <3>1. DOMAIN recents = 1 .. Len(recents)
      BY <1>1, ElementsAre
    <3>2. {j \in DOMAIN recents : j < Limit} = 1 .. Limit - 1
      BY <1>1, <1>2, <2>2, <3>1
    <3> QED BY <3>2
  <2> HIDE DEF K
  <2>4. q.at = "trim" /\ q.keep = K
    BY <1>1 DEF View
  <2> HIDE DEF q
  <2>5. view' \in [ViewRequests -> View]
    BY FitsStep DEF ViewsTypeOK
  <2>6. view'[r].at = "trim" /\ view'[r].keep = K /\ \A s \in ViewRequests \ {r} : view'[s].at = "idle"
    BY <1>1, <2>1, <2>2, <2>4
  <2> QED BY <1>5, <1>6, <2>1, <2>2, <2>3, <2>5, <2>6
<1>11. ASSUME NEW r \in ViewRequests, DeleteOthers(r) PROVE OneByOne'
  <2>1. /\ RowsDeleted(r, ToSet(recents) \ view[r].keep) /\ shown' = shown /\ ~crossed /\ view[r].at = "trim"
    BY <1>11 DEF DeleteOthers
  <2>2. /\ isLatest /\ Len(recents) >= Limit /\ view[r].keep = {recents[i] : i \in 1 .. Limit - 1}
        /\ \A s \in ViewRequests \ {r} : view[s].at = "idle"
    BY <1>4, <2>1
  <2>3. /\ view' \in [ViewRequests -> View] /\ view'[r].at = AfterCleanup(r)
        /\ \A s \in ViewRequests \ {r} : view'[s].at = view[s].at
        /\ recents' = Without(recents, ToSet(recents) \ view[r].keep) /\ Len(recents') \in Nat
    BY <2>1, RowsDeletedIs
  <2>4. view'[r].at \in {"upsert", "clear"}
    BY <2>3 DEF AfterCleanup
  <2>5. Limit - 1 \in 0 .. Len(recents)
    BY <1>1, <1>2, <2>2
  <2>6. Len(recents') = Limit - 1 /\ \A i \in 1 .. Limit - 1 : recents'[i] = recents[i]
    <3> DEFINE n == Limit - 1
               S == ToSet(recents) \ {recents[i] : i \in 1 .. n}
    <3>1. recents' = Without(recents, S)
      BY <2>2, <2>3
    <3>2. n \in 0 .. Len(recents)
      BY <2>5
    <3> HIDE DEF n
    <3>3. Len(Without(recents, S)) = n /\ \A i \in 1 .. n : Without(recents, S)[i] = recents[i]
      BY <1>1, <3>2, FrontIsKept
    <3> QED BY <3>1, <3>3 DEF n
  <2>7. Len(recents) <= Len(shown) /\ \A i \in 1 .. Len(recents) : recents[i] = shown[i]
    BY <2>2 DEF isLatest, Begins
  <2>8. Begins(recents', shown')
    BY <1>1, <1>2, <2>1, <2>5, <2>6, <2>7 DEF Begins
  <2>9. isLatest2 /\ Len(recents') < Limit
    BY <1>2, <2>6, <2>8 DEF isLatest2
  <2> QED BY <1>5, <2>2, <2>3, <2>4, <2>9
<1>12. ASSUME NEW r \in ViewRequests, DeleteBatch(r) PROVE OneByOne'
  <2>1. RowsDeleted(r, view[r].ids) /\ shown' = shown /\ ~crossed /\ view[r].at = "clear"
    BY <1>12 DEF DeleteBatch
  <2>2. isLatest /\ Len(recents) < Limit /\ \A s \in ViewRequests \ {r} : view[s].at = "idle"
    BY <1>4, <2>1
  <2>3. /\ view' \in [ViewRequests -> View] /\ view'[r].at = "insert" /\ view'[r].ids = view[r].ids
        /\ \A s \in ViewRequests \ {r} : view'[s].at = view[s].at
        /\ recents' = Without(recents, view[r].ids)
    BY <2>1, RowsDeletedIs
  <2>4. recents = SubSeq(shown, 1, Len(recents)) /\ Len(recents) <= Len(shown)
    BY <1>1, <2>2, BeginningIsCut DEF isLatest, Begins
  <2> DEFINE n == Len(recents)
  <2>5. n \in 0 .. Len(shown') /\ n < Limit /\ (n = Len(shown') \/ n >= Limit - 1)
    BY <1>1, <2>1, <2>2, <2>4 DEF isLatest
  <2>6. recents' = Without(SubSeq(shown', 1, n), view'[r].ids)
    BY <2>1, <2>3, <2>4
  <2> HIDE DEF n
  <2>7. \E m \in 0 .. Len(shown') :
          /\ m < Limit /\ (m = Len(shown') \/ m >= Limit - 1)
          /\ recents' = Without(SubSeq(shown', 1, m), view'[r].ids)
    BY <2>5, <2>6
  <2> QED BY <1>5, <2>2, <2>3, <2>7
\* The rows are written on top of p.
<1>13. ASSUME NEW r \in ViewRequests, view[r].at # "idle", ~crossed, ViewDone(r), NEW new \in SetToSeqs(view[r].ids),
              NEW p \in Seq(Viewables), IsInjective(p), Begins(p, shown), Len(p) < Limit,
              Len(p) = Len(shown) \/ Len(p) >= Limit - 1,
              recents' = OnTop(new, p), recents' = OnTop(new, recents), shown' = Shown(new)
       PROVE  OneByOne'
  <2>1. /\ new \in Seq(Viewables) /\ IsInjective(new) /\ Len(new) = Cardinality(view[r].ids)
    BY <1>13, WrittenIs
  <2>2. shown' = OnTop(new, shown)
    BY <1>13 DEF Shown
  <2>3. isLatest2
    BY <1>1, <1>13, <2>1, <2>2, LatestOnTop DEF isLatest2
  <2>4. Len(recents') \in Nat /\ Len(recents') <= Len(new) + Len(p)
    BY <1>13, <2>1, OnTopIs
  <2>5. Cardinality(view[r].ids) <= Size[r] /\ Cardinality(view[r].ids) \in Nat /\ Len(p) \in Nat
    BY <1>1, ViewIs, LenProperties DEF ViewFits
  <2>6. Len(recents') <= Limit - 1 + Size[r]
    BY <1>2, <1>13, <2>1, <2>4, <2>5
  <2>7. short2
    BY <2>6 DEF short2
  <2>8. /\ view' \in [ViewRequests -> View] /\ view'[r].at = "idle"
        /\ \A s \in ViewRequests \ {r} : view'[s].at = "idle"
    BY <1>4, <1>13, DoneIs, NoViewIs
  <2> QED BY <1>5, <2>3, <2>7, <2>8
<1>14. ASSUME NEW r \in ViewRequests, UpsertView(r) PROVE OneByOne'
  <2>1. /\ recents' = OnTop(SetToSeq(view[r].ids), recents) /\ shown' = Shown(SetToSeq(view[r].ids))
        /\ ViewDone(r) /\ view[r].at = "upsert" /\ ~crossed
    BY <1>14 DEF UpsertView
  <2>2. SetToSeq(view[r].ids) \in SetToSeqs(view[r].ids)
    BY <1>1, ViewIs, SetToSeqIsOne
  <2>3. Begins(recents, shown) /\ (Len(recents) = Len(shown) \/ Len(recents) >= Limit - 1) /\ Len(recents) < Limit
    BY <1>4, <2>1 DEF isLatest
  <2> QED BY <1>1, <1>13, <2>1, <2>2, <2>3
<1>15. ASSUME NEW r \in ViewRequests, InsertBatch(r) PROVE OneByOne'
  <2>1. ViewDone(r) /\ view[r].at = "insert" /\ ~crossed
    BY <1>15 DEF InsertBatch
  <2>2. PICK n \in 0 .. Len(shown) :
          /\ n < Limit /\ (n = Len(shown) \/ n >= Limit - 1)
          /\ recents = Without(SubSeq(shown, 1, n), view[r].ids)
    BY <1>4, <2>1
  <2> DEFINE p == SubSeq(shown, 1, n)
  <2>3. p \in Seq(Viewables) /\ Len(p) = n /\ \A i \in 1 .. n : p[i] = shown[i]
    <3>1. n \in Nat /\ 1 \in Int /\ n \in Int /\ \A i \in 1 .. n : shown[i] \in Viewables
      BY <1>1, <2>2, ElementsAre
    <3>2. /\ p \in Seq(Viewables) /\ Len(p) = IF 1 <= n THEN n - 1 + 1 ELSE 0
          /\ \A i \in 1 .. n - 1 + 1 : p[i] = shown[1 + i - 1]
      BY <3>1, SubSeqProperties
    <3> HIDE DEF p
    <3> QED BY <3>1, <3>2
  <2> HIDE DEF p
  <2>4. Begins(p, shown)
    BY <1>1, <2>2, <2>3 DEF Begins
  <2>5. IsInjective(p)
    <3>1. \A i, j \in 1 .. Len(shown) : shown[i] = shown[j] => i = j
      BY <1>1, ElementsAre
    <3>2. \A i, j \in 1 .. Len(p) : p[i] = p[j] => i = j
      BY <1>1, <2>2, <2>3, <3>1
    <3> QED BY <2>3, <3>2, ElementsAre
  <2>6. recents = Without(p, view[r].ids)
    BY <2>2 DEF p
  <2>7. \A x \in view[r].ids : x \notin ToSet(recents)
    BY <2>3, <2>6, WithoutElements
  <2>8. PICK new \in SetToSeqs(view[r].ids) : recents' = OnTop(new, recents) /\ shown' = Shown(new)
    <3>1. ToSet(recents) \intersect view[r].ids = {}
      BY <2>7
    <3> QED BY <1>15, <3>1 DEF InsertBatch
  <2>9. ToSet(new) = view[r].ids
    BY <2>8, WrittenIs
  <2>10. Without(recents, view[r].ids) = recents
    BY <1>1, <2>7, NothingIsTaken
  <2>11. recents' = OnTop(new, p)
    BY <2>6, <2>8, <2>9, <2>10 DEF OnTop
  <2> QED BY <1>13, <2>1, <2>2, <2>3, <2>4, <2>5, <2>8, <2>11
<1> QED BY <1>7, <1>8, <1>9, <1>10, <1>11, <1>12, <1>14, <1>15 DEF ViewsNext

-----------------------------------------------------------------------------

LEMMA ViewInvInit == ViewsInit => ViewIInv
<1> SUFFICES ASSUME ViewsInit PROVE ViewIInv
  OBVIOUS
<1>1. /\ recents = << >> /\ view = [r \in ViewRequests |-> NoView] /\ shown = << >> /\ crossed = FALSE
  BY DEF ViewsInit
<1>2. Limit \in Nat \ {0} /\ Size \in [ViewRequests -> Nat \ {0}]
  BY RecentViewsAssumption
<1>3. << >> \in Seq(Viewables) /\ Len(<< >>) = 0 /\ IsInjective(<< >>)
  BY DEF IsInjective
<1>4. ViewsTypeOK
  BY <1>1, <1>3, NoViewIs DEF ViewsTypeOK
<1>5. \A r \in ViewRequests : view[r] = NoView /\ view[r].at = "idle"
  BY <1>1, NoViewIs
<1>6. ViewFits
  <2>1. Cardinality(NoView.ids) = 0 /\ Cardinality(NoView.keep) = 0
    BY NoViewIs, FS_EmptySet
  <2> QED BY <1>2, <1>5, <2>1 DEF ViewFits
<1>7. RoomIsLeft
  <2>1. RoomTaken \subseteq RoomNamed
    BY DEF RoomTaken
  <2>2. Cardinality(RoomTaken) \in Nat
    BY <2>1, RoomIsFinite, FS_Subset, FS_CardinalityType
  <2> QED BY <1>1, <1>2, <1>3, <2>2 DEF RoomIsLeft
<1>8. OneByOne
  <2>1. Latest /\ NotTooLong
    BY <1>1, <1>2, <1>3 DEF Latest, LongEnough, NotTooLong, Begins
  <2> QED BY <1>5, <2>1 DEF OneByOne
<1> QED BY <1>4, <1>6, <1>7, <1>8 DEF ViewIInv

LEMMA ViewInvStep == ViewIInv /\ [ViewsNext]_viewVars => ViewIInv'
<1> SUFFICES ASSUME ViewIInv, [ViewsNext]_viewVars PROVE ViewIInv'
  OBVIOUS
<1>1. ViewsTypeOK /\ ViewFits /\ RoomIsLeft /\ OneByOne
  BY DEF ViewIInv
<1> QED BY <1>1, FitsStep, RoomStep, OneByOneStep DEF ViewIInv

LEMMA ViewInvariance == ViewsSpec => []ViewIInv
<1> QED BY ViewInvInit, ViewInvStep, PTL DEF ViewsSpec

\* The list, the views under way and the history are well typed.
THEOREM ViewsTypeCorrect == ViewsSpec => []ViewsTypeOK
<1>1. ViewIInv => ViewsTypeOK
  BY DEF ViewIInv
<1> QED BY <1>1, ViewInvariance, PTL

\* However many views are tracked at once the list grows by no more than they name, and
\* while they are tracked one after another it is what was viewed last: for any
\* materials, limit and views.
THEOREM RecentsHoldHolds == ViewsSpec => []RecentsHold
<1>1. ViewIInv => RecentsHold
  <2> SUFFICES ASSUME ViewIInv PROVE RecentsHold
    OBVIOUS
  <2>1. ViewsTypeOK /\ ViewFits /\ RoomIsLeft /\ OneByOne
    BY DEF ViewIInv
  <2>2. recents \in Seq(Viewables) /\ shown \in Seq(Viewables) /\ Len(recents) \in Nat /\ Limit \in Nat
    BY <2>1, LenProperties, RecentViewsAssumption DEF ViewsTypeOK
  <2>3. RecentsAreBounded
    <3>1. RoomTaken \subseteq RoomNamed
      BY DEF RoomTaken
    <3>2. /\ Cardinality(RoomTaken) <= Cardinality(RoomNamed)
          /\ Cardinality(RoomTaken) \in Nat /\ Cardinality(RoomNamed) \in Nat
      BY <3>1, RoomIsFinite, FS_Subset, FS_CardinalityType
    <3> QED BY <2>1, <2>2, <3>2 DEF RoomIsLeft, RecentsAreBounded
  <2>4. ASSUME ~crossed, \A r \in ViewRequests : view[r] = NoView
        PROVE  /\ IsPrefix(recents, shown)
               /\ Len(recents) = Len(shown) \/ Len(recents) >= Limit - 1
               /\ Len(recents) < Limit \/ \E r \in ViewRequests : Len(recents) <= Limit - 1 + Size[r]
    <3>1. \A r \in ViewRequests : ~Writing(r)
      BY <2>4, NoViewIs DEF Writing
    <3>2. Latest /\ NotTooLong
      BY <2>1, <2>4, <3>1 DEF OneByOne
    <3>3. IsPrefix(recents, shown)
      BY <2>2, <3>2, BeginningIsCut DEF Latest
    <3> QED BY <3>2, <3>3 DEF Latest, LongEnough, NotTooLong
  <2> QED BY <2>3, <2>4 DEF RecentsHold, RecentsAreLatest
<1> QED BY <1>1, ViewInvariance, PTL

-----------------------------------------------------------------------------
(***************************************************************************)
(* The parts together: the one that acts keeps its types.                  *)
(***************************************************************************)

MembersIInv ==
  /\ part \in {"accounts", "reset", "moderators", "library", "views", "points", "limit"}
  /\ AccountsTypeOK /\ ResetTypeOK /\ ModTypeOK /\ LibBase /\ ViewIInv /\ PayIInv /\ LimitIInv

\* Whatever part acts, its state is well typed: the specification TLC checks, for all
\* values of its constants.
THEOREM MembersTypeCorrect == MembersSpec => []MembersTypeOK
<1>1. MembersInit => MembersIInv
  <2> SUFFICES ASSUME MembersInit PROVE MembersIInv
    OBVIOUS
  <2>1. ResetInit => ResetTypeOK
    BY ResetInvInit DEF ResetIInv
  <2> QED BY <2>1, SignupTypeInit, ModTypeInit, LibBaseInit, ViewInvInit, PayInvInit, LimitInvInit
          DEF MembersInit, MembersIInv
<1> DEFINE all == <<part, accountVars, resetVars, modVars, libVars, viewVars, payVars, limitVars>>
<1>2. MembersIInv /\ [MembersNext]_all => MembersIInv'
  <2> SUFFICES ASSUME MembersIInv, [MembersNext]_all
               PROVE  MembersIInv'
    OBVIOUS
  <2>1. /\ part' = part /\ [SignupNext]_accountVars /\ [ResetNext]_resetVars /\ [ModNext]_modVars
        /\ [LibNext]_libVars /\ [ViewsNext]_viewVars /\ [PointsNext]_payVars /\ [LimitNext]_limitVars
    BY DEF MembersNext, Others
  <2> QED BY <2>1, SignupTypeStep, ResetTypeStep, ModTypeStep, LibBaseStep, ViewInvStep, PayInvStep,
             LimitInvStep DEF MembersIInv
<1>3. MembersIInv => MembersTypeOK
  BY DEF MembersIInv, MembersTypeOK, LibBase, ViewIInv, PayIInv, LimitIInv
<1> QED BY <1>1, <1>2, <1>3, PTL DEF MembersSpec

=============================================================================
