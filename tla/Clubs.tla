------------------------------- MODULE Clubs -------------------------------
(***************************************************************************)
(* One club: its status and the mail that announces it, its targeting and  *)
(* the rows of its target departments, its joins and the join counter, the *)
(* flags against it.  Its image is in module Media, its lists in Listings. *)
(***************************************************************************)
EXTENDS Integers, FiniteSets

CONSTANTS
  Joiners,        \* users who join
  Targets,        \* departments
  ClubRequests,   \* requests that may be in flight at once
  SentStatuses,   \* bound: the statuses an update's body may name
  SentCounts,     \* bound: the join counts an update's body may name
  MaxJoins,       \* bound: joins recorded
  MaxApprovals,   \* bound: approval mails counted
  MaxClubFaults   \* bound: requests cut short

Statuses == {"pending", "live", "hidden"}   \* flagged is like hidden

ASSUME ClubsAssumption ==
  /\ SentStatuses \subseteq Statuses
  /\ IsFiniteSet(Joiners)
  /\ SentCounts \subseteq 0 .. MaxJoins
  /\ MaxJoins \in Nat /\ MaxApprovals \in Nat /\ MaxClubFaults \in Nat

VARIABLES
  club,        \* the status in the row, "unborn" before and "gone" after
  targeting,   \* in the row
  target,      \* rows of club_target_departments
  joined,      \* users with a row in club_joins
  joinCount,   \* in the row
  flag,        \* status of the flag against the club; reviewed and dismissed are alike
  clubReq,     \* the requests in flight
  approvals,   \* approval mails since the club was last set to pending
  clubFaults,  \* requests cut short
  extra,       \* history: by how much the counter exceeds the joins: repeated ones, and
               \* what an update sent as the counter
  together,    \* history: two approvals of the club overlapped
  kept         \* history: departments in rows when an update that made the club public
               \* listed none or was cut short, or written for another targeting
               \* than the row's, since the rows were last replaced

clubVars == <<club, targeting, target, joined, joinCount, flag, clubReq, approvals,
              clubFaults, extra, together, kept>>

Targetings == {"public", "departments"}   \* all that are not public are alike
ClubThere == club \in Statuses

ClubRequest ==
  [at : {"idle", "row", "targets", "join", "status", "mail", "hide"},
   read : Statuses \union Targetings \union {"none"},   \* what the look-up returned
   to : Statuses \union Targetings \union {"none"},     \* what is to be written
   ids : SUBSET Targets,
   who : SUBSET Joiners]
ClubIdle == [at |-> "idle", read |-> "none", to |-> "none", ids |-> {}, who |-> {}]

ClubTypeOK ==
  /\ club \in Statuses \union {"unborn", "gone"}
  /\ targeting \in Targetings
  /\ target \in SUBSET (IF ClubThere THEN Targets ELSE {})
  /\ joined \in SUBSET (IF ClubThere THEN Joiners ELSE {})
  /\ joinCount \in 0 .. MaxJoins
  /\ flag \in {"none", "pending", "resolved"}
  /\ flag # "none" => ClubThere
  /\ clubReq \in [ClubRequests -> ClubRequest]
  /\ approvals \in 0 .. MaxApprovals
  /\ clubFaults \in 0 .. MaxClubFaults
  /\ extra \in Int /\ together \in BOOLEAN /\ kept \in SUBSET Targets

ClubInit ==
  /\ club = "unborn"
  /\ targeting = "public"
  /\ target = {}
  /\ joined = {}
  /\ joinCount = 0
  /\ flag = "none"
  /\ clubReq = [r \in ClubRequests |-> ClubIdle]
  /\ approvals = 0
  /\ clubFaults = 0
  /\ extra = 0 /\ together = FALSE /\ kept = {}

ClubBegin(r, q) == clubReq[r] = ClubIdle /\ clubReq' = [clubReq EXCEPT ![r] = q]
ClubEnd(r) == clubReq' = [clubReq EXCEPT ![r] = ClubIdle]

rowVars == <<club, targeting, target, kept>>
joinVars == <<joined, joinCount, extra>>
mailVars == <<approvals, together>>

\* Approvals of the club that have read it as pending.
Approving(r) ==
  {s \in ClubRequests \ {r} : /\ clubReq[s].at \in {"status", "mail"}
                              /\ clubReq[s].to = "live" /\ clubReq[s].read = "pending"}

\* The status becomes s: approval mails are counted anew from pending.
WriteStatus(r, s) ==
  /\ club' = IF ClubThere THEN s ELSE club
  /\ approvals' = IF s = "pending" THEN 0 ELSE approvals
  /\ together' = (together \/ (s = "pending" /\ Approving(r) # {}))

\* The targeting for which r writes departments.
MeantTargeting(r) == IF clubReq[r].to # "none" THEN clubReq[r].to ELSE clubReq[r].read

-----------------------------------------------------------------------------
(* create, update, remove *)

\* An administrator's club is live at once; departments follow in a second step.
CreateClub(r, status, t, ids) ==
  /\ club = "unborn"
  /\ status \in {"pending", "live"}
  /\ club' = status
  /\ targeting' = t
  /\ IF t # "public" /\ ids # {}
     THEN ClubBegin(r, [ClubIdle EXCEPT !.at = "targets", !.to = t, !.ids = ids])
     ELSE clubReq[r] = ClubIdle /\ UNCHANGED clubReq
  /\ UNCHANGED <<target, kept, flag, clubFaults, joinVars, mailVars>>

\* t = "none": the request leaves the targeting as it is, and only then is what it read
\* of use later.
BeginClubUpdate(r, t) ==
  /\ ClubThere
  /\ ClubBegin(r, [ClubIdle EXCEPT !.at = "row", !.read = IF t = "none" THEN targeting ELSE "none", !.to = t])
  /\ UNCHANGED <<rowVars, flag, clubFaults, joinVars, mailVars>>

\* The row takes whatever columns the body names: the validation pipe lets the status
\* (s) and the join counter (n) pass, {} being absent.  Departments follow only when the
\* request lists them.
UpdateClubRow(r, s, n, listed, ids) ==
  /\ clubReq[r].at = "row"
  /\ Cardinality(s) <= 1 /\ Cardinality(n) <= 1
  /\ ids = {} \/ listed
  /\ IF s = {} THEN UNCHANGED <<club, mailVars>> ELSE \E status \in s : WriteStatus(r, status)
  /\ IF n = {} \/ ~ClubThere THEN UNCHANGED joinVars
     ELSE /\ joinCount' \in n
          /\ extra' = joinCount' - Cardinality(joined)
          /\ UNCHANGED joined
  /\ targeting' = IF clubReq[r].to # "none" /\ ClubThere THEN clubReq[r].to ELSE targeting
  /\ kept' = IF ~listed /\ clubReq[r].to = "public" THEN target ELSE kept
  /\ clubReq' = [clubReq EXCEPT ![r] =
                   IF listed /\ ClubThere THEN [@ EXCEPT !.at = "targets", !.ids = ids] ELSE ClubIdle]
  /\ UNCHANGED <<target, flag, clubFaults>>

\* Mutant: a club that has become public keeps the departments of the request.
SetTargetDepartmentsAnyway(r) ==
  /\ clubReq[r].at = "targets"
  /\ target' = IF ClubThere THEN clubReq[r].ids ELSE {}
  /\ kept' = IF ClubThere /\ MeantTargeting(r) # targeting THEN target' ELSE {}
  /\ ClubEnd(r)
  /\ UNCHANGED <<club, targeting, flag, clubFaults, joinVars, mailVars>>

\* One transaction replaces the departments: by none when the targeting of the
\* request, or else of the row it read, is public.
SetTargetDepartments(r) ==
  /\ clubReq[r].at = "targets"
  /\ target' = IF MeantTargeting(r) = "public" \/ ~ClubThere THEN {} ELSE clubReq[r].ids
  /\ kept' = IF ClubThere /\ MeantTargeting(r) # targeting THEN target' ELSE {}
  /\ ClubEnd(r)
  /\ UNCHANGED <<club, targeting, flag, clubFaults, joinVars, mailVars>>

\* Departments, joins and flags go with the club.
RemoveClub ==
  /\ ClubThere
  /\ club' = "gone"
  /\ target' = {}
  /\ joined' = {}
  /\ joinCount' = 0
  /\ extra' = 0
  /\ kept' = {}
  /\ flag' = "none"
  /\ UNCHANGED <<targeting, clubReq, clubFaults, mailVars>>

-----------------------------------------------------------------------------
(* Joins: the answer does not wait for the record *)

TrackJoin(r, u) ==
  /\ ClubThere
  /\ ClubBegin(r, [ClubIdle EXCEPT !.at = "join", !.who = {u}])
  /\ UNCHANGED <<rowVars, flag, clubFaults, joinVars, mailVars>>

\* Mutant: the counter is left alone.
CreateJoinUncounted(r) ==
  /\ clubReq[r].at = "join"
  /\ joined' = IF ClubThere THEN joined \union clubReq[r].who ELSE joined
  /\ ClubEnd(r)
  /\ extra' = IF ClubThere /\ clubReq[r].who \subseteq joined THEN extra + 1 ELSE extra
  /\ UNCHANGED <<rowVars, joinCount, flag, clubFaults, mailVars>>

\* One transaction; ON CONFLICT DO NOTHING holds for the row, not for the counter.
CreateJoin(r) ==
  /\ clubReq[r].at = "join"
  /\ ClubThere => joinCount < MaxJoins
  /\ IF ClubThere
     THEN /\ joined' = joined \union clubReq[r].who
          /\ joinCount' = joinCount + 1
          /\ extra' = IF clubReq[r].who \subseteq joined THEN extra + 1 ELSE extra
     ELSE UNCHANGED joinVars   \* foreign key: logged and dropped
  /\ ClubEnd(r)
  /\ UNCHANGED <<rowVars, flag, clubFaults, mailVars>>

-----------------------------------------------------------------------------
(* Status, and the mail of the approval *)

BeginUpdateStatus(r, status) ==
  /\ ClubThere
  /\ ClubBegin(r, [ClubIdle EXCEPT !.at = "status", !.read = IF status = "live" THEN club ELSE "none", !.to = status])
  /\ together' = (together \/ (status = "live" /\ club = "pending" /\ Approving(r) # {}))
  /\ UNCHANGED <<rowVars, flag, approvals, clubFaults, joinVars>>

\* Mutant: every change to live sends the mail.
UpdateStatusAlwaysMails(r) ==
  /\ clubReq[r].at = "status"
  /\ WriteStatus(r, clubReq[r].to)
  /\ clubReq' = [clubReq EXCEPT ![r] = IF @.to = "live" THEN [@ EXCEPT !.at = "mail"] ELSE ClubIdle]
  /\ UNCHANGED <<targeting, target, kept, flag, clubFaults, joinVars>>

\* Whether a mail is due is decided by the status read before the write, which tells
\* only for the change to live.
UpdateStatus(r) ==
  /\ clubReq[r].at = "status"
  /\ WriteStatus(r, clubReq[r].to)
  /\ clubReq' = [clubReq EXCEPT ![r] = IF @.to = "live" /\ @.read = "pending"
                                       THEN [@ EXCEPT !.at = "mail"] ELSE ClubIdle]
  /\ UNCHANGED <<targeting, target, kept, flag, clubFaults, joinVars>>

\* The organizer is looked up and mailed.
SendApproval(r) ==
  /\ clubReq[r].at = "mail"
  /\ approvals < MaxApprovals
  /\ approvals' = approvals + 1
  /\ ClubEnd(r)
  /\ UNCHANGED <<rowVars, flag, together, clubFaults, joinVars>>

-----------------------------------------------------------------------------
(* Flags *)

FlagClub ==
  /\ ClubThere
  /\ flag # "pending"
  /\ flag' = "pending"
  /\ UNCHANGED <<rowVars, clubReq, clubFaults, joinVars, mailVars>>

\* Approve, hide and dismiss resolve it; hiding the club is a second statement.
ResolveFlag(r, hide) ==
  /\ flag # "none"
  /\ flag' = "resolved"
  /\ IF hide
     THEN ClubBegin(r, [ClubIdle EXCEPT !.at = "hide"])
     ELSE clubReq[r] = ClubIdle /\ UNCHANGED clubReq
  /\ UNCHANGED <<rowVars, clubFaults, joinVars, mailVars>>

HideClub(r) ==
  /\ clubReq[r].at = "hide"
  /\ club' = IF ClubThere THEN "hidden" ELSE club
  /\ ClubEnd(r)
  /\ UNCHANGED <<targeting, target, kept, flag, clubFaults, joinVars, mailVars>>

\* A step throws or the process dies.
ClubAbort(r) ==
  /\ clubReq[r] # ClubIdle
  /\ clubFaults < MaxClubFaults
  /\ clubFaults' = clubFaults + 1
  /\ kept' = IF clubReq[r].at = "targets" THEN target ELSE kept
  /\ ClubEnd(r)
  /\ UNCHANGED <<club, targeting, target, flag, joinVars, mailVars>>

-----------------------------------------------------------------------------

ClubNext ==
  \/ \E r \in ClubRequests :
       \/ \E s \in Statuses, t \in Targetings, ids \in SUBSET Targets : CreateClub(r, s, t, ids)
       \/ \E t \in Targetings \union {"none"} : BeginClubUpdate(r, t)
       \/ \E s \in SUBSET SentStatuses, n \in SUBSET SentCounts,
            listed \in BOOLEAN, ids \in SUBSET Targets : UpdateClubRow(r, s, n, listed, ids)
       \/ SetTargetDepartments(r)
       \/ \E u \in Joiners : TrackJoin(r, u)
       \/ CreateJoin(r)
       \/ \E s \in Statuses : BeginUpdateStatus(r, s)
       \/ UpdateStatus(r)
       \/ SendApproval(r)
       \/ \E hide \in BOOLEAN : ResolveFlag(r, hide)
       \/ HideClub(r)
       \/ ClubAbort(r)
  \/ FlagClub
  \/ RemoveClub

ClubSpec == ClubInit /\ [][ClubNext]_clubVars

-----------------------------------------------------------------------------
(* Properties *)

\* A public club has no target departments, by which a filter would find it after it
\* has left them, once no update that made it public is about to clear them, but those
\* kept.  The documents promise that going public clears them (CLUBS_API_DOCS.md:266):
\* an update does so only when it lists departments and is not cut short, and only as
\* long as no update for another targeting writes its own; the next one that lists
\* departments for the targeting in the row clears what was kept.
PublicHasNoTargets ==
  targeting = "public" /\ (\A r \in ClubRequests : ~(clubReq[r].at = "targets" /\ clubReq[r].to = "public"))
    => target \subseteq kept

\* The join counter exceeds the users who joined by the joins that were repeated, no
\* more and no less however joins overlap or fail, but for what an update sent as the
\* counter.
JoinsAreCounted == ClubThere => joinCount = Cardinality(joined) + extra

\* Unless two approvals overlapped, the organizer gets one approval mail, however the
\* status is moved, until the club is set to pending again.
OneApprovalMail == ~together => approvals <= 1
=============================================================================
