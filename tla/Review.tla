------------------------------- MODULE Review -------------------------------
(***************************************************************************)
(* The review of what users submit.  A controller reads the item, writes   *)
(* the verdict, looks up the creator, sends the mail of a rejection and    *)
(* (for materials) inserts a notification, with nothing around the five.   *)
(* The dashboard counts pending, approved and rejected items by three      *)
(* queries.  Applications of moderators are in module Moderators.          *)
(***************************************************************************)
EXTENDS Integers, FiniteSets

CONSTANTS
  Reviewed,        \* items
  Kind,            \* their kinds
  Seeded,          \* courses without a creator, and their links
  ReviewRequests,  \* requests that may be in flight at once
  MaxCounting,     \* bound: counts under way at once: they only read
  MaxReviewFaults  \* bound: requests cut short

Kinds == {"material", "blog", "advert", "course", "link"}

ASSUME ReviewAssumption ==
  /\ IsFiniteSet(Reviewed)
  /\ Kind \in [Reviewed -> Kinds]
  /\ Seeded \subseteq {i \in Reviewed : Kind[i] \in {"course", "link"}}
  /\ MaxCounting \in Nat /\ MaxReviewFaults \in Nat

VARIABLES
  verdict,       \* review_status of each item, "unborn" before and "gone" after
  notified,      \* what the creator was last told in the app
  mailed,        \* items whose creator was mailed a rejection since the last approval
  rev,           \* the requests in flight
  contested,     \* history: items of which two reviews overlapped,
  untold,        \* or a review ended after the verdict was written, until one runs alone
  reviewFaults   \* requests cut short

itemVars == <<verdict, notified, mailed, contested, untold>>
reviewVars == <<itemVars, rev, reviewFaults>>

Verdicts == {"approved", "rejected"}
ReviewStatuses == Verdicts \union {"pending"}
Submitted(i) == verdict[i] \in ReviewStatuses

\* count: what the dashboard has counted so far, and what it counts next.
RevRequest ==
  [at : {"idle", "write", "tell", "notify", "count", "counted"},
   about : SUBSET Reviewed,
   action : ReviewStatuses,
   tally : [ReviewStatuses -> 0 .. Cardinality(Reviewed)],
   alone : BOOLEAN,   \* history: no other review of the item overlapped this one
   moved : BOOLEAN]   \* history: an item changed since the count began
NoTally == [s \in ReviewStatuses |-> 0]
RevIdle == [at |-> "idle", about |-> {}, action |-> "pending", tally |-> NoTally,
            alone |-> TRUE, moved |-> FALSE]

ReviewTypeOK ==
  /\ verdict \in [Reviewed -> ReviewStatuses \union {"unborn", "gone"}]
  /\ notified \in [Reviewed -> Verdicts \union {"nothing"}]
  /\ \A i \in Reviewed : notified[i] # "nothing" => Kind[i] = "material"
  /\ mailed \in SUBSET (Reviewed \ Seeded)
  /\ rev \in [ReviewRequests -> RevRequest]
  /\ contested \in SUBSET Reviewed /\ untold \in SUBSET Reviewed
  /\ reviewFaults \in 0 .. MaxReviewFaults

ReviewInit ==
  /\ verdict = [i \in Reviewed |-> IF i \in Seeded THEN "pending" ELSE "unborn"]
  /\ notified = [i \in Reviewed |-> "nothing"]
  /\ mailed = {}
  /\ rev = [r \in ReviewRequests |-> RevIdle]
  /\ contested = {} /\ untold = {}
  /\ reviewFaults = 0

RevGoto(r, at) == rev' = [rev EXCEPT ![r].at = at]
RevEnd(r) == rev' = [rev EXCEPT ![r] = RevIdle]
About(r, x) == x \in rev[r].about

\* The counts under way see the item in one place or the other, or in both or none.
Stirred == [s \in ReviewRequests |->
             IF rev[s].at \in {"count", "counted"} THEN [rev[s] EXCEPT !.moved = TRUE] ELSE rev[s]]

Others(r, x) == {s \in ReviewRequests \ {r} : About(s, x)}

-----------------------------------------------------------------------------
(* Items *)

\* What an administrator or a moderator submits is approved at once.
Submit(i, status) ==
  /\ verdict[i] = "unborn"
  /\ status \in {"pending", "approved"}
  /\ verdict' = [verdict EXCEPT ![i] = status]
  /\ rev' = Stirred
  /\ UNCHANGED <<notified, mailed, contested, untold, reviewFaults>>

\* The verdict may be any status, pending among them.  A blog's review ends here: it
\* reads the blog with its body, and the storage service refuses to fetch a body.
ReadItem(r, i, action) ==
  /\ rev[r] = RevIdle
  /\ Submitted(i) /\ Kind[i] # "blog"
  /\ rev' = [s \in ReviewRequests |->
               IF s = r THEN [RevIdle EXCEPT !.at = "write", !.about = {i}, !.action = action,
                                             !.alone = (Others(r, i) = {})]
               ELSE [rev[s] EXCEPT !.alone = @ /\ ~About(s, i)]]
  /\ contested' = IF Others(r, i) = {} THEN contested ELSE contested \union {i}
  /\ UNCHANGED <<verdict, notified, mailed, untold, reviewFaults>>

\* Mutant: only what is pending can be decided, and the caller is not told.
WriteVerdictOnce(r) ==
  /\ rev[r].at = "write"
  /\ \E i \in rev[r].about :
       /\ verdict' = IF verdict[i] = "pending" THEN [verdict EXCEPT ![i] = rev[r].action] ELSE verdict
       /\ rev' = IF Submitted(i) THEN [Stirred EXCEPT ![r].at = "tell"] ELSE [rev EXCEPT ![r] = RevIdle]
  /\ UNCHANGED <<notified, mailed, contested, untold, reviewFaults>>

\* A course is updated without a second look, and one that has gone is no error; the
\* other services look again and refuse what has gone.
WriteVerdict(r) ==
  /\ rev[r].at = "write"
  /\ \E i \in rev[r].about :
       IF Submitted(i)
       THEN /\ verdict' = [verdict EXCEPT ![i] = rev[r].action]
            /\ rev' = [Stirred EXCEPT ![r].at = "tell"]
       ELSE /\ UNCHANGED verdict
            /\ IF Kind[i] = "course" THEN RevGoto(r, "tell") ELSE RevEnd(r)
  /\ UNCHANGED <<notified, mailed, contested, untold, reviewFaults>>

\* The creator has been told: after a review that ran alone, what its verdict says.
Told(r, i) ==
  /\ contested' = IF rev[r].alone THEN contested \ {i} ELSE contested
  /\ untold' = IF rev[r].alone THEN untold \ {i} ELSE untold

\* The creator is looked up: without one a link's review ends well and a course's fails.
\* The mail of a rejection is handed over at once, a notification inserted later.
TellCreator(r) ==
  /\ rev[r].at = "tell"
  /\ \E i \in rev[r].about :
       /\ mailed' = CASE rev[r].action = "rejected" -> mailed \union ({i} \ Seeded)
                      [] rev[r].action = "approved" -> mailed \ {i}
                      [] rev[r].action = "pending"  -> mailed
       /\ IF Kind[i] = "material"
          THEN RevGoto(r, "notify") /\ UNCHANGED <<contested, untold>>
          ELSE RevEnd(r) /\ Told(r, i)
  /\ UNCHANGED <<verdict, notified, reviewFaults>>

\* The notification of a material: whatever is not an approval is announced as a rejection.
NoticeOf(action) == IF action = "approved" THEN "approved" ELSE "rejected"

CreateNotification(r) ==
  /\ rev[r].at = "notify"
  /\ \E i \in rev[r].about : /\ notified' = [notified EXCEPT ![i] = NoticeOf(rev[r].action)]
                             /\ Told(r, i)
  /\ RevEnd(r)
  /\ UNCHANGED <<verdict, mailed, reviewFaults>>

RemoveItem(i) ==
  /\ Submitted(i)
  /\ verdict' = [verdict EXCEPT ![i] = "gone"]
  /\ rev' = Stirred
  /\ UNCHANGED <<notified, mailed, contested, untold, reviewFaults>>

-----------------------------------------------------------------------------
(* The dashboard *)

Having(status) == Cardinality({i \in Reviewed : verdict[i] = status})

BeginCount(r) ==
  /\ rev[r] = RevIdle
  /\ Cardinality({s \in ReviewRequests : rev[s].at \in {"count", "counted"}}) < MaxCounting
  /\ rev' = [rev EXCEPT ![r] = [RevIdle EXCEPT !.at = "count"]]
  /\ UNCHANGED <<itemVars, reviewFaults>>

\* Mutant: whatever is not pending counts as approved, rejected or not.
CountByStatusLoosely(r) ==
  /\ rev[r].at = "count"
  /\ LET status == rev[r].action
     IN rev' = [rev EXCEPT
          ![r].tally[status] =
             IF status = "approved" THEN Having("approved") + Having("rejected") ELSE Having(status),
          ![r].action = IF status = "pending" THEN "approved" ELSE "rejected",
          ![r].at = IF status = "rejected" THEN "counted" ELSE "count"]
  /\ UNCHANGED <<itemVars, reviewFaults>>

\* Pending, approved, rejected: each query sees what is committed when it runs.
CountByStatus(r) ==
  /\ rev[r].at = "count"
  /\ LET status == rev[r].action
     IN rev' = [rev EXCEPT
          ![r].tally[status] = Having(status),
          ![r].action = IF status = "pending" THEN "approved" ELSE "rejected",
          ![r].at = IF status = "rejected" THEN "counted" ELSE "count"]
  /\ UNCHANGED <<itemVars, reviewFaults>>

AnswerCount(r) ==
  /\ rev[r].at = "counted"
  /\ RevEnd(r)
  /\ UNCHANGED <<itemVars, reviewFaults>>

\* A step throws or the process dies.
ReviewAbort(r) ==
  /\ rev[r].at \notin {"idle", "count", "counted"}
  /\ reviewFaults < MaxReviewFaults
  /\ reviewFaults' = reviewFaults + 1
  /\ untold' = IF rev[r].at \in {"tell", "notify"} THEN untold \union rev[r].about ELSE untold
  /\ RevEnd(r)
  /\ UNCHANGED <<verdict, notified, mailed, contested>>

-----------------------------------------------------------------------------

ReviewNext ==
  \/ \E i \in Reviewed : RemoveItem(i) \/ \E s \in ReviewStatuses : Submit(i, s)
  \/ \E r \in ReviewRequests :
       \/ \E i \in Reviewed, a \in ReviewStatuses : ReadItem(r, i, a)
       \/ WriteVerdict(r)
       \/ TellCreator(r)
       \/ CreateNotification(r)
       \/ BeginCount(r)
       \/ CountByStatus(r)
       \/ AnswerCount(r)
       \/ ReviewAbort(r)

ReviewSpec == ReviewInit /\ [][ReviewNext]_reviewVars

-----------------------------------------------------------------------------
(* Properties *)

\* When nobody is reviewing an item, its creator was last told what its status says: a
\* rejection by mail, and for a material a notification, which announces one that was put
\* back to pending as rejected.  After two reviews that overlapped, or one cut short past
\* its verdict, this holds again once a review has run alone.
CreatorKnowsVerdict ==
  \A i \in Reviewed \ (contested \union untold \union Seeded) :
    Submitted(i) /\ (\A r \in ReviewRequests : ~About(r, i))
      => /\ verdict[i] \in Verdicts => (i \in mailed) = (verdict[i] = "rejected")
         /\ notified[i] \in {"nothing", NoticeOf(verdict[i])}

\* The dashboard's counts add up to the items there are, unless an item was
\* submitted, decided or removed between the queries.
CountsAddUp ==
  \A r \in ReviewRequests :
    rev[r].at = "counted" /\ ~rev[r].moved
      => rev[r].tally["pending"] + rev[r].tally["approved"] + rev[r].tally["rejected"]
           = Cardinality({i \in Reviewed : Submitted(i)})
=============================================================================
