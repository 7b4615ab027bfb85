------------------------------- MODULE Points -------------------------------
(***************************************************************************)
(* The points of one user: two a day for reading, and some for every       *)
(* upload and download, whose counters in the user's row move first.       *)
(* A row of the points table says how many, not what for: whether today's  *)
(* reading is paid is looked up as "any row of today".                     *)
(***************************************************************************)
EXTENDS Integers, FiniteSets

CONSTANTS
  PayRequests,   \* requests that may be in flight at once
  MaxDays,       \* bound: midnights
  MaxRows,       \* bound: uploads and downloads
  MaxAwards,     \* bound: rows for reading in a day
  MaxPayFaults   \* bound: requests cut short

ASSUME PointsAssumption ==
  MaxDays \in Nat /\ MaxRows \in Nat /\ MaxAwards \in Nat /\ MaxPayFaults \in Nat

VARIABLES
  today,     \* rows of today: for reading, and for anything else
  counted,   \* uploads and downloads counted in the user's row
  paid,      \* rows for uploads and downloads
  pay,       \* where each request is
  day,       \* midnights so far
  answered,  \* history: a request to be paid for reading was answered today
  racing,    \* history: two requests to be paid for reading overlapped
  payFaults  \* requests cut short

payVars == <<today, counted, paid, pay, day, answered, racing, payFaults>>

PointsTypeOK ==
  /\ today \in [reading : 0 .. MaxAwards, other : 0 .. MaxRows]
  /\ counted \in 0 .. MaxRows /\ paid \in 0 .. MaxRows
  /\ pay \in [PayRequests -> {"idle", "read", "award", "tell", "count", "row"}]
  /\ day \in 0 .. MaxDays
  /\ answered \in BOOLEAN /\ racing \in BOOLEAN
  /\ payFaults \in 0 .. MaxPayFaults

PointsInit ==
  /\ today = [reading |-> 0, other |-> 0]
  /\ counted = 0 /\ paid = 0
  /\ pay = [r \in PayRequests |-> "idle"]
  /\ day = 0
  /\ answered = FALSE /\ racing = FALSE
  /\ payFaults = 0

PayGoto(r, at) == pay' = [pay EXCEPT ![r] = at]

-----------------------------------------------------------------------------
(* Reading *)

\* The client asks every five minutes.
AllocateReadingPoints(r) ==
  /\ pay[r] = "idle"
  /\ PayGoto(r, "read")
  /\ racing' = (racing \/ \E s \in PayRequests \ {r} : pay[s] \in {"read", "award"})
  /\ UNCHANGED <<today, counted, paid, day, answered, payFaults>>

\* Mutant: what is found does not matter.
FindPointsOfTodayIgnored(r) ==
  /\ pay[r] = "read"
  /\ PayGoto(r, "award")
  /\ UNCHANGED <<today, counted, paid, day, answered, racing, payFaults>>

\* A row of any kind counts.
FindPointsOfToday(r) ==
  /\ pay[r] = "read"
  /\ IF today.reading + today.other > 0
     THEN PayGoto(r, "idle") /\ answered' = TRUE
     ELSE PayGoto(r, "award") /\ UNCHANGED answered
  /\ UNCHANGED <<today, counted, paid, day, racing, payFaults>>

InsertReadingPoints(r) ==
  /\ pay[r] = "award"
  /\ today.reading < MaxAwards
  /\ today' = [today EXCEPT !.reading = @ + 1]
  /\ PayGoto(r, "tell")
  /\ UNCHANGED <<counted, paid, day, answered, racing, payFaults>>

\* The user is notified, then the request is answered.
NotifyAward(r) ==
  /\ pay[r] = "tell"
  /\ answered' = TRUE
  /\ PayGoto(r, "idle")
  /\ UNCHANGED <<today, counted, paid, day, racing, payFaults>>

-----------------------------------------------------------------------------
(* Uploads and downloads *)

IncrementCount(r) ==
  /\ pay[r] = "idle"
  /\ counted < MaxRows
  /\ counted' = counted + 1
  /\ PayGoto(r, "row")
  /\ UNCHANGED <<today, paid, day, answered, racing, payFaults>>

AllocatePointsImmediate(r) ==
  /\ pay[r] = "row"
  /\ today' = [today EXCEPT !.other = @ + 1]
  /\ paid' = paid + 1
  /\ PayGoto(r, "idle")
  /\ UNCHANGED <<counted, day, answered, racing, payFaults>>

Midnight ==
  /\ day < MaxDays
  /\ day' = day + 1
  /\ today' = [reading |-> 0, other |-> 0]
  /\ answered' = FALSE
  /\ UNCHANGED <<counted, paid, pay, racing, payFaults>>

\* A step throws or the process dies.
PayAbort(r) ==
  /\ pay[r] # "idle"
  /\ payFaults < MaxPayFaults
  /\ payFaults' = payFaults + 1
  /\ PayGoto(r, "idle")
  /\ UNCHANGED <<today, counted, paid, day, answered, racing>>

PointsNext ==
  \/ \E r \in PayRequests :
       \/ AllocateReadingPoints(r)
       \/ FindPointsOfToday(r)
       \/ InsertReadingPoints(r)
       \/ NotifyAward(r)
       \/ IncrementCount(r)
       \/ AllocatePointsImmediate(r)
       \/ PayAbort(r)
  \/ Midnight

PointsSpec == PointsInit /\ [][PointsNext]_payVars

-----------------------------------------------------------------------------
(* Properties *)

\* Reading is paid at most once a day unless two requests for it overlapped, whatever
\* is uploaded and downloaded in between and whenever midnight falls.
ReadingPaidOnce == ~racing => today.reading <= 1

\* "Points for reading materials (once per day)": once a request for them was answered
\* today, today's reading has been paid.
ReadingIsPaid == answered => today.reading >= 1

\* A user never has more points for uploads and downloads than the profile counts, and
\* lacks only those under way or cut short.
PaidAsCounted ==
  LET under == Cardinality({r \in PayRequests : pay[r] = "row"})
  IN counted - payFaults <= paid + under /\ paid + under <= counted

\* What earns points is paid, once.
PaidOnce == ReadingPaidOnce /\ PaidAsCounted
=============================================================================
