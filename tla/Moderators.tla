---------------------------- MODULE Moderators ----------------------------
(***************************************************************************)
(* Applications of moderators.  Whoever signs up as a moderator has the    *)
(* role at once and an application right after; an administrator's         *)
(* rejection sets the role back and then deletes the application, an       *)
(* approval writes the role again and leaves the application as it is.     *)
(***************************************************************************)
EXTENDS Integers

CONSTANTS
  Applicants,
  ModRequests,    \* requests that may be in flight at once
  MaxModFaults    \* bound: requests cut short

ASSUME ModeratorsAssumption == MaxModFaults \in Nat

VARIABLES
  modRole,       \* users.role, "none" before the sign-up
  application,   \* users with a row in the moderator table
  modReq,        \* the requests in flight
  appealed,      \* history: applicants of whom two reviews overlapped or one request was cut short
  modFaults      \* requests cut short

modVars == <<modRole, application, modReq, appealed, modFaults>>

ModRequest == [at : {"idle", "apply", "role", "withdraw"},
               about : SUBSET Applicants, action : {"approved", "rejected"}]
ModIdle == [at |-> "idle", about |-> {}, action |-> "approved"]

ModTypeOK ==
  /\ modRole \in [Applicants -> {"none", "student", "moderator"}]
  /\ application \in SUBSET Applicants
  /\ modReq \in [ModRequests -> ModRequest]
  /\ appealed \in SUBSET Applicants
  /\ modFaults \in 0 .. MaxModFaults

ModInit ==
  /\ modRole = [u \in Applicants |-> "none"]
  /\ application = {}
  /\ modReq = [r \in ModRequests |-> ModIdle]
  /\ appealed = {}
  /\ modFaults = 0

ModBegin(r, at, u, action) ==
  /\ modReq[r] = ModIdle
  /\ modReq' = [modReq EXCEPT ![r] = [at |-> at, about |-> {u}, action |-> action]]
ModEnd(r) == modReq' = [modReq EXCEPT ![r] = ModIdle]
Handled(u) == \E r \in ModRequests : u \in modReq[r].about

\* The user's row is inserted with the role of the form.
SignUpAsModerator(r, u) ==
  /\ modRole[u] = "none"
  /\ modRole' = [modRole EXCEPT ![u] = "moderator"]
  /\ ModBegin(r, "apply", u, "approved")
  /\ UNCHANGED <<application, appealed, modFaults>>

CreateApplication(r) ==
  /\ modReq[r].at = "apply"
  /\ application' = application \union modReq[r].about
  /\ ModEnd(r)
  /\ UNCHANGED <<modRole, appealed, modFaults>>

ReadApplication(r, u, action) ==
  /\ u \in application
  /\ appealed' = IF Handled(u) THEN appealed \union {u} ELSE appealed
  /\ ModBegin(r, "role", u, action)
  /\ UNCHANGED <<modRole, application, modFaults>>

\* Mutant: an approval withdraws the application too.
UpdateRoleAndWithdraw(r) ==
  /\ modReq[r].at = "role"
  /\ \E u \in modReq[r].about :
       modRole' = [modRole EXCEPT ![u] =
                    IF modReq[r].action = "rejected" THEN "student" ELSE "moderator"]
  /\ modReq' = [modReq EXCEPT ![r].at = "withdraw"]
  /\ UNCHANGED <<application, appealed, modFaults>>

UpdateRole(r) ==
  /\ modReq[r].at = "role"
  /\ \E u \in modReq[r].about :
       modRole' = [modRole EXCEPT ![u] =
                    IF modReq[r].action = "rejected" THEN "student" ELSE "moderator"]
  /\ IF modReq[r].action = "rejected"
     THEN modReq' = [modReq EXCEPT ![r].at = "withdraw"]
     ELSE ModEnd(r)
  /\ UNCHANGED <<application, appealed, modFaults>>

\* ModeratorService.delete looks again; what has gone meanwhile is an error.
DeleteApplication(r) ==
  /\ modReq[r].at = "withdraw"
  /\ application' = application \ modReq[r].about
  /\ ModEnd(r)
  /\ UNCHANGED <<modRole, appealed, modFaults>>

\* A step throws or the process dies.
ModAbort(r) ==
  /\ modReq[r] # ModIdle
  /\ modFaults < MaxModFaults
  /\ modFaults' = modFaults + 1
  /\ appealed' = appealed \union modReq[r].about
  /\ ModEnd(r)
  /\ UNCHANGED <<modRole, application>>

ModNext ==
  \E r \in ModRequests :
    \/ \E u \in Applicants : SignUpAsModerator(r, u)
    \/ CreateApplication(r)
    \/ \E u \in Applicants, a \in {"approved", "rejected"} : ReadApplication(r, u, a)
    \/ UpdateRole(r)
    \/ DeleteApplication(r)
    \/ ModAbort(r)

ModSpec == ModInit /\ [][ModNext]_modVars

-----------------------------------------------------------------------------
(* Properties *)

\* When nothing about a user is under way, whoever has the role of a moderator has an
\* application that can still be rejected, unless two reviews of it overlapped (an
\* approval beside a rejection leaves the role without one) or a request was cut short.
ModeratorsHaveApplied ==
  \A u \in Applicants \ appealed :
    modRole[u] = "moderator" /\ ~Handled(u) => u \in application
=============================================================================
