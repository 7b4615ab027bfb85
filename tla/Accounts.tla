------------------------------ MODULE Accounts ------------------------------
(***************************************************************************)
(* How a person gets an account and gets in: AuthService.signupStudent,    *)
(* validateUserWithGoogle, verifyEmailWithToken, resendVerificationEmail   *)
(* and login, over the tables users, auth and admin / moderator.           *)
(*                                                                         *)
(* A signup is a chain of separate inserts without a transaction: every    *)
(* `await' ends an action, and a handler may throw or the process may die  *)
(* after any of them (SignupAbort).  users.email, users.google_id, auth.email    *)
(* and auth.matric_no are unique.  Rows are never deleted, an address has  *)
(* one Google identity, and both tables take the email from the same form, *)
(* so both are indexed by the email here.                                  *)
(***************************************************************************)
EXTENDS Integers, FiniteSets

CONSTANTS
  Emails,      \* addresses people register with
  Matrics,     \* matriculation numbers
  Passwords,   \* passwords people choose
  None,        \* no matriculation number; no password of one's own
  Requests,    \* sign-up and Google requests that may be in flight at once
  MaxFaults    \* bound: handlers that are cut short

ASSUME AccountsAssumption ==
  /\ None \notin Matrics \union Passwords
  /\ MaxFaults \in Nat

VARIABLES
  users,     \* emails that have a row in users
  linked,    \* those whose row has a googleId
  role,      \* users.role
  auth,      \* the rows of auth
  staff,     \* emails that have a row in admin or moderator
  req,       \* the requests in flight
  mailed,    \* emails with an unexpired verification link
  sessions,  \* history: emails a session token was issued for
  proven,    \* history: emails whose owner followed a link or used Google
  welcomed,     \* history: the passwords of sign-ups that returned success
  halfway,   \* history: emails whose request ended between the two inserts
  faults     \* handlers cut short so far

accountVars == <<users, linked, role, auth, staff, req, mailed, sessions, proven,
                 welcomed, halfway, faults>>
history == <<sessions, proven, welcomed>>

Roles   == {"student", "staff"}
AuthRow == [there : BOOLEAN, matric : Matrics \union {None},
            pw : Passwords \union {None}, verified : BOOLEAN]
NoAuth  == [there |-> FALSE, matric |-> None, pw |-> None, verified |-> FALSE]

Steps == {"idle", "email", "user", "auth", "staff", "mail",
          "byEmail", "link", "create", "googleUser", "googleAuth"}

SignupRequest == [pc : Steps, email : Emails \union {None}, pw : Passwords \union {None},
            matric : Matrics \union {None}, role : Roles]
Idle    == [pc |-> "idle", email |-> None, pw |-> None, matric |-> None,
            role |-> "student"]

AccountsTypeOK ==
  /\ users \in SUBSET Emails
  /\ linked \in SUBSET Emails
  /\ role \in [Emails -> Roles]
  /\ auth \in [Emails -> AuthRow]
  /\ staff \in SUBSET Emails
  /\ req \in [Requests -> SignupRequest]
  /\ \A r \in Requests : req[r].pc # "idle" => req[r].email \in Emails
  /\ mailed \in SUBSET Emails
  /\ sessions \in SUBSET Emails
  /\ proven \in SUBSET Emails
  /\ welcomed \in [Emails -> SUBSET (Passwords \union {None})]
  /\ halfway \in SUBSET Emails
  /\ faults \in 0 .. MaxFaults

SignupInit ==
  /\ users = {} /\ linked = {} /\ staff = {}
  /\ role = [e \in Emails |-> "student"]
  /\ auth = [e \in Emails |-> NoAuth]
  /\ req = [r \in Requests |-> Idle]
  /\ mailed = {} /\ sessions = {} /\ proven = {} /\ halfway = {}
  /\ welcomed = [e \in Emails |-> {}]
  /\ faults = 0

Goto(r, pc) == req' = [req EXCEPT ![r].pc = pc]
Finish(r)   == req' = [req EXCEPT ![r] = Idle]

MatricTaken(m) == m # None /\ \E e \in Emails : auth[e].there /\ auth[e].matric = m

-----------------------------------------------------------------------------
(* signupStudent *)

\* The matriculation number is looked up first.
SignupBegin(r, e, p, m, ro) ==
  /\ req[r].pc = "idle"
  /\ ~MatricTaken(m)
  /\ req' = [req EXCEPT ![r] =
       [pc |-> "email", email |-> e, pw |-> p, matric |-> m, role |-> ro]]
  /\ UNCHANGED <<users, linked, role, auth, staff, mailed, halfway, faults, history>>

\* UserService.create: users.findByEmail, then the username and department
\* lookups, which may throw (SignupAbort).
CheckEmail(r) ==
  /\ req[r].pc \in {"email", "create"}
  /\ IF req[r].email \in users
     THEN Finish(r)
     ELSE Goto(r, IF req[r].pc = "email" THEN "user" ELSE "googleUser")
  /\ UNCHANGED <<users, linked, role, auth, staff, mailed, halfway, faults, history>>

\* Mutant: the row of an earlier sign-up is taken over.
InsertUserUpsert(r) ==
  /\ req[r].pc = "user"
  /\ users' = users \union {req[r].email}
  /\ role' = [role EXCEPT ![req[r].email] = req[r].role]
  /\ Goto(r, "auth")
  /\ UNCHANGED <<linked, auth, staff, mailed, halfway, faults, history>>

\* The users row; a second row with the email violates the unique constraint.
InsertUser(r) ==
  /\ req[r].pc = "user"
  /\ IF req[r].email \in users
     THEN Finish(r) /\ UNCHANGED <<users, role>>
     ELSE /\ users' = users \union {req[r].email}
          /\ role' = [role EXCEPT ![req[r].email] = req[r].role]
          /\ Goto(r, "auth")
  /\ UNCHANGED <<linked, auth, staff, mailed, halfway, faults, history>>

\* The auth row; it fails when the matriculation number was taken meanwhile.
InsertAuth(r) ==
  /\ req[r].pc = "auth"
  /\ IF MatricTaken(req[r].matric)
     THEN /\ halfway' = halfway \union {req[r].email}
          /\ Finish(r)
          /\ UNCHANGED auth
     ELSE /\ auth' = [auth EXCEPT ![req[r].email] =
               [there |-> TRUE, matric |-> req[r].matric, pw |-> req[r].pw,
                verified |-> FALSE]]
          /\ Goto(r, IF req[r].role = "staff" THEN "staff" ELSE "mail")
          /\ UNCHANGED halfway
  /\ UNCHANGED <<users, linked, role, staff, mailed, faults, history>>

\* adminService.create or moderatorService.create.
InsertStaff(r) ==
  /\ req[r].pc = "staff"
  /\ staff' = staff \union {req[r].email}
  /\ Goto(r, "mail")
  /\ UNCHANGED <<users, linked, role, auth, mailed, halfway, faults, history>>

\* The verification mail leaves and the controller answers.
SignupEnd(r) ==
  /\ req[r].pc = "mail"
  /\ mailed' = mailed \union {req[r].email}
  /\ welcomed' = [welcomed EXCEPT ![req[r].email] = @ \union {req[r].pw}]
  /\ Finish(r)
  /\ UNCHANGED <<users, linked, role, auth, staff, sessions, proven, halfway, faults>>

-----------------------------------------------------------------------------
(* validateUserWithGoogle *)

\* A session is issued to the owner of the address, whom Google vouches for.
GoogleSession(e) ==
  /\ sessions' = sessions \union {e}
  /\ proven' = proven \union {e}
  /\ UNCHANGED welcomed

\* findByGoogleId.
GoogleBegin(r, e) ==
  /\ req[r].pc = "idle"
  /\ IF e \in linked
     THEN GoogleSession(e) /\ UNCHANGED req
     ELSE /\ req' = [req EXCEPT ![r] = [Idle EXCEPT !.pc = "byEmail", !.email = e]]
          /\ UNCHANGED history
  /\ UNCHANGED <<users, linked, role, auth, staff, mailed, halfway, faults>>

\* Mutant: only a complete account is linked.
GoogleKnowsComplete(r) == auth[req[r].email].there

\* userService.findByEmail looks in users alone.
GoogleKnows(r) == req[r].email \in users

GoogleFindEmail(r) ==
  /\ req[r].pc = "byEmail"
  /\ Goto(r, IF GoogleKnows(r) THEN "link" ELSE "create")
  /\ UNCHANGED <<users, linked, role, auth, staff, mailed, halfway, faults, history>>

\* userService.update(user.id, { googleId }) and the session.
GoogleLink(r) ==
  /\ req[r].pc = "link"
  /\ linked' = linked \union {req[r].email}
  /\ GoogleSession(req[r].email)
  /\ Finish(r)
  /\ UNCHANGED <<users, role, auth, staff, mailed, halfway, faults>>

\* Mutant: a Google user gets no auth row.
GoogleInsertUserOnly(r) ==
  /\ req[r].pc = "googleUser"
  /\ users' = users \union {req[r].email}
  /\ linked' = linked \union {req[r].email}
  /\ GoogleSession(req[r].email)
  /\ Finish(r)
  /\ UNCHANGED <<role, auth, staff, mailed, halfway, faults>>

\* The users row of a new Google user carries the googleId.
GoogleInsertUser(r) ==
  /\ req[r].pc = "googleUser"
  /\ IF req[r].email \in users
     THEN Finish(r) /\ UNCHANGED <<users, linked, role>>
     ELSE /\ users' = users \union {req[r].email}
          /\ linked' = linked \union {req[r].email}
          /\ role' = [role EXCEPT ![req[r].email] = "student"]
          /\ Goto(r, "googleAuth")
  /\ UNCHANGED <<auth, staff, mailed, halfway, faults, history>>

\* Its auth row: a random password, the email verified.
GoogleInsertAuth(r) ==
  /\ req[r].pc = "googleAuth"
  /\ auth' = [auth EXCEPT ![req[r].email] =
       [there |-> TRUE, matric |-> None, pw |-> None, verified |-> TRUE]]
  /\ GoogleSession(req[r].email)
  /\ Finish(r)
  /\ UNCHANGED <<users, linked, role, staff, mailed, halfway, faults>>

-----------------------------------------------------------------------------
(* login, resendVerificationEmail, verifyEmailWithToken *)

\* Mutant: login does not look at emailVerified.
MayEnterUnverified(e) == TRUE

MayEnter(e) == auth[e].verified

\* validateUser finds no auth row of an address that has only a users row.
\* An unverified address is sent a new link instead of a session.
Login(e, p) ==
  /\ auth[e].there /\ auth[e].pw = p
  /\ IF MayEnter(e)
     THEN sessions' = sessions \union {e} /\ UNCHANGED mailed
     ELSE mailed' = mailed \union {e} /\ UNCHANGED sessions
  /\ UNCHANGED <<users, linked, role, auth, staff, req, proven, welcomed, halfway, faults>>

Resend(e) ==
  /\ auth[e].there
  /\ mailed' = mailed \union {e}
  /\ UNCHANGED <<users, linked, role, auth, staff, req, halfway, faults, history>>

\* The owner of the mailbox follows a link: verified, and a session.
FollowLink(e) ==
  /\ e \in mailed /\ auth[e].there
  /\ auth' = [auth EXCEPT ![e].verified = TRUE]
  /\ sessions' = sessions \union {e}
  /\ proven' = proven \union {e}
  /\ UNCHANGED <<users, linked, role, staff, req, mailed, welcomed, halfway, faults>>

\* The 15 minutes of the links to an address have passed.
LinkExpires(e) ==
  /\ e \in mailed
  /\ mailed' = mailed \ {e}
  /\ UNCHANGED <<users, linked, role, auth, staff, req, halfway, faults, history>>

\* A step throws or the process dies; the rows inserted so far stay.
SignupAbort(r) ==
  /\ req[r].pc # "idle"
  /\ faults < MaxFaults
  /\ faults' = faults + 1
  /\ halfway' = IF req[r].pc \in {"auth", "googleAuth"}
                THEN halfway \union {req[r].email} ELSE halfway
  /\ Finish(r)
  /\ UNCHANGED <<users, linked, role, auth, staff, mailed, history>>

-----------------------------------------------------------------------------

Step(r) ==
  \/ CheckEmail(r)
  \/ InsertUser(r)
  \/ InsertAuth(r)
  \/ InsertStaff(r)
  \/ SignupEnd(r)
  \/ GoogleFindEmail(r)
  \/ GoogleLink(r)
  \/ GoogleInsertUser(r)
  \/ GoogleInsertAuth(r)

Visit(e) ==
  \/ \E p \in Passwords : Login(e, p)
  \/ Resend(e)
  \/ FollowLink(e)
  \/ LinkExpires(e)

SignupNext ==
  \/ \E r \in Requests, e \in Emails :
       \/ \E p \in Passwords, m \in Matrics \union {None}, ro \in Roles :
            SignupBegin(r, e, p, m, ro)
       \/ GoogleBegin(r, e)
  \/ \E r \in Requests : Step(r) \/ SignupAbort(r)
  \/ \E e \in Emails : Visit(e)

SignupSpec == SignupInit /\ [][SignupNext]_accountVars

\* The server runs every request it has taken to its end.
FairSignups == SignupSpec /\ \A r \in Requests : WF_accountVars(Step(r))

-----------------------------------------------------------------------------
(* Properties *)

\* A users row without its auth row (it can neither log in, sign up nor reset
\* a password) is left only by a request that ended between the two inserts,
\* or is still on its way to the second: no interleaving of sign-ups and
\* Google sign-ins for the address makes one.
OrphansComeFromFailures ==
  \A e \in users :
    \/ auth[e].there
    \/ e \in halfway
    \/ \E r \in Requests : req[r].pc \in {"auth", "googleAuth"} /\ req[r].email = e

\* What a sign-up that reported success promised is there: its password opens
\* the account (so at most one sign-up of an address reports success), and a
\* staff account has its staff row, whoever else was signing up meanwhile.
AckedSignupIsComplete ==
  \A e \in Emails : \A p \in welcomed[e] :
    /\ e \in users /\ auth[e].there /\ auth[e].pw = p
    /\ role[e] = "staff" => e \in staff

\* No token is issued for an address whose owner has not shown control of the
\* mailbox, by a link or by Google, on whatever path the account was made.
SessionsAreProven == sessions \subseteq proven

\* Someone who keeps signing in with Google gets in at last, also when an
\* earlier sign-up for the address stopped halfway.
GoogleRequest(r, e) ==
  /\ req[r].pc \in {"byEmail", "link", "create", "googleUser", "googleAuth"}
  /\ req[r].email = e
GoogleGetsIn ==
  \A e \in Emails :
    []<>(\E r \in Requests : GoogleRequest(r, e)) => <>(e \in sessions)
=============================================================================
