--------------------------- MODULE AccountsProofs ---------------------------
(* Proofs about Accounts, for any addresses, passwords and requests.        *)
EXTENDS Accounts, TLAPS

Building(r) == req[r].pc \in {"auth", "googleAuth"}
Built(r)    == req[r].pc \in {"staff", "mail"}

\* A request between its two inserts is alone with its users row.
BuildersOwn ==
  \A r \in Requests : Building(r) =>
    /\ req[r].email \in users
    /\ ~auth[req[r].email].there
    /\ req[r].pc = "auth" => role[req[r].email] = req[r].role
    /\ \A s \in Requests : Building(s) /\ req[s].email = req[r].email => s = r

\* A sign-up that has inserted its auth row finds its own password there.
BuiltOwn ==
  \A r \in Requests : Built(r) =>
    /\ req[r].email \in users
    /\ auth[req[r].email].there /\ auth[req[r].email].pw = req[r].pw
    /\ role[req[r].email] = req[r].role
    /\ req[r].pc = "mail" /\ req[r].role = "staff" => req[r].email \in staff

AuthNeedsUser == \A e \in Emails : auth[e].there => e \in users

VerifiedIsProven == \A e \in Emails : auth[e].verified => e \in proven

SignupIInv ==
  /\ AccountsTypeOK
  /\ BuildersOwn
  /\ BuiltOwn
  /\ AuthNeedsUser
  /\ VerifiedIsProven
  /\ OrphansComeFromFailures
  /\ AckedSignupIsComplete
  /\ SessionsAreProven

-----------------------------------------------------------------------------

LEMMA SignupMembers ==
  /\ Idle \in SignupRequest /\ NoAuth \in AuthRow
  /\ Idle.pc = "idle" /\ Idle.email = None
  /\ ~NoAuth.there /\ ~NoAuth.verified
  BY DEF Idle, SignupRequest, NoAuth, AuthRow, Steps, Roles

\* Moving one request on, and finishing one.
LEMMA GotoFrame ==
  ASSUME AccountsTypeOK, NEW r \in Requests, NEW label \in Steps, Goto(r, label),
         req[r].pc # "idle"
  PROVE  /\ req' \in [Requests -> SignupRequest]
         /\ \A s \in Requests : req'[s].pc # "idle" => req'[s].email \in Emails
         /\ req'[r].pc = label
         /\ req'[r].email = req[r].email /\ req'[r].pw = req[r].pw
         /\ req'[r].matric = req[r].matric /\ req'[r].role = req[r].role
         /\ \A s \in Requests \ {r} : req'[s] = req[s]
  BY DEF AccountsTypeOK, Goto, SignupRequest

LEMMA FinishFrame ==
  ASSUME AccountsTypeOK, NEW r \in Requests, Finish(r)
  PROVE  /\ req' \in [Requests -> SignupRequest]
         /\ \A s \in Requests : req'[s].pc # "idle" => req'[s].email \in Emails
         /\ req'[r] = Idle /\ req'[r].pc = "idle"
         /\ \A s \in Requests \ {r} : req'[s] = req[s]
<1> USE SignupMembers
<1> HIDE DEF Idle
<1> QED BY DEF AccountsTypeOK, Finish

LEMMA Labels == "user" \in Steps /\ "googleUser" \in Steps /\ "auth" \in Steps
                /\ "staff" \in Steps /\ "mail" \in Steps /\ "link" \in Steps
                /\ "create" \in Steps /\ "googleAuth" \in Steps
  BY DEF Steps

-----------------------------------------------------------------------------

LEMMA SignupTypeInit == SignupInit => AccountsTypeOK
<1> SUFFICES ASSUME SignupInit PROVE AccountsTypeOK
  OBVIOUS
<1>1. req \in [Requests -> SignupRequest] /\ \A r \in Requests : req[r].pc = "idle"
  BY SignupMembers DEF SignupInit
<1>2. auth \in [Emails -> AuthRow]
  BY SignupMembers DEF SignupInit
<1> QED BY <1>1, <1>2, AccountsAssumption DEF SignupInit, AccountsTypeOK, Roles

LEMMA SignupTypeStep == AccountsTypeOK /\ [SignupNext]_accountVars => AccountsTypeOK'
<1> SUFFICES ASSUME AccountsTypeOK, [SignupNext]_accountVars PROVE AccountsTypeOK'
  OBVIOUS
<1>1. ASSUME NEW r \in Requests, NEW e \in Emails, NEW p \in Passwords,
             NEW m \in Matrics \union {None}, NEW ro \in Roles,
             SignupBegin(r, e, p, m, ro)
      PROVE  AccountsTypeOK'
  <2>1. [pc |-> "email", email |-> e, pw |-> p, matric |-> m, role |-> ro] \in SignupRequest
    BY DEF SignupRequest, Steps
  <2> QED BY <1>1, <2>1 DEF SignupBegin, AccountsTypeOK, history
<1>2. ASSUME NEW r \in Requests, CheckEmail(r) PROVE AccountsTypeOK'
  BY <1>2, Labels, GotoFrame, FinishFrame DEF CheckEmail, AccountsTypeOK, history
<1>3. ASSUME NEW r \in Requests, InsertUser(r) PROVE AccountsTypeOK'
  <2>1. req[r].email \in Emails /\ req[r].role \in Roles
    BY <1>3 DEF InsertUser, AccountsTypeOK, SignupRequest
  <2>2. req' \in [Requests -> SignupRequest]
        /\ \A s \in Requests : req'[s].pc # "idle" => req'[s].email \in Emails
    BY <1>3, Labels, GotoFrame, FinishFrame DEF InsertUser
  <2> QED BY <1>3, <2>1, <2>2 DEF InsertUser, AccountsTypeOK, history
<1>4. ASSUME NEW r \in Requests, InsertAuth(r) PROVE AccountsTypeOK'
  <2>1. req[r].email \in Emails /\ req[r].matric \in Matrics \union {None}
        /\ req[r].pw \in Passwords \union {None}
    BY <1>4 DEF InsertAuth, AccountsTypeOK, SignupRequest
  <2>2. [there |-> TRUE, matric |-> req[r].matric, pw |-> req[r].pw, verified |-> FALSE]
          \in AuthRow
    BY <2>1 DEF AuthRow
  <2>3. req' \in [Requests -> SignupRequest]
        /\ \A s \in Requests : req'[s].pc # "idle" => req'[s].email \in Emails
    BY <1>4, Labels, GotoFrame, FinishFrame DEF InsertAuth
  <2>4. auth' \in [Emails -> AuthRow] /\ halfway' \in SUBSET Emails
    BY <1>4, <2>1, <2>2 DEF InsertAuth, AccountsTypeOK
  <2> QED BY <1>4, <2>3, <2>4 DEF InsertAuth, AccountsTypeOK, history
<1>5. ASSUME NEW r \in Requests, InsertStaff(r) PROVE AccountsTypeOK'
  <2>1. req[r].email \in Emails
    BY <1>5 DEF InsertStaff, AccountsTypeOK
  <2> QED BY <1>5, <2>1, Labels, GotoFrame DEF InsertStaff, AccountsTypeOK, history
<1>6. ASSUME NEW r \in Requests, SignupEnd(r) PROVE AccountsTypeOK'
  <2>1. req[r].email \in Emails
    BY <1>6 DEF SignupEnd, AccountsTypeOK
  <2>2. welcomed' \in [Emails -> SUBSET (Passwords \union {None})]
    <3>1. req[r].pw \in Passwords \union {None}
      BY DEF AccountsTypeOK, SignupRequest
    <3> QED BY <1>6, <2>1, <3>1 DEF SignupEnd, AccountsTypeOK
  <2> QED BY <1>6, <2>1, <2>2, FinishFrame DEF SignupEnd, AccountsTypeOK
<1>7. ASSUME NEW r \in Requests, NEW e \in Emails, GoogleBegin(r, e) PROVE AccountsTypeOK'
  <2>1. [Idle EXCEPT !.pc = "byEmail", !.email = e] \in SignupRequest
        /\ [Idle EXCEPT !.pc = "byEmail", !.email = e].email = e
    BY DEF Idle, SignupRequest, Steps, Roles
  <2> HIDE DEF Idle
  <2>2. req' \in [Requests -> SignupRequest]
        /\ \A s \in Requests : req'[s].pc # "idle" => req'[s].email \in Emails
    BY <1>7, <2>1 DEF GoogleBegin, AccountsTypeOK
  <2>3. sessions' \in SUBSET Emails /\ proven' \in SUBSET Emails /\ welcomed' = welcomed
    BY <1>7 DEF GoogleBegin, GoogleSession, history, AccountsTypeOK
  <2> QED BY <1>7, <2>2, <2>3 DEF GoogleBegin, AccountsTypeOK
<1>8. ASSUME NEW r \in Requests, GoogleFindEmail(r) PROVE AccountsTypeOK'
  BY <1>8, Labels, GotoFrame DEF GoogleFindEmail, AccountsTypeOK, history
<1>9. ASSUME NEW r \in Requests, GoogleLink(r) PROVE AccountsTypeOK'
  <2>1. req[r].email \in Emails
    BY <1>9 DEF GoogleLink, AccountsTypeOK
  <2> QED BY <1>9, <2>1, FinishFrame DEF GoogleLink, GoogleSession, AccountsTypeOK
<1>10. ASSUME NEW r \in Requests, GoogleInsertUser(r) PROVE AccountsTypeOK'
  <2>1. req[r].email \in Emails
    BY <1>10 DEF GoogleInsertUser, AccountsTypeOK
  <2>2. req' \in [Requests -> SignupRequest]
        /\ \A s \in Requests : req'[s].pc # "idle" => req'[s].email \in Emails
    BY <1>10, Labels, GotoFrame, FinishFrame DEF GoogleInsertUser
  <2> QED BY <1>10, <2>1, <2>2 DEF GoogleInsertUser, AccountsTypeOK, history, Roles
<1>11. ASSUME NEW r \in Requests, GoogleInsertAuth(r) PROVE AccountsTypeOK'
  <2>1. req[r].email \in Emails
    BY <1>11 DEF GoogleInsertAuth, AccountsTypeOK
  <2>2. [there |-> TRUE, matric |-> None, pw |-> None, verified |-> TRUE] \in AuthRow
    BY DEF AuthRow
  <2> QED BY <1>11, <2>1, <2>2, FinishFrame DEF GoogleInsertAuth, GoogleSession, AccountsTypeOK
<1>12. ASSUME NEW e \in Emails, Visit(e) PROVE AccountsTypeOK'
  <2>1. CASE \E p \in Passwords : Login(e, p)
    BY <2>1 DEF Login, AccountsTypeOK
  <2>2. CASE Resend(e)
    BY <2>2 DEF Resend, AccountsTypeOK, history
  <2>3. CASE FollowLink(e)
    <3>1. auth[e] \in AuthRow
      BY DEF AccountsTypeOK
    <3>2. auth' \in [Emails -> AuthRow]
      BY <2>3, <3>1 DEF FollowLink, AccountsTypeOK, AuthRow
    <3> QED BY <2>3, <3>2 DEF FollowLink, AccountsTypeOK
  <2>4. CASE LinkExpires(e)
    BY <2>4 DEF LinkExpires, AccountsTypeOK, history
  <2> QED BY <1>12, <2>1, <2>2, <2>3, <2>4 DEF Visit
<1>13. ASSUME NEW r \in Requests, SignupAbort(r) PROVE AccountsTypeOK'
  <2>1. req[r].email \in Emails /\ halfway' \in SUBSET Emails
    BY <1>13 DEF SignupAbort, AccountsTypeOK
  <2>2. faults' \in 0 .. MaxFaults
    BY <1>13, AccountsAssumption DEF SignupAbort, AccountsTypeOK
  <2> QED BY <1>13, <2>1, <2>2, FinishFrame DEF SignupAbort, AccountsTypeOK, history
<1>14. CASE UNCHANGED accountVars
  BY <1>14 DEF accountVars, AccountsTypeOK
<1> QED BY <1>1, <1>2, <1>3, <1>4, <1>5, <1>6, <1>7, <1>8, <1>9, <1>10, <1>11,
           <1>12, <1>13, <1>14 DEF SignupNext, Step

\* Every reachable state is well typed.
THEOREM SignupTypeCorrect == SignupSpec => []AccountsTypeOK
<1>1. SignupInit => AccountsTypeOK BY SignupTypeInit
<1>2. AccountsTypeOK /\ [SignupNext]_accountVars => AccountsTypeOK' BY SignupTypeStep
<1> QED BY <1>1, <1>2, PTL DEF SignupSpec

-----------------------------------------------------------------------------

LEMMA SignupInvInit == SignupInit => SignupIInv
<1> SUFFICES ASSUME SignupInit PROVE SignupIInv
  OBVIOUS
<1>1. AccountsTypeOK BY SignupTypeInit
<1>2. \A r \in Requests : req[r].pc = "idle"
  BY SignupMembers DEF SignupInit
<1>3. \A e \in Emails : ~auth[e].there /\ ~auth[e].verified
  BY SignupMembers DEF SignupInit
<1> QED BY <1>1, <1>2, <1>3
        DEF SignupInit, SignupIInv, BuildersOwn, BuiltOwn, Building, Built, AuthNeedsUser,
            VerifiedIsProven, OrphansComeFromFailures, AckedSignupIsComplete,
            SessionsAreProven

\* A request that is between its inserts neither before nor after the step, and
\* a step that changes no row.
LEMMA QuietStep ==
  ASSUME SignupIInv, AccountsTypeOK',
         NEW r \in Requests, \A s \in Requests \ {r} : req'[s] = req[s],
         ~Building(r), ~Building(r)', ~Built(r)',
         users' = users, auth' = auth, role' = role, staff' = staff,
         halfway' = halfway, welcomed' = welcomed,
         \/ sessions' = sessions /\ proven' = proven
         \/ \E e \in Emails : sessions' = sessions \union {e} /\ proven' = proven \union {e}
  PROVE  SignupIInv'
<1>1. BuildersOwn'
  BY DEF SignupIInv, BuildersOwn, Building
<1>2. BuiltOwn'
  BY DEF SignupIInv, BuiltOwn, Built
<1>3. AuthNeedsUser' /\ VerifiedIsProven' /\ SessionsAreProven'
  BY DEF SignupIInv, AuthNeedsUser, VerifiedIsProven, SessionsAreProven
<1>4. OrphansComeFromFailures'
  BY DEF SignupIInv, OrphansComeFromFailures, Building
<1>5. AckedSignupIsComplete'
  BY DEF SignupIInv, AckedSignupIsComplete
<1> QED BY <1>1, <1>2, <1>3, <1>4, <1>5 DEF SignupIInv

\* A new users row, whose auth row comes next.
LEMMA UserStep ==
  ASSUME SignupIInv, AccountsTypeOK',
         NEW r \in Requests, NEW ro \in Roles,
         req[r].email \in Emails, req[r].email \notin users,
         \A s \in Requests \ {r} : req'[s] = req[s],
         req'[r].pc \in {"auth", "googleAuth"}, req'[r].email = req[r].email,
         req'[r].pc = "auth" => req'[r].role = ro,
         users' = users \union {req[r].email},
         role' = [role EXCEPT ![req[r].email] = ro],
         auth' = auth, staff' = staff, halfway' = halfway, welcomed' = welcomed,
         sessions' = sessions, proven' = proven
  PROVE  SignupIInv'
<1> DEFINE e == req[r].email
<1>1. ~auth[e].there /\ welcomed[e] = {}
  BY DEF SignupIInv, AuthNeedsUser, AckedSignupIsComplete, AccountsTypeOK
<1>2. role'[e] = ro /\ \A d \in Emails : d # e => role'[d] = role[d]
  BY DEF SignupIInv, AccountsTypeOK
<1>3. \A s \in Requests : Building(s) \/ Built(s) => req[s].email # e /\ req[s].email \in Emails
  BY DEF SignupIInv, BuildersOwn, BuiltOwn, Building, Built, AccountsTypeOK
<1>4. BuildersOwn'
  BY <1>1, <1>2, <1>3 DEF SignupIInv, BuildersOwn, Building
<1>5. BuiltOwn'
  BY <1>2, <1>3 DEF SignupIInv, BuiltOwn, Built
<1>6. AuthNeedsUser' /\ VerifiedIsProven' /\ SessionsAreProven'
  BY DEF SignupIInv, AuthNeedsUser, VerifiedIsProven, SessionsAreProven
<1>7. OrphansComeFromFailures'
  BY DEF SignupIInv, OrphansComeFromFailures
<1>8. AckedSignupIsComplete'
  BY <1>1, <1>2 DEF SignupIInv, AckedSignupIsComplete
<1> QED BY <1>4, <1>5, <1>6, <1>7, <1>8 DEF SignupIInv

\* A request that ends, leaving behind the address it was building.
LEMMA HalfwayStep ==
  ASSUME SignupIInv, AccountsTypeOK',
         NEW r \in Requests, \A s \in Requests \ {r} : req'[s] = req[s],
         req'[r].pc = "idle",
         halfway \subseteq halfway', Building(r) => req[r].email \in halfway',
         users' = users, auth' = auth, role' = role, staff' = staff, welcomed' = welcomed,
         sessions' = sessions, proven' = proven
  PROVE  SignupIInv'
<1>1. BuildersOwn'
  BY DEF SignupIInv, BuildersOwn, Building
<1>2. BuiltOwn'
  BY DEF SignupIInv, BuiltOwn, Built
<1>3. AuthNeedsUser' /\ VerifiedIsProven' /\ SessionsAreProven'
  BY DEF SignupIInv, AuthNeedsUser, VerifiedIsProven, SessionsAreProven
<1>4. OrphansComeFromFailures'
  BY DEF SignupIInv, OrphansComeFromFailures, Building
<1>5. AckedSignupIsComplete'
  BY DEF SignupIInv, AckedSignupIsComplete
<1> QED BY <1>1, <1>2, <1>3, <1>4, <1>5 DEF SignupIInv

LEMMA SignupInvStep == SignupIInv /\ [SignupNext]_accountVars => SignupIInv'
<1> SUFFICES ASSUME SignupIInv, [SignupNext]_accountVars PROVE SignupIInv'
  OBVIOUS
<1>T. AccountsTypeOK /\ AccountsTypeOK'
  BY SignupTypeStep DEF SignupIInv
<1>1. ASSUME NEW r \in Requests, NEW e \in Emails, NEW p \in Passwords,
             NEW m \in Matrics \union {None}, NEW ro \in Roles,
             SignupBegin(r, e, p, m, ro)
      PROVE  SignupIInv'
  <2>1. req'[r].pc = "email" /\ req[r].pc = "idle" /\ \A s \in Requests \ {r} : req'[s] = req[s]
    BY <1>1, <1>T DEF SignupBegin, AccountsTypeOK
  <2> QED BY <1>1, <1>T, <2>1, QuietStep DEF SignupBegin, Building, Built, history
<1>2. ASSUME NEW r \in Requests, CheckEmail(r) PROVE SignupIInv'
  <2>1. /\ req[r].pc \in {"email", "create"} /\ req'[r].pc \in {"idle", "user", "googleUser"}
        /\ \A s \in Requests \ {r} : req'[s] = req[s]
    BY <1>2, <1>T, Labels, GotoFrame, FinishFrame DEF CheckEmail
  <2> QED BY <1>2, <1>T, <2>1, QuietStep DEF CheckEmail, Building, Built, history
<1>3. ASSUME NEW r \in Requests, InsertUser(r) PROVE SignupIInv'
  <2> DEFINE e == req[r].email
  <2>0. e \in Emails /\ req[r].role \in Roles /\ req[r].pc = "user"
    BY <1>3, <1>T DEF InsertUser, AccountsTypeOK, SignupRequest
  <2>1. CASE e \in users
    <3>1. req'[r].pc = "idle" /\ \A s \in Requests \ {r} : req'[s] = req[s]
      BY <1>3, <1>T, <2>1, FinishFrame DEF InsertUser
    <3> QED BY <1>3, <1>T, <2>0, <2>1, <3>1, QuietStep DEF InsertUser, Building, Built, history
  <2>2. CASE e \notin users
    <3>1. /\ req'[r].pc = "auth" /\ req'[r].email = e /\ req'[r].role = req[r].role
          /\ \A s \in Requests \ {r} : req'[s] = req[s]
      BY <1>3, <1>T, <2>0, <2>2, Labels, GotoFrame DEF InsertUser
    <3>2. /\ users' = users \union {e} /\ role' = [role EXCEPT ![e] = req[r].role]
          /\ auth' = auth /\ staff' = staff /\ halfway' = halfway /\ welcomed' = welcomed
          /\ sessions' = sessions /\ proven' = proven
      BY <1>3, <2>2 DEF InsertUser, history
    <3> QED BY <1>T, <2>0, <2>2, <3>1, <3>2, UserStep
  <2> QED BY <2>1, <2>2
<1>4. ASSUME NEW r \in Requests, InsertAuth(r) PROVE SignupIInv'
  <2> DEFINE e == req[r].email
  <2>0. /\ e \in Emails /\ req[r].pc = "auth" /\ Building(r)
        /\ e \in users /\ ~auth[e].there /\ role[e] = req[r].role
        /\ \A s \in Requests : Building(s) /\ req[s].email = e => s = r
    BY <1>4, <1>T DEF InsertAuth, AccountsTypeOK, SignupIInv, BuildersOwn, Building
  <2>4. req[r].email = e
    OBVIOUS
  <2>1. CASE MatricTaken(req[r].matric)
    <3>1. req'[r].pc = "idle" /\ \A s \in Requests \ {r} : req'[s] = req[s]
      BY <1>4, <1>T, <2>1, FinishFrame DEF InsertAuth
    <3>2. halfway' = halfway \union {e} /\ auth' = auth
      BY <1>4, <2>1 DEF InsertAuth
    <3> QED BY <1>4, <1>T, <2>0, <3>1, <3>2, HalfwayStep DEF InsertAuth, history
  <2>2. CASE ~MatricTaken(req[r].matric)
    <3> DEFINE new == [there |-> TRUE, matric |-> req[r].matric, pw |-> req[r].pw,
                       verified |-> FALSE]
    <3>1. PICK next \in {"staff", "mail"} :
             Goto(r, next) /\ (next = "mail" => req[r].role # "staff")
      BY <1>4, <2>2 DEF InsertAuth
    <3>2. /\ req'[r].pc = next /\ req'[r].email = e /\ req'[r].role = req[r].role
          /\ req'[r].pw = req[r].pw
          /\ \A s \in Requests \ {r} : req'[s] = req[s]
      BY <1>T, <2>0, <3>1, Labels, GotoFrame
    <3>3. auth' = [auth EXCEPT ![e] = new] /\ halfway' = halfway
      BY <1>4, <2>2 DEF InsertAuth
    <3>4. new.there /\ new.pw = req[r].pw /\ ~new.verified
      OBVIOUS
    <3>5. /\ users' = users /\ role' = role /\ staff' = staff /\ welcomed' = welcomed
          /\ sessions' = sessions /\ proven' = proven
      BY <1>4 DEF InsertAuth, history
    <3> HIDE DEF new
    <3>6. auth'[e] = new /\ \A d \in Emails : d # e => auth'[d] = auth[d]
      BY <1>T, <2>0, <3>3 DEF AccountsTypeOK
    <3> HIDE DEF e
    <3>7. BuildersOwn'
      BY <1>T, <2>0, <3>1, <3>2, <3>5, <3>6 DEF SignupIInv, BuildersOwn, Building, AccountsTypeOK
    <3>8. BuiltOwn'
      <4>1. ASSUME NEW s \in Requests, Built(s)', s # r PROVE req[s].email # e /\ req[s].email \in Emails
        BY <1>T, <2>0, <3>2, <4>1 DEF SignupIInv, BuiltOwn, Built, AccountsTypeOK
      <4> QED BY <2>0, <3>1, <3>2, <3>4, <3>5, <3>6, <4>1 DEF SignupIInv, BuiltOwn, Built
    <3>9. AuthNeedsUser' /\ VerifiedIsProven' /\ SessionsAreProven'
      BY <2>0, <3>4, <3>5, <3>6 DEF SignupIInv, AuthNeedsUser, VerifiedIsProven, SessionsAreProven
    <3>10. OrphansComeFromFailures'
      <4>1. ASSUME NEW d \in users, d # e, ~auth[d].there, d \notin halfway
            PROVE  \E s \in Requests : Building(s)' /\ req'[s].email = d
        <5>1. PICK s \in Requests : Building(s) /\ req[s].email = d
          BY <4>1 DEF SignupIInv, OrphansComeFromFailures, Building
        <5>2. s # r
          BY <2>4, <4>1, <5>1
        <5>3. req'[s] = req[s]
          BY <3>2, <5>2
        <5> QED BY <5>1, <5>3 DEF Building
      <4> QED BY <1>T, <3>3, <3>4, <3>5, <3>6, <4>1 DEF OrphansComeFromFailures, Building, AccountsTypeOK
    <3>11. AckedSignupIsComplete'
      BY <2>0, <3>5, <3>6 DEF SignupIInv, AckedSignupIsComplete
    <3> QED BY <1>T, <3>7, <3>8, <3>9, <3>10, <3>11 DEF SignupIInv
  <2> QED BY <2>1, <2>2
<1>5. ASSUME NEW r \in Requests, InsertStaff(r) PROVE SignupIInv'
  <2> DEFINE e == req[r].email
  <2>1. /\ req[r].pc = "staff" /\ req'[r].pc = "mail" /\ req'[r].email = e
        /\ req'[r].role = req[r].role /\ req'[r].pw = req[r].pw
        /\ \A s \in Requests \ {r} : req'[s] = req[s]
    BY <1>5, <1>T, Labels, GotoFrame DEF InsertStaff
  <2>2. /\ staff' = staff \union {e}
        /\ users' = users /\ auth' = auth /\ role' = role /\ welcomed' = welcomed
        /\ halfway' = halfway /\ sessions' = sessions /\ proven' = proven
    BY <1>5 DEF InsertStaff, history
  <2>3. BuildersOwn'
    BY <2>1, <2>2 DEF SignupIInv, BuildersOwn, Building
  <2>4. BuiltOwn'
    BY <2>1, <2>2 DEF SignupIInv, BuiltOwn, Built
  <2>5. AuthNeedsUser' /\ VerifiedIsProven' /\ SessionsAreProven'
    BY <2>2 DEF SignupIInv, AuthNeedsUser, VerifiedIsProven, SessionsAreProven
  <2>6. OrphansComeFromFailures'
    BY <2>1, <2>2 DEF SignupIInv, OrphansComeFromFailures
  <2>7. AckedSignupIsComplete'
    BY <2>2 DEF SignupIInv, AckedSignupIsComplete
  <2> QED BY <1>T, <2>3, <2>4, <2>5, <2>6, <2>7 DEF SignupIInv
<1>6. ASSUME NEW r \in Requests, SignupEnd(r) PROVE SignupIInv'
  <2> DEFINE e == req[r].email
  <2>1. /\ req[r].pc = "mail" /\ req'[r].pc = "idle" /\ e \in Emails
        /\ \A s \in Requests \ {r} : req'[s] = req[s]
    BY <1>6, <1>T, FinishFrame DEF SignupEnd, AccountsTypeOK
  <2>2. /\ welcomed' = [welcomed EXCEPT ![e] = @ \union {req[r].pw}]
        /\ users' = users /\ auth' = auth /\ role' = role /\ staff' = staff
        /\ halfway' = halfway /\ sessions' = sessions /\ proven' = proven
    BY <1>6 DEF SignupEnd
  <2>3. e \in users /\ auth[e].there /\ auth[e].pw = req[r].pw
        /\ (role[e] = "staff" => e \in staff)
    BY <2>1 DEF SignupIInv, BuiltOwn, Built
  <2>4. BuildersOwn'
    BY <2>1, <2>2 DEF SignupIInv, BuildersOwn, Building
  <2>5. BuiltOwn'
    BY <2>1, <2>2 DEF SignupIInv, BuiltOwn, Built
  <2>6. AuthNeedsUser' /\ VerifiedIsProven' /\ SessionsAreProven'
    BY <2>2 DEF SignupIInv, AuthNeedsUser, VerifiedIsProven, SessionsAreProven
  <2>7. OrphansComeFromFailures'
    BY <2>1, <2>2 DEF SignupIInv, OrphansComeFromFailures
  <2>8. AckedSignupIsComplete'
    BY <1>T, <2>1, <2>2, <2>3 DEF SignupIInv, AckedSignupIsComplete, AccountsTypeOK
  <2> QED BY <1>T, <2>4, <2>5, <2>6, <2>7, <2>8 DEF SignupIInv
<1>7. ASSUME NEW r \in Requests, NEW e \in Emails, GoogleBegin(r, e) PROVE SignupIInv'
  <2>1. CASE e \in linked
    <3>1. req' = req /\ ~Building(r) /\ ~Built(r)
      BY <1>7, <2>1 DEF GoogleBegin, Building, Built
    <3> QED BY <1>7, <1>T, <2>1, <3>1, QuietStep
            DEF GoogleBegin, GoogleSession, Building, Built
  <2>2. CASE e \notin linked
    <3>1. req'[r].pc = "byEmail" /\ \A s \in Requests \ {r} : req'[s] = req[s]
      BY <1>7, <1>T, <2>2 DEF GoogleBegin, AccountsTypeOK, Idle
    <3> QED BY <1>7, <1>T, <2>2, <3>1, QuietStep
            DEF GoogleBegin, Building, Built, history
  <2> QED BY <2>1, <2>2
<1>8. ASSUME NEW r \in Requests, GoogleFindEmail(r) PROVE SignupIInv'
  <2>1. /\ req[r].pc = "byEmail" /\ req'[r].pc \in {"link", "create"}
        /\ \A s \in Requests \ {r} : req'[s] = req[s]
    BY <1>8, <1>T, Labels, GotoFrame DEF GoogleFindEmail
  <2> QED BY <1>8, <1>T, <2>1, QuietStep DEF GoogleFindEmail, Building, Built, history
<1>9. ASSUME NEW r \in Requests, GoogleLink(r) PROVE SignupIInv'
  <2>1. /\ req[r].pc = "link" /\ req'[r].pc = "idle" /\ req[r].email \in Emails
        /\ \A s \in Requests \ {r} : req'[s] = req[s]
    BY <1>9, <1>T, FinishFrame DEF GoogleLink, AccountsTypeOK
  <2>2. /\ users' = users /\ role' = role /\ auth' = auth /\ staff' = staff
        /\ halfway' = halfway /\ welcomed' = welcomed
        /\ sessions' = sessions \union {req[r].email}
        /\ proven' = proven \union {req[r].email}
    BY <1>9 DEF GoogleLink, GoogleSession
  <2>3. ~Building(r) /\ ~Built(r) /\ ~Building(r)' /\ ~Built(r)'
    BY <2>1 DEF Building, Built
  <2> QED BY <1>T, <2>1, <2>2, <2>3, QuietStep
<1>10. ASSUME NEW r \in Requests, GoogleInsertUser(r) PROVE SignupIInv'
  <2> DEFINE e == req[r].email
  <2>0. e \in Emails /\ req[r].pc = "googleUser"
    BY <1>10, <1>T DEF GoogleInsertUser, AccountsTypeOK
  <2>1. CASE e \in users
    <3>1. req'[r].pc = "idle" /\ \A s \in Requests \ {r} : req'[s] = req[s]
      BY <1>10, <1>T, <2>1, FinishFrame DEF GoogleInsertUser
    <3> QED BY <1>10, <1>T, <2>0, <2>1, <3>1, QuietStep
            DEF GoogleInsertUser, Building, Built, history
  <2>2. CASE e \notin users
    <3>1. /\ req'[r].pc = "googleAuth" /\ req'[r].email = e
          /\ \A s \in Requests \ {r} : req'[s] = req[s]
      BY <1>10, <1>T, <2>0, <2>2, Labels, GotoFrame DEF GoogleInsertUser
    <3>2. /\ users' = users \union {e} /\ role' = [role EXCEPT ![e] = "student"]
          /\ auth' = auth /\ staff' = staff /\ halfway' = halfway /\ welcomed' = welcomed
          /\ sessions' = sessions /\ proven' = proven
      BY <1>10, <2>2 DEF GoogleInsertUser, history
    <3>3. "student" \in Roles
      BY DEF Roles
    <3> QED BY <1>T, <2>0, <2>2, <3>1, <3>2, <3>3, UserStep
  <2> QED BY <2>1, <2>2
<1>11. ASSUME NEW r \in Requests, GoogleInsertAuth(r) PROVE SignupIInv'
  <2> DEFINE e == req[r].email
             new == [there |-> TRUE, matric |-> None, pw |-> None, verified |-> TRUE]
  <2>0. /\ e \in Emails /\ Building(r) /\ e \in users /\ ~auth[e].there
        /\ \A s \in Requests : Building(s) /\ req[s].email = e => s = r
    BY <1>11, <1>T DEF GoogleInsertAuth, AccountsTypeOK, SignupIInv, BuildersOwn, Building
  <2>9. req[r].email = e
    OBVIOUS
  <2>1. req'[r].pc = "idle" /\ \A s \in Requests \ {r} : req'[s] = req[s]
    BY <1>11, <1>T, FinishFrame DEF GoogleInsertAuth
  <2>2. /\ auth' = [auth EXCEPT ![e] = new] /\ new.there
        /\ users' = users /\ role' = role /\ staff' = staff /\ welcomed' = welcomed
        /\ halfway' = halfway
        /\ sessions' = sessions \union {e} /\ proven' = proven \union {e}
    BY <1>11 DEF GoogleInsertAuth, GoogleSession
  <2> HIDE DEF new
  <2>3. auth'[e] = new /\ \A d \in Emails : d # e => auth'[d] = auth[d]
    BY <1>T, <2>0, <2>2 DEF AccountsTypeOK
  <2> HIDE DEF e
  <2>4. BuildersOwn'
    BY <1>T, <2>0, <2>1, <2>2, <2>3 DEF SignupIInv, BuildersOwn, Building, AccountsTypeOK
  <2>5. BuiltOwn'
    <3>1. ASSUME NEW s \in Requests, Built(s)', s # r PROVE req[s].email # e /\ req[s].email \in Emails
      BY <1>T, <2>0, <2>1, <3>1 DEF SignupIInv, BuiltOwn, Built, AccountsTypeOK
    <3> QED BY <2>1, <2>2, <2>3, <3>1 DEF SignupIInv, BuiltOwn, Built
  <2>6. AuthNeedsUser' /\ VerifiedIsProven' /\ SessionsAreProven'
    BY <2>0, <2>2, <2>3 DEF SignupIInv, AuthNeedsUser, VerifiedIsProven, SessionsAreProven
  <2>7. OrphansComeFromFailures'
    <3>1. ASSUME NEW d \in users, d # e, ~auth[d].there, d \notin halfway
          PROVE  \E s \in Requests : Building(s)' /\ req'[s].email = d
      <4>1. PICK s \in Requests : Building(s) /\ req[s].email = d
        BY <3>1 DEF SignupIInv, OrphansComeFromFailures, Building
      <4>2. s # r
        BY <2>9, <3>1, <4>1
      <4>3. req'[s] = req[s]
        BY <2>1, <4>2
      <4> QED BY <4>1, <4>3 DEF Building
    <3> QED BY <1>T, <2>2, <2>3, <3>1 DEF OrphansComeFromFailures, Building, AccountsTypeOK
  <2>8. AckedSignupIsComplete'
    BY <2>0, <2>2, <2>3 DEF SignupIInv, AckedSignupIsComplete
  <2> QED BY <1>T, <2>4, <2>5, <2>6, <2>7, <2>8 DEF SignupIInv
<1>12. ASSUME NEW e \in Emails, Visit(e) PROVE SignupIInv'
  <2>1. req' = req /\ users' = users /\ role' = role /\ staff' = staff
        /\ welcomed' = welcomed /\ halfway' = halfway
    BY <1>12 DEF Visit, Login, Resend, FollowLink, LinkExpires, history
  <2>2. /\ \A d \in Emails : auth'[d].there = auth[d].there /\ auth'[d].pw = auth[d].pw
        /\ \A d \in Emails : auth'[d].verified => auth[d].verified \/ d \in proven'
        /\ sessions' \subseteq proven' /\ proven \subseteq proven'
    <3>1. CASE \E p \in Passwords : Login(e, p)
      BY <3>1 DEF Login, MayEnter, SignupIInv, SessionsAreProven, VerifiedIsProven
    <3>2. CASE Resend(e) \/ LinkExpires(e)
      BY <3>2 DEF Resend, LinkExpires, history, SignupIInv, SessionsAreProven
    <3>3. CASE FollowLink(e)
      <4>1. auth[e] \in AuthRow
        BY <1>T DEF AccountsTypeOK
      <4>2. \A d \in Emails : auth'[d].there = auth[d].there /\ auth'[d].pw = auth[d].pw
                              /\ (d # e => auth'[d] = auth[d])
        BY <1>T, <3>3, <4>1 DEF FollowLink, AccountsTypeOK, AuthRow
      <4> QED BY <3>3, <4>2 DEF FollowLink, SignupIInv, SessionsAreProven
    <3> QED BY <1>12, <3>1, <3>2, <3>3 DEF Visit
  <2>3. BuildersOwn'
    BY <1>T, <2>1, <2>2 DEF SignupIInv, BuildersOwn, Building, AccountsTypeOK
  <2>4. BuiltOwn'
    BY <1>T, <2>1, <2>2 DEF SignupIInv, BuiltOwn, Built, AccountsTypeOK
  <2>5. AuthNeedsUser' /\ VerifiedIsProven' /\ SessionsAreProven'
    BY <2>1, <2>2 DEF SignupIInv, AuthNeedsUser, VerifiedIsProven, SessionsAreProven
  <2>6. OrphansComeFromFailures'
    BY <1>T, <2>1, <2>2 DEF SignupIInv, OrphansComeFromFailures, AccountsTypeOK
  <2>7. AckedSignupIsComplete'
    BY <2>1, <2>2 DEF SignupIInv, AckedSignupIsComplete
  <2> QED BY <1>T, <2>3, <2>4, <2>5, <2>6, <2>7 DEF SignupIInv
<1>13. ASSUME NEW r \in Requests, SignupAbort(r) PROVE SignupIInv'
  <2>1. /\ req'[r].pc = "idle" /\ \A s \in Requests \ {r} : req'[s] = req[s]
        /\ halfway \subseteq halfway' /\ (Building(r) => req[r].email \in halfway')
        /\ auth' = auth
    BY <1>13, <1>T, FinishFrame DEF SignupAbort, Building
  <2> QED BY <1>13, <1>T, <2>1, HalfwayStep DEF SignupAbort, history
<1>14. CASE UNCHANGED accountVars
  BY <1>14, <1>T DEF accountVars, SignupIInv, BuildersOwn, BuiltOwn, Building, Built, AuthNeedsUser,
     VerifiedIsProven, OrphansComeFromFailures, AckedSignupIsComplete, SessionsAreProven
<1> QED BY <1>1, <1>2, <1>3, <1>4, <1>5, <1>6, <1>7, <1>8, <1>9, <1>10, <1>11,
           <1>12, <1>13, <1>14 DEF SignupNext, Step

\* No interleaving of sign-ups and Google sign-ins leaves a users row without
\* its auth row; only a request that ended between the two inserts does.
THEOREM OrphansComeFromFailuresHolds == SignupSpec => []OrphansComeFromFailures
<1>1. SignupInit => SignupIInv BY SignupInvInit
<1>2. SignupIInv /\ [SignupNext]_accountVars => SignupIInv' BY SignupInvStep
<1>3. SignupIInv => OrphansComeFromFailures BY DEF SignupIInv
<1> QED BY <1>1, <1>2, <1>3, PTL DEF SignupSpec

\* A sign-up that reported success keeps its password and its staff row.
THEOREM AckedSignupIsCompleteHolds == SignupSpec => []AckedSignupIsComplete
<1>1. SignupInit => SignupIInv BY SignupInvInit
<1>2. SignupIInv /\ [SignupNext]_accountVars => SignupIInv' BY SignupInvStep
<1>3. SignupIInv => AckedSignupIsComplete BY DEF SignupIInv
<1> QED BY <1>1, <1>2, <1>3, PTL DEF SignupSpec

\* A token is issued only for an address whose owner has shown control of it.
THEOREM SessionsAreProvenHolds == SignupSpec => []SessionsAreProven
<1>1. SignupInit => SignupIInv BY SignupInvInit
<1>2. SignupIInv /\ [SignupNext]_accountVars => SignupIInv' BY SignupInvStep
<1>3. SignupIInv => SessionsAreProven BY DEF SignupIInv
<1> QED BY <1>1, <1>2, <1>3, PTL DEF SignupSpec
=============================================================================
