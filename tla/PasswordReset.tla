--------------------------- MODULE PasswordReset ---------------------------
(***************************************************************************)
(* The password of one account and its reset links: forgotPassword,        *)
(* resetPassword and validateUser of AuthService over the account's auth   *)
(* row.  Reading the row, hashing and saving the new password and clearing *)
(* the token are separate awaits, so several requests of the account       *)
(* interleave.  A token is the encryption, under one fixed IV, of a JWT of *)
(* the address and of the second it was signed in: requests for a link in  *)
(* the same second get the same token.  It lives an hour, by the JWT and   *)
(* by passwordResetExpires alike, both set from the same clock.            *)
(***************************************************************************)
EXTENDS Naturals, FiniteSets

CONSTANTS
  Tokens,         \* the reset tokens that get generated; bounds forgotPassword
  NewPasswords,   \* passwords people choose
  NoToken,        \* no token
  ResetRequests   \* requests in flight at once

ASSUME ResetAssumption == NoToken \notin Tokens /\ NewPasswords # {}

VARIABLES
  password,  \* auth.password
  stored,    \* auth.passwordResetToken
  expired,   \* tokens older than an hour
  sent,      \* tokens mailed to the owner
  resetReq,  \* the requests in flight
  dead,      \* history: tokens replaced, or whose reset returned success, not saved since
  opened,    \* history: tokens a reset request has accepted
  generated, \* tokens of forgotPassword so far
  latest,    \* the token signed last
  shared     \* history: tokens that several requests have signed

resetVars == <<password, stored, expired, sent, resetReq, dead, opened, generated, latest, shared>>

ResetRequest == [pc : {"idle", "save", "mail", "hash", "clear"},
                 token : Tokens \union {NoToken}, pw : NewPasswords]
ResetIdle == [pc |-> "idle", token |-> NoToken, pw |-> CHOOSE p \in NewPasswords : TRUE]

ResetTypeOK ==
  /\ password \in NewPasswords
  /\ stored \in Tokens \union {NoToken}
  /\ expired \in SUBSET Tokens
  /\ sent \in SUBSET Tokens
  /\ resetReq \in [ResetRequests -> ResetRequest]
  /\ \A r \in ResetRequests : resetReq[r].pc # "idle" => resetReq[r].token \in Tokens
  /\ dead \in SUBSET Tokens
  /\ opened \in SUBSET Tokens
  /\ generated \in SUBSET Tokens
  /\ latest \in Tokens \union {NoToken}
  /\ shared \in SUBSET Tokens

ResetInit ==
  /\ password \in NewPasswords
  /\ stored = NoToken
  /\ expired = {} /\ sent = {} /\ dead = {} /\ opened = {} /\ generated = {}
  /\ latest = NoToken /\ shared = {}
  /\ resetReq = [r \in ResetRequests |-> ResetIdle]

-----------------------------------------------------------------------------

\* forgotPassword: the row is read and a token signed and encrypted.  Within the second
\* of the last one it comes out the same.
Forgot(r, t) ==
  /\ resetReq[r].pc = "idle"
  /\ t \notin generated \/ (t = latest /\ t \notin expired)
  /\ generated' = generated \union {t}
  /\ latest' = t
  /\ shared' = IF t \in generated THEN shared \union {t} ELSE shared
  /\ resetReq' = [resetReq EXCEPT ![r] = [ResetIdle EXCEPT !.pc = "save", !.token = t]]
  /\ UNCHANGED <<password, stored, expired, sent, dead, opened>>

\* savePasswordResetToken replaces the token the row had.  Saved again, a token is alive.
SaveToken(r) ==
  /\ resetReq[r].pc = "save"
  /\ stored' = resetReq[r].token
  /\ dead' = (dead \union ({stored} \ {NoToken})) \ {resetReq[r].token}
  /\ resetReq' = [resetReq EXCEPT ![r].pc = "mail"]
  /\ UNCHANGED <<password, expired, sent, opened, generated, latest, shared>>

\* The reset mail leaves with the token of this request.
MailToken(r) ==
  /\ resetReq[r].pc = "mail"
  /\ sent' = sent \union {resetReq[r].token}
  /\ resetReq' = [resetReq EXCEPT ![r] = ResetIdle]
  /\ UNCHANGED <<password, stored, expired, dead, opened, generated, latest, shared>>

\* An hour has passed since the token was generated.
Expires(t) ==
  /\ t \in generated \ expired
  /\ expired' = expired \union {t}
  /\ UNCHANGED <<password, stored, sent, resetReq, dead, opened, generated, latest, shared>>

\* The checks of resetPassword on the row it has read.
Accepts(t) == stored = t /\ t \notin expired

\* resetPassword: the checks pass, and the hashing begins.
Reset(r, t, p) ==
  /\ resetReq[r].pc = "idle"
  /\ t \in sent
  /\ Accepts(t)
  /\ opened' = opened \union {t}
  /\ resetReq' = [resetReq EXCEPT ![r] = [pc |-> "hash", token |-> t, pw |-> p]]
  /\ UNCHANGED <<password, stored, expired, sent, dead, generated, latest, shared>>

\* authRepository.updatePassword.
UpdatePassword(r) ==
  /\ resetReq[r].pc = "hash"
  /\ password' = resetReq[r].pw
  /\ resetReq' = [resetReq EXCEPT ![r].pc = "clear"]
  /\ UNCHANGED <<stored, expired, sent, dead, opened, generated, latest, shared>>

\* Mutant: the token is not cleared.
ClearNothing(r) ==
  /\ resetReq[r].pc = "clear"
  /\ dead' = dead \union {resetReq[r].token}
  /\ resetReq' = [resetReq EXCEPT ![r] = ResetIdle]
  /\ UNCHANGED <<password, stored, expired, sent, opened, generated, latest, shared>>

\* clearPasswordResetToken clears whatever token the row holds by now.
ClearToken(r) ==
  /\ resetReq[r].pc = "clear"
  /\ stored' = NoToken
  /\ dead' = dead \union {resetReq[r].token}
  /\ resetReq' = [resetReq EXCEPT ![r] = ResetIdle]
  /\ UNCHANGED <<password, expired, sent, opened, generated, latest, shared>>

\* A step throws or the process dies.
ResetAbort(r) ==
  /\ resetReq[r].pc # "idle"
  /\ resetReq' = [resetReq EXCEPT ![r] = ResetIdle]
  /\ UNCHANGED <<password, stored, expired, sent, dead, opened, generated, latest, shared>>

-----------------------------------------------------------------------------

ResetNext ==
  \/ \E r \in ResetRequests, t \in Tokens :
       Forgot(r, t) \/ \E p \in NewPasswords : Reset(r, t, p)
  \/ \E r \in ResetRequests :
       SaveToken(r) \/ MailToken(r) \/ UpdatePassword(r) \/ ClearToken(r) \/ ResetAbort(r)
  \/ \E t \in Tokens : Expires(t)

ResetSpec == ResetInit /\ [][ResetNext]_resetVars

-----------------------------------------------------------------------------
(* Properties *)

\* A link whose reset has reported success, or that a newer link has replaced, is dead:
\* however requests for links and resets overlap, no later request gets past the checks
\* with it.  It comes to life again only when it is saved again, by another request for a
\* link that was signed in the same second.
DeadLinksStayDead ==
  [][/\ \A r \in ResetRequests :
          resetReq[r].pc = "idle" /\ resetReq'[r].pc = "hash" => resetReq'[r].token \notin dead
     /\ dead \ dead' \subseteq shared]_resetVars

\* The requests together do what the ledger of links says: to whoever uses the links,
\* saving a token, accepting one and clearing the row happen at once.
Ledger == INSTANCE LinkLedger WITH
  Links <- Tokens, NoLink <- NoToken, live <- stored, retired <- dead
ImplementsLedger == Ledger!LedgerSpec

\* A link that was mailed, is younger than an hour, has opened no reset and was
\* not replaced by a newer one works: what the reset mail says.
LinkLastsAnHour ==
  \A t \in sent \ (expired \union opened \union dead) : stored = t
=============================================================================
