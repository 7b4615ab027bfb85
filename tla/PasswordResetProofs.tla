------------------------- MODULE PasswordResetProofs -------------------------
(* Proofs about PasswordReset, for every set of tokens and of requests. *)
EXTENDS PasswordReset, TLAPS

\* The tokens that are around have been generated.
Around ==
  /\ stored # NoToken => stored \in generated
  /\ dead \subseteq generated /\ sent \subseteq generated
  /\ \A r \in ResetRequests : resetReq[r].pc # "idle" => resetReq[r].token \in generated

\* A token that one request signed and has not saved yet is known to it alone.
Unsaved ==
  \A r \in ResetRequests : resetReq[r].pc = "save" /\ resetReq[r].token \notin shared =>
    /\ resetReq[r].token \notin dead \union sent
    /\ resetReq[r].token # stored
    /\ \A s \in ResetRequests \ {r} : resetReq[s].pc # "idle" => resetReq[s].token # resetReq[r].token

\* The token in the row is not a dead one.
StoredAlive == stored \notin dead

ResetIInv == ResetTypeOK /\ Around /\ Unsaved /\ StoredAlive

-----------------------------------------------------------------------------
(* Types *)

LEMMA IdleRequest == ResetIdle \in ResetRequest /\ ResetIdle.pc = "idle"
<1>1. (CHOOSE p \in NewPasswords : TRUE) \in NewPasswords
  BY ResetAssumption
<1> QED BY <1>1 DEF ResetIdle, ResetRequest

LEMMA Requested ==
  /\ \A t \in Tokens :
       /\ [ResetIdle EXCEPT !.pc = "save", !.token = t] \in ResetRequest
       /\ [ResetIdle EXCEPT !.pc = "save", !.token = t].pc = "save"
       /\ [ResetIdle EXCEPT !.pc = "save", !.token = t].token = t
  /\ \A t \in Tokens, p \in NewPasswords : [pc |-> "hash", token |-> t, pw |-> p] \in ResetRequest
  BY IdleRequest DEF ResetIdle, ResetRequest

\* Moving a request to another step.
LEMMA Moved ==
  ASSUME ResetTypeOK, NEW r \in ResetRequests, NEW label \in {"mail", "clear"},
         resetReq' = [resetReq EXCEPT ![r].pc = label]
  PROVE  /\ resetReq' \in [ResetRequests -> ResetRequest]
         /\ resetReq'[r].pc = label /\ resetReq'[r].token = resetReq[r].token
         /\ \A s \in ResetRequests \ {r} : resetReq'[s] = resetReq[s]
  BY DEF ResetTypeOK, ResetRequest

LEMMA ResetTypeStep == ResetTypeOK /\ [ResetNext]_resetVars => ResetTypeOK'
<1> SUFFICES ASSUME ResetTypeOK, [ResetNext]_resetVars PROVE ResetTypeOK'
  OBVIOUS
<1>1. ASSUME NEW r \in ResetRequests, NEW t \in Tokens, Forgot(r, t) PROVE ResetTypeOK'
  BY <1>1, Requested DEF Forgot, ResetTypeOK
<1>2. ASSUME NEW r \in ResetRequests, NEW t \in Tokens, NEW p \in NewPasswords, Reset(r, t, p)
      PROVE  ResetTypeOK'
  BY <1>2, Requested DEF Reset, ResetTypeOK
<1>3. ASSUME NEW r \in ResetRequests, SaveToken(r) PROVE ResetTypeOK'
  BY <1>3, Moved DEF SaveToken, ResetTypeOK
<1>4. ASSUME NEW r \in ResetRequests, MailToken(r) PROVE ResetTypeOK'
  BY <1>4, IdleRequest DEF MailToken, ResetTypeOK
<1>5. ASSUME NEW r \in ResetRequests, UpdatePassword(r) PROVE ResetTypeOK'
  <2>1. resetReq[r].pw \in NewPasswords
    BY DEF ResetTypeOK, ResetRequest
  <2> QED BY <1>5, <2>1, Moved DEF UpdatePassword, ResetTypeOK
<1>6. ASSUME NEW r \in ResetRequests, ClearToken(r) PROVE ResetTypeOK'
  BY <1>6, IdleRequest DEF ClearToken, ResetTypeOK
<1>7. ASSUME NEW r \in ResetRequests, ResetAbort(r) PROVE ResetTypeOK'
  BY <1>7, IdleRequest DEF ResetAbort, ResetTypeOK
<1>8. ASSUME NEW t \in Tokens, Expires(t) PROVE ResetTypeOK'
  BY <1>8 DEF Expires, ResetTypeOK
<1>9. CASE UNCHANGED resetVars
  BY <1>9 DEF resetVars, ResetTypeOK
<1> QED BY <1>1, <1>2, <1>3, <1>4, <1>5, <1>6, <1>7, <1>8, <1>9 DEF ResetNext

\* Every reachable state is well typed: no request mails, saves or buries the
\* absence of a token.
THEOREM ResetTypeCorrect == ResetSpec => []ResetTypeOK
<1>1. ResetInit => ResetTypeOK
  BY IdleRequest DEF ResetInit, ResetTypeOK
<1>2. ResetTypeOK /\ [ResetNext]_resetVars => ResetTypeOK' BY ResetTypeStep
<1> QED BY <1>1, <1>2, PTL DEF ResetSpec

-----------------------------------------------------------------------------
(* The inductive invariant *)

LEMMA ResetInvInit == ResetInit => ResetIInv
  BY IdleRequest, ResetAssumption
     DEF ResetInit, ResetIInv, ResetTypeOK, Around, Unsaved, StoredAlive

LEMMA ResetInvStep == ResetIInv /\ [ResetNext]_resetVars => ResetIInv'
<1> SUFFICES ASSUME ResetIInv, [ResetNext]_resetVars PROVE ResetIInv'
  OBVIOUS
<1>T. ResetTypeOK /\ ResetTypeOK'
  BY ResetTypeStep DEF ResetIInv
<1> USE ResetAssumption DEF ResetIInv, Around, Unsaved, StoredAlive
<1>1. ASSUME NEW r \in ResetRequests, NEW t \in Tokens, Forgot(r, t) PROVE ResetIInv'
  <2>1. /\ resetReq'[r].pc = "save" /\ resetReq'[r].token = t
        /\ \A s \in ResetRequests \ {r} : resetReq'[s] = resetReq[s]
    BY <1>1, <1>T, Requested DEF Forgot, ResetTypeOK
  <2>2. t # NoToken /\ generated' = generated \union {t} /\ UNCHANGED <<stored, dead, sent>>
        /\ shared' = IF t \in generated THEN shared \union {t} ELSE shared
    BY <1>1 DEF Forgot
  <2>3. CASE t \in generated
    <3>1. shared' = shared \union {t}
      BY <2>2, <2>3
    <3> QED BY <1>T, <2>1, <2>2, <2>3, <3>1
  <2>4. CASE t \notin generated
    BY <1>T, <2>1, <2>2, <2>4
  <2> QED BY <2>3, <2>4
<1>2. ASSUME NEW r \in ResetRequests, NEW t \in Tokens, NEW p \in NewPasswords, Reset(r, t, p)
      PROVE  ResetIInv'
  <2>1. /\ resetReq'[r].pc = "hash" /\ resetReq'[r].token = t /\ t \in sent
        /\ \A s \in ResetRequests \ {r} : resetReq'[s] = resetReq[s]
    BY <1>2, <1>T DEF Reset, ResetTypeOK
  <2>2. UNCHANGED <<stored, dead, sent, generated, shared>>
    BY <1>2 DEF Reset
  <2> QED BY <1>T, <2>1, <2>2
<1>3. ASSUME NEW r \in ResetRequests, SaveToken(r) PROVE ResetIInv'
  <2>1. /\ resetReq[r].pc = "save" /\ resetReq'[r].pc = "mail" /\ resetReq'[r].token = resetReq[r].token
        /\ \A s \in ResetRequests \ {r} : resetReq'[s] = resetReq[s]
    BY <1>3, <1>T, Moved DEF SaveToken
  <2>2. /\ stored' = resetReq[r].token
        /\ dead' = (dead \union ({stored} \ {NoToken})) \ {resetReq[r].token}
        /\ UNCHANGED <<sent, generated, shared>>
    BY <1>3 DEF SaveToken
  <2>3. Around' /\ StoredAlive'
    BY <1>T, <2>1, <2>2
  <2>4. Unsaved'
    BY <1>T, <2>1, <2>2 DEF ResetTypeOK
  <2> QED BY <1>T, <2>3, <2>4
<1>4. ASSUME NEW r \in ResetRequests, MailToken(r) PROVE ResetIInv'
  <2>1. /\ resetReq[r].pc = "mail" /\ resetReq'[r].pc = "idle"
        /\ \A s \in ResetRequests \ {r} : resetReq'[s] = resetReq[s]
        /\ sent' = sent \union {resetReq[r].token} /\ UNCHANGED <<stored, dead, generated, shared>>
    BY <1>4, <1>T, IdleRequest DEF MailToken, ResetTypeOK
  <2> QED BY <1>T, <2>1
<1>5. ASSUME NEW r \in ResetRequests, UpdatePassword(r) PROVE ResetIInv'
  <2>1. /\ resetReq[r].pc = "hash" /\ resetReq'[r].pc = "clear" /\ resetReq'[r].token = resetReq[r].token
        /\ \A s \in ResetRequests \ {r} : resetReq'[s] = resetReq[s]
        /\ UNCHANGED <<stored, dead, sent, generated, shared>>
    BY <1>5, <1>T, Moved DEF UpdatePassword
  <2> QED BY <1>T, <2>1
<1>6. ASSUME NEW r \in ResetRequests, ClearToken(r) PROVE ResetIInv'
  <2>1. /\ resetReq[r].pc = "clear" /\ resetReq'[r].pc = "idle" /\ resetReq[r].token \in Tokens
        /\ \A s \in ResetRequests \ {r} : resetReq'[s] = resetReq[s]
        /\ stored' = NoToken /\ dead' = dead \union {resetReq[r].token}
        /\ UNCHANGED <<sent, generated, shared>>
    BY <1>6, <1>T, IdleRequest DEF ClearToken, ResetTypeOK
  <2>2. NoToken \notin dead
    BY <1>T DEF ResetTypeOK
  <2> QED BY <1>T, <2>1, <2>2 DEF ResetTypeOK
<1>7. ASSUME NEW r \in ResetRequests, ResetAbort(r) PROVE ResetIInv'
  <2>1. /\ resetReq'[r].pc = "idle" /\ \A s \in ResetRequests \ {r} : resetReq'[s] = resetReq[s]
        /\ UNCHANGED <<stored, dead, sent, generated, shared>>
    BY <1>7, <1>T, IdleRequest DEF ResetAbort, ResetTypeOK
  <2> QED BY <1>T, <2>1
<1>8. ASSUME NEW t \in Tokens, Expires(t) PROVE ResetIInv'
  BY <1>T, <1>8 DEF Expires
<1>9. CASE UNCHANGED resetVars
  BY <1>T, <1>9 DEF resetVars
<1> QED BY <1>1, <1>2, <1>3, <1>4, <1>5, <1>6, <1>7, <1>8, <1>9 DEF ResetNext

\* A request gets past the checks with the stored token, which is not dead.
LEMMA AcceptsTheLiving ==
  ASSUME ResetIInv, ResetNext, NEW r \in ResetRequests, resetReq[r].pc = "idle", resetReq'[r].pc = "hash"
  PROVE  resetReq'[r].token \notin dead
<1> USE DEF ResetIInv, ResetTypeOK, StoredAlive
<1>1. ASSUME NEW s \in ResetRequests, NEW t \in Tokens, NEW p \in NewPasswords, Reset(s, t, p)
      PROVE  resetReq'[r].token \notin dead
  <2>1. s = r
    BY <1>1 DEF Reset
  <2> QED BY <1>1, <2>1 DEF Reset, Accepts
<1>2. ASSUME NEW s \in ResetRequests, NEW t \in Tokens, Forgot(s, t) PROVE FALSE
  BY <1>2, Requested DEF Forgot
<1>3. ASSUME NEW s \in ResetRequests, \/ SaveToken(s) \/ MailToken(s) \/ UpdatePassword(s)
                                 \/ ClearToken(s) \/ ResetAbort(s)
      PROVE  FALSE
  BY <1>3, IdleRequest DEF SaveToken, MailToken, UpdatePassword, ClearToken, ResetAbort
<1>4. ASSUME NEW t \in Tokens, Expires(t) PROVE FALSE
  BY <1>4 DEF Expires
<1> QED BY <1>1, <1>2, <1>3, <1>4 DEF ResetNext

\* Only a save brings a dead token back, and only one that several requests signed.
LEMMA OnlySharedRevive ==
  ASSUME ResetIInv, ResetNext PROVE dead \ dead' \subseteq shared
<1>1. ASSUME NEW r \in ResetRequests, SaveToken(r) PROVE dead \ dead' \subseteq shared
  <2>1. dead \ dead' \subseteq {resetReq[r].token}
    BY <1>1 DEF SaveToken
  <2>2. resetReq[r].token \in dead => resetReq[r].token \in shared
    BY <1>1 DEF SaveToken, ResetIInv, Unsaved
  <2> QED BY <2>1, <2>2
<1>2. ASSUME NEW r \in ResetRequests,
             \/ \E t \in Tokens : Forgot(r, t) \/ \E p \in NewPasswords : Reset(r, t, p)
             \/ MailToken(r) \/ UpdatePassword(r) \/ ClearToken(r) \/ ResetAbort(r)
      PROVE  dead \ dead' \subseteq shared
  BY <1>2 DEF Forgot, Reset, MailToken, UpdatePassword, ClearToken, ResetAbort
<1>3. ASSUME NEW t \in Tokens, Expires(t) PROVE dead \ dead' \subseteq shared
  BY <1>3 DEF Expires
<1> QED BY <1>1, <1>2, <1>3 DEF ResetNext

\* Neither a link that was replaced nor one whose reset reported success gets past the
\* checks again, however the requests of the account overlap, unless another request
\* that was given the same link in the same second saves it again.
THEOREM DeadLinksStayDeadHolds == ResetSpec => DeadLinksStayDead
<1>1. ResetInit => ResetIInv BY ResetInvInit
<1>2. ResetIInv /\ [ResetNext]_resetVars => ResetIInv' BY ResetInvStep
<1>3. ResetIInv /\ [ResetNext]_resetVars =>
        [/\ \A r \in ResetRequests :
             resetReq[r].pc = "idle" /\ resetReq'[r].pc = "hash" => resetReq'[r].token \notin dead
         /\ dead \ dead' \subseteq shared]_resetVars
  BY AcceptsTheLiving, OnlySharedRevive
<1> QED BY <1>1, <1>2, <1>3, PTL DEF ResetSpec, DeadLinksStayDead

-----------------------------------------------------------------------------
(* The ledger of links *)

\* Whoever saves a new password has had its token accepted.
AcceptedFirst ==
  \A r \in ResetRequests : resetReq[r].pc \in {"hash", "clear"} => resetReq[r].token \in opened

LEMMA AcceptedInit == ResetInit => AcceptedFirst
  BY IdleRequest DEF ResetInit, AcceptedFirst

LEMMA AcceptedStep == ResetTypeOK /\ AcceptedFirst /\ [ResetNext]_resetVars => AcceptedFirst'
<1> SUFFICES ASSUME ResetTypeOK, AcceptedFirst, [ResetNext]_resetVars PROVE AcceptedFirst'
  OBVIOUS
<1> USE DEF AcceptedFirst
<1>1. ASSUME NEW r \in ResetRequests, NEW t \in Tokens, Forgot(r, t) PROVE AcceptedFirst'
  <2>1. /\ resetReq'[r].pc = "save"
        /\ \A s \in ResetRequests \ {r} : resetReq'[s] = resetReq[s]
        /\ UNCHANGED opened
    BY <1>1, Requested DEF Forgot, ResetTypeOK
  <2> QED BY <2>1
<1>2. ASSUME NEW r \in ResetRequests, NEW t \in Tokens, NEW p \in NewPasswords, Reset(r, t, p)
      PROVE  AcceptedFirst'
  <2>1. /\ resetReq'[r].token = t
        /\ \A s \in ResetRequests \ {r} : resetReq'[s] = resetReq[s]
        /\ opened' = opened \union {t}
    BY <1>2 DEF Reset, ResetTypeOK
  <2> QED BY <2>1
<1>3. ASSUME NEW r \in ResetRequests, SaveToken(r) PROVE AcceptedFirst'
  BY <1>3, Moved DEF SaveToken
<1>4. ASSUME NEW r \in ResetRequests, UpdatePassword(r) PROVE AcceptedFirst'
  BY <1>4, Moved DEF UpdatePassword
<1>5. ASSUME NEW r \in ResetRequests, MailToken(r) \/ ClearToken(r) \/ ResetAbort(r) PROVE AcceptedFirst'
  <2>1. /\ resetReq'[r].pc = "idle"
        /\ \A s \in ResetRequests \ {r} : resetReq'[s] = resetReq[s]
        /\ UNCHANGED opened
    BY <1>5, IdleRequest DEF MailToken, ClearToken, ResetAbort, ResetTypeOK
  <2> QED BY <2>1
<1>6. ASSUME NEW t \in Tokens, Expires(t) PROVE AcceptedFirst'
  BY <1>6 DEF Expires
<1>7. CASE UNCHANGED resetVars
  BY <1>7 DEF resetVars
<1> QED BY <1>1, <1>2, <1>3, <1>4, <1>5, <1>6, <1>7 DEF ResetNext

\* Every step of a request is a step of the ledger or leaves it alone.
LEMMA LedgerStep ==
  ResetIInv /\ AcceptedFirst /\ [ResetNext]_resetVars => [Ledger!LedgerNext]_(Ledger!ledgerVars)
<1> SUFFICES ASSUME ResetIInv, AcceptedFirst, [ResetNext]_resetVars
             PROVE  Ledger!LedgerNext \/ UNCHANGED <<stored, dead, opened, shared>>
  BY DEF Ledger!ledgerVars
<1> USE DEF ResetIInv
<1>1. ASSUME NEW r \in ResetRequests, SaveToken(r)
      PROVE  Ledger!LedgerNext \/ UNCHANGED <<stored, dead, opened, shared>>
  <2>1. resetReq[r].token \in Tokens /\ (resetReq[r].token \in dead => resetReq[r].token \in shared)
    BY <1>1 DEF SaveToken, Unsaved, ResetTypeOK
  <2>2. CASE resetReq[r].token # stored
    <3>1. Ledger!Issue(resetReq[r].token)
      BY <1>1, <2>1, <2>2 DEF SaveToken, Ledger!Issue
    <3> QED BY <2>1, <3>1 DEF Ledger!LedgerNext
  <2>3. CASE resetReq[r].token = stored
    <3>1. dead' = dead
      BY <1>1, <2>3 DEF SaveToken, StoredAlive
    <3> QED BY <1>1, <2>3, <3>1 DEF SaveToken
  <2> QED BY <2>2, <2>3
<1>2. ASSUME NEW r \in ResetRequests, NEW t \in Tokens, NEW p \in NewPasswords, Reset(r, t, p)
      PROVE  Ledger!LedgerNext
  <2>1. Ledger!Open(t)
    BY <1>2 DEF Reset, Accepts, StoredAlive, Ledger!Open
  <2> QED BY <2>1 DEF Ledger!LedgerNext
<1>3. ASSUME NEW r \in ResetRequests, ClearToken(r) PROVE Ledger!LedgerNext
  <2>1. resetReq[r].token \in Tokens /\ resetReq[r].token \in opened
    BY <1>3 DEF ClearToken, AcceptedFirst, ResetTypeOK
  <2>2. Ledger!Finish(resetReq[r].token)
    BY <1>3, <2>1 DEF ClearToken, Ledger!Finish
  <2> QED BY <2>1, <2>2 DEF Ledger!LedgerNext
<1>4. ASSUME NEW r \in ResetRequests, MailToken(r) \/ UpdatePassword(r) \/ ResetAbort(r)
      PROVE  UNCHANGED <<stored, dead, opened, shared>>
  BY <1>4 DEF MailToken, UpdatePassword, ResetAbort
<1>5. ASSUME NEW t \in Tokens, Expires(t) PROVE UNCHANGED <<stored, dead, opened, shared>>
  BY <1>5 DEF Expires
<1>7. ASSUME NEW r \in ResetRequests, NEW t \in Tokens, Forgot(r, t)
      PROVE  Ledger!LedgerNext \/ UNCHANGED <<stored, dead, opened, shared>>
  <2>1. CASE t \in generated
    <3>1. Ledger!Coincide(t)
      BY <1>7, <2>1 DEF Forgot, Ledger!Coincide
    <3> QED BY <3>1 DEF Ledger!LedgerNext
  <2>2. CASE t \notin generated
    BY <1>7, <2>2 DEF Forgot
  <2> QED BY <2>1, <2>2
<1>6. CASE UNCHANGED resetVars
  BY <1>6 DEF resetVars
<1> QED BY <1>1, <1>2, <1>3, <1>4, <1>5, <1>6, <1>7 DEF ResetNext

\* The overlapping requests of an account implement the ledger: one live link at most,
\* and nothing opens with a link that was replaced or used to the end.
THEOREM LedgerImplemented == ResetSpec => ImplementsLedger
<1>1. ResetInit => ResetIInv /\ AcceptedFirst /\ Ledger!LedgerInit
  BY ResetInvInit, AcceptedInit DEF ResetInit, Ledger!LedgerInit
<1>2. ResetIInv /\ AcceptedFirst /\ [ResetNext]_resetVars => ResetIInv' /\ AcceptedFirst'
  BY ResetInvStep, AcceptedStep DEF ResetIInv
<1>3. ResetIInv /\ AcceptedFirst /\ [ResetNext]_resetVars => [Ledger!LedgerNext]_(Ledger!ledgerVars)
  BY LedgerStep
<1> QED BY <1>1, <1>2, <1>3, PTL DEF ResetSpec, ImplementsLedger, Ledger!LedgerSpec
=============================================================================
