----------------------------- MODULE LinkLedger -----------------------------
(***************************************************************************)
(* What password resets promise of an account's links: one link at a time  *)
(* is live, only the live one opens a reset, and a link that was replaced  *)
(* or whose reset is finished is retired, for good unless it was asked for *)
(* twice.  No requests, no mails: PasswordReset is shown to implement it.  *)
(***************************************************************************)
CONSTANTS
  Links,   \* reset links
  NoLink   \* no link

VARIABLES
  live,     \* the link that works, if any
  retired,  \* links replaced, or used to the end, and not issued since
  opened,   \* links that have opened a reset
  shared    \* links that were asked for more than once

ledgerVars == <<live, retired, opened, shared>>

LedgerInit == live = NoLink /\ retired = {} /\ opened = {} /\ shared = {}

\* Somebody else is given the same link.
Coincide(t) ==
  /\ shared' = shared \union {t}
  /\ UNCHANGED <<live, retired, opened>>

\* A link replaces the live one: a new link, or one that was asked for twice.
Issue(t) ==
  /\ t # live
  /\ t \in retired => t \in shared
  /\ live' = t
  /\ retired' = (retired \union ({live} \ {NoLink})) \ {t}
  /\ UNCHANGED <<opened, shared>>

Open(t) ==
  /\ t = live /\ t \notin retired
  /\ opened' = opened \union {t}
  /\ UNCHANGED <<live, retired, shared>>

\* A reset ends: its link is retired, and so is whatever link is live by then.
Finish(t) ==
  /\ t \in opened
  /\ live' = NoLink
  /\ retired' = retired \union {t}
  /\ UNCHANGED <<opened, shared>>

LedgerNext == \E t \in Links : Coincide(t) \/ Issue(t) \/ Open(t) \/ Finish(t)

LedgerSpec == LedgerInit /\ [][LedgerNext]_ledgerVars
=============================================================================
