----------------------------- MODULE RateLimit -----------------------------
(***************************************************************************)
(* RateLimitMiddleware and BlacklistService for one address: the keys of   *)
(* two addresses are disjoint.  Every request asks for a ban, counts       *)
(* itself in the burst window and in the window of its route, and records  *)
(* a violation when the window is full; the third violation is a ban.      *)
(* Each Redis command is an action, and each may fail: the middleware then *)
(* goes on as if the key were absent.  Requests with the root key pass     *)
(* before any command and are left out.                                    *)
(***************************************************************************)
EXTENDS Integers, FiniteSets

CONSTANTS
  Calls,            \* requests of the address that may be in flight at once
  Windows,          \* the windows of routes: "general" and "auth"
  MaxOf,            \* requests admitted by each counter
  MaxViolations,    \* VIOLATIONS_MAX_BEFORE_BAN
  BansToEscalate,   \* BANS_MAX_BEFORE_ESCALATION
  MaxBans,          \* bound: bans counted
  MaxLimitFaults    \* bound: commands that fail, requests cut short

Counters == Windows \union {"burst", "violations"}

ASSUME LimitAssumption ==
  /\ IsFiniteSet(Calls) /\ Windows \subseteq {"general", "auth"}
  /\ MaxOf \in [Windows \union {"burst"} -> Nat \ {0}]
  /\ MaxViolations \in Nat \ {0} /\ BansToEscalate \in Nat
  /\ MaxBans \in Nat /\ MaxLimitFaults \in Nat

VARIABLES
  counter,      \* the counters in Redis, 0 when absent
  expires,      \* the counters that have a time to live
  ban,          \* blacklist:<ip>: an hour's, a day's or none
  banCount,     \* ban_count:<ip>, which never expires
  call,         \* the requests in flight
  spoiled,      \* history: counters whose EXPIRE failed or was never sent
  shortened,    \* history: a day's ban became an hour's behind the back of nobody
  limitFaults   \* commands that failed, requests cut short

limitVars == <<counter, expires, ban, banCount, call, spoiled, shortened, limitFaults>>

LimitOf(k) == IF k = "violations" THEN MaxViolations - 1 ELSE MaxOf[k]
Highest(k) == LimitOf(k) + Cardinality(Calls)

\* counted: what INCR returned, or GET of the ban count.  missed: history, a ban was
\* written since the request asked for one, or its question was not answered.
Call ==
  [at : {"ask", "incr", "expire", "burstBan", "clear", "bans", "ban", "countBan"},
   route : Windows, key : Counters, counted : Nat, missed : BOOLEAN]
NoCall == [at |-> "idle"]

LimitTypeOK ==
  /\ counter \in [Counters -> Nat] /\ \A k \in Counters : counter[k] <= Highest(k)
  /\ expires \in SUBSET {k \in Counters : counter[k] > 0}
  /\ ban \in {"none", "hour", "day"}
  /\ banCount \in 0 .. MaxBans
  /\ call \in [Calls -> Call \union {NoCall}]
  /\ spoiled \in SUBSET Counters
  /\ shortened \in BOOLEAN
  /\ limitFaults \in 0 .. MaxLimitFaults

LimitInit ==
  /\ counter = [k \in Counters |-> 0] /\ expires = {}
  /\ ban = "none" /\ banCount = 0
  /\ call = [r \in Calls |-> NoCall]
  /\ spoiled = {} /\ shortened = FALSE /\ limitFaults = 0

CallEnds(r) == call' = [call EXCEPT ![r] = NoCall]
CallGoesTo(r, at) == call' = [call EXCEPT ![r].at = at]
CallCounts(r, k) == call' = [call EXCEPT ![r].at = "incr", ![r].key = k]

-----------------------------------------------------------------------------
(* The middleware *)

Arrive(r, route) ==
  /\ call[r] = NoCall
  /\ call' = [call EXCEPT ![r] =
       [at |-> "ask", route |-> route, key |-> "burst", counted |-> 0, missed |-> FALSE]]
  /\ UNCHANGED <<counter, expires, ban, banCount, spoiled, shortened, limitFaults>>

\* Mutant: no ban is looked for.
NeverBlacklisted == FALSE
\* isBlacklisted
Blacklisted == ban # "none"

Ask(r) ==
  /\ call[r].at = "ask"
  /\ IF Blacklisted THEN CallEnds(r) ELSE CallCounts(r, "burst")
  /\ UNCHANGED <<counter, expires, ban, banCount, spoiled, shortened, limitFaults>>

\* What comes after a counter has returned n.
CounterReturns(r, k, n) ==
  CASE k = "burst" -> IF n > MaxOf[k] THEN CallGoesTo(r, "burstBan")
                      ELSE CallCounts(r, call[r].route)
    [] k = "violations" -> IF n < MaxViolations THEN CallEnds(r)
                           ELSE call' = [call EXCEPT ![r].at = "bans", ![r].key = k]
    [] OTHER -> IF n > MaxOf[k] THEN CallCounts(r, "violations") ELSE CallEnds(r)

\* Mutant: the counter is new when INCR returns what an absent key holds.
NewAtZero(n) == n = 0
NewCounter(n) == n = 1

\* increment: INCR, and EXPIRE is sent next when the key is new.
Incr(r) ==
  LET k == call[r].key
      n == counter[k] + 1
  IN  /\ call[r].at = "incr"
      /\ n <= Highest(k)
      /\ counter' = [counter EXCEPT ![k] = n]
      /\ IF NewCounter(n) THEN call' = [call EXCEPT ![r].at = "expire", ![r].counted = n]
         ELSE CounterReturns(r, k, n)
      /\ UNCHANGED <<expires, ban, banCount, spoiled, shortened, limitFaults>>

\* The key may have gone in between: EXPIRE then does nothing.
SetWindow(r) ==
  LET k == call[r].key
  IN  /\ call[r].at = "expire"
      /\ expires' = IF counter[k] > 0 THEN expires \union {k} ELSE expires
      /\ CounterReturns(r, k, call[r].counted)
      /\ UNCHANGED <<counter, ban, banCount, spoiled, shortened, limitFaults>>

\* The other requests have not seen the new ban.
AsEndedBy(r, after) == [q \in Calls |-> IF q = r THEN after
                        ELSE IF call[q] # NoCall THEN [call[q] EXCEPT !.missed = TRUE] ELSE NoCall]

BlacklistForBurst(r) ==
  /\ call[r].at = "burstBan"
  /\ ban' = "day"
  /\ call' = AsEndedBy(r, [call[r] EXCEPT !.at = "clear"])
  /\ UNCHANGED <<counter, expires, banCount, spoiled, shortened, limitFaults>>

ClearCounter(r) ==
  LET k == call[r].key
  IN  /\ call[r].at = "clear"
      /\ counter' = [counter EXCEPT ![k] = 0] /\ expires' = expires \ {k}
      /\ spoiled' = spoiled \ {k}
      /\ CallEnds(r)
      /\ UNCHANGED <<ban, banCount, shortened, limitFaults>>

-----------------------------------------------------------------------------
(* recordViolation, from the violation that is one too many *)

ReadBans(r) ==
  /\ call[r].at = "bans"
  /\ call' = [call EXCEPT ![r].at = "ban", ![r].counted = banCount]
  /\ UNCHANGED <<counter, expires, ban, banCount, spoiled, shortened, limitFaults>>

Level(n) == IF n >= BansToEscalate THEN "day" ELSE "hour"

WriteBan(r) ==
  /\ call[r].at = "ban"
  /\ ban' = Level(call[r].counted)
  /\ shortened' = (shortened \/ (ban = "day" /\ ban' = "hour" /\ ~call[r].missed))
  /\ call' = AsEndedBy(r, [call[r] EXCEPT !.at = "countBan"])
  /\ UNCHANGED <<counter, expires, banCount, spoiled, limitFaults>>

CountBan(r) ==
  /\ call[r].at = "countBan"
  /\ call[r].counted < MaxBans
  /\ banCount' = call[r].counted + 1
  /\ CallGoesTo(r, "clear")
  /\ UNCHANGED <<counter, expires, ban, spoiled, shortened, limitFaults>>

-----------------------------------------------------------------------------
(* Time, failures and stops *)

WindowEnds(k) ==
  /\ k \in expires
  /\ counter' = [counter EXCEPT ![k] = 0] /\ expires' = expires \ {k}
  /\ UNCHANGED <<ban, banCount, call, spoiled, shortened, limitFaults>>

BanEnds ==
  /\ ban # "none" /\ ban' = "none"
  /\ UNCHANGED <<counter, expires, banCount, call, spoiled, shortened, limitFaults>>

LimitFault ==
  /\ limitFaults < MaxLimitFaults /\ limitFaults' = limitFaults + 1

\* EXPIRE that was due is not sent, or fails.
Spoils(r) == IF call[r].at = "expire" THEN {call[r].key} ELSE {}

\* Every command of RedisCacheService catches its error: EXISTS answers no, INCR and
\* EXPIRE count 0, GET finds nothing, SET and DEL do nothing.
CommandFails(r) ==
  LET at == call[r].at
  IN  /\ call[r] # NoCall /\ LimitFault
      /\ CASE at = "ask" -> call' = [call EXCEPT ![r].at = "incr", ![r].missed = TRUE]
           [] at \in {"incr", "expire"} -> CounterReturns(r, call[r].key, 0)
           [] at = "bans" -> call' = [call EXCEPT ![r].at = "ban", ![r].counted = 0]
           [] at = "ban" -> CallGoesTo(r, "countBan")
           [] at \in {"burstBan", "countBan"} -> CallGoesTo(r, "clear")
           [] at = "clear" -> CallEnds(r)
      /\ spoiled' = spoiled \union Spoils(r)
      /\ UNCHANGED <<counter, expires, ban, banCount, shortened>>

\* The server stops in the middle of a request.
CallCut(r) ==
  /\ call[r] # NoCall /\ LimitFault
  /\ CallEnds(r)
  /\ spoiled' = spoiled \union Spoils(r)
  /\ UNCHANGED <<counter, expires, ban, banCount, shortened>>

LimitNext ==
  \/ \E r \in Calls :
       \/ \E route \in Windows : Arrive(r, route)
       \/ Ask(r) \/ Incr(r) \/ SetWindow(r) \/ BlacklistForBurst(r) \/ ClearCounter(r)
       \/ ReadBans(r) \/ WriteBan(r) \/ CountBan(r) \/ CommandFails(r) \/ CallCut(r)
  \/ \E k \in Counters : WindowEnds(k)
  \/ BanEnds

LimitSpec == LimitInit /\ [][LimitNext]_limitVars

-----------------------------------------------------------------------------
(* Properties *)

\* A counter that would never expire, and so limit the address for good, is waiting for
\* its EXPIRE or was left so by a command that failed or a server that stopped.
CountersExpire ==
  \A k \in Counters : counter[k] > 0 /\ k \notin expires /\ k \notin spoiled =>
    \E r \in Calls : call[r].at = "expire" /\ call[r].key = k

\* A day's ban becomes an hour's only through a request that got past the blacklist
\* before the ban was written, or without an answer of Redis.
BansHold == ~shortened
=============================================================================
