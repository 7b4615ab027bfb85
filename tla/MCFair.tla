------------------------------- MODULE MCFair -------------------------------
(***************************************************************************)
(* What must happen in the end, for TLC: a deleted material fades out of   *)
(* the searches over a flaky Redis, and Google gets one in.  Searches and  *)
(* sign-ups share no state, so that a step of one commutes with the steps  *)
(* of the other, and each behaviour lets one of the two act.               *)
(***************************************************************************)
EXTENDS SearchCache, Accounts, TLC

CONSTANTS u1, m1

VARIABLE part   \* the part that acts

OwnedByFirst == m1 :> u1

FairInit ==
  /\ part \in {"search", "accounts"}
  /\ Init /\ SignupInit

FairNext ==
  /\ \/ part = "search"   /\ Next       /\ UNCHANGED accountVars
     \/ part = "accounts" /\ SignupNext /\ UNCHANGED vars
  /\ UNCHANGED part

\* The fairness of both: of the part that does not act nothing is ever enabled that
\* fairness is asked of.
BothFair ==
  /\ FairInit /\ [][FairNext]_<<part, vars, accountVars>>
  /\ Fairness
  /\ \A r \in Requests : WF_accountVars(Step(r))
=============================================================================
