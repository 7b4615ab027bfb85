---------------------------- MODULE MCCatalogue ----------------------------
(***************************************************************************)
(* The course catalogue with its links and enrolments, reviews, and the    *)
(* mails that reviews and other requests send, for TLC.  The parts share   *)
(* no state, so that a step of one commutes with the steps of the others,  *)
(* and each behaviour lets one act.                                        *)
(***************************************************************************)
EXTENDS Catalogue, Review, Mail, TLC

CONSTANTS i1, i2

VARIABLE part   \* the part that acts

ProviderList == <<"resend", "gmail", "mailersend", "brevo">>
KindOf == i1 :> "material" @@ i2 :> "course"

CatalogueInit ==
  /\ part \in {"catalogue", "review", "mail"}
  /\ CatInit /\ ReviewInit /\ MailInit

CatalogueNext ==
  /\ \/ part = "catalogue" /\ CatNext    /\ UNCHANGED <<reviewVars, mailVars>>
     \/ part = "review"    /\ ReviewNext /\ UNCHANGED <<catVars, mailVars>>
     \/ part = "mail"      /\ MailNext   /\ UNCHANGED <<catVars, reviewVars>>
  /\ UNCHANGED part

CatalogueSpec == CatalogueInit /\ [][CatalogueNext]_<<part, catVars, reviewVars, mailVars>>

\* The part that acts keeps its types: the others stay as they began.
CatalogueTypeOK ==
  CASE part = "catalogue" -> CatTypeOK
    [] part = "review"    -> ReviewTypeOK
    [] part = "mail"      -> MailTypeOK

CatalogueSymmetry ==
  Permutations(CatRequests) \union Permutations(Courses) \union Permutations(Names)
    \union Permutations(Levels) \union Permutations(Codes)
=============================================================================
