----------------------------- MODULE MCSearches -----------------------------
(***************************************************************************)
(* What Redis keeps of searches and of recommendations, the script that    *)
(* walks the pages of a search to make previews, and the paged lists, for  *)
(* TLC.  The parts share no key and no table, so that a step of one        *)
(* commutes with the steps of the others, and each behaviour lets one act. *)
(***************************************************************************)
EXTENDS SearchCache, Recommendations, Previews, Listings, TLC

CONSTANT u1

VARIABLE part   \* the part that acts

OwnedByFirst == [m \in Materials |-> u1]

\* Materials are named in the order in which they were created at first, and one whose
\* type is not supported has no preview.
FirstPreviews ==
  /\ \A i, j \in DOMAIN newest : i < j => newest[i] < newest[j]
  /\ \A m \in Unsupported : preview[m] = "none"
  /\ options.dryRun => options.replace
\* The previews when another part acts.
NoPreviews ==
  /\ newest = << >> /\ preview = [m \in Illustrated |-> "none"]
  /\ answers = [p \in Pages |-> NoAnswer] /\ options = [replace |-> TRUE, dryRun |-> TRUE]

\* The rows of a list are named in the order the list has them at first.  A search finds
\* one of them or all, and the lists without an order of their own are short.
FirstList ==
  /\ \A x, y \in Rows : x < y => position[x] >= position[y]
  /\ narrow \in {{3}, Rows}
  /\ list.reorders => narrow = {3} /\ Present \subseteq {1, 3}
  /\ list.random => Present \subseteq {1, 5}
\* The lists when another part acts.
EmptyClubList == list = ClubList /\ narrow = Rows /\ position = [x \in Rows |-> 0]

SearchesInit ==
  /\ part \in {"search", "recommend", "previews", "lists"}
  /\ IF part = "previews" THEN TRUE ELSE NoPreviews
  /\ IF part = "lists" THEN TRUE ELSE EmptyClubList
  /\ Init /\ RecInit
  /\ PreviewInit /\ (part = "previews" => FirstPreviews)
  /\ ListInit /\ FirstList

SearchesNext ==
  /\ \/ part = "search"    /\ Next        /\ UNCHANGED <<recVars, previewVars, listVars>>
     \/ part = "recommend" /\ RecNext     /\ UNCHANGED <<vars, previewVars, listVars>>
     \/ part = "previews"  /\ PreviewNext /\ UNCHANGED <<vars, recVars, listVars>>
     \/ part = "lists"     /\ ListNext    /\ UNCHANGED <<vars, recVars, previewVars>>
  /\ UNCHANGED part

SearchesSpec == SearchesInit /\ [][SearchesNext]_<<part, vars, recVars, previewVars, listVars>>

\* The part that acts keeps its types: the others stay as they began.
SearchesTypeOK ==
  CASE part = "search"    -> TypeOK
    [] part = "recommend" -> RecTypeOK
    [] part = "previews"  -> PreviewTypeOK
    [] part = "lists"     -> ListTypeOK

\* All materials are of one user, and so are alike.
SearchesSymmetry == Permutations(Materials)
=============================================================================
