------------------------------ MODULE Previews ------------------------------
(***************************************************************************)
(* Previews of materials: the endpoint that stores one, and the script     *)
(* batch-preview, which walks the list of materials page by page (newest   *)
(* first, a page is an answer of the cached search), makes an image of     *)
(* each file and posts it to that endpoint.  The script leaves alone what  *)
(* has a preview in Cloudinary, by what the page said.                     *)
(*                                                                         *)
(* How an image is made is left out: the attempt has an outcome.           *)
(***************************************************************************)
EXTENDS Integers, SequencesExt

CONSTANTS
  Illustrated,         \* materials
  Unsupported,         \* those of another type, or whose label has a suffix to skip
  PageLimit,           \* --limit
  MaxPreviewChanges    \* bound: what users do meanwhile

ASSUME PreviewAssumption ==
  /\ IsFiniteSet(Illustrated) /\ Illustrated # {}
  /\ Unsupported \subseteq Illustrated
  /\ PageLimit \in Nat \ {0} /\ MaxPreviewChanges \in Nat

VARIABLES
  newest,           \* the materials there are, newest first
  preview,          \* where the preview of each is kept, "gone" with its material
  answers,          \* the pages in Redis
  script,           \* the script
  options,          \* its --replace and --dry-run
  trampled,         \* history: protected previews it replaced although its page had them
  previewChanges    \* changes by users

previewVars == <<newest, preview, answers, script, options, trampled, previewChanges>>

Places == {"none", "elsewhere", "cloudinary"}
Pages == 1 .. Cardinality(Illustrated)

\* A page: its materials with their previews, and how many pages there are.  since:
\* history, materials whose preview was set after it was computed.
Answer == [there : BOOLEAN, ids : Seq(Illustrated), shown : [Illustrated -> Places],
           total : {0} \union Pages, since : SUBSET Illustrated]
NoAnswer == [there |-> FALSE, ids |-> << >>, shown |-> [m \in Illustrated |-> "none"],
             total |-> 0, since |-> {}]

PreviewTypeOK ==
  /\ newest \in Seq(Illustrated) /\ IsInjective(newest)
  /\ preview \in [Illustrated -> Places \union {"gone"}]
  /\ answers \in [Pages -> Answer]
  /\ script \in [at : {"page", "item", "paused", "upload", "done"},
                 page : Pages \union {Cardinality(Illustrated) + 1}, total : {0} \union Pages,
                 list : Answer, item : 1 .. PageLimit + 1]
  /\ options \in [replace : BOOLEAN, dryRun : BOOLEAN]
  /\ trampled \in SUBSET Illustrated
  /\ previewChanges \in 0 .. MaxPreviewChanges

Exists(m) == m \in ToSet(newest)

\* A search of page p, computed now.
Least(a, b) == IF a <= b THEN a ELSE b
Computed(p) ==
  [there |-> TRUE,
   ids |-> SubSeq(newest, (p - 1) * PageLimit + 1, Least(p * PageLimit, Len(newest))),
   shown |-> [m \in Illustrated |-> IF Exists(m) THEN preview[m] ELSE "none"],
   total |-> (Len(newest) + PageLimit - 1) \div PageLimit,
   since |-> {}]

\* The script may have run just before, and have left its pages in Redis.
PreviewInit ==
  /\ newest \in UNION {SetToSeqs(s) : s \in SUBSET Illustrated}
  /\ preview \in [Illustrated -> Places]
  /\ \A m \in Illustrated : ~Exists(m) => preview[m] = "none"
  /\ answers \in {[p \in Pages |-> NoAnswer], [p \in Pages |-> Computed(p)]}
  /\ script = [at |-> "page", page |-> 1, total |-> 0, list |-> NoAnswer, item |-> 1]
  /\ options \in [replace : BOOLEAN, dryRun : BOOLEAN]
  /\ trampled = {}
  /\ previewChanges = 0

-----------------------------------------------------------------------------
(* The endpoint, and what users do *)

\* updateMaterialPreview sets the column of the row, if there is one.
UpdateMaterialPreview(m, place) ==
  /\ preview' = IF Exists(m) THEN [preview EXCEPT ![m] = place] ELSE preview
  /\ answers' = [p \in Pages |-> [answers[p] EXCEPT !.since = @ \union {m}]]

UserChange ==
  /\ script.at # "done"
  /\ previewChanges < MaxPreviewChanges /\ previewChanges' = previewChanges + 1
  /\ UNCHANGED <<options, trampled>>

SetPreview(m, place) ==
  /\ Exists(m)
  /\ UserChange
  /\ UpdateMaterialPreview(m, place)
  /\ script' = [script EXCEPT !.list.since = @ \union {m}]
  /\ UNCHANGED newest

\* create, with the preview that was uploaded before, or without.
AddMaterial(m, place) ==
  /\ ~Exists(m) /\ preview[m] = "none"
  /\ UserChange
  /\ newest' = <<m>> \o newest
  /\ preview' = [preview EXCEPT ![m] = place]
  /\ UNCHANGED <<answers, script>>

\* remove wipes the search cache.
RemoveMaterial(m) ==
  /\ Exists(m)
  /\ UserChange
  /\ \E i \in DOMAIN newest : newest[i] = m /\ newest' = RemoveAt(newest, i)
  /\ preview' = [preview EXCEPT ![m] = "gone"]
  /\ answers' = [p \in Pages |-> NoAnswer]
  /\ UNCHANGED script

AnswerExpires(p) ==
  /\ answers[p].there
  /\ answers' = [answers EXCEPT ![p] = NoAnswer]
  /\ UNCHANGED <<newest, preview, script, options, trampled, previewChanges>>

-----------------------------------------------------------------------------
(* The script *)

Fetched(p) == IF answers[p].there THEN answers[p] ELSE Computed(p)

\* The first page tells how many there are; the answer is not asked again.
GetPage ==
  /\ script.at = "page"
  /\ script.page = 1 \/ script.page <= script.total
  /\ LET l == Fetched(script.page)
     IN  /\ script' = [script EXCEPT !.at = "item", !.list = l, !.item = 1,
                                     !.total = IF script.page = 1 THEN l.total ELSE @]
         /\ answers' = [answers EXCEPT ![script.page] = l]
  /\ UNCHANGED <<newest, preview, options, trampled, previewChanges>>

\* The walk is over, or a page could not be fetched.
Finish ==
  /\ script.at = "page"
  /\ script' = [script EXCEPT !.at = "done"]
  /\ UNCHANGED <<newest, preview, answers, options, trampled, previewChanges>>

NextPage ==
  /\ script.at = "item" /\ script.item > Len(script.list.ids)
  /\ script' = [script EXCEPT !.at = "page", !.page = @ + 1]
  /\ UNCHANGED <<newest, preview, answers, options, trampled, previewChanges>>

Current == script.list.ids[script.item]
AtItem(at) == script.at = at /\ script.item <= Len(script.list.ids)

ScriptGoes(at) == script' = [script EXCEPT !.at = at]
Passed == script' = [script EXCEPT !.at = "item", !.item = @ + 1]

\* Mutant: with --replace every preview is replaced.
SkippedUnlessReplace(m, shown) ==
  m \in Unsupported \/ (shown # "none" /\ ~options.replace)
\* Skipped by its type or label, as protected, or because it has a preview.
Skipped(m, shown) ==
  m \in Unsupported \/ shown = "cloudinary" \/ (shown # "none" /\ ~options.replace)

SkipMaterial ==
  /\ AtItem("item") /\ Skipped(Current, script.list.shown[Current])
  /\ Passed
  /\ UNCHANGED <<newest, preview, answers, options, trampled, previewChanges>>

\* The download and the conversion give an image, or nothing to show, or fail; a limit of
\* the other side is waited for once.
MakePreview ==
  /\ AtItem("item") /\ ~Skipped(Current, script.list.shown[Current])
  /\ \/ Exists(Current) /\ ~options.dryRun /\ ScriptGoes("upload")
     \/ ScriptGoes("paused")
     \/ Passed
  /\ UNCHANGED <<newest, preview, answers, options, trampled, previewChanges>>

MakeAgain ==
  /\ AtItem("paused")
  /\ \/ Exists(Current) /\ ~options.dryRun /\ ScriptGoes("upload")
     \/ Passed
  /\ UNCHANGED <<newest, preview, answers, options, trampled, previewChanges>>

UploadPreview ==
  /\ AtItem("upload")
  /\ UpdateMaterialPreview(Current, "cloudinary")
  /\ trampled' = IF Exists(Current) /\ preview[Current] = "cloudinary" /\ Current \notin script.list.since
                 THEN trampled \union {Current} ELSE trampled
  /\ Passed
  /\ UNCHANGED <<newest, options, previewChanges>>

\* The image could not be stored: the material counts as failed.
UploadFails ==
  /\ AtItem("upload")
  /\ Passed
  /\ UNCHANGED <<newest, preview, answers, options, trampled, previewChanges>>

PreviewNext ==
  \/ \E m \in Illustrated : \/ \E place \in Places \ {"none"} : SetPreview(m, place)
                            \/ \E place \in Places : AddMaterial(m, place)
                            \/ RemoveMaterial(m)
  \/ \E p \in Pages : AnswerExpires(p)
  \/ GetPage \/ Finish \/ NextPage \/ SkipMaterial \/ MakePreview \/ MakeAgain
  \/ UploadPreview \/ UploadFails

PreviewSpec == PreviewInit /\ [][PreviewNext]_previewVars

-----------------------------------------------------------------------------
(* Property *)

\* The script replaces a preview that is kept in Cloudinary ("URL patterns that should
\* never be replaced") only when it was set after the page was computed.
ProtectedStays == trampled = {}
=============================================================================
