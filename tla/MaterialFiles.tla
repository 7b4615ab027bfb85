--------------------------- MODULE MaterialFiles ---------------------------
(***************************************************************************)
(* One material, its resource row and the files in the object store.  A    *)
(* resource is an uploaded file (its key, and a signed URL as its address) *)
(* or a link.  create, update, remove and getMaterial of MaterialService   *)
(* touch the rows and the store in separate awaits, outside a transaction; *)
(* the store deletes by key and every upload gets a fresh key.  Metadata,  *)
(* previews and folders of the material are not modelled.                  *)
(***************************************************************************)
EXTENDS Naturals

CONSTANTS
  Requests,   \* requests for this material that may be in flight at once
  Files,      \* keys of the files that may be uploaded; bounds the uploads
  NoFile,     \* the absent key
  MaxFaults   \* bound: requests cut short, and deletions the store refuses

ASSUME FilesAssumption ==
  /\ NoFile \notin Files
  /\ "link" \notin Files
  /\ MaxFaults \in Nat

VARIABLES
  row,       \* the material's row: not yet there, there, deleted
  resource,  \* its resource row, or Nothing
  store,     \* files in the object store
  uploaded,  \* keys handed out
  req,       \* the requests in flight
  faults,    \* faults so far
  linked,    \* history: files whose resource was turned into a link
  crippled,  \* history: files deleted by a request that stopped before its write
  outdated   \* history: a write was made that its request's read did not foresee

vars == <<row, resource, store, uploaded, req, faults, linked, crippled, outdated>>
history == <<linked, crippled, outdated>>

\* A signed URL of file k is k itself, a link is "link".
Upload(k) == [type |-> "UPLOAD", key |-> k, address |-> k]
Link(k)   == [type |-> "URL", key |-> k, address |-> "link"]
Nothing   == [type |-> "none", key |-> NoFile, address |-> NoFile]

Resources == [type : {"none", "UPLOAD", "URL"}, key : Files \union {NoFile},
              address : Files \union {NoFile, "link"}]

Labels == {"idle", "createFile", "createLink", "createResource", "read", "upload",
           "deleteOld", "saveFile", "saveLink", "removeFile", "removeRow", "sign"}

\* A request: where it is, the resource it read, the file it uploaded.
Idle == [pc |-> "idle", was |-> Nothing, key |-> NoFile]

\* A resource has a row to belong to, and an uploaded one has a key.
TypeOK ==
  /\ row \in {"never", "live", "deleted"}
  /\ resource \in Resources
  /\ resource.type # "none" => row = "live"
  /\ resource.type = "UPLOAD" => resource.key \in Files
  /\ store \in SUBSET Files
  /\ uploaded \in SUBSET Files
  /\ req \in [Requests -> [pc : Labels, was : Resources, key : Files \union {NoFile}]]
  /\ faults \in 0 .. MaxFaults
  /\ linked \in SUBSET Files
  /\ crippled \in SUBSET Files
  /\ outdated \in BOOLEAN

Init ==
  /\ row = "never"
  /\ resource = Nothing
  /\ store = {}
  /\ uploaded = {}
  /\ req = [r \in Requests |-> Idle]
  /\ faults = 0
  /\ linked = {}
  /\ crippled = {}
  /\ outdated = FALSE

At(r, label)   == req[r].pc = label
Goto(r, label) == req' = [req EXCEPT ![r].pc = label]
Done(r)        == req' = [req EXCEPT ![r] = Idle]

\* UPDATE ... WHERE materialId, which may match no row and answers all the same.
UpdateResource(x) == resource' = IF resource.type = "none" THEN Nothing ELSE x

\* Does the resource row still hold what r read?
SameFile(r) == resource.type = req[r].was.type /\ resource.key = req[r].was.key

-----------------------------------------------------------------------------
(* uploadFile and deleteFile of StorageService *)

\* The file goes in under a fresh key.
PutFile(r, next) ==
  \E k \in Files \ uploaded :
    /\ uploaded' = uploaded \union {k}
    /\ store' = store \union {k}
    /\ req' = [req EXCEPT ![r].pc = next, ![r].key = k]

\* deleteFile catches what the provider throws and returns false, which nobody
\* looks at.
DeleteFile(k) ==
  \/ store' = store \ {k} /\ UNCHANGED faults
  \/ faults < MaxFaults /\ faults' = faults + 1 /\ UNCHANGED store

-----------------------------------------------------------------------------
(* create and createResource *)

\* The material's row is inserted before its resource is looked at: with
\* neither a file nor a link the request fails after the insert.
CreateMaterial(r) ==
  /\ At(r, "idle") /\ row = "never"
  /\ row' = "live"
  /\ \E next \in {"createFile", "createLink", "idle"} : Goto(r, next)
  /\ UNCHANGED <<resource, store, uploaded, faults, history>>

CreateFile(r) ==
  /\ At(r, "createFile")
  /\ PutFile(r, "createResource")
  /\ UNCHANGED <<row, resource, faults, history>>

\* The insert of the resource row, which the foreign key refuses when the
\* material has gone; the uploaded file is then left.
CreateResource(r) ==
  /\ At(r, "createResource") \/ At(r, "createLink")
  /\ IF row = "live"
     THEN /\ resource' = IF At(r, "createLink") THEN Link(NoFile) ELSE Upload(req[r].key)
          /\ UNCHANGED outdated
     ELSE outdated' = TRUE /\ UNCHANGED resource
  /\ Done(r)
  /\ UNCHANGED <<row, store, uploaded, faults, linked, crippled>>

-----------------------------------------------------------------------------
(* update *)

\* findOne; the resource is read again after the authorisation.
BeginUpdate(r) ==
  /\ At(r, "idle") /\ row = "live"
  /\ Goto(r, "read")
  /\ UNCHANGED <<row, resource, store, uploaded, faults, history>>

\* findMaterialResource of the repository: no resource is no error here.
ReadResource(r) ==
  /\ At(r, "read")
  /\ \E next \in {"upload", "saveLink"} :
       req' = [req EXCEPT ![r].pc = next, ![r].was = resource]
  /\ UNCHANGED <<row, resource, store, uploaded, faults, history>>

\* Mutant: the old file is forgotten.
UploadAndSave(r) ==
  /\ At(r, "upload")
  /\ PutFile(r, "saveFile")
  /\ UNCHANGED <<row, resource, faults, history>>

UploadNew(r) ==
  /\ At(r, "upload")
  /\ PutFile(r, IF req[r].was.type = "UPLOAD" THEN "deleteOld" ELSE "saveFile")
  /\ UNCHANGED <<row, resource, faults, history>>

\* The file that was read goes before the row stops naming it.
DeleteOld(r) ==
  /\ At(r, "deleteOld")
  /\ DeleteFile(req[r].was.key)
  /\ Goto(r, "saveFile")
  /\ UNCHANGED <<row, resource, uploaded, history>>

\* A write without a row to take it is not foreseen either.
SaveFile(r) ==
  /\ At(r, "saveFile")
  /\ UpdateResource(Upload(req[r].key))
  /\ outdated' = (outdated \/ resource.type = "none" \/ ~SameFile(r))
  /\ Done(r)
  /\ UNCHANGED <<row, store, uploaded, faults, linked, crippled>>

\* Mutant: the type is not changed with the address.
SaveAddress(r) ==
  /\ At(r, "saveLink")
  /\ UpdateResource([resource EXCEPT !.address = "link"])
  /\ linked' = IF resource.type = "UPLOAD" THEN linked \union {resource.key} ELSE linked
  /\ Done(r)
  /\ UNCHANGED <<row, store, uploaded, faults, crippled, outdated>>

\* A link replaces address and type; the key, and the file, stay behind.
SaveLink(r) ==
  /\ At(r, "saveLink")
  /\ UpdateResource(Link(resource.key))
  /\ linked' = IF resource.type = "UPLOAD" THEN linked \union {resource.key} ELSE linked
  /\ Done(r)
  /\ UNCHANGED <<row, store, uploaded, faults, crippled, outdated>>

-----------------------------------------------------------------------------
(* remove *)

BeginRemove(r) ==
  /\ At(r, "idle") /\ row = "live"
  /\ req' = [req EXCEPT ![r].pc = IF resource.type = "UPLOAD" THEN "removeFile" ELSE "removeRow",
                        ![r].was = resource]
  /\ UNCHANGED <<row, resource, store, uploaded, faults, history>>

RemoveFile(r) ==
  /\ At(r, "removeFile")
  /\ DeleteFile(req[r].was.key)
  /\ Goto(r, "removeRow")
  /\ UNCHANGED <<row, resource, uploaded, history>>

\* The resource row goes by cascade.
RemoveRow(r) ==
  /\ At(r, "removeRow")
  /\ row' = "deleted"
  /\ resource' = Nothing
  /\ outdated' = (outdated \/ ~SameFile(r))
  /\ Done(r)
  /\ UNCHANGED <<store, uploaded, faults, linked, crippled>>

-----------------------------------------------------------------------------
(* getMaterial: an upload is signed anew, and the signed URL is written     *)
(* without being awaited.  A link is only read.                             *)

BeginView(r) ==
  /\ At(r, "idle") /\ resource.type = "UPLOAD"
  /\ req' = [req EXCEPT ![r].pc = "sign", ![r].was = resource]
  /\ UNCHANGED <<row, resource, store, uploaded, faults, history>>

\* Mutant: the whole resource is written back, not its address alone.
SaveResource(r) ==
  /\ At(r, "sign")
  /\ UpdateResource(Upload(req[r].was.key))
  /\ outdated' = (outdated \/ ~SameFile(r))
  /\ Done(r)
  /\ UNCHANGED <<row, store, uploaded, faults, linked, crippled>>

SaveSignedUrl(r) ==
  /\ At(r, "sign")
  /\ UpdateResource([resource EXCEPT !.address = req[r].was.key])
  /\ outdated' = (outdated \/ ~SameFile(r))
  /\ Done(r)
  /\ UNCHANGED <<row, store, uploaded, faults, linked, crippled>>

-----------------------------------------------------------------------------

\* r has deleted the file it read and has not yet written the row.
Deleted(r) == (At(r, "saveFile") \/ At(r, "removeRow")) /\ req[r].was.type = "UPLOAD"

\* Anything throws, or the process dies: nothing is undone.
Abort(r) ==
  /\ ~At(r, "idle") /\ faults < MaxFaults
  /\ faults' = faults + 1
  /\ crippled' = IF Deleted(r) THEN crippled \union {req[r].was.key} ELSE crippled
  /\ Done(r)
  /\ UNCHANGED <<row, resource, store, uploaded, linked, outdated>>

Next == \E r \in Requests :
  \/ CreateMaterial(r) \/ CreateFile(r) \/ CreateResource(r)
  \/ BeginUpdate(r) \/ ReadResource(r) \/ UploadNew(r) \/ DeleteOld(r)
  \/ SaveFile(r) \/ SaveLink(r)
  \/ BeginRemove(r) \/ RemoveFile(r) \/ RemoveRow(r)
  \/ BeginView(r) \/ SaveSignedUrl(r)
  \/ Abort(r)

Spec == Init /\ [][Next]_vars

-----------------------------------------------------------------------------

\* A resource that names an uploaded file has that file in the store, however
\* updates, removals and views overlap, except while the request that deleted
\* the file is still to write the row, or if it never did: update and remove
\* delete before they write.
FileBehindRow ==
  resource.type = "UPLOAD" /\ resource.key \notin store =>
    \/ \E r \in Requests : Deleted(r) /\ req[r].was.key = resource.key
    \/ resource.key \in crippled

\* Files that a row names, or that a request has uploaded and is to write.
Owned ==
  {k \in Files : \/ resource.type = "UPLOAD" /\ resource.key = k
                 \/ \E r \in Requests : req[r].key = k}

\* No file is left in the store without an owner, but for those whose material
\* was turned into a link, as long as nothing fails and every write meets the
\* resource its request had read: update and remove clean up only what they read.
NoFileLeaks ==
  faults = 0 /\ ~outdated => store \ linked \subseteq Owned

\* Under the same condition the address fits the resource: a link is the user's
\* and a signed URL is of the row's own file, late writes of views included.
\* Faults do not matter here, since each address is written with its type.
AddressFits ==
  ~outdated =>
    /\ resource.type = "UPLOAD" => resource.address = resource.key
    /\ resource.type = "URL" => resource.address = "link"
=============================================================================
