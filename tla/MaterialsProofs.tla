--------------------------- MODULE MaterialsProofs ---------------------------
(*****************************************************************************)
(* Proofs about the files of materials and the folders materials are put     *)
(* into, for any number of requests, files, folders and faults.              *)
(*****************************************************************************)
EXTENDS MaterialFiles, FolderNesting, TLAPS

-----------------------------------------------------------------------------
(*****************************************************************************)
(* Files.  The actions fall into five kinds: those that only read, that put  *)
(* a file into the store, that delete one, that write a row, and Abort.      *)
(* What a file needs is that the key of an upload under way is known to its  *)
(* own request alone (KeysOwn), so that neither a stale deletion nor a stale *)
(* read can name it.                                                         *)
(*****************************************************************************)

\* A request holds a key from its upload to its write, and knows an uploaded
\* resource where it is to delete or to sign one.
Labelled == \A r \in Requests :
  /\ req[r].key # NoFile <=> req[r].pc \in {"createResource", "deleteOld", "saveFile"}
  /\ At(r, "deleteOld") \/ At(r, "removeFile") \/ At(r, "sign") => req[r].was.type = "UPLOAD"
  /\ req[r].was.type = "UPLOAD" => req[r].was.key \in Files

\* One request creates the material, and its resource is not there before.
Creating(r) == req[r].pc \in {"createFile", "createLink", "createResource"}

CreateFirst == \A r \in Requests : Creating(r) =>
  /\ row # "never" /\ resource.type = "none"
  /\ \A s \in Requests \ {r} : ~Creating(s)

\* What anybody names has been uploaded.
KeysUploaded ==
  /\ store \subseteq uploaded
  /\ resource.key \in uploaded \union {NoFile}
  /\ \A r \in Requests : /\ req[r].was.key \in uploaded \union {NoFile}
                         /\ req[r].key \in uploaded \union {NoFile}

\* An upload under way is in the store and known to its request alone.
KeysOwn == \A r \in Requests : req[r].key # NoFile =>
  /\ req[r].key \in store
  /\ req[r].key # resource.key
  /\ \A s \in Requests : req[s].was.key # req[r].key
  /\ \A s \in Requests \ {r} : req[s].key # req[r].key

\* Without faults a deletion has done its work.
Cleaned == faults = 0 =>
  \A r \in Requests : Deleted(r) => req[r].was.key \notin store

FilesIInv ==
  /\ TypeOK
  /\ Labelled
  /\ CreateFirst
  /\ KeysUploaded
  /\ KeysOwn
  /\ Cleaned
  /\ FileBehindRow
  /\ NoFileLeaks
  /\ AddressFits

-----------------------------------------------------------------------------

LEMMA FilesInvInit == Init => FilesIInv
<1> SUFFICES ASSUME Init PROVE FilesIInv
  OBVIOUS
<1> USE FilesAssumption
<1>1. \A r \in Requests : req[r] = Idle
  BY DEF Init
<1>2. TypeOK
  <2>1. req \in [Requests -> [pc : Labels, was : Resources, key : Files \union {NoFile}]]
    BY DEF Init, Idle, Labels, Resources, Nothing
  <2>2. outdated \in BOOLEAN
    BY DEF Init
  <2> QED BY <2>1, <2>2 DEF Init, TypeOK, Resources, Nothing
<1>3. Labelled /\ CreateFirst
  BY <1>1 DEF Labelled, CreateFirst, Creating, At, Idle, Nothing
<1>4. KeysUploaded /\ KeysOwn /\ Cleaned
  BY <1>1 DEF Init, KeysUploaded, KeysOwn, Cleaned, Deleted, At, Idle, Nothing
<1>5. FileBehindRow /\ NoFileLeaks /\ AddressFits
  BY DEF Init, FileBehindRow, NoFileLeaks, AddressFits, Nothing
<1> QED BY <1>2, <1>3, <1>4, <1>5 DEF FilesIInv

\* The other requests stay where they are.
Others(r) == \A s \in Requests \ {r} : req'[s] = req[s]

\* A step of request r that replaces its record by one of the right type.
LEMMA RequestStep ==
  ASSUME TypeOK, NEW r \in Requests, NEW x, req' = [req EXCEPT ![r] = x]
  PROVE  /\ req'[r] = x
         /\ Others(r)
         /\ x \in [pc : Labels, was : Resources, key : Files \union {NoFile}]
              => req' \in [Requests -> [pc : Labels, was : Resources, key : Files \union {NoFile}]]
BY DEF TypeOK, Others

\* Where a request is, without the record.
LEMMA GotoStep ==
  ASSUME TypeOK, NEW r \in Requests, NEW label \in Labels, Goto(r, label)
  PROVE  /\ req'[r].pc = label /\ req'[r].was = req[r].was /\ req'[r].key = req[r].key
         /\ Others(r)
         /\ req' \in [Requests -> [pc : Labels, was : Resources, key : Files \union {NoFile}]]
BY DEF TypeOK, Goto, Others

LEMMA DoneStep ==
  ASSUME TypeOK, NEW r \in Requests, Done(r)
  PROVE  /\ req'[r] = Idle
         /\ Others(r)
         /\ req' \in [Requests -> [pc : Labels, was : Resources, key : Files \union {NoFile}]]
<1>1. Idle \in [pc : Labels, was : Resources, key : Files \union {NoFile}]
  BY DEF Idle, Labels, Resources, Nothing
<1> QED BY <1>1, RequestStep DEF Done

LEMMA ReadStep ==
  ASSUME TypeOK, NEW r \in Requests, NEW label \in Labels,
         req' = [req EXCEPT ![r].pc = label, ![r].was = resource]
  PROVE  /\ req'[r].pc = label /\ req'[r].was = resource /\ req'[r].key = req[r].key
         /\ Others(r)
         /\ req' \in [Requests -> [pc : Labels, was : Resources, key : Files \union {NoFile}]]
BY DEF TypeOK, Others

LEMMA PutStep ==
  ASSUME TypeOK, NEW r \in Requests, NEW label \in Labels, PutFile(r, label)
  PROVE  \E k \in Files \ uploaded :
           /\ uploaded' = uploaded \union {k}
           /\ store' = store \union {k}
           /\ req'[r].pc = label /\ req'[r].was = req[r].was /\ req'[r].key = k
           /\ Others(r)
           /\ req' \in [Requests -> [pc : Labels, was : Resources, key : Files \union {NoFile}]]
<1>1. PICK k \in Files \ uploaded :
        /\ uploaded' = uploaded \union {k}
        /\ store' = store \union {k}
        /\ req' = [req EXCEPT ![r].pc = label, ![r].key = k]
  BY DEF PutFile
<1>2. /\ req'[r].pc = label /\ req'[r].was = req[r].was /\ req'[r].key = k
      /\ Others(r)
      /\ req' \in [Requests -> [pc : Labels, was : Resources, key : Files \union {NoFile}]]
  BY <1>1 DEF TypeOK, Others
<1> QED BY <1>1, <1>2

-----------------------------------------------------------------------------

\* A step that reads: it may note the resource and moves to a place where
\* nothing has been deleted.
LEMMA ReadingKeeps ==
  ASSUME FilesIInv, NEW r \in Requests, Others(r), TypeOK', Labelled', CreateFirst',
         req'[r].key = req[r].key,
         req'[r].was = req[r].was \/ req'[r].was = resource,
         ~Deleted(r), ~Deleted(r)',
         resource' = resource, store' = store, uploaded' = uploaded,
         faults' = faults, UNCHANGED history
  PROVE  FilesIInv'
<1>1. KeysUploaded' /\ KeysOwn'
  BY DEF FilesIInv, KeysUploaded, KeysOwn, Others
<1>2. Cleaned' /\ FileBehindRow'
  BY DEF FilesIInv, Cleaned, FileBehindRow, Deleted, At, Others, history
<1>3. NoFileLeaks' /\ AddressFits'
  <2>1. Owned' = Owned
    BY DEF Owned, Others
  <2> QED BY <2>1 DEF FilesIInv, NoFileLeaks, AddressFits, history
<1> QED BY <1>1, <1>2, <1>3 DEF FilesIInv

\* A step that uploads: the fresh key is the request's own.
LEMMA PuttingKeeps ==
  ASSUME FilesIInv, NEW r \in Requests, Others(r), TypeOK', Labelled', CreateFirst',
         req[r].key = NoFile, NEW k \in Files \ uploaded, req'[r].key = k,
         uploaded' = uploaded \union {k}, store' = store \union {k},
         req'[r].was = req[r].was, ~Deleted(r), ~Deleted(r)',
         resource' = resource, faults' = faults, UNCHANGED history
  PROVE  FilesIInv'
<1>1. KeysUploaded'
  BY DEF FilesIInv, KeysUploaded, Others
<1>2. KeysOwn'
  BY FilesAssumption DEF FilesIInv, KeysOwn, KeysUploaded, Others
<1>3. Cleaned' /\ FileBehindRow'
  BY FilesAssumption DEF FilesIInv, Cleaned, FileBehindRow, KeysUploaded, Labelled, Deleted, At, Others, history
<1>4. NoFileLeaks' /\ AddressFits'
  <2>1. Owned' = Owned \union {k}
    BY FilesAssumption DEF Owned, Others
  <2> QED BY <2>1 DEF FilesIInv, NoFileLeaks, AddressFits, history
<1> QED BY <1>1, <1>2, <1>3, <1>4 DEF FilesIInv

\* A step that deletes what the request has read, unless the store refuses.
LEMMA DeletingKeeps ==
  ASSUME FilesIInv, NEW r \in Requests, Others(r), TypeOK', Labelled', CreateFirst',
         DeleteFile(req[r].was.key), req'[r].key = req[r].key, req'[r].was = req[r].was,
         Deleted(r)', ~Deleted(r),
         resource' = resource, uploaded' = uploaded, UNCHANGED history
  PROVE  FilesIInv'
<1>1. \/ store' = store \ {req[r].was.key} /\ faults' = faults
      \/ store' = store /\ faults' = faults + 1 
  BY DEF DeleteFile
<1>2. KeysUploaded' /\ KeysOwn'
  BY <1>1 DEF FilesIInv, KeysUploaded, KeysOwn, Others
<1>3. Cleaned'
  BY <1>1, FilesAssumption DEF FilesIInv, Cleaned, Deleted, At, Others, TypeOK
<1>4. FileBehindRow'
  BY <1>1 DEF FilesIInv, FileBehindRow, Deleted, At, Others, history
<1>5. NoFileLeaks' /\ AddressFits'
  <2>1. Owned' = Owned
    BY DEF Owned, Others
  <2>2. faults' = 0 => faults = 0 /\ store' \subseteq store
    BY <1>1 DEF FilesIInv, TypeOK
  <2> QED BY <2>1, <2>2 DEF FilesIInv, NoFileLeaks, AddressFits, history
<1> QED BY <1>2, <1>3, <1>4, <1>5 DEF FilesIInv

\* A step that ends a request, its write included: what is said of keys.
LEMMA EndingKeepsKeys ==
  ASSUME FilesIInv, NEW r \in Requests, Others(r), req'[r] = Idle,
         store' = store, uploaded' = uploaded, faults' = faults \/ faults' = faults + 1,
         resource'.key \in {resource.key, req[r].key, NoFile}
  PROVE  KeysUploaded' /\ KeysOwn' /\ Cleaned'
<1>1. Idle.key = NoFile /\ Idle.was.key = NoFile /\ Idle.pc = "idle"
  BY DEF Idle, Nothing
<1>2. KeysUploaded'
  BY <1>1 DEF FilesIInv, KeysUploaded, Others
<1>3. KeysOwn'
  BY <1>1 DEF FilesIInv, KeysOwn, Others
<1>4. Cleaned'
  BY <1>1 DEF FilesIInv, TypeOK, Cleaned, Deleted, At, Others
<1> QED BY <1>2, <1>3, <1>4

\* A write of a file that its request holds, over the resource it had read.
LEMMA OverwriteKeeps ==
  ASSUME FilesIInv, NEW r \in Requests, Others(r), req'[r] = Idle,
         req[r].key \in Files, resource' = Upload(req[r].key),
         ~outdated' /\ resource.type = "UPLOAD" => resource.key \notin store \/ faults # 0,
         outdated' = outdated \/ outdated' = TRUE,
         store' = store, faults' = faults, linked' = linked, crippled' = crippled
  PROVE  FileBehindRow' /\ NoFileLeaks' /\ AddressFits'
<1>1. FileBehindRow'
  BY FilesAssumption DEF FilesIInv, FileBehindRow, KeysOwn, Upload
<1>2. AddressFits'
  BY DEF AddressFits, Upload
<1>3. NoFileLeaks'
  <2> SUFFICES ASSUME faults' = 0, ~outdated', NEW k \in Files, k \in store', k \notin linked'
               PROVE  k \in Owned'
    BY DEF NoFileLeaks, FilesIInv, TypeOK
  <2>1. ~outdated /\ k \in Owned
    BY DEF FilesIInv, NoFileLeaks
  <2>2. CASE \E s \in Requests \ {r} : req[s].key = k
    BY <2>2 DEF Owned, Others
  <2>3. CASE req[r].key = k
    BY <2>3 DEF Owned, Upload
  <2>4. CASE resource.type = "UPLOAD" /\ resource.key = k
    BY <2>4
  <2> QED BY <2>1, <2>2, <2>3, <2>4 DEF Owned
<1> QED BY <1>1, <1>2, <1>3

-----------------------------------------------------------------------------
(* The actions *)

LEMMA CreateMaterialKeeps ==
  ASSUME FilesIInv, NEW r \in Requests, CreateMaterial(r)
  PROVE  FilesIInv'
<1>1. PICK label \in {"createFile", "createLink", "idle"} : Goto(r, label)
  BY DEF CreateMaterial
<1>2. /\ req'[r].pc = label /\ req'[r].was = req[r].was /\ req'[r].key = req[r].key
      /\ Others(r)
      /\ req' \in [Requests -> [pc : Labels, was : Resources, key : Files \union {NoFile}]]
  BY <1>1, GotoStep DEF FilesIInv, Labels
<1>3. TypeOK'
  BY <1>2 DEF CreateMaterial, FilesIInv, TypeOK, history
<1>4. Labelled'
  BY <1>2 DEF CreateMaterial, FilesIInv, Labelled, Others, At
<1>5. CreateFirst'
  BY <1>2 DEF CreateMaterial, FilesIInv, TypeOK, CreateFirst, Creating, Others
<1> QED BY <1>2, <1>3, <1>4, <1>5, ReadingKeeps DEF CreateMaterial, Deleted, At

LEMMA BeginUpdateKeeps ==
  ASSUME FilesIInv, NEW r \in Requests, BeginUpdate(r)
  PROVE  FilesIInv'
<1>1. /\ req'[r].pc = "read" /\ req'[r].was = req[r].was /\ req'[r].key = req[r].key
      /\ Others(r)
      /\ req' \in [Requests -> [pc : Labels, was : Resources, key : Files \union {NoFile}]]
  BY GotoStep DEF BeginUpdate, FilesIInv, Labels
<1>2. TypeOK'
  BY <1>1 DEF BeginUpdate, FilesIInv, TypeOK, history
<1>3. Labelled' /\ CreateFirst'
  BY <1>1 DEF BeginUpdate, FilesIInv, Labelled, CreateFirst, Creating, Others, At
<1> QED BY <1>1, <1>2, <1>3, ReadingKeeps DEF BeginUpdate, Deleted, At

LEMMA ReadResourceKeeps ==
  ASSUME FilesIInv, NEW r \in Requests, ReadResource(r)
  PROVE  FilesIInv'
<1>1. PICK label \in {"upload", "saveLink"} :
        req' = [req EXCEPT ![r].pc = label, ![r].was = resource]
  BY DEF ReadResource
<1>2. /\ req'[r].pc = label /\ req'[r].was = resource /\ req'[r].key = req[r].key
      /\ Others(r)
      /\ req' \in [Requests -> [pc : Labels, was : Resources, key : Files \union {NoFile}]]
  BY <1>1, ReadStep DEF FilesIInv, Labels
<1>3. TypeOK'
  BY <1>2 DEF ReadResource, FilesIInv, TypeOK, history
<1>4. Labelled' /\ CreateFirst'
  BY <1>2 DEF ReadResource, FilesIInv, TypeOK, Labelled, CreateFirst, Creating, Others, At
<1> QED BY <1>2, <1>3, <1>4, ReadingKeeps DEF ReadResource, Deleted, At

LEMMA BeginRemoveKeeps ==
  ASSUME FilesIInv, NEW r \in Requests, BeginRemove(r)
  PROVE  FilesIInv'
<1> DEFINE label == IF resource.type = "UPLOAD" THEN "removeFile" ELSE "removeRow"
<1>1. label \in Labels
  BY DEF Labels
<1>2. /\ req'[r].pc = label /\ req'[r].was = resource /\ req'[r].key = req[r].key
      /\ Others(r)
      /\ req' \in [Requests -> [pc : Labels, was : Resources, key : Files \union {NoFile}]]
  <2>1. req' = [req EXCEPT ![r].pc = label, ![r].was = resource]
    BY DEF BeginRemove
  <2> HIDE DEF label
  <2> QED BY <1>1, <2>1, ReadStep DEF FilesIInv
<1>3. TypeOK'
  BY <1>2 DEF BeginRemove, FilesIInv, TypeOK, history
<1>4. Labelled' /\ CreateFirst'
  BY <1>2 DEF BeginRemove, FilesIInv, TypeOK, Labelled, CreateFirst, Creating, Others, At
<1>5. ~Deleted(r) /\ ~Deleted(r)'
  BY <1>2 DEF BeginRemove, Deleted, At
<1> QED BY <1>2, <1>3, <1>4, <1>5, ReadingKeeps DEF BeginRemove

LEMMA BeginViewKeeps ==
  ASSUME FilesIInv, NEW r \in Requests, BeginView(r)
  PROVE  FilesIInv'
<1>1. /\ req'[r].pc = "sign" /\ req'[r].was = resource /\ req'[r].key = req[r].key
      /\ Others(r)
      /\ req' \in [Requests -> [pc : Labels, was : Resources, key : Files \union {NoFile}]]
  BY ReadStep DEF BeginView, FilesIInv, Labels
<1>2. TypeOK'
  BY <1>1 DEF BeginView, FilesIInv, TypeOK, history
<1>3. Labelled' /\ CreateFirst'
  BY <1>1 DEF BeginView, FilesIInv, TypeOK, Labelled, CreateFirst, Creating, Others, At
<1> QED BY <1>1, <1>2, <1>3, ReadingKeeps DEF BeginView, Deleted, At

LEMMA CreateFileKeeps ==
  ASSUME FilesIInv, NEW r \in Requests, CreateFile(r)
  PROVE  FilesIInv'
<1>1. PICK k \in Files \ uploaded :
        /\ uploaded' = uploaded \union {k}
        /\ store' = store \union {k}
        /\ req'[r].pc = "createResource" /\ req'[r].was = req[r].was /\ req'[r].key = k
        /\ Others(r)
        /\ req' \in [Requests -> [pc : Labels, was : Resources, key : Files \union {NoFile}]]
  BY PutStep DEF CreateFile, FilesIInv, Labels
<1>2. TypeOK'
  BY <1>1 DEF CreateFile, FilesIInv, TypeOK, history
<1>3. Labelled' /\ CreateFirst'
  BY <1>1, FilesAssumption DEF CreateFile, FilesIInv, Labelled, CreateFirst, Creating, Others, At
<1>4. req[r].key = NoFile
  BY DEF CreateFile, FilesIInv, Labelled, At
<1> QED BY <1>1, <1>2, <1>3, <1>4, PuttingKeeps DEF CreateFile, Deleted, At

LEMMA UploadNewKeeps ==
  ASSUME FilesIInv, NEW r \in Requests, UploadNew(r)
  PROVE  FilesIInv'
<1> DEFINE label == IF req[r].was.type = "UPLOAD" THEN "deleteOld" ELSE "saveFile"
<1>1. label \in Labels
  BY DEF Labels
<1>2. PutFile(r, label)
  BY DEF UploadNew
<1>3. label \in {"deleteOld", "saveFile"} /\ (label = "deleteOld" <=> req[r].was.type = "UPLOAD")
  OBVIOUS
<1> HIDE DEF label
<1>4. PICK k \in Files \ uploaded :
        /\ uploaded' = uploaded \union {k}
        /\ store' = store \union {k}
        /\ req'[r].pc = label /\ req'[r].was = req[r].was /\ req'[r].key = k
        /\ Others(r)
        /\ req' \in [Requests -> [pc : Labels, was : Resources, key : Files \union {NoFile}]]
  BY <1>1, <1>2, PutStep DEF FilesIInv
<1>5. TypeOK'
  BY <1>4 DEF UploadNew, FilesIInv, TypeOK, history
<1>6. Labelled' /\ CreateFirst'
  BY <1>3, <1>4, FilesAssumption DEF UploadNew, FilesIInv, Labelled, CreateFirst, Creating, Others, At
<1>7. req[r].key = NoFile /\ ~Deleted(r) /\ ~Deleted(r)'
  BY <1>3, <1>4 DEF UploadNew, FilesIInv, Labelled, Deleted, At
<1> QED BY <1>4, <1>5, <1>6, <1>7, PuttingKeeps DEF UploadNew

LEMMA DeleteOldKeeps ==
  ASSUME FilesIInv, NEW r \in Requests, DeleteOld(r)
  PROVE  FilesIInv'
<1>1. /\ req'[r].pc = "saveFile" /\ req'[r].was = req[r].was /\ req'[r].key = req[r].key
      /\ Others(r)
      /\ req' \in [Requests -> [pc : Labels, was : Resources, key : Files \union {NoFile}]]
  BY GotoStep DEF DeleteOld, FilesIInv, Labels
<1>2. TypeOK'
  BY <1>1, FilesAssumption DEF DeleteOld, DeleteFile, FilesIInv, TypeOK, history
<1>3. Labelled' /\ CreateFirst'
  BY <1>1 DEF DeleteOld, FilesIInv, Labelled, CreateFirst, Creating, Others, At
<1>4. ~Deleted(r) /\ Deleted(r)'
  BY <1>1 DEF DeleteOld, FilesIInv, Labelled, Deleted, At
<1> QED BY <1>1, <1>2, <1>3, <1>4, DeletingKeeps DEF DeleteOld

LEMMA RemoveFileKeeps ==
  ASSUME FilesIInv, NEW r \in Requests, RemoveFile(r)
  PROVE  FilesIInv'
<1>1. /\ req'[r].pc = "removeRow" /\ req'[r].was = req[r].was /\ req'[r].key = req[r].key
      /\ Others(r)
      /\ req' \in [Requests -> [pc : Labels, was : Resources, key : Files \union {NoFile}]]
  BY GotoStep DEF RemoveFile, FilesIInv, Labels
<1>2. TypeOK'
  BY <1>1, FilesAssumption DEF RemoveFile, DeleteFile, FilesIInv, TypeOK, history
<1>3. Labelled' /\ CreateFirst'
  BY <1>1 DEF RemoveFile, FilesIInv, Labelled, CreateFirst, Creating, Others, At
<1>4. ~Deleted(r) /\ Deleted(r)'
  BY <1>1 DEF RemoveFile, FilesIInv, Labelled, Deleted, At
<1> QED BY <1>1, <1>2, <1>3, <1>4, DeletingKeeps DEF RemoveFile

LEMMA CreateResourceKeeps ==
  ASSUME FilesIInv, NEW r \in Requests, CreateResource(r)
  PROVE  FilesIInv'
<1>1. /\ req'[r] = Idle /\ Others(r)
      /\ req' \in [Requests -> [pc : Labels, was : Resources, key : Files \union {NoFile}]]
  BY DoneStep DEF CreateResource, FilesIInv
<1>2. /\ At(r, "createResource") => req[r].key \in Files
      /\ At(r, "createLink") => req[r].key = NoFile
  BY DEF CreateResource, FilesIInv, TypeOK, Labelled, At
<1>3. resource.type = "none" /\ row # "never"
  BY DEF CreateResource, FilesIInv, CreateFirst, Creating, At
<1>4. \/ row = "live" /\ At(r, "createResource") /\ resource' = Upload(req[r].key) /\ outdated' = outdated
      \/ row = "live" /\ At(r, "createLink") /\ resource' = Link(NoFile) /\ outdated' = outdated
      \/ row # "live" /\ resource' = resource /\ outdated' = TRUE
  BY DEF CreateResource, At
<1>5. TypeOK'
  <2>1. outdated' \in BOOLEAN
    BY <1>4 DEF FilesIInv, TypeOK
  <2>2. resource' \in Resources /\ (resource'.type = "UPLOAD" => resource'.key \in Files)
    BY <1>2, <1>3, <1>4 DEF FilesIInv, TypeOK, Resources, Upload, Link
  <2> QED BY <1>1, <1>3, <1>4, <2>1, <2>2 DEF CreateResource, FilesIInv, TypeOK
<1>6. Labelled' /\ CreateFirst'
  BY <1>1 DEF CreateResource, FilesIInv, Labelled, CreateFirst, Creating, Others, At, Idle, Nothing
<1>7. KeysUploaded' /\ KeysOwn' /\ Cleaned'
  <2>1. resource'.key \in {resource.key, req[r].key, NoFile}
    BY <1>4 DEF Upload, Link
  <2> QED BY <1>1, <2>1, EndingKeepsKeys DEF CreateResource
<1>8. FileBehindRow' /\ NoFileLeaks' /\ AddressFits'
  <2>1. CASE At(r, "createResource") /\ resource' = Upload(req[r].key) /\ outdated' = outdated
    BY <1>1, <1>2, <1>3, <2>1, OverwriteKeeps DEF CreateResource
  <2>2. CASE At(r, "createLink") /\ resource' = Link(NoFile) /\ outdated' = outdated
    <3>1. Owned \subseteq Owned'
      BY <1>1, <1>2, <1>3, <2>2, FilesAssumption DEF Owned, Others, Link
    <3>2. FileBehindRow' /\ AddressFits'
      BY <2>2 DEF FileBehindRow, AddressFits, Link
    <3> QED BY <2>2, <3>1, <3>2 DEF CreateResource, FilesIInv, NoFileLeaks
  <2>3. CASE resource' = resource /\ outdated' = TRUE
    BY <1>3, <2>3 DEF FileBehindRow, NoFileLeaks, AddressFits
  <2> QED BY <1>4, <2>1, <2>2, <2>3
<1> QED BY <1>5, <1>6, <1>7, <1>8 DEF FilesIInv

LEMMA SaveFileKeeps ==
  ASSUME FilesIInv, NEW r \in Requests, SaveFile(r)
  PROVE  FilesIInv'
<1>1. /\ req'[r] = Idle /\ Others(r)
      /\ req' \in [Requests -> [pc : Labels, was : Resources, key : Files \union {NoFile}]]
  BY DoneStep DEF SaveFile, FilesIInv
<1>2. req[r].key \in Files
  BY DEF SaveFile, FilesIInv, TypeOK, Labelled, At
<1>3. \/ resource.type # "none" /\ resource' = Upload(req[r].key)
      \/ resource.type = "none" /\ resource' = Nothing /\ outdated'
  BY DEF SaveFile, UpdateResource
<1>4. TypeOK'
  <2>1. outdated' \in BOOLEAN
    BY DEF SaveFile, FilesIInv, TypeOK
  <2>2. resource' \in Resources /\ (resource'.type = "UPLOAD" => resource'.key \in Files)
    BY <1>2, <1>3 DEF Resources, Upload, Nothing
  <2> QED BY <1>1, <1>3, <2>1, <2>2 DEF SaveFile, FilesIInv, TypeOK, Nothing
<1>5. Labelled' /\ CreateFirst'
  <2>1. resource.type = "none" => resource'.type = "none"
    BY <1>3 DEF Nothing
  <2> QED
    BY <1>1, <2>1 DEF SaveFile, FilesIInv, Labelled, CreateFirst, Creating, Others, At, Idle, Nothing
<1>6. KeysUploaded' /\ KeysOwn' /\ Cleaned'
  <2>1. resource'.key \in {resource.key, req[r].key, NoFile}
    BY <1>3 DEF Upload, Nothing
  <2> QED BY <1>1, <2>1, EndingKeepsKeys DEF SaveFile
<1>7. FileBehindRow' /\ NoFileLeaks' /\ AddressFits'
  <2>1. CASE resource' = Upload(req[r].key)
    <3>1. ~outdated' /\ resource.type = "UPLOAD" => resource.key \notin store \/ faults # 0
      BY DEF SaveFile, SameFile, FilesIInv, Cleaned, Deleted
    <3>2. outdated' = outdated \/ outdated' = TRUE
      BY DEF SaveFile, FilesIInv, TypeOK
    <3> QED BY <1>1, <1>2, <2>1, <3>1, <3>2, OverwriteKeeps DEF SaveFile
  <2>2. CASE resource' = Nothing /\ outdated'
    BY <2>2 DEF FileBehindRow, NoFileLeaks, AddressFits, Nothing
  <2> QED BY <1>3, <2>1, <2>2
<1> QED BY <1>4, <1>5, <1>6, <1>7 DEF FilesIInv

LEMMA SaveLinkKeeps ==
  ASSUME FilesIInv, NEW r \in Requests, SaveLink(r)
  PROVE  FilesIInv'
<1>1. /\ req'[r] = Idle /\ Others(r)
      /\ req' \in [Requests -> [pc : Labels, was : Resources, key : Files \union {NoFile}]]
  BY DoneStep DEF SaveLink, FilesIInv
<1>2. req[r].key = NoFile
  BY DEF SaveLink, FilesIInv, Labelled, At
<1>3. \/ resource.type # "none" /\ resource' = Link(resource.key)
      \/ resource.type = "none" /\ resource' = Nothing
  BY DEF SaveLink, UpdateResource
<1>4. TypeOK'
  <2>1. linked' \in SUBSET Files
    BY DEF SaveLink, FilesIInv, TypeOK
  <2>2. resource' \in Resources /\ resource'.type # "UPLOAD"
    BY <1>3 DEF FilesIInv, TypeOK, Resources, Link, Nothing
  <2> QED BY <1>1, <1>3, <2>1, <2>2 DEF SaveLink, FilesIInv, TypeOK, Nothing
<1>5. Labelled' /\ CreateFirst'
  <2>1. resource.type = "none" => resource'.type = "none"
    BY <1>3 DEF Nothing
  <2> QED
    BY <1>1, <2>1 DEF SaveLink, FilesIInv, Labelled, CreateFirst, Creating, Others, At, Idle, Nothing
<1>6. KeysUploaded' /\ KeysOwn' /\ Cleaned'
  <2>1. resource'.key \in {resource.key, req[r].key, NoFile}
    BY <1>3 DEF Link, Nothing
  <2> QED BY <1>1, <2>1, EndingKeepsKeys DEF SaveLink
<1>7. FileBehindRow' /\ AddressFits'
  BY <1>3 DEF FileBehindRow, AddressFits, Link, Nothing
<1>8. NoFileLeaks'
  <2>1. Owned \ linked' \subseteq Owned'
    BY <1>1, <1>2, FilesAssumption DEF SaveLink, Owned, Others
  <2>2. linked \subseteq linked'
    BY DEF SaveLink
  <2> QED BY <2>1, <2>2 DEF SaveLink, FilesIInv, NoFileLeaks
<1> QED BY <1>4, <1>5, <1>6, <1>7, <1>8 DEF FilesIInv

LEMMA RemoveRowKeeps ==
  ASSUME FilesIInv, NEW r \in Requests, RemoveRow(r)
  PROVE  FilesIInv'
<1>1. /\ req'[r] = Idle /\ Others(r)
      /\ req' \in [Requests -> [pc : Labels, was : Resources, key : Files \union {NoFile}]]
  BY DoneStep DEF RemoveRow, FilesIInv
<1>2. req[r].key = NoFile
  BY DEF RemoveRow, FilesIInv, Labelled, At
<1>3. TypeOK'
  <2>1. outdated' \in BOOLEAN
    BY DEF RemoveRow, FilesIInv, TypeOK
  <2>2. Nothing \in Resources
    BY DEF Nothing, Resources
  <2> QED BY <1>1, <2>1, <2>2 DEF RemoveRow, FilesIInv, TypeOK, Nothing
<1>4. Labelled' /\ CreateFirst'
  BY <1>1 DEF RemoveRow, FilesIInv, Labelled, CreateFirst, Creating, Others, At, Idle, Nothing
<1>5. KeysUploaded' /\ KeysOwn' /\ Cleaned'
  <2>1. resource'.key \in {resource.key, req[r].key, NoFile}
    BY DEF RemoveRow, Nothing
  <2> QED BY <1>1, <2>1, EndingKeepsKeys DEF RemoveRow
<1>6. FileBehindRow' /\ AddressFits'
  BY DEF RemoveRow, FileBehindRow, AddressFits, Nothing
<1>7. NoFileLeaks'
  <2> SUFFICES ASSUME faults' = 0, ~outdated', NEW k \in Files, k \in store', k \notin linked'
               PROVE  k \in Owned'
    BY DEF NoFileLeaks, RemoveRow, FilesIInv, TypeOK
  <2>1. k \in Owned /\ k \in store
    BY DEF RemoveRow, FilesIInv, NoFileLeaks
  <2>2. ~(resource.type = "UPLOAD" /\ resource.key = k)
    BY <2>1 DEF RemoveRow, SameFile, FilesIInv, Cleaned, Deleted
  <2> QED BY <1>1, <1>2, <2>1, <2>2, FilesAssumption DEF Owned, Others
<1> QED BY <1>3, <1>4, <1>5, <1>6, <1>7 DEF FilesIInv

LEMMA SaveSignedUrlKeeps ==
  ASSUME FilesIInv, NEW r \in Requests, SaveSignedUrl(r)
  PROVE  FilesIInv'
<1>1. /\ req'[r] = Idle /\ Others(r)
      /\ req' \in [Requests -> [pc : Labels, was : Resources, key : Files \union {NoFile}]]
  BY DoneStep DEF SaveSignedUrl, FilesIInv
<1>2. /\ req[r].key = NoFile
      /\ req[r].was.type = "UPLOAD" /\ req[r].was.key \in Files
  BY DEF SaveSignedUrl, FilesIInv, Labelled, At
<1>3. \/ /\ resource.type # "none"
         /\ resource' \in Resources
         /\ resource'.type = resource.type /\ resource'.key = resource.key
         /\ resource'.address = req[r].was.key
      \/ resource.type = "none" /\ resource' = Nothing
  BY <1>2 DEF SaveSignedUrl, UpdateResource, FilesIInv, TypeOK, Resources
<1>4. TypeOK'
  <2>1. outdated' \in BOOLEAN
    BY DEF SaveSignedUrl, FilesIInv, TypeOK
  <2>2. Nothing \in Resources
    BY DEF Nothing, Resources
  <2> QED BY <1>1, <1>3, <2>1, <2>2 DEF SaveSignedUrl, FilesIInv, TypeOK, Nothing
<1>5. Labelled' /\ CreateFirst'
  <2>1. resource.type = "none" => resource'.type = "none"
    BY <1>3 DEF Nothing
  <2> QED
    BY <1>1, <2>1 DEF SaveSignedUrl, FilesIInv, Labelled, CreateFirst, Creating, Others, At, Idle, Nothing
<1>6. KeysUploaded' /\ KeysOwn' /\ Cleaned'
  <2>1. resource'.key \in {resource.key, req[r].key, NoFile}
    BY <1>3 DEF Nothing
  <2> QED BY <1>1, <2>1, EndingKeepsKeys DEF SaveSignedUrl
<1>7. FileBehindRow'
  <2>1. ~Deleted(r)
    BY DEF SaveSignedUrl, Deleted, At
  <2> QED BY <1>1, <1>3, <2>1 DEF SaveSignedUrl, FilesIInv, FileBehindRow, Deleted, At, Others, Nothing
<1>8. NoFileLeaks'
  <2>1. Owned \subseteq Owned'
    BY <1>1, <1>2, <1>3, FilesAssumption DEF Owned, Others
  <2> QED BY <2>1 DEF SaveSignedUrl, FilesIInv, NoFileLeaks
<1>9. AddressFits'
  BY <1>2, <1>3 DEF SaveSignedUrl, SameFile, AddressFits, Nothing
<1> QED BY <1>4, <1>5, <1>6, <1>7, <1>8, <1>9 DEF FilesIInv

LEMMA AbortKeeps ==
  ASSUME FilesIInv, NEW r \in Requests, Abort(r)
  PROVE  FilesIInv'
<1>1. /\ req'[r] = Idle /\ Others(r)
      /\ req' \in [Requests -> [pc : Labels, was : Resources, key : Files \union {NoFile}]]
  BY DoneStep DEF Abort, FilesIInv
<1>2. TypeOK'
  <2>1. crippled' \in SUBSET Files
    BY DEF Abort, FilesIInv, TypeOK, Labelled, Deleted
  <2> QED BY <1>1, <2>1, FilesAssumption DEF Abort, FilesIInv, TypeOK
<1>3. Labelled' /\ CreateFirst'
  BY <1>1 DEF Abort, FilesIInv, Labelled, CreateFirst, Creating, Others, At, Idle, Nothing
<1>4. KeysUploaded' /\ KeysOwn' /\ Cleaned'
  BY <1>1, EndingKeepsKeys DEF Abort
<1>5. FileBehindRow'
  BY <1>1 DEF Abort, FilesIInv, FileBehindRow, Deleted, At, Others
<1>6. NoFileLeaks' /\ AddressFits'
  BY DEF Abort, FilesIInv, TypeOK, NoFileLeaks, AddressFits
<1> QED BY <1>2, <1>3, <1>4, <1>5, <1>6 DEF FilesIInv

-----------------------------------------------------------------------------

LEMMA FilesInvStep == FilesIInv /\ [Next]_vars => FilesIInv'
<1> SUFFICES ASSUME FilesIInv, [Next]_vars PROVE FilesIInv'
  OBVIOUS
<1>1. ASSUME NEW r \in Requests, CreateMaterial(r) \/ CreateFile(r) \/ CreateResource(r)
      PROVE  FilesIInv'
  BY <1>1, CreateMaterialKeeps, CreateFileKeeps, CreateResourceKeeps
<1>2. ASSUME NEW r \in Requests,
             \/ BeginUpdate(r) \/ ReadResource(r) \/ UploadNew(r) \/ DeleteOld(r)
             \/ SaveFile(r) \/ SaveLink(r)
      PROVE  FilesIInv'
  BY <1>2, BeginUpdateKeeps, ReadResourceKeeps, UploadNewKeeps, DeleteOldKeeps, SaveFileKeeps,
     SaveLinkKeeps
<1>3. ASSUME NEW r \in Requests, BeginRemove(r) \/ RemoveFile(r) \/ RemoveRow(r)
      PROVE  FilesIInv'
  BY <1>3, BeginRemoveKeeps, RemoveFileKeeps, RemoveRowKeeps
<1>4. ASSUME NEW r \in Requests, BeginView(r) \/ SaveSignedUrl(r)
      PROVE  FilesIInv'
  BY <1>4, BeginViewKeeps, SaveSignedUrlKeeps
<1>5. ASSUME NEW r \in Requests, Abort(r)
      PROVE  FilesIInv'
  BY <1>5, AbortKeeps
<1>6. CASE UNCHANGED vars
  BY <1>6 DEF vars, history, FilesIInv, TypeOK, Labelled, CreateFirst, Creating, KeysUploaded, KeysOwn,
     Cleaned, FileBehindRow, NoFileLeaks, AddressFits, Owned, Deleted, At
<1> QED BY <1>1, <1>2, <1>3, <1>4, <1>5, <1>6 DEF Next

\* The strengthening is an invariant: what update, remove, create and getMaterial
\* know of keys never names a file of somebody else's upload under way.
THEOREM FilesInvariance == Spec => []FilesIInv
<1> QED BY FilesInvInit, FilesInvStep, PTL DEF Spec

\* Every reachable state is well typed: a resource row never outlives its
\* material, and an upload always names a file.
THEOREM FilesTypeCorrect == Spec => []TypeOK
<1>1. FilesIInv => TypeOK
  BY DEF FilesIInv
<1> QED BY <1>1, FilesInvariance, PTL

\* However updates, removals, views and failures interleave, an uploaded
\* resource without its file is one whose own deleter has not written the row:
\* a stale deletion never hits a newer file.
THEOREM FileBehindRowHolds == Spec => []FileBehindRow
<1>1. FilesIInv => FileBehindRow
  BY DEF FilesIInv
<1> QED BY <1>1, FilesInvariance, PTL

\* Files leak only through links, failures and writes that do not meet what
\* their request read.
THEOREM NoFileLeaksHolds == Spec => []NoFileLeaks
<1>1. FilesIInv => NoFileLeaks
  BY DEF FilesIInv
<1> QED BY <1>1, FilesInvariance, PTL

\* Addresses go wrong only through such writes.
THEOREM AddressFitsHolds == Spec => []AddressFits
<1>1. FilesIInv => AddressFits
  BY DEF FilesIInv
<1> QED BY <1>1, FilesInvariance, PTL

-----------------------------------------------------------------------------
(*****************************************************************************)
(* Folders in folders.                                                       *)
(*****************************************************************************)

(***************************************************************************)
(* What the walk knows: the folders it has left behind have no nested      *)
(* folder it has not seen.  It stops knowing it when a pair is stored      *)
(* behind its back, which is what overlap records.                         *)
(***************************************************************************)
WalkClosed ==
  \A r \in NestRequests : nestReq[r].pc = "walk" =>
    \A f \in ({nestReq[r].child} \union nestReq[r].seen) \ nestReq[r].todo :
      Children(f) \subseteq nestReq[r].seen

NoSelf == \A r \in NestRequests : nestReq[r].pc = "walk" => nestReq[r].parent # nestReq[r].child

NestIInv ==
  /\ NestTypeOK
  /\ ~SelfNesting => NoSelf
  /\ ~overlap => WalkClosed
  /\ NoCycleWithoutOverlap

-----------------------------------------------------------------------------

\* Taking pairs away makes no cycle: removals and unnesting are harmless.
LEMMA FewerPairs ==
  ASSUME NoCircularNesting, nested' \subseteq nested
  PROVE  NoCircularNesting'
<1>1. SUFFICES ASSUME NEW S \in SUBSET Folders, S # {}
               PROVE  \E f \in S : Children(f)' \intersect S = {}
  BY DEF NoCircularNesting
<1>2. PICK f \in S : Children(f) \intersect S = {}
  BY <1>1 DEF NoCircularNesting
<1>3. Children(f)' \subseteq Children(f)
  BY DEF Children
<1> QED BY <1>2, <1>3

\* The heart of the check: a pair may be added below a parent that is not
\* among the folders reachable from the child, given any set that holds the
\* child and is closed under nesting.  A set in which every folder has a
\* nested one would, cut down to the closed set, be one without the new pair.
LEMMA NewPair ==
  ASSUME NoCircularNesting,
         NEW p \in Folders, NEW c \in Folders, NEW C \in SUBSET Folders,
         c \in C, p \notin C,
         \A f \in C : Children(f) \subseteq C,
         nested' = nested \union {<<p, c>>}
  PROVE  NoCircularNesting'
<1>1. SUFFICES ASSUME NEW S \in SUBSET Folders, S # {},
                      \A f \in S : Children(f)' \intersect S # {}
               PROVE  FALSE
  BY DEF NoCircularNesting
<1>2. \A f \in Folders : f # p => Children(f)' = Children(f)
  BY DEF Children
<1>3. Children(p)' = Children(p) \union {c}
  BY DEF Children
<1>4. c \in S
  <2>1. PICK f \in S : Children(f) \intersect S = {}
    BY <1>1 DEF NoCircularNesting
  <2>2. Children(f)' \intersect S # {}
    BY <1>1
  <2> QED BY <1>2, <1>3, <2>1, <2>2
<1> DEFINE T == S \intersect C
<1>5. T \in SUBSET Folders /\ T # {}
  BY <1>4
<1>6. PICK f \in T : Children(f) \intersect T = {}
  BY <1>5 DEF NoCircularNesting
<1>7. Children(f) \intersect S # {}
  BY <1>1, <1>2, <1>6
<1> QED BY <1>6, <1>7

-----------------------------------------------------------------------------

LEMMA NestTypeInit == NestInit => NestTypeOK
<1> SUFFICES ASSUME NestInit PROVE NestTypeOK
  OBVIOUS
<1>1. NestIdle \in NestRequest /\ NestIdle.pc = "idle"
  BY DEF NestRequest, NestIdle
<1>2. nestReq \in [NestRequests -> NestRequest]
  BY <1>1 DEF NestInit
<1>3. \A r \in NestRequests : nestReq[r].pc # "walk"
  BY <1>1 DEF NestInit
<1> HIDE DEF NestIdle
<1> QED BY <1>2, <1>3 DEF NestInit, NestTypeOK

\* The walk's request record after a visit.
LEMMA NestTypeStep == NestTypeOK /\ [NestNext]_nestVars => NestTypeOK'
<1> SUFFICES ASSUME NestTypeOK, [NestNext]_nestVars PROVE NestTypeOK'
  OBVIOUS
<1> USE DEF NestTypeOK
<1>1. ASSUME NEW f \in Folders, Create(f) PROVE NestTypeOK'
  BY <1>1 DEF Create
<1>2. ASSUME NEW f \in Folders, Remove(f) PROVE NestTypeOK'
  BY <1>2 DEF Remove, Kept
<1>3. ASSUME NEW p \in Folders, NEW c \in Folders, Unnest(p, c) PROVE NestTypeOK'
  BY <1>3 DEF Unnest
<1>4. ASSUME NEW r \in NestRequests, NEW p \in Folders, NEW c \in Folders, Nest(r, p, c)
      PROVE  NestTypeOK'
  <2>1. [pc |-> "walk", parent |-> p, child |-> c, todo |-> {c}, seen |-> {}] \in NestRequest
    BY DEF NestRequest
  <2> QED BY <1>4, <2>1 DEF Nest
<1>5. ASSUME NEW r \in NestRequests, NEW f \in Folders, Visit(r, f) PROVE NestTypeOK'
  <2>1. Children(f) \in SUBSET Folders
    BY DEF Children
  <2>2. nestReq[r] \in NestRequest
    OBVIOUS
  <2>3. nestReq' \in [NestRequests -> NestRequest]
    BY <1>5, <2>1, <2>2 DEF Visit, NestRequest
  <2>4. \A s \in NestRequests : /\ nestReq'[s].pc = nestReq[s].pc
                            /\ nestReq'[s].parent = nestReq[s].parent
                            /\ nestReq'[s].child = nestReq[s].child
    BY <1>5, <2>2 DEF Visit, NestRequest
  <2> QED BY <1>5, <2>3, <2>4 DEF Visit
<1>6. ASSUME NEW r \in NestRequests, Store(r) PROVE NestTypeOK'
  <2>1. NestIdle \in NestRequest
    BY DEF NestRequest, NestIdle
  <2>2. nestReq' \in [NestRequests -> NestRequest]
    BY <1>6, <2>1 DEF Store
  <2>3. \A s \in NestRequests : nestReq'[s].pc = "walk" =>
          nestReq'[s].parent \in Folders /\ nestReq'[s].child \in Folders
    BY <1>6 DEF Store, NestIdle
  <2>4. nested' \in SUBSET {pair \in Folders \X Folders :
                              folder[pair[1]] = "there" /\ folder[pair[2]] = "there"}
    BY <1>6 DEF Store
  <2>5. overlap' \in BOOLEAN
    BY <1>6 DEF Store
  <2> QED BY <1>6, <2>2, <2>3, <2>4, <2>5 DEF Store
<1>7. ASSUME NEW r \in NestRequests, NestAbort(r) PROVE NestTypeOK'
  <2>1. NestIdle \in NestRequest
    BY DEF NestRequest, NestIdle
  <2> QED BY <1>7, <2>1 DEF NestAbort, NestIdle
<1>8. CASE UNCHANGED nestVars
  BY <1>8 DEF nestVars
<1> QED BY <1>1, <1>2, <1>3, <1>4, <1>5, <1>6, <1>7, <1>8 DEF NestNext, Step

\* Every reachable state is well typed, and both ends of a pair are folders
\* that are there.
THEOREM NestTypeCorrect == NestSpec => []NestTypeOK
<1>1. NestInit => NestTypeOK BY NestTypeInit
<1>2. NestTypeOK /\ [NestNext]_nestVars => NestTypeOK' BY NestTypeStep
<1> QED BY <1>1, <1>2, PTL DEF NestSpec

-----------------------------------------------------------------------------

LEMMA NestInvInit == NestInit => NestIInv
<1> SUFFICES ASSUME NestInit PROVE NestIInv
  OBVIOUS
<1>1. NestTypeOK BY NestTypeInit
<1>2. NoSelf /\ WalkClosed
  BY DEF NestInit, NoSelf, WalkClosed, NestIdle
<1>3. NoCircularNesting
  BY DEF NestInit, NoCircularNesting, Children
<1> QED BY <1>1, <1>2, <1>3 DEF NestIInv, NoCycleWithoutOverlap

\* A step that touches no request and adds no pair keeps the invariant.
LEMMA HarmlessStep ==
  ASSUME NestIInv, NestTypeOK', nestReq' = nestReq, overlap' = overlap, nested' \subseteq nested
  PROVE  NestIInv'
<1>1. \A f : Children(f)' \subseteq Children(f)
  BY DEF Children
<1>2. (~SelfNesting => NoSelf)'
  BY DEF NestIInv, NoSelf
<1>3. (~overlap => WalkClosed)'
  BY <1>1 DEF NestIInv, WalkClosed
<1>4. NoCycleWithoutOverlap'
  BY FewerPairs DEF NestIInv, NoCycleWithoutOverlap
<1> QED BY <1>2, <1>3, <1>4 DEF NestIInv

LEMMA NestInvStep == NestIInv /\ [NestNext]_nestVars => NestIInv'
<1> SUFFICES ASSUME NestIInv, [NestNext]_nestVars PROVE NestIInv'
  OBVIOUS
<1>T. NestTypeOK /\ NestTypeOK'
  BY NestTypeStep DEF NestIInv
<1>1. ASSUME NEW f \in Folders, Create(f) PROVE NestIInv'
  BY <1>1, <1>T, HarmlessStep DEF Create
<1>2. ASSUME NEW f \in Folders, Remove(f) PROVE NestIInv'
  BY <1>2, <1>T, HarmlessStep DEF Remove, Kept
<1>3. ASSUME NEW p \in Folders, NEW c \in Folders, Unnest(p, c) PROVE NestIInv'
  BY <1>3, <1>T, HarmlessStep DEF Unnest
<1>4. ASSUME NEW r \in NestRequests, NEW p \in Folders, NEW c \in Folders, Nest(r, p, c)
      PROVE  NestIInv'
  <2>1. \A f : Children(f)' = Children(f)
    BY <1>4 DEF Nest, Children
  <2>2. (~SelfNesting => NoSelf)'
    BY <1>4, <1>T DEF Nest, NoSelf, NestIInv, NestTypeOK
  <2>3. (~overlap => WalkClosed)'
    BY <1>4, <1>T, <2>1 DEF Nest, WalkClosed, NestIInv, NestTypeOK
  <2>4. NoCycleWithoutOverlap'
    BY <1>4, <2>1 DEF Nest, NestIInv, NoCycleWithoutOverlap, NoCircularNesting
  <2> QED BY <1>T, <2>2, <2>3, <2>4 DEF NestIInv
<1>5. ASSUME NEW r \in NestRequests, NEW f \in Folders, Visit(r, f) PROVE NestIInv'
  <2>1. \A g : Children(g)' = Children(g)
    BY <1>5 DEF Visit, Children
  <2>2. /\ nestReq'[r].todo = (nestReq[r].todo \ {f}) \union Children(f)
        /\ nestReq'[r].seen = nestReq[r].seen \union Children(f)
        /\ nestReq'[r].child = nestReq[r].child /\ nestReq'[r].parent = nestReq[r].parent
        /\ nestReq'[r].pc = nestReq[r].pc /\ nestReq[r].pc = "walk"
        /\ \A s \in NestRequests \ {r} : nestReq'[s] = nestReq[s]
    BY <1>5, <1>T DEF Visit, NestTypeOK, NestRequest
  <2>3. (~SelfNesting => NoSelf)'
    BY <2>2 DEF NoSelf, NestIInv
  <2>4. ASSUME ~overlap PROVE WalkClosed'
    <3>1. SUFFICES ASSUME NEW s \in NestRequests, nestReq'[s].pc = "walk",
                          NEW g \in ({nestReq'[s].child} \union nestReq'[s].seen) \ nestReq'[s].todo
                   PROVE  Children(g) \subseteq nestReq'[s].seen
      BY <2>1 DEF WalkClosed
    <3>2. CASE s # r
      BY <3>1, <3>2, <2>2, <2>4 DEF WalkClosed, NestIInv
    <3>3. CASE s = r /\ g = f
      BY <3>3, <2>2
    <3>4. CASE s = r /\ g # f
      <4>1. g \in ({nestReq[r].child} \union nestReq[r].seen) \ nestReq[r].todo
        BY <3>1, <3>4, <2>2
      <4> QED BY <3>4, <4>1, <2>2, <2>4 DEF WalkClosed, NestIInv
    <3> QED BY <3>2, <3>3, <3>4
  <2>5. NoCycleWithoutOverlap'
    BY <1>5, <2>1 DEF Visit, NestIInv, NoCycleWithoutOverlap, NoCircularNesting
  <2> QED BY <1>5, <1>T, <2>3, <2>4, <2>5 DEF NestIInv, Visit
<1>6. ASSUME NEW r \in NestRequests, Store(r) PROVE NestIInv'
  <2>1. nestReq'[r].pc = "idle" /\ \A s \in NestRequests \ {r} : nestReq'[s] = nestReq[s]
    BY <1>6, <1>T DEF Store, NestTypeOK, NestIdle
  <2>2. (~SelfNesting => NoSelf)'
    BY <2>1 DEF NoSelf, NestIInv
  <2>3. CASE nested' = nested /\ overlap' = overlap
    <3>1. \A g : Children(g)' = Children(g)
      BY <2>3 DEF Children
    <3>2. (~overlap => WalkClosed)'
      BY <2>1, <2>3, <3>1 DEF WalkClosed, NestIInv
    <3>3. NoCycleWithoutOverlap'
      BY <2>3, <3>1 DEF NestIInv, NoCycleWithoutOverlap, NoCircularNesting
    <3> QED BY <1>T, <2>2, <3>2, <3>3 DEF NestIInv
  <2>4. CASE /\ nested' = nested \union {<<nestReq[r].parent, nestReq[r].child>>}
             /\ overlap' = (overlap \/ \E s \in NestRequests \ {r} : nestReq[s].pc = "walk")
             /\ ~Circular(r)
    <3>1. ASSUME ~overlap' PROVE WalkClosed'
      BY <2>1, <2>4, <3>1 DEF WalkClosed
    <3>2. ASSUME ~SelfNesting, ~overlap' PROVE NoCircularNesting'
      <4> DEFINE C == {nestReq[r].child} \union nestReq[r].seen
      <4>1. /\ nestReq[r].pc = "walk" /\ nestReq[r].todo = {} /\ ~overlap
            /\ nestReq[r].parent \in Folders /\ nestReq[r].child \in Folders
            /\ nestReq[r].seen \in SUBSET Folders
        BY <1>6, <1>T, <2>4, <3>2 DEF Store, NestTypeOK, NestRequest
      <4>2. nestReq[r].parent \notin C
        BY <2>4, <3>2, <4>1 DEF Circular, NestIInv, NoSelf
      <4>3. \A f \in C : Children(f) \subseteq C
        BY <4>1 DEF NestIInv, WalkClosed
      <4>4. NoCircularNesting
        BY <3>2, <4>1 DEF NestIInv, NoCycleWithoutOverlap
      <4>5. C \in SUBSET Folders /\ nestReq[r].child \in C
        BY <4>1
      <4> HIDE DEF C
      <4> QED BY <2>4, <4>1, <4>2, <4>3, <4>4, <4>5, NewPair
    <3> QED BY <1>T, <2>2, <3>1, <3>2 DEF NestIInv, NoCycleWithoutOverlap
  <2> QED BY <1>6, <2>3, <2>4 DEF Store
<1>7. ASSUME NEW r \in NestRequests, NestAbort(r) PROVE NestIInv'
  <2>1. nestReq'[r].pc = "idle" /\ \A s \in NestRequests \ {r} : nestReq'[s] = nestReq[s]
    BY <1>7, <1>T DEF NestAbort, NestTypeOK, NestIdle
  <2>2. \A g : Children(g)' = Children(g)
    BY <1>7 DEF NestAbort, Children
  <2>3. (~SelfNesting => NoSelf)'
    BY <2>1 DEF NoSelf, NestIInv
  <2>4. (~overlap => WalkClosed)'
    BY <1>7, <2>1, <2>2 DEF WalkClosed, NestIInv, NestAbort
  <2>5. NoCycleWithoutOverlap'
    BY <1>7, <2>2 DEF NestAbort, NestIInv, NoCycleWithoutOverlap, NoCircularNesting
  <2> QED BY <1>T, <2>3, <2>4, <2>5 DEF NestIInv
<1>8. CASE UNCHANGED nestVars
  BY <1>8, <1>T, HarmlessStep DEF nestVars
<1> QED BY <1>1, <1>2, <1>3, <1>4, <1>5, <1>6, <1>7, <1>8 DEF NestNext, Step

\* However many nesting requests there are and whatever else is removed or
\* taken out meanwhile, the check keeps the folders free of cycles as long as
\* no pair is stored during another request's walk and no folder is asked to
\* hold itself.
THEOREM NoCycleWithoutOverlapHolds == NestSpec => []NoCycleWithoutOverlap
<1>1. NestInit => NestIInv BY NestInvInit
<1>2. NestIInv /\ [NestNext]_nestVars => NestIInv' BY NestInvStep
<1>3. NestIInv => NoCycleWithoutOverlap BY DEF NestIInv
<1> QED BY <1>1, <1>2, <1>3, PTL DEF NestSpec

=============================================================================
