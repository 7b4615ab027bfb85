------------------------------- MODULE Media -------------------------------
(***************************************************************************)
(* The picture of a club, an advert, a blog or a profile: the file in      *)
(* storage, its key in the owner's row, and the link in that row, signed   *)
(* for ExpiryDays and signed again when the row has not been written for   *)
(* longer than that.  The four services differ in where they upload to,    *)
(* where they delete from, and in which order they do it.                  *)
(***************************************************************************)
EXTENDS Integers

CONSTANTS
  Pictures,        \* uploaded files
  NoPicture,
  MediaRequests,   \* requests that may be in flight at once
  MaxPeriods,      \* bound: how many times ExpiryDays pass
  MaxMediaFaults   \* bound: requests cut short

ASSUME MediaAssumption ==
  /\ NoPicture \notin Pictures
  /\ MaxPeriods \in Nat /\ MaxMediaFaults \in Nat

VARIABLES
  owner,     \* what the picture is of
  mediaRow,  \* the owner's row
  stored,    \* <<file, place>>
  used,      \* files uploaded so far
  period,    \* time, in units of ExpiryDays
  media,     \* the requests in flight
  halfReplaced,  \* history: files whose request was cut short between their deletion and
             \* the write of another key
  outrun,    \* history: files whose link was renewed after the row had got another one
  mediaFaults

mediaVars == <<owner, mediaRow, stored, used, period, media, halfReplaced, outrun, mediaFaults>>

Owners == {"club", "advert", "blog", "profile"}
\* Two buckets of the default provider, and another provider.
Places == {"private", "public", "cloudinary"}
Or1(S) == S \union {NoPicture}
LinkTo == [file : Or1(Pictures), place : Places, signed : 0 .. MaxPeriods]
NoLink == [file |-> NoPicture, place |-> "public", signed |-> 0]

Row == [at : {"unborn", "there", "gone"}, key : Or1(Pictures), link : LinkTo, updated : 0 .. MaxPeriods]

MediaRequest ==
  [at : {"idle", "upload", "insert", "read", "refresh", "delete", "write", "served", "drop", "remove"},
   for : {"create", "serve", "flags", "update", "remove"},
   new : Or1(Pictures),    \* the file it uploaded
   key : Or1(Pictures),    \* of the row it read
   link : LinkTo,            \* of the row it read, or signed since
   good : BOOLEAN]         \* history: the link was good when it was read or signed
MediaIdle == [at |-> "idle", for |-> "serve", new |-> NoPicture, key |-> NoPicture,
              link |-> NoLink, good |-> TRUE]

MediaTypeOK ==
  /\ owner \in Owners
  /\ mediaRow \in Row
  /\ stored \in SUBSET (used \X Places)
  /\ used \in SUBSET Pictures
  /\ period \in 0 .. MaxPeriods
  /\ media \in [MediaRequests -> MediaRequest]
  /\ \A r \in MediaRequests : media[r].new \in Or1(used)
  /\ halfReplaced \in SUBSET Pictures /\ outrun \in SUBSET Pictures
  /\ mediaFaults \in 0 .. MaxMediaFaults

MediaInit ==
  /\ owner \in Owners
  /\ mediaRow = [at |-> IF owner = "profile" THEN "there" ELSE "unborn",
                  key |-> NoPicture, link |-> NoLink, updated |-> 0]
  /\ stored = {} /\ used = {}
  /\ period = 0
  /\ media = [r \in MediaRequests |-> MediaIdle]
  /\ halfReplaced = {} /\ outrun = {}
  /\ mediaFaults = 0

-----------------------------------------------------------------------------
(* Where the services put, sign and delete *)

UploadPlace == IF owner = "club" THEN "private" ELSE "cloudinary"

\* Without a provider the default one is asked.
SignPlace(purpose) ==
  CASE owner = "club" -> "private"
    [] owner \in {"advert", "profile"} /\ purpose \in {"create", "update"} -> "cloudinary"
    [] owner = "blog" /\ purpose = "create" -> "cloudinary"
    [] OTHER -> "public"

DeletePlace(purpose) == IF owner = "club" /\ purpose = "update" THEN "private" ELSE "public"

\* What is stored once file was deleted there.  The key cut out of a profile
\* picture's URL is not the one it was uploaded under.
DeletePictureFile(file, place) ==
  IF owner = "profile" THEN stored ELSE stored \ {<<file, place>>}

MediaSet(r, m) == media' = [media EXCEPT ![r] = m]
MediaEnd(r) == MediaSet(r, MediaIdle)
Sign(file, purpose) == [file |-> file, place |-> SignPlace(purpose), signed |-> period]

\* r has deleted the file whose key it read, and is to write another key.
PictureDeleted(r) == media[r].at = "write" \/ (owner = "blog" /\ media[r].at = "upload")

-----------------------------------------------------------------------------
(* Upload, and creation *)

\* An advert must have a picture; a profile gets one by an update.
BeginCreation(r, with) ==
  /\ with \/ owner # "advert"
  /\ media[r] = MediaIdle
  /\ mediaRow.at = "unborn"
  /\ \A s \in MediaRequests : media[s] = MediaIdle
  /\ MediaSet(r, [MediaIdle EXCEPT !.at = IF with THEN "upload" ELSE "insert", !.for = "create"])
  /\ UNCHANGED <<owner, mediaRow, stored, used, period, halfReplaced, outrun, mediaFaults>>

\* Clubs, adverts and profiles upload before they delete, blogs after.
UploadPicture(r) ==
  /\ media[r].at = "upload"
  /\ \E f \in Pictures \ used :
       /\ used' = used \union {f}
       /\ stored' = stored \union {<<f, UploadPlace>>}
       /\ MediaSet(r, [media[r] EXCEPT
            !.new = f, !.link = Sign(f, media[r].for),
            !.at = IF media[r].for = "create" THEN "insert"
                   ELSE IF owner \in {"club", "advert"} THEN "delete" ELSE "write"])
  /\ UNCHANGED <<owner, mediaRow, period, halfReplaced, outrun, mediaFaults>>

\* The key of a blog's image is a variable of an inner block: the row gets none.
InsertRow(r) ==
  /\ media[r].at = "insert"
  /\ mediaRow' = [at |-> "there", key |-> IF owner = "blog" THEN NoPicture ELSE media[r].new,
                  link |-> media[r].link, updated |-> period]
  /\ MediaEnd(r)
  /\ UNCHANGED <<owner, stored, used, period, halfReplaced, outrun, mediaFaults>>

-----------------------------------------------------------------------------
(* Reading: the link is signed again when the row is old enough *)

Expired(when) == when + 1 < period

\* The list of the flags against clubs shows the clubs with the links they have.
ReadRow(r, purpose) ==
  /\ mediaRow.at = "there"
  /\ media[r] = MediaIdle
  /\ owner = "profile" => purpose = "update"
  /\ purpose = "flags" => owner = "club"
  /\ LET renews == Expired(mediaRow.updated) /\ mediaRow.key # NoPicture /\ purpose # "flags"
                     /\ (owner \in {"club", "advert"} \/ (owner = "blog" /\ purpose = "serve"))
     IN MediaSet(r, [at |-> IF renews THEN "refresh" ELSE "read", for |-> purpose,
                     new |-> NoPicture, key |-> mediaRow.key, link |-> mediaRow.link,
                     good |-> ~Expired(mediaRow.link.signed)])
  /\ UNCHANGED <<owner, mediaRow, stored, used, period, halfReplaced, outrun, mediaFaults>>

\* Files whose link r writes although the row has another key by now.
OutrunBy(r) == IF mediaRow.at = "there" /\ mediaRow.key # media[r].key THEN {media[r].key} ELSE {}

\* Mutant: the key that was read is written with the link.
RefreshLinkAndKey(r) ==
  /\ media[r].at = "refresh"
  /\ LET link == Sign(media[r].key, "serve")
     IN /\ mediaRow' = IF mediaRow.at = "there"
                       THEN [mediaRow EXCEPT !.key = media[r].key, !.link = link, !.updated = period]
                       ELSE mediaRow
        /\ MediaSet(r, [media[r] EXCEPT !.at = "read", !.link = link, !.good = TRUE])
  /\ outrun' = outrun \union OutrunBy(r)
  /\ UNCHANGED <<owner, stored, used, period, halfReplaced, mediaFaults>>

\* The link that is written is of the key that was read.
RefreshLink(r) ==
  /\ media[r].at = "refresh"
  /\ LET link == Sign(media[r].key, "serve")
     IN /\ mediaRow' = IF mediaRow.at = "there"
                       THEN [mediaRow EXCEPT !.link = link, !.updated = period] ELSE mediaRow
        /\ MediaSet(r, [media[r] EXCEPT !.at = "read", !.link = link, !.good = TRUE])
  /\ outrun' = outrun \union OutrunBy(r)
  /\ UNCHANGED <<owner, stored, used, period, halfReplaced, mediaFaults>>

\* An advert's view moves its time, and so does any other change of a row.  A blog
\* is not answered in the end: its content cannot be read from storage.
GoOn(r) ==
  /\ media[r].at = "read"
  /\ mediaRow' = IF owner = "advert" /\ mediaRow.at = "there"
                 THEN [mediaRow EXCEPT !.updated = period] ELSE mediaRow
  /\ MediaSet(r, [media[r] EXCEPT !.at =
       CASE media[r].for \in {"serve", "flags"} -> "served"
         [] media[r].for = "update" -> IF owner = "blog" THEN "delete" ELSE "upload"
         [] OTHER -> "drop"])
  /\ UNCHANGED <<owner, stored, used, period, halfReplaced, outrun, mediaFaults>>

Answer(r) ==
  /\ media[r].at = "served"
  /\ MediaEnd(r)
  /\ UNCHANGED <<owner, mediaRow, stored, used, period, halfReplaced, outrun, mediaFaults>>

TouchRow ==
  /\ mediaRow.at = "there"
  /\ mediaRow' = [mediaRow EXCEPT !.updated = period]
  /\ UNCHANGED <<owner, stored, used, period, media, halfReplaced, outrun, mediaFaults>>

-----------------------------------------------------------------------------
(* Replacing and removing *)

\* A failed deletion is logged and forgotten.
DeleteOldPicture(r) ==
  /\ media[r].at = "delete"
  /\ stored' = DeletePictureFile(media[r].key, DeletePlace("update"))
  /\ MediaSet(r, [media[r] EXCEPT !.at = IF owner = "blog" THEN "upload" ELSE "write"])
  /\ UNCHANGED <<owner, mediaRow, used, period, halfReplaced, outrun, mediaFaults>>

\* Mutant: the row gets the new key and keeps its link.
WriteKey(r) ==
  /\ media[r].at = "write"
  /\ mediaRow' = IF mediaRow.at = "there"
                 THEN [mediaRow EXCEPT !.key = media[r].new, !.updated = period] ELSE mediaRow
  /\ MediaEnd(r)
  /\ UNCHANGED <<owner, stored, used, period, halfReplaced, outrun, mediaFaults>>

\* A profile's old file goes after its row, with no effect on what is stored.
WriteRow(r) ==
  /\ media[r].at = "write"
  /\ mediaRow' = IF mediaRow.at = "there"
                 THEN [mediaRow EXCEPT !.key = media[r].new, !.link = media[r].link, !.updated = period]
                 ELSE mediaRow
  /\ MediaEnd(r)
  /\ UNCHANGED <<owner, stored, used, period, halfReplaced, outrun, mediaFaults>>

\* A club's file is asked for in the bucket it is not in.
DropPicture(r) ==
  /\ media[r].at = "drop"
  /\ stored' = DeletePictureFile(media[r].key, DeletePlace("remove"))
  /\ MediaSet(r, [media[r] EXCEPT !.at = "remove"])
  /\ UNCHANGED <<owner, mediaRow, used, period, halfReplaced, outrun, mediaFaults>>

RemoveOwner(r) ==
  /\ media[r].at = "remove"
  /\ mediaRow' = [mediaRow EXCEPT !.at = "gone", !.key = NoPicture, !.link = NoLink, !.updated = 0]
  /\ MediaEnd(r)
  /\ UNCHANGED <<owner, stored, used, period, halfReplaced, outrun, mediaFaults>>

-----------------------------------------------------------------------------

\* A request takes far less than ExpiryDays.
PeriodPasses ==
  /\ period < MaxPeriods
  /\ \A r \in MediaRequests : media[r] = MediaIdle
  /\ period' = period + 1
  /\ UNCHANGED <<owner, mediaRow, stored, used, media, halfReplaced, outrun, mediaFaults>>

\* A step throws or the process dies.
MediaAbort(r) ==
  /\ media[r].at \notin {"idle", "served"}
  /\ mediaFaults < MaxMediaFaults
  /\ mediaFaults' = mediaFaults + 1
  /\ halfReplaced' = IF PictureDeleted(r) THEN halfReplaced \union ({media[r].key} \ {NoPicture}) ELSE halfReplaced
  /\ MediaEnd(r)
  /\ UNCHANGED <<owner, mediaRow, stored, used, period, outrun>>

MediaNext ==
  \/ \E r \in MediaRequests :
       \/ \E with \in BOOLEAN : BeginCreation(r, with)
       \/ UploadPicture(r)
       \/ InsertRow(r)
       \/ \E purpose \in {"serve", "flags", "update", "remove"} : ReadRow(r, purpose)
       \/ RefreshLink(r)
       \/ GoOn(r)
       \/ Answer(r)
       \/ DeleteOldPicture(r)
       \/ WriteRow(r)
       \/ DropPicture(r)
       \/ RemoveOwner(r)
       \/ MediaAbort(r)
  \/ TouchRow
  \/ PeriodPasses

MediaSpec == MediaInit /\ [][MediaNext]_mediaVars

-----------------------------------------------------------------------------
(* Properties *)

\* The file of the key in the row is stored where it was uploaded, but for a file whose
\* update has deleted it and is still to write another key, or never did: also when
\* updates overlap each other, removals or renewals of the link.
RowPictureIsStored ==
  mediaRow.key # NoPicture /\ <<mediaRow.key, UploadPlace>> \notin stored =>
    \/ \E r \in MediaRequests : PictureDeleted(r) /\ media[r].key = mediaRow.key
    \/ mediaRow.key \in halfReplaced

\* The link in a club's row, which every answer about the club passes on, leads to a
\* stored file, but for a file that is being replaced or whose replacement was cut short,
\* and for one that a renewal begun before its replacement has put back: that link is
\* dead until the row is written or the link is renewed again.
LinkLeadsToPicture ==
  LET f == mediaRow.link.file
  IN owner = "club" /\ f # NoPicture /\ <<f, mediaRow.link.place>> \notin stored =>
       \/ \E r \in MediaRequests : PictureDeleted(r) /\ media[r].key = f
       \/ f \in halfReplaced \union outrun

\* "Deletes the club and its image from storage."
RemovalDeletesPicture ==
  owner = "club" /\ mediaRow.at = "gone" /\ mediaFaults = 0
  /\ (\A r \in MediaRequests : media[r] = MediaIdle)
    => stored = {}

\* "If the club's image URL has expired (older than 7 days), a fresh signed URL is
\* generated automatically."
ExpiredLinkIsRenewed ==
  \A r \in MediaRequests :
    owner = "club" /\ media[r].at = "served" /\ media[r].for = "serve" /\ media[r].key # NoPicture
      => media[r].good
=============================================================================
