---------------------------- MODULE FileLifecycle ----------------------------
(***************************************************************************)
(* The life of a file in isrv: the HTTP handlers that upload, download,    *)
(* delete and re-date a file, and the background cleanup loop, running     *)
(* concurrently against the two stores they share: the object store        *)
(* (local disk, S3 or GCS) and the SQL table `files`.                      *)
(*                                                                         *)
(* No transaction spans the two stores and no lock orders the handlers, so *)
(* every call to a store is a step of its own and any other request may    *)
(* run between two steps of one handler.  A call may fail; a failed call   *)
(* may still have taken effect (the reply was lost); a replica may crash   *)
(* with requests and a cleanup cycle in flight.                            *)
(***************************************************************************)
EXTENDS Integers, FiniteSets

CONSTANTS
    Requests,       \* the HTTP requests of a behaviour; each is served once
    Ids,            \* the values GenerateRandomString can return
    Replicas,       \* the isrv processes sharing both stores
    None,           \* "no such value"
    MaxAge,         \* MaxExpirationTime is this far from now
    MaxNow,         \* bound on the clock
    Zones,          \* how far a wall clock may be ahead of the database's
    LocalStorage,   \* TRUE: files on disk; FALSE: S3 or GCS
    FreshIds,       \* TRUE: GenerateRandomString never returns an id twice
    Faults          \* what may go wrong, a subset of FaultKinds

\* "storage", "database": a call to that store fails without effect;
\* "timeout": the storage delete of a cleanup exhausts its 30 s context;
\* "lostReply": a write takes effect and still reports an error;
\* "crash": a replica stops and is restarted
FaultKinds == {"storage", "database", "timeout", "lostReply", "crash"}

Times == 0 .. (MaxNow + MaxAge + 1)

ASSUME LifecycleAssumption ==
    /\ None \notin Requests \cup Ids \cup Replicas
    /\ MaxAge \in Nat
    /\ MaxNow \in Nat
    /\ Zones \subseteq Int
    /\ LocalStorage \in BOOLEAN
    /\ FreshIds \in BOOLEAN
    /\ Faults \subseteq FaultKinds

VARIABLES
    files,      \* the SQL table, by primary key
    objects,    \* the object store, by key
    req,        \* the state of each request
    cleaner,    \* the state of each replica's cleanup loop
    now,        \* wall-clock time
    lapsed,     \* history: the uploads whose row the table has had as expired
    expired     \* history: the uploads whose file has been past its expiration

vars == <<files, objects, req, cleaner, now, lapsed, expired>>

-----------------------------------------------------------------------------
(* Rows and objects.  A token is 16 random bytes drawn for one upload,      *)
(* so the upload's own identity stands for it.  An object records the       *)
(* uploads whose bytes are in it and whether they are all there.            *)
(*                                                                         *)
(* The column of the expiration has no time zone.  What is written there   *)
(* is the reading of a wall clock, `zone` ahead of the database's          *)
(* CURRENT_TIMESTAMP, which is UTC: 0 where TZ is UTC, negative to the     *)
(* west.  Daylight saving and other replicas may give each write its own.  *)
(*                                                                         *)
(* An operator XMutant is X with a plausible mistake in it; nothing uses   *)
(* it but the check that the properties notice the mistake.                *)

NoRow == [token |-> None, expiration |-> 0, zone |-> 0, downloads |-> 0]
NoObject == [by |-> {}, whole |-> FALSE]

Row == [token : Requests \cup {None}, expiration : Times,
        zone : Zones \cup {0}, downloads : Nat]
Object == [by : SUBSET Requests, whole : BOOLEAN]

HasRow(i) == files[i] # NoRow
HasObject(i) == objects[i] # NoObject

\* the bytes of upload u, all of them and no others
CopyOf(u) == [by |-> {u}, whole |-> TRUE]

-----------------------------------------------------------------------------
(* Requests.  `about` is the upload whose token the client presents or     *)
(* whose row the handler has read.                                         *)

Ops == {"none", "upload", "download", "delete", "adminDelete", "expire"}

Steps == {"start",
          "save", "copy", "insert", "rollback",     \* processUpload
          "count", "open",                          \* Download
          "delStorage", "delRow",                   \* deleteFile
          "lookup", "setExpiration",                \* applyExpire
          "done"}

Statuses == {"none", "ok", "unauthorized", "notFound", "unprocessable",
             "error", "lost"}

Request == [op : Ops, pc : Steps, host : Replicas \cup {None},
            id : Ids \cup {None}, about : Requests \cup {None},
            expiration : Times, got : Object, status : Statuses]

Unsent == [op |-> "none", pc |-> "start", host |-> None, id |-> None,
           about |-> None, expiration |-> 0, got |-> NoObject,
           status |-> "none"]

\* a request for id i that entered at replica h; its handler is at step pc
Arrival(op, h, i, pc) ==
    [op |-> op, pc |-> pc, host |-> h, id |-> i, about |-> None,
     expiration |-> 0, got |-> NoObject, status |-> "none"]

Answer(request, status) ==
    [request EXCEPT !.pc = "done", !.status = status]

Goto(request, pc) == [request EXCEPT !.pc = pc]

At(r, pc) == req[r].pc = pc

Uploads == {r \in Requests : req[r].op = "upload"}

\* the uploads whose client has been given the file's token
Acknowledged == {u \in Uploads : req[u].status = "ok"}

\* the uploads that have the local file with key i open for writing
Writers(i) == {u \in Uploads : At(u, "copy") /\ req[u].id = i}

-----------------------------------------------------------------------------
(* The cleanup loop of a replica: the rest of the cycle's snapshot, the id *)
(* in hand, and how the object store answered for it.                      *)

Cleaner == [pc : {"idle", "sweep", "row"}, todo : SUBSET Ids,
            at : Ids \cup {None}, storage : {"none", "ok", "error", "timeout"}]

Idle == [pc |-> "idle", todo |-> {}, at |-> None, storage |-> "none"]

-----------------------------------------------------------------------------
(* Calls to the stores: one atomic effect each, and whether it reports an  *)
(* error.                                                                  *)

\* Storage.DeleteFile: deleting a missing object is not an error
DeleteFile(i, err) ==
    \/ /\ ~err \/ "lostReply" \in Faults
       /\ objects' = [objects EXCEPT ![i] = NoObject]
    \/ /\ err /\ "storage" \in Faults
       /\ UNCHANGED objects

\* OnFileDelete: no row to delete is an error too
OnFileDelete(i, err) ==
    \/ /\ HasRow(i)
       /\ ~err \/ "lostReply" \in Faults
       /\ files' = [files EXCEPT ![i] = NoRow]
    \/ /\ err
       /\ ~HasRow(i) \/ "database" \in Faults
       /\ UNCHANGED files

\* the row of upload u, written where the clock is `zone` ahead
NewRow(u, zone) == [token |-> u, expiration |-> req[u].expiration,
                    zone |-> zone, downloads |-> 0]

\* OnFileUpload: the id is the primary key, a second row for it is an error
OnFileUpload(u, err) ==
    LET i == req[u].id
    IN  \/ /\ ~HasRow(i)
           /\ ~err \/ "lostReply" \in Faults
           /\ \E zone \in Zones : files' = [files EXCEPT ![i] = NewRow(u, zone)]
        \/ /\ err
           /\ HasRow(i) \/ "database" \in Faults
           /\ UNCHANGED files

\* SetExpiration: no row to update is an error too
SetExpiration(i, e, err) ==
    \/ /\ HasRow(i)
       /\ ~err \/ "lostReply" \in Faults
       /\ \E zone \in Zones :
             files' = [files EXCEPT
                          ![i] = [@ EXCEPT !.expiration = e, !.zone = zone]]
    \/ /\ err
       /\ ~HasRow(i) \/ "database" \in Faults
       /\ UNCHANGED files

\* mutant: the counter goes down
OnFileDownloadMutant(i) ==
    /\ HasRow(i)
    /\ files' = [files EXCEPT ![i].downloads = @ - 1]

\* OnFileDownload: its error is only logged
OnFileDownload(i) ==
    \/ /\ HasRow(i)
       /\ files' = [files EXCEPT ![i].downloads = @ + 1]
    \/ /\ ~HasRow(i) \/ "database" \in Faults
       /\ UNCHANGED files

\* the timestamp that stands in a row
Stored(row) == row.expiration + row.zone

\* mutant: <= for <
ExpiredFilesMutant == {i \in Ids : HasRow(i) /\ Stored(files[i]) <= now}

\* GetExpiredFiles: expiration_time < CURRENT_TIMESTAMP
ExpiredFiles == {i \in Ids : HasRow(i) /\ Stored(files[i]) < now}

\* the latest expiration that MaxExpirationTime allows a request made now
WithinMaxAge(e) == e <= now + MaxAge

-----------------------------------------------------------------------------
(* Upload. *)

\* the form, its limits and its header have been checked, a token is drawn
\* and the encryption layer set up; nothing is written yet
UploadAccept(r, h, i, e) ==
    /\ At(r, "start")
    /\ FreshIds => \A u \in Uploads : req[u].id # i
    /\ WithinMaxAge(e)
    /\ req' = [req EXCEPT ![r] =
                  [Arrival("upload", h, i, "save") EXCEPT !.expiration = e]]
    /\ UNCHANGED <<files, objects, cleaner, now>>

\* a write to the object store failed: 500, and nothing is undone
SaveFailed(r) == req' = [req EXCEPT ![r] = Answer(@, "error")]

\* mutant: the row is inserted while the bytes are still being copied
SaveCreateMutant(r) ==
    /\ LocalStorage
    /\ At(r, "save")
    /\ objects' = [objects EXCEPT ![req[r].id] = [by |-> {r}, whole |-> FALSE]]
    /\ req' = [req EXCEPT ![r] = Goto(@, "insert")]
    /\ UNCHANGED <<files, cleaner, now>>

\* LocalStorage.Save, os.Create: truncates a file of that name; an upload
\* that has it open goes on writing to it
SaveCreate(r) ==
    /\ LocalStorage
    /\ At(r, "save")
    /\ \/ /\ objects' = [objects EXCEPT ![req[r].id] =
                    [by |-> {r} \cup (@.by \cap Writers(req[r].id)),
                     whole |-> FALSE]]
          /\ req' = [req EXCEPT ![r] = Goto(@, "copy")]
       \/ /\ "storage" \in Faults
          /\ SaveFailed(r)
          /\ UNCHANGED objects
    /\ UNCHANGED <<files, cleaner, now>>

\* LocalStorage.Save, io.Copy and the size check.  A file unlinked in the
\* meantime takes the bytes with it; a failed copy leaves a part behind.
SaveCopy(r) ==
    /\ At(r, "copy")
    /\ \/ /\ objects' = [objects EXCEPT ![req[r].id] =
                    IF r \in @.by THEN [by |-> @.by, whole |-> @.by = {r}]
                    ELSE @]
          /\ req' = [req EXCEPT ![r] = Goto(@, "insert")]
       \/ /\ "storage" \in Faults
          /\ SaveFailed(r)
          /\ UNCHANGED objects
    /\ UNCHANGED <<files, cleaner, now>>

\* S3Storage.Save, GCSStorage.Save: an object appears when it is complete
SavePut(r) ==
    /\ ~LocalStorage
    /\ At(r, "save")
    /\ \/ /\ objects' = [objects EXCEPT ![req[r].id] = CopyOf(r)]
          /\ \/ req' = [req EXCEPT ![r] = Goto(@, "insert")]
             \/ "lostReply" \in Faults /\ SaveFailed(r)
       \/ /\ "storage" \in Faults
          /\ SaveFailed(r)
          /\ UNCHANGED objects
    /\ UNCHANGED <<files, cleaner, now>>

\* mutant: the error of OnFileUpload is dropped
InsertRowUnchecked(r) ==
    /\ At(r, "insert")
    /\ \E err \in BOOLEAN : OnFileUpload(r, err)
    /\ req' = [req EXCEPT ![r] = Answer(@, "ok")]
    /\ UNCHANGED <<objects, cleaner, now>>

\* mutant: no rollback
InsertRowNoRollback(r) ==
    /\ At(r, "insert")
    /\ \E err \in BOOLEAN :
          /\ OnFileUpload(r, err)
          /\ req' = [req EXCEPT ![r] = Answer(@, IF err THEN "error" ELSE "ok")]
    /\ UNCHANGED <<objects, cleaner, now>>

InsertRow(r) ==
    /\ At(r, "insert")
    /\ \E err \in BOOLEAN :
          /\ OnFileUpload(r, err)
          /\ req' = [req EXCEPT ![r] = IF err THEN Goto(@, "rollback")
                                       ELSE Answer(@, "ok")]
    /\ UNCHANGED <<objects, cleaner, now>>

\* best effort: an error of the delete is only logged
Rollback(r) ==
    /\ At(r, "rollback")
    /\ \E err \in BOOLEAN : DeleteFile(req[r].id, err)
    /\ req' = [req EXCEPT ![r] = Answer(@, "error")]
    /\ UNCHANGED <<files, cleaner, now>>

-----------------------------------------------------------------------------
(* Download, of a file that has no client-side encryption.                 *)

DownloadLookup(r, h, i) ==
    /\ At(r, "start")
    /\ LET arrival == Arrival("download", h, i, "count")
       IN  \/ /\ HasRow(i)
              /\ req' = [req EXCEPT ![r] =
                            [arrival EXCEPT !.about = files[i].token]]
           \/ /\ ~HasRow(i)
              /\ req' = [req EXCEPT ![r] = Answer(arrival, "notFound")]
           \/ /\ "database" \in Faults
              /\ req' = [req EXCEPT ![r] = Answer(arrival, "error")]
    /\ UNCHANGED <<files, objects, cleaner, now>>

DownloadCount(r) ==
    /\ At(r, "count")
    /\ OnFileDownload(req[r].id)
    /\ req' = [req EXCEPT ![r] = Goto(@, "open")]
    /\ UNCHANGED <<objects, cleaner, now>>

\* mutant: the error of Open is dropped
DownloadOpenMutant(r) ==
    /\ At(r, "open")
    /\ req' = [req EXCEPT ![r] =
                  [Answer(@, "ok") EXCEPT !.got = objects[req[r].id]]]
    /\ UNCHANGED <<files, objects, cleaner, now>>

\* Open by the handler, or by the client that follows a pre-signed URL
DownloadOpen(r) ==
    /\ At(r, "open")
    /\ LET object == objects[req[r].id]
       IN  \/ /\ HasObject(req[r].id)
              /\ req' = [req EXCEPT ![r] =
                            [Answer(@, "ok") EXCEPT !.got = object]]
           \/ /\ ~HasObject(req[r].id)
              /\ req' = [req EXCEPT ![r] = Answer(@, "notFound")]
           \/ /\ "storage" \in Faults
              /\ req' = [req EXCEPT ![r] = Answer(@, "error")]
    /\ UNCHANGED <<files, objects, cleaner, now>>

-----------------------------------------------------------------------------
(* Delete and Expire, behind RequireToken.                                 *)

\* mutant: any valid token does
TokenMatchesMutant(u, i) ==
    HasRow(i) /\ \E j \in Ids : HasRow(j) /\ files[j].token = u

\* GetFileByToken found the file with token u, and it is the one in the path
TokenMatches(u, i) == HasRow(i) /\ files[i].token = u

\* the client presents the token of upload u for the file i
RequireToken(r, u, i, admitted) ==
    /\ At(r, "start")
    /\ u \in Acknowledged
    /\ \/ TokenMatches(u, i) /\ req' = [req EXCEPT ![r] = admitted]
       \/ /\ ~TokenMatches(u, i)
          /\ req' = [req EXCEPT ![r] = Answer(admitted, "unauthorized")]
       \/ /\ "database" \in Faults
          /\ req' = [req EXCEPT ![r] = Answer(admitted, "error")]
    /\ UNCHANGED <<files, objects, cleaner, now>>

DeleteRequest(r, h, u, i) ==
    RequireToken(r, u, i,
        [Arrival("delete", h, i, "delStorage") EXCEPT !.about = u])

ExpireRequest(r, h, u, i, e) ==
    RequireToken(r, u, i,
        [Arrival("expire", h, i, "lookup") EXCEPT !.about = u,
                                                  !.expiration = e])

\* AdminDeleteFile: GetFile instead of a token
AdminDeleteLookup(r, h, i) ==
    /\ At(r, "start")
    /\ LET arrival == Arrival("adminDelete", h, i, "delStorage")
       IN  \/ /\ HasRow(i)
              /\ req' = [req EXCEPT ![r] =
                            [arrival EXCEPT !.about = files[i].token]]
           \/ /\ ~HasRow(i)
              /\ req' = [req EXCEPT ![r] = Answer(arrival, "notFound")]
           \/ /\ "database" \in Faults
              /\ req' = [req EXCEPT ![r] = Answer(arrival, "error")]
    /\ UNCHANGED <<files, objects, cleaner, now>>

\* mutant: the row goes whatever the object store says
DeleteStorageMutant(r) ==
    /\ At(r, "delStorage")
    /\ \E err \in BOOLEAN : DeleteFile(req[r].id, err)
    /\ req' = [req EXCEPT ![r] = Goto(@, "delRow")]
    /\ UNCHANGED <<files, cleaner, now>>

\* deleteFile, first half: an error of the object store ends it
DeleteStorage(r) ==
    /\ At(r, "delStorage")
    /\ \E err \in BOOLEAN :
          /\ DeleteFile(req[r].id, err)
          /\ req' = [req EXCEPT ![r] = IF err THEN Answer(@, "error")
                                       ELSE Goto(@, "delRow")]
    /\ UNCHANGED <<files, cleaner, now>>

\* mutant: the error of OnFileDelete is only logged
DeleteRowMutant(r) ==
    /\ At(r, "delRow")
    /\ \E err \in BOOLEAN : OnFileDelete(req[r].id, err)
    /\ req' = [req EXCEPT ![r] = Answer(@, "ok")]
    /\ UNCHANGED <<objects, cleaner, now>>

\* deleteFile, second half
DeleteRow(r) ==
    /\ At(r, "delRow")
    /\ \E err \in BOOLEAN :
          /\ OnFileDelete(req[r].id, err)
          /\ req' = [req EXCEPT ![r] = Answer(@, IF err THEN "error" ELSE "ok")]
    /\ UNCHANGED <<objects, cleaner, now>>

ExpireLookup(r) ==
    /\ At(r, "lookup")
    /\ LET i == req[r].id
       IN  \/ /\ ~HasRow(i)
              /\ req' = [req EXCEPT ![r] = Answer(@, "notFound")]
           \/ /\ HasRow(i)
              /\ req' = [req EXCEPT ![r] =
                            IF WithinMaxAge(@.expiration)
                            THEN Goto(@, "setExpiration")
                            ELSE Answer(@, "unprocessable")]
           \/ /\ "database" \in Faults
              /\ req' = [req EXCEPT ![r] = Answer(@, "error")]
    /\ UNCHANGED <<files, objects, cleaner, now>>

ExpireSet(r) ==
    /\ At(r, "setExpiration")
    /\ \E err \in BOOLEAN :
          /\ SetExpiration(req[r].id, req[r].expiration, err)
          /\ req' = [req EXCEPT ![r] = Answer(@, IF err THEN "error" ELSE "ok")]
    /\ UNCHANGED <<objects, cleaner, now>>

-----------------------------------------------------------------------------
(* The cleanup loop.  A cycle that gets no lock, no snapshot or an empty   *)
(* one changes nothing.                                                    *)

CycleStart(h) ==
    /\ cleaner[h].pc = "idle"
    /\ ExpiredFiles # {}
    /\ cleaner' = [cleaner EXCEPT ![h] =
                      [Idle EXCEPT !.pc = "sweep", !.todo = ExpiredFiles]]
    /\ UNCHANGED <<files, objects, req, now>>

\* cleanupFile, first half: an error is logged and the row is deleted anyway
CleanupStorage(h, i, outcome) ==
    /\ cleaner[h].pc = "sweep"
    /\ i \in cleaner[h].todo
    /\ \/ outcome # "timeout" /\ DeleteFile(i, outcome = "error")
       \/ /\ outcome = "timeout" /\ "timeout" \in Faults /\ ~LocalStorage
          /\ UNCHANGED objects \/ DeleteFile(i, TRUE)
    /\ cleaner' = [cleaner EXCEPT ![h] =
                      [@ EXCEPT !.pc = "row", !.at = i, !.storage = outcome]]
    /\ UNCHANGED <<files, req, now>>

\* mutant: the cycle does not end after its last id
NextExpiredMutant(c) == [Idle EXCEPT !.pc = "sweep", !.todo = c.todo \ {c.at}]

\* back to the loop over the snapshot, or to the ticker after its last id
NextExpired(c) ==
    LET rest == c.todo \ {c.at}
    IN  IF rest = {} THEN Idle ELSE [Idle EXCEPT !.pc = "sweep", !.todo = rest]

\* cleanupFile, second half.  Both calls share one 30 s context: once the
\* first has used it up, the second fails without reaching the database.
CleanupRow(h, err) ==
    /\ cleaner[h].pc = "row"
    /\ IF cleaner[h].storage = "timeout"
       THEN err /\ UNCHANGED files
       ELSE OnFileDelete(cleaner[h].at, err)
    /\ cleaner' = [cleaner EXCEPT ![h] = NextExpired(@)]
    /\ UNCHANGED <<objects, req, now>>

-----------------------------------------------------------------------------
(* A replica stops at any moment and is started again: its requests get no *)
(* answer and its cleanup loop begins anew.                                *)

Crash(h) ==
    /\ "crash" \in Faults
    /\ req' = [r \in Requests |->
                 IF req[r].host = h /\ ~At(r, "done")
                 THEN Answer(req[r], "lost") ELSE req[r]]
    /\ cleaner' = [cleaner EXCEPT ![h] = Idle]
    /\ UNCHANGED <<files, objects, now>>

Tick ==
    /\ now < MaxNow
    /\ now' = now + 1
    /\ UNCHANGED <<files, objects, req, cleaner>>

-----------------------------------------------------------------------------
(* The specification. *)

Init ==
    /\ files = [i \in Ids |-> NoRow]
    /\ objects = [i \in Ids |-> NoObject]
    /\ req = [r \in Requests |-> Unsent]
    /\ cleaner = [h \in Replicas |-> Idle]
    /\ now = 0
    /\ lapsed = {}
    /\ expired = {}

Arrive(r) ==
    \E h \in Replicas, i \in Ids :
        \/ \E e \in Times : UploadAccept(r, h, i, e)
        \/ DownloadLookup(r, h, i)
        \/ \E u \in Requests : DeleteRequest(r, h, u, i)
        \/ \E u \in Requests, e \in Times : ExpireRequest(r, h, u, i, e)
        \/ AdminDeleteLookup(r, h, i)

Proceed(r) ==
    \/ SaveCreate(r) \/ SaveCopy(r) \/ SavePut(r)
    \/ InsertRow(r) \/ Rollback(r)
    \/ DownloadCount(r) \/ DownloadOpen(r)
    \/ DeleteStorage(r) \/ DeleteRow(r)
    \/ ExpireLookup(r) \/ ExpireSet(r)

Cleanup(h) ==
    \/ CycleStart(h)
    \/ \E i \in Ids, outcome \in {"ok", "error", "timeout"} :
          CleanupStorage(h, i, outcome)
    \/ \E err \in BOOLEAN : CleanupRow(h, err)

Step ==
    \/ \E r \in Requests : Arrive(r) \/ Proceed(r)
    \/ \E h \in Replicas : Cleanup(h) \/ Crash(h)
    \/ Tick

\* the history variables: whose files the step leaves past their expiration,
\* for the table's comparison and in fact
Lapse ==
    /\ lapsed' = lapsed \cup
          {u \in Requests :
              \E i \in Ids : files'[i].token = u /\ Stored(files'[i]) < now'}
    /\ expired' = expired \cup
          {u \in Requests :
              \E i \in Ids : files'[i].token = u /\ files'[i].expiration < now'}

Next == Step /\ Lapse

Spec == Init /\ [][Next]_vars

\* Handlers and cleanup loops keep running, the ticker keeps ticking, and a
\* store that is called again and again does not fail every time.
Fairness ==
    /\ \A r \in Requests : WF_vars(Proceed(r) /\ Lapse)
    /\ \A h \in Replicas :
          /\ WF_vars(Cleanup(h) /\ Lapse)
          /\ \A i \in Ids :
                /\ SF_vars(CleanupStorage(h, i, "ok") /\ Lapse)
                /\ SF_vars(cleaner[h].at = i /\ CleanupRow(h, FALSE) /\ Lapse)

FairSpec == Spec /\ Fairness

-----------------------------------------------------------------------------
(* Properties. *)

\* every wall clock is at or ahead of the database's: the hosts run in UTC, as
\* the images of the compose files do, or to the east of it
NoZoneBehind == Zones \subseteq Nat

\* Every variable has its type.
TypeOK ==
    /\ files \in [Ids -> Row]
    /\ objects \in [Ids -> Object]
    /\ req \in [Requests -> Request]
    /\ cleaner \in [Replicas -> Cleaner]
    /\ now \in 0 .. MaxNow
    /\ lapsed \subseteq Requests
    /\ expired \subseteq Requests

\* a client with upload u's token, or the administrator, has asked for the
\* deletion of its file
DeletionAsked(u) ==
    \E r \in Requests : /\ req[r].op \in {"delete", "adminDelete"}
                        /\ req[r].about = u
                        /\ req[r].id = req[u].id

\* upload u's file may go: it has been past the expiration its client was
\* given, whatever the table makes of it, or its deletion has been asked for
Ended(u) == u \in expired \/ DeletionAsked(u)

\* upload u's row and its bytes are both in place
Available(u) ==
    /\ files[req[u].id].token = u
    /\ objects[req[u].id] = CopyOf(u)

\* A file whose upload was answered with a link and a token keeps its row and
\* its bytes until it expires or is deleted by somebody entitled to, whatever
\* fails and whoever else uploads, deletes or cleans up meanwhile.  No zone may
\* be behind the database's (NoZoneBehind), or the cleanup comes too early.
AckedFileKept == \A u \in Acknowledged : Ended(u) \/ Available(u)

\* A download that is served carries the bytes of the upload whose row the
\* handler read, complete and unmixed, though the row is read well before the
\* object is opened.
DownloadIsUpload ==
    \A r \in Requests :
        req[r].op = "download" /\ req[r].status = "ok"
            => req[r].got = CopyOf(req[r].about)

\* After a delete answered 204 the file's row and bytes are gone and no
\* handler still in flight brings either back.
DeletedIsGone ==
    \A r \in Requests :
        req[r].op \in {"delete", "adminDelete"} /\ req[r].status = "ok"
            => ~HasRow(req[r].id) /\ ~HasObject(req[r].id)

\* Bytes without a row, which no cleanup cycle can ever find, exist only
\* while an upload is between its save and its insert or rollback, or after
\* one that a crash broke off there.
NoOrphans ==
    \A i \in Ids : HasObject(i) =>
        \/ HasRow(i)
        \/ \E u \in Uploads : /\ req[u].id = i
                             /\ \/ req[u].pc \in {"copy", "insert", "rollback"}
                                \/ req[u].status = "lost"

\* A file past its expiration is removed, or given a later expiration.
ExpiredFileRemoved ==
    \A i \in Ids : i \in ExpiredFiles ~> i \notin ExpiredFiles

\* The cleanup loop removes a file from the object store and the table both:
\* it never deletes the row of an object it has left behind.
CleanupRemovesBoth ==
    [][\A i \in Ids : cleaner' # cleaner /\ HasRow(i) /\ ~HasRow(i)'
            => ~HasObject(i)']_vars
=============================================================================
