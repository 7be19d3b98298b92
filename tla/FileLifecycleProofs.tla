------------------------- MODULE FileLifecycleProofs -------------------------
(***************************************************************************)
(* Proofs about FileLifecycle, for every number of requests, ids and       *)
(* replicas, every kind of storage and every set of faults, provided that  *)
(* GenerateRandomString returns no id twice; what depends on when a file   *)
(* expires also needs clocks that are not behind the database's.           *)
(***************************************************************************)
EXTENDS FileLifecycle, TLAPS

-----------------------------------------------------------------------------
(* The inductive invariant. *)

\* upload u has tried to insert its row, and its key holds its bytes or none
Settled(u) ==
    /\ u \in Uploads
    /\ req[u].pc \in {"rollback", "done"}
    /\ objects[req[u].id] \in {NoObject, CopyOf(u)}

SettledAt(u, i) == Settled(u) /\ req[u].id = i

\* every handler keeps to its own steps, and answers at its end
OnTrack ==
    \A r \in Requests :
        \/ req[r] = Unsent
        \/ /\ req[r].id \in Ids
           /\ req[r].status # "none" => At(r, "done")
           /\ \/ /\ req[r].op = "upload"
                 /\ req[r].pc \in {"save", "copy", "insert", "rollback", "done"}
              \/ /\ req[r].op = "download"
                 /\ req[r].pc \in {"count", "open", "done"}
              \/ /\ req[r].op \in {"delete", "adminDelete"}
                 /\ req[r].pc \in {"delStorage", "delRow", "done"}
              \/ /\ req[r].op = "expire"
                 /\ req[r].pc \in {"lookup", "setExpiration", "done"}

\* two uploads never share an id
UniqueIds == \A u, v \in Uploads : req[u].id = req[v].id => u = v

\* from its creation to the rollback an upload's object is as it left it
UploadObject ==
    \A u \in Uploads :
        /\ At(u, "copy") => objects[req[u].id] = [by |-> {u}, whole |-> FALSE]
        /\ At(u, "insert") => objects[req[u].id] = CopyOf(u)
        /\ At(u, "rollback") => Settled(u)

\* an upload that was answered 200 has settled
AckedSettled == \A u \in Acknowledged : Settled(u)

\* a row was inserted by the upload whose id it has
RowSettled ==
    \A i \in Ids : HasRow(i) =>
        \E u \in Requests : files[i].token = u /\ SettledAt(u, i)

\* request r is about a settled upload and has that upload's id
AboutSettled(r) ==
    \E u \in Requests : /\ req[r].about = u
                        /\ Settled(u)
                        /\ req[u].id = req[r].id

\* a download has read the row of an upload and gets that upload's bytes
DownloadTrack ==
    \A r \in Requests : req[r].op = "download" =>
        /\ req[r].about # None => AboutSettled(r)
        /\ req[r].pc \in {"count", "open"} => req[r].about # None
        /\ req[r].status = "ok" => req[r].got = CopyOf(req[r].about)

\* a delete under way was admitted for the upload whose id it has; it gets to
\* the row only when the object is gone, and answers 204 only without both
DeleteTrack ==
    \A r \in Requests : req[r].op \in {"delete", "adminDelete"} =>
        /\ ~At(r, "done") \/ req[r].status = "ok" => AboutSettled(r)
        /\ At(r, "delRow") \/ req[r].status = "ok" => ~HasObject(req[r].id)
        /\ req[r].status = "ok" => ~HasRow(req[r].id)

\* a cleanup cycle holds ids of uploads that the table has had as expired
CleanupTrack ==
    \A h \in Replicas :
        /\ \A i \in cleaner[h].todo : \E u \in lapsed : SettledAt(u, i)
        /\ cleaner[h].pc = "row" => cleaner[h].at \in cleaner[h].todo

\* rows that the table has as expired are in the history
LapsedRows == \A i \in ExpiredFiles : files[i].token \in lapsed

\* with no wall clock behind the database's, the table is never early
LapsedLate == NoZoneBehind => lapsed \subseteq expired

\* what the cleanup or a delete may take from upload u
Due(u) == u \in lapsed \/ DeletionAsked(u)

\* until then an acknowledged file is kept
KeptUntilDue == \A u \in Acknowledged : Due(u) \/ Available(u)

\* The conjunction that every step preserves and AckedFileKept,
\* DownloadIsUpload and DeletedIsGone follow from.
IInv ==
    /\ TypeOK
    /\ OnTrack
    /\ UniqueIds
    /\ UploadObject
    /\ AckedSettled
    /\ RowSettled
    /\ DownloadTrack
    /\ DeleteTrack
    /\ CleanupTrack
    /\ LapsedRows
    /\ LapsedLate
    /\ KeptUntilDue

-----------------------------------------------------------------------------
(* Type correctness. *)

USE LifecycleAssumption DEF Times

LEMMA InitType == Init => TypeOK
  BY DEF Init, TypeOK, NoRow, NoObject, Unsent, Idle, Row, Object, Request,
         Cleaner, Ops, Steps, Statuses

\* the records a handler goes through are requests
LEMMA ArrivalType ==
  ASSUME NEW op \in Ops, NEW h \in Replicas, NEW i \in Ids, NEW pc \in Steps
  PROVE  Arrival(op, h, i, pc) \in Request
  BY DEF Arrival, Request, Object, NoObject, Statuses

LEMMA GotoType ==
  ASSUME NEW q \in Request, NEW pc \in Steps
  PROVE  Goto(q, pc) \in Request
  BY DEF Goto, Request

LEMMA AnswerType ==
  ASSUME NEW q \in Request, NEW status \in Statuses
  PROVE  Answer(q, status) \in Request
  BY DEF Answer, Request, Steps

LEMMA NoneTypes == NoRow \in Row /\ NoObject \in Object /\ Idle \in Cleaner
  BY DEF NoRow, NoObject, Idle, Row, Object, Cleaner

LEMMA DeleteFileType ==
  ASSUME TypeOK, NEW i \in Ids, NEW err \in BOOLEAN, DeleteFile(i, err)
  PROVE  objects' \in [Ids -> Object]
  BY NoneTypes DEF TypeOK, DeleteFile

LEMMA OnFileDeleteType ==
  ASSUME TypeOK, NEW i \in Ids, NEW err \in BOOLEAN, OnFileDelete(i, err)
  PROVE  files' \in [Ids -> Row]
  BY NoneTypes DEF TypeOK, OnFileDelete

\* a new row is about its upload
LEMMA NewRowType ==
  ASSUME TypeOK, NEW u \in Requests, NEW zone \in Zones
  PROVE  /\ NewRow(u, zone) \in Row
         /\ NewRow(u, zone).token = u
         /\ NewRow(u, zone) # NoRow
  BY DEF NewRow, NoRow, Row, TypeOK, Request

\* and a re-dated one is about the same upload as before
LEMMA RedatedRowType ==
  ASSUME NEW row \in Row, NEW e \in Times, NEW zone \in Zones
  PROVE  LET new == [row EXCEPT !.expiration = e, !.zone = zone]
         IN  new \in Row /\ new.token = row.token
  BY DEF Row

LEMMA SetExpirationType ==
  ASSUME TypeOK, NEW i \in Ids, NEW e \in Times, NEW err \in BOOLEAN,
         SetExpiration(i, e, err)
  PROVE  \/ files' = files
         \/ \E new \in Row : /\ new.token = files[i].token
                             /\ files' = [files EXCEPT ![i] = new]
<1>1. CASE \E zone \in Zones :
             files' = [files EXCEPT
                          ![i] = [@ EXCEPT !.expiration = e, !.zone = zone]]
  <2> PICK zone \in Zones :
             files' = [files EXCEPT
                          ![i] = [@ EXCEPT !.expiration = e, !.zone = zone]]
    BY <1>1
  <2> DEFINE new == [files[i] EXCEPT !.expiration = e, !.zone = zone]
  <2>1. files[i] \in Row
    BY DEF TypeOK
  <2>2. new \in Row /\ new.token = files[i].token
    BY <2>1, RedatedRowType
  <2>3. files' = [files EXCEPT ![i] = new]
    OBVIOUS
  <2> HIDE DEF new
  <2> QED BY <2>2, <2>3
<1> QED BY <1>1 DEF SetExpiration

\* an arriving request keeps the state's type, whatever it turns into
LEMMA ReqUpdateType ==
  ASSUME TypeOK, NEW r \in Requests, NEW q \in Request,
         req' = [req EXCEPT ![r] = q]
  PROVE  req' \in [Requests -> Request]
  BY DEF TypeOK

LEMMA ArriveType ==
  ASSUME TypeOK, NEW r \in Requests, Arrive(r)
  PROVE  /\ req' \in [Requests -> Request]
         /\ UNCHANGED <<files, objects, cleaner, now>>
<1> PICK h \in Replicas, i \in Ids :
        \/ \E e \in Times : UploadAccept(r, h, i, e)
        \/ DownloadLookup(r, h, i)
        \/ \E u \in Requests : DeleteRequest(r, h, u, i)
        \/ \E u \in Requests, e \in Times : ExpireRequest(r, h, u, i, e)
        \/ AdminDeleteLookup(r, h, i)
  BY DEF Arrive
<1> DEFINE admitted(op, pc) == Arrival(op, h, i, pc)
<1>1. CASE \E e \in Times : UploadAccept(r, h, i, e)
  <2> PICK e \in Times : UploadAccept(r, h, i, e)
    BY <1>1
  <2>1. Arrival("upload", h, i, "save") \in Request
    BY ArrivalType DEF Ops, Steps
  <2>2. [Arrival("upload", h, i, "save") EXCEPT !.expiration = e] \in Request
    BY <2>1 DEF Request
  <2> QED BY <2>2, ReqUpdateType DEF UploadAccept
<1>2. CASE DownloadLookup(r, h, i)
  <2>1. Arrival("download", h, i, "count") \in Request
    BY ArrivalType DEF Ops, Steps
  <2>2. [Arrival("download", h, i, "count") EXCEPT !.about = files[i].token]
            \in Request
    BY <2>1 DEF Request, TypeOK, Row
  <2>3. \A s \in Statuses : Answer(Arrival("download", h, i, "count"), s) \in Request
    BY <2>1, AnswerType
  <2> QED BY <1>2, <2>2, <2>3, ReqUpdateType DEF DownloadLookup, Statuses
<1>3. CASE \E u \in Requests : DeleteRequest(r, h, u, i)
  <2> PICK u \in Requests : DeleteRequest(r, h, u, i)
    BY <1>3
  <2> DEFINE q == [Arrival("delete", h, i, "delStorage") EXCEPT !.about = u]
  <2>1. q \in Request
    BY ArrivalType DEF Ops, Steps, Request
  <2>2. \A s \in Statuses : Answer(q, s) \in Request
    BY <2>1, AnswerType
  <2> HIDE DEF q
  <2>3. RequireToken(r, u, i, q)
    BY DEF DeleteRequest, q
  <2> QED BY <2>1, <2>2, <2>3, ReqUpdateType DEF RequireToken, Statuses
<1>4. CASE \E u \in Requests, e \in Times : ExpireRequest(r, h, u, i, e)
  <2> PICK u \in Requests, e \in Times : ExpireRequest(r, h, u, i, e)
    BY <1>4
  <2> DEFINE q == [Arrival("expire", h, i, "lookup") EXCEPT !.about = u,
                                                            !.expiration = e]
  <2>0. Arrival("expire", h, i, "lookup") \in Request
    BY ArrivalType DEF Ops, Steps
  <2>1. q \in Request
    BY <2>0 DEF Request
  <2>2. \A s \in Statuses : Answer(q, s) \in Request
    BY <2>1, AnswerType
  <2> HIDE DEF q
  <2>3. RequireToken(r, u, i, q)
    BY DEF ExpireRequest, q
  <2> QED BY <2>1, <2>2, <2>3, ReqUpdateType DEF RequireToken, Statuses
<1>5. CASE AdminDeleteLookup(r, h, i)
  <2>1. Arrival("adminDelete", h, i, "delStorage") \in Request
    BY ArrivalType DEF Ops, Steps
  <2>2. [Arrival("adminDelete", h, i, "delStorage") EXCEPT !.about = files[i].token]
            \in Request
    BY <2>1 DEF Request, TypeOK, Row
  <2>3. \A s \in Statuses :
            Answer(Arrival("adminDelete", h, i, "delStorage"), s) \in Request
    BY <2>1, AnswerType
  <2> QED BY <1>5, <2>2, <2>3, ReqUpdateType DEF AdminDeleteLookup, Statuses
<1> QED
  BY <1>1, <1>2, <1>3, <1>4, <1>5

LEMMA ProceedType ==
  ASSUME TypeOK, OnTrack, NEW r \in Requests, Proceed(r)
  PROVE  /\ files' \in [Ids -> Row]
         /\ objects' \in [Ids -> Object]
         /\ req' \in [Requests -> Request]
         /\ UNCHANGED <<cleaner, now>>
<1>1. req[r] \in Request /\ ~At(r, "start") => req[r].id \in Ids
  BY DEF TypeOK, OnTrack, Unsent, At
<1>2. \A pc \in Steps : Goto(req[r], pc) \in Request
  BY <1>1, GotoType DEF TypeOK
<1>3. \A s \in Statuses : Answer(req[r], s) \in Request
  BY <1>1, AnswerType DEF TypeOK
<1>4. CopyOf(r) \in Object
  BY DEF CopyOf, Object
<1>5. CASE SaveCreate(r)
  <2>1. [by |-> {r} \cup (objects[req[r].id].by \cap Writers(req[r].id)),
         whole |-> FALSE] \in Object
    BY DEF Object, Writers, Uploads
  <2> QED BY <1>1, <1>2, <1>3, <1>5, <2>1
          DEF SaveCreate, SaveFailed, TypeOK, Steps, Statuses
<1>6. CASE SaveCopy(r)
  <2>1. req[r].id \in Ids
    BY <1>1, <1>6 DEF SaveCopy, At, TypeOK
  <2>2. [by |-> objects[req[r].id].by, whole |-> objects[req[r].id].by = {r}]
            \in Object
    BY <2>1 DEF TypeOK, Object
  <2> QED BY <1>1, <1>2, <1>3, <1>6, <2>1, <2>2
          DEF SaveCopy, SaveFailed, TypeOK, Steps, Statuses
<1>7. CASE SavePut(r)
  BY <1>1, <1>2, <1>3, <1>4, <1>7
     DEF SavePut, SaveFailed, TypeOK, Steps, Statuses
<1>8. CASE InsertRow(r)
  <2>1. \A zone \in Zones : NewRow(r, zone) \in Row
    BY <1>1, NewRowType
  <2> QED BY <1>1, <1>2, <1>3, <1>8, <2>1
          DEF InsertRow, OnFileUpload, TypeOK, Steps, Statuses
<1>9. CASE Rollback(r)
  <2>1. req[r].id \in Ids
    BY <1>1, <1>9 DEF Rollback, At, TypeOK
  <2> QED BY <1>3, <1>9, <2>1, DeleteFileType DEF Rollback, TypeOK, Statuses
<1>10. CASE DownloadCount(r)
  BY <1>2, <1>10 DEF DownloadCount, OnFileDownload, TypeOK, Steps, Row
<1>11. CASE DownloadOpen(r)
  <2>1. req[r].id \in Ids
    BY <1>1, <1>11 DEF DownloadOpen, At, TypeOK
  <2>2. [Answer(req[r], "ok") EXCEPT !.got = objects[req[r].id]] \in Request
    BY <1>3, <2>1 DEF TypeOK, Request, Statuses
  <2> QED BY <1>3, <1>11, <2>2 DEF DownloadOpen, TypeOK, Statuses
<1>12. CASE DeleteStorage(r)
  <2>1. req[r].id \in Ids
    BY <1>1, <1>12 DEF DeleteStorage, At, TypeOK
  <2> QED BY <1>2, <1>3, <1>12, <2>1, DeleteFileType
          DEF DeleteStorage, TypeOK, Steps, Statuses
<1>13. CASE DeleteRow(r)
  <2>1. req[r].id \in Ids
    BY <1>1, <1>13 DEF DeleteRow, At, TypeOK
  <2> QED BY <1>3, <1>13, <2>1, OnFileDeleteType
          DEF DeleteRow, TypeOK, Statuses
<1>14. CASE ExpireLookup(r)
  BY <1>2, <1>3, <1>14 DEF ExpireLookup, TypeOK, Steps, Statuses
<1>15. CASE ExpireSet(r)
  <2>1. req[r].expiration \in Times
    BY <1>1 DEF TypeOK, Request
  <2>2. req[r].id \in Ids
    BY <1>1, <1>15 DEF ExpireSet, At, TypeOK
  <2>3. files' \in [Ids -> Row]
    BY <1>15, <2>1, <2>2, SetExpirationType DEF ExpireSet, TypeOK
  <2> QED BY <1>3, <1>15, <2>3 DEF ExpireSet, TypeOK, Statuses
<1> QED
  BY <1>5, <1>6, <1>7, <1>8, <1>9, <1>10, <1>11, <1>12, <1>13, <1>14, <1>15
     DEF Proceed

LEMMA CleanupType ==
  ASSUME TypeOK, CleanupTrack, NEW h \in Replicas, Cleanup(h)
  PROVE  /\ files' \in [Ids -> Row]
         /\ objects' \in [Ids -> Object]
         /\ cleaner' \in [Replicas -> Cleaner]
         /\ UNCHANGED <<req, now>>
<1>1. CASE CycleStart(h)
  <2>1. [Idle EXCEPT !.pc = "sweep", !.todo = ExpiredFiles] \in Cleaner
    BY DEF Idle, Cleaner, ExpiredFiles
  <2> QED BY <1>1, <2>1 DEF CycleStart, TypeOK
<1>2. CASE \E i \in Ids, outcome \in {"ok", "error", "timeout"} :
             CleanupStorage(h, i, outcome)
  <2> PICK i \in Ids, outcome \in {"ok", "error", "timeout"} :
             CleanupStorage(h, i, outcome)
    BY <1>2
  <2>1. objects' \in [Ids -> Object]
    BY DeleteFileType DEF CleanupStorage, TypeOK
  <2>2. [cleaner[h] EXCEPT !.pc = "row", !.at = i, !.storage = outcome] \in Cleaner
    <3>1. cleaner[h] \in Cleaner
      BY DEF TypeOK
    <3> QED BY <3>1 DEF Cleaner
  <2>3. cleaner' \in [Replicas -> Cleaner]
    BY <2>2 DEF CleanupStorage, TypeOK
  <2> QED BY <2>1, <2>3 DEF CleanupStorage, TypeOK
<1>3. CASE \E err \in BOOLEAN : CleanupRow(h, err)
  <2> PICK err \in BOOLEAN : CleanupRow(h, err)
    BY <1>3
  <2>1. cleaner[h].at \in Ids
    BY DEF CleanupRow, CleanupTrack, TypeOK, Cleaner
  <2>2. files' \in [Ids -> Row]
    BY <2>1, OnFileDeleteType DEF CleanupRow, TypeOK
  <2>3. NextExpired(cleaner[h]) \in Cleaner
    BY DEF NextExpired, Idle, Cleaner, TypeOK
  <2> QED BY <2>2, <2>3 DEF CleanupRow, TypeOK
<1> QED BY <1>1, <1>2, <1>3 DEF Cleanup

LEMMA StepType ==
  ASSUME TypeOK, OnTrack, CleanupTrack, Next
  PROVE  TypeOK'
<1>1. lapsed' \subseteq Requests /\ expired' \subseteq Requests
  BY DEF Next, Lapse, TypeOK
<1>2. CASE \E r \in Requests : Arrive(r) \/ Proceed(r)
  BY <1>1, <1>2, ArriveType, ProceedType DEF TypeOK
<1>3. CASE \E h \in Replicas : Cleanup(h)
  BY <1>1, <1>3, CleanupType DEF TypeOK
<1>4. CASE \E h \in Replicas : Crash(h)
  <2> PICK h \in Replicas : Crash(h)
    BY <1>4
  <2>1. req' \in [Requests -> Request]
    BY AnswerType DEF Crash, TypeOK, Statuses
  <2>2. cleaner' \in [Replicas -> Cleaner]
    BY NoneTypes DEF Crash, TypeOK
  <2> QED BY <1>1, <2>1, <2>2 DEF Crash, TypeOK
<1>5. CASE Tick
  BY <1>1, <1>5 DEF Tick, TypeOK
<1> QED BY <1>2, <1>3, <1>4, <1>5 DEF Next, Step

-----------------------------------------------------------------------------
(* What a step does to a request. *)

LEMMA GotoFields ==
  ASSUME NEW q \in Request, NEW pc
  PROVE  LET t == Goto(q, pc)
         IN  /\ t.pc = pc /\ t.op = q.op /\ t.id = q.id /\ t.about = q.about
             /\ t.status = q.status /\ t.got = q.got
  BY DEF Goto, Request

LEMMA AnswerFields ==
  ASSUME NEW q \in Request, NEW s
  PROVE  LET t == Answer(q, s)
         IN  /\ t.pc = "done" /\ t.op = q.op /\ t.id = q.id
             /\ t.about = q.about /\ t.status = s /\ t.got = q.got
  BY DEF Answer, Request

\* an arrival is a new request of one of the five kinds
ArrivedAs(r) ==
    /\ At(r, "start")
    /\ \A q \in Requests : q # r => req'[q] = req[q]
    /\ req'[r].id \in Ids
    /\ req'[r].status # "ok"
    /\ req'[r].status # "none" => req'[r].pc = "done"
    /\ \/ /\ req'[r].op = "upload"
          /\ req'[r].pc = "save"
          /\ FreshIds => \A u \in Uploads : req[u].id # req'[r].id
       \/ /\ req'[r].op = "download"
          /\ \/ req'[r].pc = "done" /\ req'[r].about = None
             \/ /\ req'[r].pc = "count"
                /\ HasRow(req'[r].id)
                /\ req'[r].about = files[req'[r].id].token
       \/ /\ req'[r].op \in {"delete", "adminDelete"}
          /\ \/ req'[r].pc = "done"
             \/ /\ req'[r].pc = "delStorage"
                /\ HasRow(req'[r].id)
                /\ req'[r].about = files[req'[r].id].token
       \/ req'[r].op = "expire" /\ req'[r].pc \in {"lookup", "done"}

LEMMA RequireTokenShape ==
  ASSUME TypeOK, NEW r \in Requests, NEW u \in Requests, NEW i \in Ids,
         NEW q \in Request, RequireToken(r, u, i, q)
  PROVE  /\ At(r, "start")
         /\ \A p \in Requests : p # r => req'[p] = req[p]
         /\ \/ req'[r] = q /\ HasRow(i) /\ files[i].token = u
            \/ \E s \in {"unauthorized", "error"} : req'[r] = Answer(q, s)
  BY DEF RequireToken, TokenMatches, TypeOK

LEMMA ArriveShape ==
  ASSUME TypeOK, NEW r \in Requests, Arrive(r)
  PROVE  ArrivedAs(r)
<1> PICK h \in Replicas, i \in Ids :
        \/ \E e \in Times : UploadAccept(r, h, i, e)
        \/ DownloadLookup(r, h, i)
        \/ \E u \in Requests : DeleteRequest(r, h, u, i)
        \/ \E u \in Requests, e \in Times : ExpireRequest(r, h, u, i, e)
        \/ AdminDeleteLookup(r, h, i)
  BY DEF Arrive
<1>1. CASE \E e \in Times : UploadAccept(r, h, i, e)
  BY <1>1 DEF UploadAccept, ArrivedAs, Arrival, TypeOK
<1>2. CASE DownloadLookup(r, h, i)
  <2> DEFINE a == Arrival("download", h, i, "count")
  <2>1. a \in Request
    BY ArrivalType DEF Ops, Steps
  <2>2. a.op = "download" /\ a.id = i /\ a.pc = "count" /\ a.about = None
        /\ a.status = "none"
    BY DEF Arrival
  <2>3. \A s \in {"notFound", "error"} :
           LET t == Answer(a, s)
           IN  t.op = "download" /\ t.id = i /\ t.pc = "done" /\ t.about = None
               /\ t.status = s
    BY <2>1, <2>2, AnswerFields
  <2>4. LET t == [a EXCEPT !.about = files[i].token]
        IN  t.op = "download" /\ t.id = i /\ t.pc = "count"
            /\ t.about = files[i].token /\ t.status = "none"
    BY <2>1, <2>2 DEF Request
  <2> HIDE DEF a
  <2>5. /\ At(r, "start")
        /\ \/ HasRow(i) /\ req' = [req EXCEPT ![r] = [a EXCEPT !.about = files[i].token]]
           \/ \E s \in {"notFound", "error"} : req' = [req EXCEPT ![r] = Answer(a, s)]
    BY <1>2 DEF DownloadLookup, a
  <2>6. r \in DOMAIN req
    BY DEF TypeOK
  <2>7. CASE /\ HasRow(i)
             /\ req' = [req EXCEPT ![r] = [a EXCEPT !.about = files[i].token]]
    <3>1. /\ req'[r] = [a EXCEPT !.about = files[i].token]
          /\ \A q \in Requests : q # r => req'[q] = req[q]
      BY <2>6, <2>7
    <3>2. /\ req'[r].op = "download" /\ req'[r].id = i /\ req'[r].pc = "count"
          /\ req'[r].about = files[i].token /\ req'[r].status = "none"
      BY <2>4, <3>1
    <3> QED BY <2>5, <2>7, <3>1, <3>2 DEF ArrivedAs
  <2>8. CASE \E s \in {"notFound", "error"} : req' = [req EXCEPT ![r] = Answer(a, s)]
    <3>1. PICK s \in {"notFound", "error"} : req' = [req EXCEPT ![r] = Answer(a, s)]
      BY <2>8
    <3>2. /\ req'[r] = Answer(a, s)
          /\ \A q \in Requests : q # r => req'[q] = req[q]
      BY <2>6, <3>1
    <3>3. /\ req'[r].op = "download" /\ req'[r].id = i /\ req'[r].pc = "done"
          /\ req'[r].about = None /\ req'[r].status = s
      BY <2>3, <3>2
    <3> QED BY <2>5, <3>2, <3>3 DEF ArrivedAs
  <2> QED BY <2>5, <2>7, <2>8
<1>3. CASE \E u \in Requests : DeleteRequest(r, h, u, i)
  <2> PICK u \in Requests : DeleteRequest(r, h, u, i)
    BY <1>3
  <2> DEFINE q == [Arrival("delete", h, i, "delStorage") EXCEPT !.about = u]
  <2>1. q \in Request
    BY ArrivalType DEF Ops, Steps, Request
  <2>2. q.op = "delete" /\ q.id = i /\ q.pc = "delStorage" /\ q.about = u
        /\ q.status = "none"
    BY DEF Arrival
  <2>3. RequireToken(r, u, i, q)
    BY DEF DeleteRequest
  <2> HIDE DEF q
  <2> QED BY <2>1, <2>2, <2>3, RequireTokenShape, AnswerFields DEF ArrivedAs
<1>4. CASE \E u \in Requests, e \in Times : ExpireRequest(r, h, u, i, e)
  <2> PICK u \in Requests, e \in Times : ExpireRequest(r, h, u, i, e)
    BY <1>4
  <2> DEFINE a == Arrival("expire", h, i, "lookup")
             q == [a EXCEPT !.about = u, !.expiration = e]
  <2>0. a \in Request
    BY ArrivalType DEF Ops, Steps
  <2>1. q \in Request
    BY <2>0 DEF Request
  <2>2. q.op = "expire" /\ q.id = i /\ q.pc = "lookup" /\ q.status = "none"
    BY DEF Arrival
  <2>3. RequireToken(r, u, i, q)
    BY DEF ExpireRequest
  <2> HIDE DEF q
  <2> QED BY <2>1, <2>2, <2>3, RequireTokenShape, AnswerFields DEF ArrivedAs
<1>5. CASE AdminDeleteLookup(r, h, i)
  <2> DEFINE a == Arrival("adminDelete", h, i, "delStorage")
  <2>1. a \in Request
    BY ArrivalType DEF Ops, Steps
  <2>2. a.op = "adminDelete" /\ a.id = i /\ a.pc = "delStorage"
        /\ a.status = "none"
    BY DEF Arrival
  <2>3. \A s \in {"notFound", "error"} :
           LET t == Answer(a, s)
           IN  t.op = "adminDelete" /\ t.id = i /\ t.pc = "done" /\ t.status = s
    BY <2>1, <2>2, AnswerFields
  <2>4. LET t == [a EXCEPT !.about = files[i].token]
        IN  t.op = "adminDelete" /\ t.id = i /\ t.pc = "delStorage"
            /\ t.about = files[i].token /\ t.status = "none"
    BY <2>1, <2>2 DEF Request
  <2> HIDE DEF a
  <2>5. /\ At(r, "start")
        /\ \/ HasRow(i) /\ req' = [req EXCEPT ![r] = [a EXCEPT !.about = files[i].token]]
           \/ \E s \in {"notFound", "error"} : req' = [req EXCEPT ![r] = Answer(a, s)]
    BY <1>5 DEF AdminDeleteLookup, a
  <2> QED BY <2>3, <2>4, <2>5 DEF ArrivedAs, TypeOK
<1> QED
  BY <1>1, <1>2, <1>3, <1>4, <1>5

\* a step of a handler takes its request to the handler's next step
MovedOn(r) ==
    /\ \A q \in Requests : q # r => req'[q] = req[q]
    /\ req'[r].op = req[r].op
    /\ req'[r].id = req[r].id
    /\ req'[r].about = req[r].about
    /\ \/ /\ req'[r].status = req[r].status
          /\ req'[r].got = req[r].got
          /\ \/ At(r, "save") /\ req'[r].pc \in {"copy", "insert"}
             \/ At(r, "copy") /\ req'[r].pc = "insert"
             \/ At(r, "insert") /\ req'[r].pc = "rollback"
             \/ At(r, "count") /\ req'[r].pc = "open"
             \/ At(r, "delStorage") /\ req'[r].pc = "delRow"
             \/ At(r, "lookup") /\ req'[r].pc = "setExpiration"
       \/ /\ ~At(r, "start") /\ ~At(r, "done")
          /\ req'[r].pc = "done"
          /\ req'[r].status = "ok" =>
                req[r].pc \in {"insert", "open", "delRow", "setExpiration"}

LEMMA MovedByGoto ==
  ASSUME TypeOK, NEW r \in Requests, NEW pc,
         req' = [req EXCEPT ![r] = Goto(req[r], pc)],
         \/ At(r, "save") /\ pc \in {"copy", "insert"}
         \/ At(r, "copy") /\ pc = "insert"
         \/ At(r, "insert") /\ pc = "rollback"
         \/ At(r, "count") /\ pc = "open"
         \/ At(r, "delStorage") /\ pc = "delRow"
         \/ At(r, "lookup") /\ pc = "setExpiration"
  PROVE  MovedOn(r)
<1>1. req[r] \in Request
  BY DEF TypeOK
<1>2. req'[r] = Goto(req[r], pc) /\ \A q \in Requests : q # r => req'[q] = req[q]
  BY DEF TypeOK
<1> QED BY <1>1, <1>2, GotoFields DEF MovedOn

LEMMA MovedByAnswer ==
  ASSUME TypeOK, NEW r \in Requests, NEW s,
         req' = [req EXCEPT ![r] = Answer(req[r], s)],
         ~At(r, "start"), ~At(r, "done"),
         s = "ok" => req[r].pc \in {"insert", "open", "delRow", "setExpiration"}
  PROVE  MovedOn(r)
<1>1. req[r] \in Request
  BY DEF TypeOK
<1>2. req'[r] = Answer(req[r], s) /\ \A q \in Requests : q # r => req'[q] = req[q]
  BY DEF TypeOK
<1> QED BY <1>1, <1>2, AnswerFields DEF MovedOn

LEMMA ProceedShape ==
  ASSUME TypeOK, NEW r \in Requests, Proceed(r)
  PROVE  MovedOn(r)
<1>1. CASE SaveCreate(r)
  BY <1>1, MovedByGoto, MovedByAnswer DEF SaveCreate, SaveFailed, At
<1>2. CASE SaveCopy(r)
  BY <1>2, MovedByGoto, MovedByAnswer DEF SaveCopy, SaveFailed, At
<1>3. CASE SavePut(r)
  BY <1>3, MovedByGoto, MovedByAnswer DEF SavePut, SaveFailed, At
<1>4. CASE InsertRow(r)
  BY <1>4, MovedByGoto, MovedByAnswer DEF InsertRow, At
<1>5. CASE Rollback(r)
  BY <1>5, MovedByAnswer DEF Rollback, At
<1>6. CASE DownloadCount(r)
  BY <1>6, MovedByGoto DEF DownloadCount, At
<1>7. CASE DownloadOpen(r)
  <2>1. CASE req' = [req EXCEPT ![r] = [Answer(@, "ok") EXCEPT !.got = objects[req[r].id]]]
    <3>1. req[r] \in Request
      BY DEF TypeOK
    <3>2. req'[r] = [Answer(req[r], "ok") EXCEPT !.got = objects[req[r].id]]
          /\ \A q \in Requests : q # r => req'[q] = req[q]
      BY <2>1 DEF TypeOK
    <3>3. Answer(req[r], "ok") \in Request
      BY <3>1, AnswerType DEF Statuses
    <3>4. /\ req'[r].pc = "done" /\ req'[r].op = req[r].op
          /\ req'[r].id = req[r].id /\ req'[r].about = req[r].about
      BY <3>1, <3>2, <3>3, AnswerFields DEF Request
    <3> QED BY <1>7, <3>2, <3>4 DEF MovedOn, DownloadOpen, At
  <2> QED BY <1>7, <2>1, MovedByAnswer DEF DownloadOpen, At
<1>8. CASE DeleteStorage(r)
  BY <1>8, MovedByGoto, MovedByAnswer DEF DeleteStorage, At
<1>9. CASE DeleteRow(r)
  BY <1>9, MovedByAnswer DEF DeleteRow, At
<1>10. CASE ExpireLookup(r)
  BY <1>10, MovedByGoto, MovedByAnswer DEF ExpireLookup, At
<1>11. CASE ExpireSet(r)
  BY <1>11, MovedByAnswer DEF ExpireSet, At
<1> QED
  BY <1>1, <1>2, <1>3, <1>4, <1>5, <1>6, <1>7, <1>8, <1>9, <1>10, <1>11
     DEF Proceed

\* a crash answers no request that has been answered or has not arrived
LostIn(r) ==
    /\ ~At(r, "start") /\ ~At(r, "done")
    /\ req'[r].pc = "done" /\ req'[r].status = "lost"
    /\ req'[r].op = req[r].op /\ req'[r].id = req[r].id
    /\ req'[r].about = req[r].about

LEMMA CrashShape ==
  ASSUME TypeOK, OnTrack, NEW h \in Replicas, Crash(h), NEW r \in Requests
  PROVE  req'[r] = req[r] \/ LostIn(r)
<1>1. req[r] \in Request /\ (At(r, "start") => req[r].host = None)
  BY DEF TypeOK, OnTrack, Unsent, At
<1>2. At(r, "start") => req'[r] = req[r]
  BY <1>1 DEF Crash
<1> QED BY <1>1, <1>2, AnswerFields DEF Crash, LostIn, At

\* what a step does to one request
LEMMA StepShape ==
  ASSUME TypeOK, OnTrack, Next, NEW r \in Requests
  PROVE  \/ req'[r] = req[r]
         \/ Arrive(r) /\ ArrivedAs(r)
         \/ Proceed(r) /\ MovedOn(r)
         \/ LostIn(r) /\ UNCHANGED <<files, objects, now>>
<1>1. CASE \E q \in Requests : Arrive(q) \/ Proceed(q)
  <2> PICK q \in Requests : Arrive(q) \/ Proceed(q)
    BY <1>1
  <2>1. CASE Arrive(q)
    BY <2>1, ArriveShape DEF ArrivedAs
  <2>2. CASE Proceed(q)
    BY <2>2, ProceedShape DEF MovedOn
  <2> QED BY <2>1, <2>2
<1>2. CASE \E h \in Replicas : Cleanup(h)
  BY <1>2 DEF Cleanup, CycleStart, CleanupStorage, CleanupRow
<1>3. CASE \E h \in Replicas : Crash(h)
  BY <1>3, CrashShape DEF Crash
<1>4. CASE Tick
  BY <1>4 DEF Tick
<1> QED BY <1>1, <1>2, <1>3, <1>4 DEF Next, Step

LEMMA StepOnTrack ==
  ASSUME TypeOK, OnTrack, Next
  PROVE  OnTrack'
<1> SUFFICES ASSUME NEW r \in Requests
             PROVE  \/ req'[r] = Unsent
                    \/ /\ req'[r].id \in Ids
                       /\ req'[r].status # "none" => req'[r].pc = "done"
                       /\ \/ /\ req'[r].op = "upload"
                             /\ req'[r].pc \in {"save", "copy", "insert",
                                                "rollback", "done"}
                          \/ /\ req'[r].op = "download"
                             /\ req'[r].pc \in {"count", "open", "done"}
                          \/ /\ req'[r].op \in {"delete", "adminDelete"}
                             /\ req'[r].pc \in {"delStorage", "delRow", "done"}
                          \/ /\ req'[r].op = "expire"
                             /\ req'[r].pc \in {"lookup", "setExpiration", "done"}
  BY DEF OnTrack, At
<1>1. CASE req'[r] = req[r]
  BY <1>1 DEF OnTrack, At
<1>2. CASE ArrivedAs(r)
  BY <1>2 DEF ArrivedAs, At
<1>3. CASE MovedOn(r)
  BY <1>3 DEF OnTrack, MovedOn, At, Unsent
<1>4. CASE LostIn(r)
  BY <1>4 DEF OnTrack, LostIn, At, Unsent
<1> QED BY <1>1, <1>2, <1>3, <1>4, StepShape

-----------------------------------------------------------------------------
(* What a step does to a key of the object store and to a row.             *)

BeingDeleted(i) ==
    \/ \E u \in Uploads : At(u, "rollback") /\ req[u].id = i
    \/ \E r \in Requests : At(r, "delStorage") /\ req[r].id = i
    \/ \E h \in Replicas : i \in cleaner[h].todo

BeingWritten(i) ==
    \E u \in Uploads : /\ req[u].id = i
                      /\ req[u].pc \in {"save", "copy"}
                      /\ req'[u] # req[u]

RowBeingDeleted(i) ==
    \/ \E r \in Requests : At(r, "delRow") /\ req[r].id = i
    \/ \E h \in Replicas : cleaner[h].pc = "row" /\ cleaner[h].at = i

RowInserted(i) ==
    \E u \in Uploads : /\ At(u, "insert")
                      /\ req[u].id = i
                      /\ req'[u].pc \in {"rollback", "done"}
                      /\ files'[i].token = u
                      /\ objects' = objects

LEMMA OpOfStep ==
  ASSUME OnTrack, NEW r \in Requests
  PROVE  /\ req[r].pc \in {"save", "copy", "insert", "rollback"} => r \in Uploads
         /\ req[r].pc \in {"delStorage", "delRow"}
              => req[r].op \in {"delete", "adminDelete"}
         /\ req[r].pc \in {"count", "open"} => req[r].op = "download"
         /\ req[r].pc # "start" => req[r].id \in Ids
  BY DEF OnTrack, Unsent, Uploads

LEMMA ObjectFrame ==
  ASSUME TypeOK, OnTrack, Next, NEW i \in Ids
  PROVE  \/ objects'[i] = objects[i]
         \/ objects'[i] = NoObject /\ BeingDeleted(i)
         \/ BeingWritten(i)
<1>1. ASSUME NEW r \in Requests, Proceed(r)
      PROVE  \/ objects'[i] = objects[i]
             \/ objects'[i] = NoObject /\ BeingDeleted(i)
             \/ BeingWritten(i)
  <2>0. MovedOn(r) /\ (At(r, "save") \/ At(r, "copy") => req'[r] # req[r])
    BY <1>1, ProceedShape DEF MovedOn, At
  <2>1. CASE SaveCreate(r) \/ SaveCopy(r) \/ SavePut(r)
    BY <2>0, <2>1, OpOfStep DEF SaveCreate, SaveCopy, SavePut, SaveFailed, At,
       BeingWritten, TypeOK
  <2>2. CASE Rollback(r)
    BY <2>2, OpOfStep DEF Rollback, DeleteFile, At, BeingDeleted, TypeOK
  <2>3. CASE DeleteStorage(r)
    BY <2>3 DEF DeleteStorage, DeleteFile, At, BeingDeleted, TypeOK
  <2>4. CASE \/ InsertRow(r) \/ DownloadCount(r) \/ DownloadOpen(r)
             \/ DeleteRow(r) \/ ExpireLookup(r) \/ ExpireSet(r)
    BY <2>4 DEF InsertRow, DownloadCount, DownloadOpen, DeleteRow, ExpireLookup,
       ExpireSet
  <2> QED BY <1>1, <2>1, <2>2, <2>3, <2>4 DEF Proceed
<1>2. ASSUME NEW r \in Requests, Arrive(r)
      PROVE  objects' = objects
  BY <1>2, ArriveType
<1>3. ASSUME NEW h \in Replicas, Cleanup(h)
      PROVE  \/ objects'[i] = objects[i]
             \/ objects'[i] = NoObject /\ BeingDeleted(i)
  <2>1. CASE CycleStart(h) \/ \E err \in BOOLEAN : CleanupRow(h, err)
    BY <2>1 DEF CycleStart, CleanupRow
  <2>2. ASSUME NEW j \in Ids, NEW outcome \in {"ok", "error", "timeout"},
               CleanupStorage(h, j, outcome)
        PROVE  \/ objects'[i] = objects[i]
               \/ objects'[i] = NoObject /\ BeingDeleted(i)
    <3>1. /\ j \in cleaner[h].todo
          /\ UNCHANGED objects \/ \E err \in BOOLEAN : DeleteFile(j, err)
      BY <2>2 DEF CleanupStorage
    <3>2. UNCHANGED objects \/ objects' = [objects EXCEPT ![j] = NoObject]
      BY <3>1 DEF DeleteFile
    <3> QED BY <3>1, <3>2 DEF BeingDeleted, TypeOK
  <2> QED BY <1>3, <2>1, <2>2 DEF Cleanup
<1>4. ASSUME NEW h \in Replicas, Crash(h) \/ Tick
      PROVE  objects' = objects
  BY <1>4 DEF Crash, Tick
<1>5. Tick => objects' = objects
  BY DEF Tick
<1> QED BY <1>1, <1>2, <1>3, <1>4, <1>5 DEF Next, Step

LEMMA RowFrame ==
  ASSUME TypeOK, OnTrack, Next, NEW i \in Ids
  PROVE  \/ files'[i] = files[i]
         \/ HasRow(i) /\ files'[i].token = files[i].token
         \/ files'[i] = NoRow /\ RowBeingDeleted(i)
         \/ ~HasRow(i) /\ RowInserted(i)
<1>1. ASSUME NEW r \in Requests, Proceed(r)
      PROVE  \/ files'[i] = files[i]
             \/ HasRow(i) /\ files'[i].token = files[i].token
             \/ files'[i] = NoRow /\ RowBeingDeleted(i)
             \/ ~HasRow(i) /\ RowInserted(i)
  <2>0. MovedOn(r)
    BY <1>1, ProceedShape
  <2>1. CASE \/ SaveCreate(r) \/ SaveCopy(r) \/ SavePut(r) \/ Rollback(r)
             \/ DownloadOpen(r) \/ DeleteStorage(r) \/ ExpireLookup(r)
    BY <2>1 DEF SaveCreate, SaveCopy, SavePut, Rollback, DownloadOpen,
       DeleteStorage, ExpireLookup
  <2>2. CASE InsertRow(r)
    <3>1. req'[r].pc \in {"rollback", "done"} /\ r \in Uploads
      BY <2>0, <2>2, OpOfStep DEF InsertRow, MovedOn, At
    <3>2. /\ At(r, "insert") /\ objects' = objects
          /\ \E err \in BOOLEAN : OnFileUpload(r, err)
      BY <2>2 DEF InsertRow
    <3>3. CASE files' = files
      BY <3>3
    <3>4. ASSUME NEW zone \in Zones, ~HasRow(req[r].id),
                 files' = [files EXCEPT ![req[r].id] = NewRow(r, zone)]
          PROVE  \/ files'[i] = files[i]
                 \/ ~HasRow(i) /\ RowInserted(i)
      <4>1. CASE i = req[r].id
        <5>1. files'[i] = NewRow(r, zone)
          BY <3>4, <4>1 DEF TypeOK
        <5>2. files'[i].token = r
          BY <5>1, NewRowType
        <5> QED BY <3>1, <3>2, <3>4, <4>1, <5>2 DEF RowInserted
      <4>2. CASE i # req[r].id
        <5>1. files'[i] = files[i]
          BY <3>4, <4>2 DEF TypeOK
        <5> QED BY <5>1
      <4> QED BY <4>1, <4>2
    <3> QED BY <3>2, <3>3, <3>4 DEF OnFileUpload
  <2>3. CASE DownloadCount(r)
    <3>1. files[i] \in Row
      BY DEF TypeOK
    <3> QED BY <2>3, <3>1 DEF DownloadCount, OnFileDownload, TypeOK, Row
  <2>4. CASE DeleteRow(r)
    BY <2>4 DEF DeleteRow, OnFileDelete, RowBeingDeleted, At, TypeOK
  <2>5. CASE ExpireSet(r)
    <3>1. req[r].id \in Ids /\ req[r].expiration \in Times
      BY <1>1, <2>5 DEF ExpireSet, OnTrack, Unsent, At, TypeOK, Request
    <3>2. files' = files \/ HasRow(req[r].id)
      BY <2>5 DEF ExpireSet, SetExpiration
    <3> QED BY <2>5, <3>1, <3>2, SetExpirationType DEF ExpireSet, TypeOK
  <2> QED BY <1>1, <2>1, <2>2, <2>3, <2>4, <2>5 DEF Proceed
<1>2. ASSUME NEW r \in Requests, Arrive(r)
      PROVE  files' = files
  BY <1>2, ArriveType
<1>3. ASSUME NEW h \in Replicas, Cleanup(h)
      PROVE  \/ files'[i] = files[i]
             \/ files'[i] = NoRow /\ RowBeingDeleted(i)
  BY <1>3 DEF Cleanup, CycleStart, CleanupStorage, CleanupRow, OnFileDelete,
     RowBeingDeleted, TypeOK
<1>4. ASSUME NEW h \in Replicas, Crash(h)
      PROVE  files' = files
  BY <1>4 DEF Crash
<1>5. Tick => files' = files
  BY DEF Tick
<1> QED BY <1>1, <1>2, <1>3, <1>4, <1>5 DEF Next, Step

-----------------------------------------------------------------------------
(* What has settled stays settled. *)

LEMMA SettledStep ==
  ASSUME TypeOK, OnTrack, UniqueIds, Next,
         NEW u \in Requests, NEW i \in Ids, SettledAt(u, i)
  PROVE  SettledAt(u, i)'
<1>1. u \in Uploads /\ req[u].id = i /\ req[u].pc \in {"rollback", "done"}
      /\ objects[i] \in {NoObject, CopyOf(u)}
  BY DEF SettledAt, Settled
<1>2. /\ req'[u].op = "upload" /\ req'[u].id = i
      /\ req'[u].pc \in {"rollback", "done"}
  BY <1>1, StepShape DEF Uploads, ArrivedAs, MovedOn, LostIn, At
<1>3. ~BeingWritten(i)
  BY <1>1 DEF BeingWritten, UniqueIds
<1>4. objects'[i] \in {NoObject, CopyOf(u)}
  BY <1>1, <1>3, ObjectFrame
<1> QED BY <1>2, <1>4 DEF SettledAt, Settled, Uploads, CopyOf, NoObject

\* whoever is about to delete an object or a row was led to it by the upload
\* that put it there
LEMMA DeletedIsSettled ==
  ASSUME OnTrack, UploadObject, DeleteTrack, CleanupTrack, NEW i \in Ids,
         BeingDeleted(i) \/ RowBeingDeleted(i)
  PROVE  \E u \in Uploads : SettledAt(u, i)
<1>1. CASE \E u \in Uploads : At(u, "rollback") /\ req[u].id = i
  BY <1>1 DEF UploadObject, SettledAt
<1>2. CASE \E r \in Requests : req[r].pc \in {"delStorage", "delRow"} /\ req[r].id = i
  BY <1>2, OpOfStep DEF DeleteTrack, AboutSettled, SettledAt, Settled, At
<1>3. CASE \E h \in Replicas : i \in cleaner[h].todo
  BY <1>3 DEF CleanupTrack, SettledAt, Settled
<1>4. ASSUME NEW h \in Replicas, cleaner[h].pc = "row", cleaner[h].at = i
      PROVE  i \in cleaner[h].todo
  BY <1>4 DEF CleanupTrack
<1> QED BY <1>1, <1>2, <1>3, <1>4 DEF BeingDeleted, RowBeingDeleted, At

\* an object that has gone does not come back
LEMMA ObjectStaysGone ==
  ASSUME TypeOK, OnTrack, UniqueIds, Next,
         NEW u \in Requests, NEW i \in Ids, SettledAt(u, i), ~HasObject(i)
  PROVE  ~HasObject(i)'
<1>1. ~BeingWritten(i)
  BY DEF SettledAt, Settled, BeingWritten, UniqueIds
<1> QED BY <1>1, ObjectFrame DEF HasObject, NoObject

\* nor does a row
LEMMA RowStaysGone ==
  ASSUME TypeOK, OnTrack, UniqueIds, Next,
         NEW u \in Requests, NEW i \in Ids, SettledAt(u, i), ~HasRow(i)
  PROVE  ~HasRow(i)'
<1>1. ~RowInserted(i)
  BY DEF SettledAt, Settled, RowInserted, UniqueIds, At
<1> QED BY <1>1, RowFrame DEF HasRow, NoRow

-----------------------------------------------------------------------------
(* Every step preserves each part of the invariant.                        *)

LEMMA StepUniqueIds ==
  ASSUME FreshIds, TypeOK, OnTrack, UniqueIds, Next
  PROVE  UniqueIds'
<1> SUFFICES ASSUME NEW u \in Requests, NEW v \in Requests,
                    req'[u].op = "upload", req'[v].op = "upload",
                    req'[u].id = req'[v].id, u # v
             PROVE  FALSE
  BY DEF UniqueIds, Uploads
<1>1. ASSUME NEW q \in Requests, req'[q].op = "upload"
      PROVE  ArrivedAs(q) \/ (q \in Uploads /\ req'[q].id = req[q].id)
  BY <1>1, StepShape DEF MovedOn, LostIn, Uploads
<1>2. ArrivedAs(u) => v \in Uploads /\ req'[v].id = req[v].id
  BY DEF ArrivedAs, Uploads
<1>3. ArrivedAs(v) => u \in Uploads /\ req'[u].id = req[u].id
  BY DEF ArrivedAs, Uploads
<1>4. ASSUME NEW q \in Requests, NEW w \in Uploads, ArrivedAs(q),
             req'[q].op = "upload"
      PROVE  req'[q].id # req[w].id
  BY <1>4 DEF ArrivedAs
<1> QED BY <1>1, <1>2, <1>3, <1>4 DEF UniqueIds

LEMMA StepUploadObject ==
  ASSUME TypeOK, OnTrack, UniqueIds, UploadObject, DeleteTrack, CleanupTrack, Next
  PROVE  UploadObject'
<1> SUFFICES ASSUME NEW u \in Requests, req'[u].op = "upload"
             PROVE  /\ req'[u].pc = "copy"
                         => objects'[req'[u].id] = [by |-> {u}, whole |-> FALSE]
                    /\ req'[u].pc = "insert" => objects'[req'[u].id] = CopyOf(u)
                    /\ req'[u].pc = "rollback" => Settled(u)'
  BY DEF UploadObject, Uploads, At, CopyOf
<1>1. CASE req'[u] = req[u]
  <2>1. u \in Uploads /\ (req[u].pc # "start" => req[u].id \in Ids)
    BY <1>1, OpOfStep DEF Uploads
  <2>2. ASSUME req[u].pc \in {"copy", "insert"}
        PROVE  objects'[req[u].id] = objects[req[u].id]
    <3>1. ~BeingDeleted(req[u].id)
      BY <2>1, <2>2, DeletedIsSettled DEF SettledAt, Settled, UniqueIds
    <3>2. ~BeingWritten(req[u].id)
      BY <1>1, <2>1 DEF BeingWritten, UniqueIds
    <3> QED BY <2>1, <2>2, <3>1, <3>2, ObjectFrame
  <2>3. req[u].pc = "rollback" => Settled(u)'
    BY <2>1, SettledStep DEF UploadObject, SettledAt, At
  <2> QED BY <1>1, <2>1, <2>2, <2>3 DEF UploadObject, At
<1>2. CASE ArrivedAs(u)
  BY <1>2 DEF ArrivedAs
<1>3. CASE Proceed(u) /\ MovedOn(u)
  <2>1. u \in Uploads /\ req'[u].id = req[u].id /\ req[u].id \in Ids
    BY <1>3, OpOfStep DEF MovedOn, Uploads, At
  <2>2. ASSUME req'[u].pc = "copy"
        PROVE  objects'[req[u].id] = [by |-> {u}, whole |-> FALSE]
    <3>1. At(u, "save")
      BY <1>3, <2>2 DEF MovedOn, At
    <3>2. SaveCreate(u) \/ SavePut(u)
      BY <1>3, <3>1 DEF Proceed, SaveCopy, InsertRow, Rollback, DownloadCount,
         DownloadOpen, DeleteStorage, DeleteRow, ExpireLookup, ExpireSet, At
    <3>3. req[u] \in Request
      BY DEF TypeOK
    <3>4. ~SavePut(u)
      BY <2>2, <3>3, GotoFields, AnswerFields DEF SavePut, SaveFailed, TypeOK
    <3>5. objects' = [objects EXCEPT ![req[u].id] =
                    [by |-> {u} \cup (@.by \cap Writers(req[u].id)),
                     whole |-> FALSE]]
      BY <2>2, <3>2, <3>3, <3>4, AnswerFields DEF SaveCreate, SaveFailed, TypeOK
    <3>6. Writers(req[u].id) \subseteq {u}
      BY <2>1 DEF Writers, UniqueIds
    <3> QED BY <2>1, <3>5, <3>6 DEF TypeOK
  <2>3. ASSUME req'[u].pc = "insert"
        PROVE  objects'[req[u].id] = CopyOf(u)
    <3>1. At(u, "save") \/ At(u, "copy")
      BY <1>3, <2>3 DEF MovedOn, At
    <3>2. SaveCreate(u) \/ SaveCopy(u) \/ SavePut(u)
      BY <1>3, <3>1 DEF Proceed, InsertRow, Rollback, DownloadCount,
         DownloadOpen, DeleteStorage, DeleteRow, ExpireLookup, ExpireSet, At
    <3>3. req[u] \in Request
      BY DEF TypeOK
    <3>4. ~SaveCreate(u)
      BY <2>3, <3>3, GotoFields, AnswerFields DEF SaveCreate, SaveFailed, TypeOK
    <3>5. CASE SavePut(u)
      BY <2>1, <2>3, <3>3, <3>5, AnswerFields DEF SavePut, SaveFailed, TypeOK
    <3>6. CASE SaveCopy(u)
      <4>1. objects[req[u].id] = [by |-> {u}, whole |-> FALSE]
        BY <2>1, <3>6 DEF SaveCopy, UploadObject
      <4>2. ~SaveFailed(u)
        BY <2>3, <3>3, AnswerFields DEF SaveFailed, TypeOK
      <4>3. objects' = [objects EXCEPT ![req[u].id] =
                    IF u \in @.by THEN [by |-> @.by, whole |-> @.by = {u}]
                    ELSE @]
        BY <3>6, <4>2 DEF SaveCopy
      <4>4. objects'[req[u].id] = [by |-> {u}, whole |-> ({u} = {u})]
        BY <2>1, <4>1, <4>3 DEF TypeOK
      <4> QED BY <4>4 DEF CopyOf
    <3> QED BY <3>2, <3>4, <3>5, <3>6
  <2>4. ASSUME req'[u].pc = "rollback"
        PROVE  Settled(u)'
    <3>1. At(u, "insert")
      BY <1>3, <2>4 DEF MovedOn, At
    <3>2. objects' = objects
      BY <1>3, <3>1 DEF Proceed, SaveCreate, SaveCopy, SavePut, InsertRow,
         Rollback, DownloadCount, DownloadOpen, DeleteStorage, DeleteRow,
         ExpireLookup, ExpireSet, At
    <3>3. objects[req[u].id] = CopyOf(u)
      BY <2>1, <3>1 DEF UploadObject
    <3> QED BY <2>1, <2>4, <3>2, <3>3 DEF Settled, Uploads, CopyOf
  <2> QED BY <2>1, <2>2, <2>3, <2>4
<1>4. CASE LostIn(u)
  BY <1>4 DEF LostIn
<1> QED BY <1>1, <1>2, <1>3, <1>4, StepShape

LEMMA StepRowSettled ==
  ASSUME TypeOK, OnTrack, UniqueIds, UploadObject, RowSettled, Next
  PROVE  RowSettled'
<1> SUFFICES ASSUME NEW i \in Ids, HasRow(i)'
             PROVE  \E u \in Requests : files'[i].token = u /\ SettledAt(u, i)'
  BY DEF RowSettled
<1>1. CASE HasRow(i) /\ files'[i].token = files[i].token
  <2> PICK u \in Requests : files[i].token = u /\ SettledAt(u, i)
    BY <1>1 DEF RowSettled
  <2> QED BY <1>1, SettledStep
<1>2. CASE RowInserted(i)
  <2> PICK u \in Uploads : /\ At(u, "insert")
                           /\ req[u].id = i
                           /\ req'[u].pc \in {"rollback", "done"}
                           /\ files'[i].token = u
                           /\ objects' = objects
    BY <1>2 DEF RowInserted
  <2>1. req'[u].op = "upload" /\ req'[u].id = i
    BY StepShape DEF Uploads, ArrivedAs, MovedOn, LostIn, At
  <2>2. objects[i] = CopyOf(u)
    BY DEF UploadObject
  <2> QED BY <2>1, <2>2 DEF SettledAt, Settled, Uploads, CopyOf
<1> QED BY <1>1, <1>2, RowFrame DEF HasRow, NoRow

\* the row a handler reads was inserted by a settled upload, and stays about it
LEMMA AboutSettledStep ==
  ASSUME TypeOK, OnTrack, UniqueIds, RowSettled, Next, NEW r \in Requests,
         \/ /\ AboutSettled(r)
            /\ r \notin {q \in Requests : At(q, "start")}
            /\ req'[r].id = req[r].id
            /\ req'[r].about = req[r].about
         \/ /\ req'[r].id \in Ids
            /\ HasRow(req'[r].id)
            /\ req'[r].about = files[req'[r].id].token
  PROVE  AboutSettled(r)'
<1>1. PICK u \in Requests, i \in Ids :
          SettledAt(u, i) /\ req'[r].about = u /\ req'[r].id = i
  <2>1. CASE AboutSettled(r) /\ ~At(r, "start") /\ req'[r].id = req[r].id
             /\ req'[r].about = req[r].about
    BY <2>1, OpOfStep DEF AboutSettled, SettledAt, At
  <2>2. CASE /\ req'[r].id \in Ids
             /\ HasRow(req'[r].id)
             /\ req'[r].about = files[req'[r].id].token
    BY <2>2 DEF RowSettled
  <2> QED BY <2>1, <2>2
<1>2. SettledAt(u, i)'
  BY <1>1, SettledStep
<1> QED BY <1>1, <1>2 DEF AboutSettled, SettledAt

LEMMA StepDownloadTrack ==
  ASSUME TypeOK, OnTrack, UniqueIds, RowSettled, DownloadTrack, Next
  PROVE  DownloadTrack'
<1> SUFFICES ASSUME NEW r \in Requests, req'[r].op = "download"
             PROVE  /\ req'[r].about # None => AboutSettled(r)'
                    /\ req'[r].pc \in {"count", "open"} => req'[r].about # None
                    /\ req'[r].status = "ok" => req'[r].got = CopyOf(req'[r].about)
  BY DEF DownloadTrack, CopyOf
<1>1. CASE req'[r] = req[r]
  <2>1. ~At(r, "start")
    BY <1>1 DEF OnTrack, Unsent, At
  <2> QED BY <1>1, <2>1, AboutSettledStep DEF DownloadTrack
<1>2. CASE ArrivedAs(r)
  <2>1. req'[r].status # "ok" /\ req'[r].id \in Ids
    BY <1>2 DEF ArrivedAs
  <2>2. CASE req'[r].about = None /\ req'[r].pc = "done"
    BY <2>1, <2>2
  <2>3. CASE HasRow(req'[r].id) /\ req'[r].about = files[req'[r].id].token
    <3>1. AboutSettled(r)'
      BY <2>1, <2>3, AboutSettledStep
    <3>2. req'[r].about # None
      BY <3>1 DEF AboutSettled
    <3> QED BY <2>1, <3>1, <3>2
  <2> QED BY <1>2, <2>2, <2>3 DEF ArrivedAs
<1>3. CASE Proceed(r) /\ MovedOn(r)
  <2>1. ~At(r, "start") /\ ~At(r, "done") /\ req[r].op = "download"
        /\ req[r].status # "ok" /\ req'[r].id = req[r].id
        /\ req'[r].about = req[r].about
    BY <1>3 DEF MovedOn, At, OnTrack, Unsent
  <2>2. req'[r].about # None => AboutSettled(r)'
    BY <2>1, AboutSettledStep DEF DownloadTrack
  <2>3. req'[r].pc \in {"count", "open"} => req'[r].about # None
    BY <1>3, <2>1 DEF MovedOn, DownloadTrack, At
  <2>4. ASSUME req'[r].status = "ok"
        PROVE  req'[r].got = CopyOf(req'[r].about)
    <3>1. At(r, "open")
      BY <1>3, <2>1, <2>4 DEF MovedOn, OnTrack, Unsent, At
    <3>2. DownloadOpen(r)
      BY <1>3, <3>1 DEF Proceed, SaveCreate, SaveCopy, SavePut, InsertRow,
         Rollback, DownloadCount, DeleteStorage, DeleteRow, ExpireLookup,
         ExpireSet, At
    <3>3. req[r] \in Request /\ Answer(req[r], "ok") \in Request
      BY AnswerType DEF TypeOK, Statuses
    <3>4. req'[r].got = objects[req[r].id] /\ HasObject(req[r].id)
      BY <2>4, <3>2, <3>3, AnswerFields DEF DownloadOpen, TypeOK, Request
    <3>5. AboutSettled(r)
      BY <2>1, <3>1 DEF DownloadTrack, At
    <3> QED BY <2>1, <3>4, <3>5 DEF AboutSettled, Settled, HasObject
  <2> QED BY <2>2, <2>3, <2>4
<1>4. CASE LostIn(r)
  BY <1>4, AboutSettledStep DEF LostIn, DownloadTrack, At
<1> QED BY <1>1, <1>2, <1>3, <1>4, StepShape

LEMMA StepDeleteTrack ==
  ASSUME TypeOK, OnTrack, UniqueIds, RowSettled, DeleteTrack, Next
  PROVE  DeleteTrack'
<1> SUFFICES ASSUME NEW r \in Requests, req'[r].op \in {"delete", "adminDelete"}
             PROVE  /\ req'[r].pc # "done" \/ req'[r].status = "ok"
                         => AboutSettled(r)'
                    /\ req'[r].pc = "delRow" \/ req'[r].status = "ok"
                         => objects'[req'[r].id] = NoObject
                    /\ req'[r].status = "ok" => files'[req'[r].id] = NoRow
  BY DEF DeleteTrack, At, HasObject, HasRow, NoObject, NoRow
<1> DEFINE i == req[r].id
<1>1. CASE req'[r] = req[r]
  <2>1. ~At(r, "start") /\ i \in Ids
    BY <1>1 DEF OnTrack, Unsent, At
  <2>2. ASSUME AboutSettled(r)
        PROVE  /\ AboutSettled(r)'
               /\ ~HasObject(i) => objects'[i] = NoObject
               /\ ~HasRow(i) => files'[i] = NoRow
    <3>1. PICK u \in Requests : SettledAt(u, i)
      BY <2>2 DEF AboutSettled, SettledAt
    <3> HIDE DEF i
    <3>2. ~HasObject(i) => objects'[i] = NoObject
      BY <2>1, <3>1, ObjectStaysGone DEF HasObject, NoObject
    <3>3. ~HasRow(i) => files'[i] = NoRow
      BY <2>1, <3>1, RowStaysGone DEF HasRow, NoRow
    <3> QED BY <1>1, <2>1, <2>2, <3>2, <3>3, AboutSettledStep
  <2> QED BY <1>1, <2>1, <2>2 DEF DeleteTrack, At
<1>2. CASE ArrivedAs(r)
  <2>1. req'[r].status # "ok" /\ req'[r].id \in Ids
    BY <1>2 DEF ArrivedAs
  <2>2. CASE req'[r].pc = "done"
    BY <2>1, <2>2
  <2>3. CASE req'[r].pc = "delStorage" /\ HasRow(req'[r].id)
             /\ req'[r].about = files[req'[r].id].token
    BY <2>1, <2>3, AboutSettledStep
  <2> QED BY <1>2, <2>2, <2>3 DEF ArrivedAs
<1>3. CASE Proceed(r) /\ MovedOn(r)
  <2>1. /\ ~At(r, "start") /\ ~At(r, "done")
        /\ req[r].op \in {"delete", "adminDelete"}
        /\ req[r].status # "ok" /\ req'[r].id = i
        /\ req'[r].about = req[r].about /\ i \in Ids
    BY <1>3 DEF MovedOn, At, OnTrack, Unsent
  <2>2. AboutSettled(r)'
    BY <2>1, AboutSettledStep DEF DeleteTrack
  <2>3. req[r] \in Request
    BY DEF TypeOK
  <2>4. CASE At(r, "delStorage")
    <3>1. DeleteStorage(r)
      BY <1>3, <2>4 DEF Proceed, SaveCreate, SaveCopy, SavePut, InsertRow,
         Rollback, DownloadCount, DownloadOpen, DeleteRow, ExpireLookup,
         ExpireSet, At
    <3>2. PICK err \in BOOLEAN :
            /\ DeleteFile(i, err)
            /\ req' = [req EXCEPT ![r] = IF err THEN Answer(@, "error")
                                         ELSE Goto(@, "delRow")]
      BY <3>1 DEF DeleteStorage
    <3>3. req'[r].status # "ok" /\ (req'[r].pc = "delRow" => ~err)
      BY <2>1, <2>3, <3>2, GotoFields, AnswerFields DEF TypeOK
    <3>4. ~err => objects'[i] = NoObject
      BY <2>1, <3>2 DEF DeleteFile, TypeOK
    <3> QED BY <2>1, <2>2, <3>3, <3>4
  <2>5. CASE At(r, "delRow")
    <3>1. DeleteRow(r)
      BY <1>3, <2>5 DEF Proceed, SaveCreate, SaveCopy, SavePut, InsertRow,
         Rollback, DownloadCount, DownloadOpen, DeleteStorage, ExpireLookup,
         ExpireSet, At
    <3>2. PICK err \in BOOLEAN :
            /\ OnFileDelete(i, err)
            /\ req' = [req EXCEPT ![r] = Answer(@, IF err THEN "error" ELSE "ok")]
      BY <3>1 DEF DeleteRow
    <3>3. req'[r].pc = "done" /\ (req'[r].status = "ok" => ~err)
      BY <2>3, <3>2, AnswerFields DEF TypeOK
    <3>4. ~err => files'[i] = NoRow
      BY <2>1, <3>2 DEF OnFileDelete, TypeOK
    <3>5. objects'[i] = NoObject
      BY <2>1, <2>5, <3>1 DEF DeleteTrack, DeleteRow, HasObject
    <3> QED BY <2>1, <2>2, <3>3, <3>4, <3>5
  <2> QED BY <2>1, <2>4, <2>5 DEF OnTrack, Unsent, At
<1>4. CASE LostIn(r)
  BY <1>4 DEF LostIn
<1> QED BY <1>1, <1>2, <1>3, <1>4, StepShape

\* a cleanup loop adds nothing but expired files to its snapshot
LEMMA CleanerFrame ==
  ASSUME TypeOK, Next, NEW h \in Replicas
  PROVE  /\ cleaner'[h].todo \subseteq cleaner[h].todo \cup ExpiredFiles
         /\ \/ cleaner'[h] = cleaner[h]
            \/ cleaner'[h].pc = "row" => cleaner'[h].at \in cleaner'[h].todo
<1>1. cleaner[h] \in Cleaner
  BY DEF TypeOK
<1>2. CASE \E r \in Requests : Arrive(r) \/ Proceed(r)
  <2>1. UNCHANGED cleaner
    BY <1>2, ArriveType DEF Proceed, SaveCreate, SaveCopy, SavePut, InsertRow,
       Rollback, DownloadCount, DownloadOpen, DeleteStorage, DeleteRow,
       ExpireLookup, ExpireSet
  <2> QED BY <2>1
<1>3. ASSUME NEW g \in Replicas, CycleStart(g)
      PROVE  \/ cleaner'[h] = cleaner[h]
             \/ cleaner'[h].pc = "sweep" /\ cleaner'[h].todo = ExpiredFiles
  BY <1>3 DEF CycleStart, Idle, TypeOK
<1>4. ASSUME NEW g \in Replicas, NEW i \in Ids,
             NEW outcome \in {"ok", "error", "timeout"},
             CleanupStorage(g, i, outcome)
      PROVE  /\ cleaner'[h].todo = cleaner[h].todo
             /\ cleaner'[h] = cleaner[h] \/ cleaner'[h].at \in cleaner'[h].todo
  BY <1>1, <1>4 DEF CleanupStorage, Cleaner, TypeOK
<1>5. ASSUME NEW g \in Replicas, NEW err \in BOOLEAN, CleanupRow(g, err)
      PROVE  /\ cleaner'[h].todo \subseteq cleaner[h].todo
             /\ cleaner'[h] = cleaner[h] \/ cleaner'[h].pc # "row"
  BY <1>1, <1>5 DEF CleanupRow, NextExpired, Idle, TypeOK
<1>6. ASSUME NEW g \in Replicas, Crash(g)
      PROVE  cleaner'[h] = cleaner[h] \/ cleaner'[h] = Idle
  BY <1>6 DEF Crash, TypeOK
<1>7. Tick => cleaner' = cleaner
  BY DEF Tick
<1>8. Idle.todo = {} /\ Idle.pc # "row"
  BY DEF Idle
<1> QED BY <1>2, <1>3, <1>4, <1>5, <1>6, <1>7, <1>8 DEF Next, Step, Cleanup

LEMMA StepCleanupTrack ==
  ASSUME TypeOK, OnTrack, UniqueIds, RowSettled, CleanupTrack, LapsedRows, Next
  PROVE  CleanupTrack'
<1>1. lapsed \subseteq lapsed' /\ lapsed \subseteq Requests
  BY DEF Next, Lapse, TypeOK
<1>2. ASSUME NEW h \in Replicas, NEW i \in cleaner'[h].todo
      PROVE  \E u \in lapsed' : SettledAt(u, i)'
  <2>1. i \in cleaner[h].todo \cup ExpiredFiles
    BY <1>2, CleanerFrame
  <2>2. i \in Ids
    BY <2>1 DEF TypeOK, Cleaner, ExpiredFiles
  <2>3. CASE i \in cleaner[h].todo
    BY <1>1, <2>2, <2>3, SettledStep DEF CleanupTrack
  <2>4. CASE i \in ExpiredFiles
    <3>1. HasRow(i) /\ files[i].token \in lapsed
      BY <2>4 DEF ExpiredFiles, LapsedRows
    <3> QED BY <1>1, <2>2, <3>1, SettledStep DEF RowSettled
  <2> QED BY <2>1, <2>3, <2>4
<1>3. ASSUME NEW h \in Replicas, cleaner'[h].pc = "row"
      PROVE  cleaner'[h].at \in cleaner'[h].todo
  BY <1>3, CleanerFrame DEF CleanupTrack
<1> QED BY <1>2, <1>3 DEF CleanupTrack

LEMMA StepLapsedRows ==
  ASSUME RowSettled', Next
  PROVE  LapsedRows'
<1> SUFFICES ASSUME NEW i \in Ids, HasRow(i)', Stored(files'[i]) < now'
             PROVE  files'[i].token \in lapsed'
  BY DEF LapsedRows, ExpiredFiles, Stored
<1>1. files'[i].token \in Requests
  BY DEF RowSettled
<1> QED BY <1>1 DEF Next, Lapse

LEMMA RowNumbers ==
  ASSUME NoZoneBehind, NEW row \in Row
  PROVE  row.expiration \in Nat /\ row.zone \in Nat
<1>1. row.expiration \in Times
  BY DEF Row
<1>2. row.zone \in Zones \cup {0}
  BY DEF Row
<1>3. \A z \in Zones \cup {0} : z \in Nat
  BY DEF NoZoneBehind
<1>4. row.expiration \in Nat
  BY <1>1
<1>5. row.zone \in Nat
  BY ONLY <1>2, <1>3
<1> QED BY ONLY <1>4, <1>5

LEMMA StepLapsedLate ==
  ASSUME TypeOK', LapsedLate, Next
  PROVE  LapsedLate'
<1> SUFFICES ASSUME NoZoneBehind, NEW u \in lapsed'
             PROVE  u \in expired'
  BY DEF LapsedLate
<1>1. CASE u \in lapsed
  BY <1>1 DEF LapsedLate, Next, Lapse
<1>2. ASSUME NEW i \in Ids, files'[i].token = u, Stored(files'[i]) < now',
             u \in Requests
      PROVE  u \in expired'
  <2>1. files'[i].expiration < now'
    <3>1. files'[i] \in Row /\ now' \in Nat
      BY DEF TypeOK
    <3>2. files'[i].expiration \in Nat /\ files'[i].zone \in Nat
      BY <3>1, RowNumbers
    <3> QED BY <1>2, <3>1, <3>2 DEF Stored
  <2> QED BY <1>2, <2>1 DEF Next, Lapse
<1> QED BY <1>1, <1>2 DEF Next, Lapse

LEMMA DeletionStep ==
  ASSUME TypeOK, OnTrack, Next, NEW u \in Requests, DeletionAsked(u),
         req'[u].id = req[u].id
  PROVE  DeletionAsked(u)'
<1>1. ASSUME NEW r \in Requests, req[r].op \in {"delete", "adminDelete"}
      PROVE  /\ req'[r].op = req[r].op /\ req'[r].about = req[r].about
             /\ req'[r].id = req[r].id
  <2>1. ~At(r, "start")
    BY <1>1 DEF OnTrack, Unsent, At
  <2> QED BY <2>1, StepShape DEF ArrivedAs, MovedOn, LostIn
<1> QED BY <1>1 DEF DeletionAsked

LEMMA DueStep ==
  ASSUME TypeOK, OnTrack, Next, NEW u \in Requests, Due(u),
         req'[u].id = req[u].id
  PROVE  Due(u)'
<1>1. lapsed \subseteq lapsed'
  BY DEF Next, Lapse
<1> QED BY <1>1, DeletionStep DEF Due

\* nobody touches the row or the bytes of a file that is not due
LEMMA KeptWhileNotDue ==
  ASSUME IInv, Next, NEW u \in Acknowledged, ~Due(u)
  PROVE  /\ objects'[req[u].id] = objects[req[u].id]
         /\ files'[req[u].id].token = files[req[u].id].token
<1> USE DEF IInv
<1> DEFINE i == req[u].id
<1>1. u \in Uploads /\ At(u, "done") /\ i \in Ids /\ SettledAt(u, i)
  BY DEF Acknowledged, AckedSettled, SettledAt, Uploads, OnTrack, Unsent, At
<1>2. \A v \in Requests : SettledAt(v, i) => v = u
  BY <1>1 DEF SettledAt, Settled, UniqueIds
<1>3. ~BeingDeleted(i)
  <2>1. ASSUME NEW v \in Uploads, At(v, "rollback"), req[v].id = i
        PROVE  FALSE
    BY <1>1, <2>1 DEF UniqueIds, At
  <2>2. ASSUME NEW r \in Requests, At(r, "delStorage"), req[r].id = i
        PROVE  FALSE
    <3>1. req[r].op \in {"delete", "adminDelete"} /\ AboutSettled(r)
      BY <2>2, OpOfStep DEF DeleteTrack, At
    <3> QED BY <1>2, <2>2, <3>1 DEF AboutSettled, SettledAt, Due, DeletionAsked
  <2>3. ASSUME NEW h \in Replicas, i \in cleaner[h].todo
        PROVE  FALSE
    BY <1>2, <2>3 DEF CleanupTrack, Due, TypeOK
  <2> QED BY <2>1, <2>2, <2>3 DEF BeingDeleted
<1>4. ~RowBeingDeleted(i)
  <2>1. ASSUME NEW r \in Requests, At(r, "delRow"), req[r].id = i
        PROVE  FALSE
    <3>1. req[r].op \in {"delete", "adminDelete"} /\ AboutSettled(r)
      BY <2>1, OpOfStep DEF DeleteTrack, At
    <3> QED BY <1>2, <2>1, <3>1 DEF AboutSettled, SettledAt, Due, DeletionAsked
  <2>2. ASSUME NEW h \in Replicas, cleaner[h].pc = "row", cleaner[h].at = i
        PROVE  FALSE
    BY <1>2, <2>2 DEF CleanupTrack, Due, TypeOK
  <2> QED BY <2>1, <2>2 DEF RowBeingDeleted
<1>5. ~BeingWritten(i) /\ ~RowInserted(i)
  BY <1>1 DEF BeingWritten, RowInserted, UniqueIds, At
<1>6. objects'[i] = objects[i]
  BY <1>1, <1>3, <1>5, ObjectFrame
<1>7. files'[i].token = files[i].token
  BY <1>1, <1>4, <1>5, RowFrame
<1> QED BY <1>6, <1>7

\* the step that answers an upload 200 puts its row in place beside its bytes
LEMMA AnsweredIsAvailable ==
  ASSUME IInv, Next, NEW u \in Acknowledged', u \notin Acknowledged
  PROVE  InsertRow(u) /\ Available(u)' /\ Settled(u)'
<1> USE DEF IInv
<1> DEFINE i == req[u].id
<1>1. u \in Requests /\ req'[u].op = "upload" /\ req'[u].status = "ok"
  BY DEF Acknowledged, Uploads
<1>2. Proceed(u) /\ MovedOn(u)
  BY <1>1, StepShape DEF Acknowledged, Uploads, ArrivedAs, LostIn
<1>3. /\ u \in Uploads /\ i \in Ids /\ req'[u].id = i
      /\ req[u].status # "ok" /\ At(u, "insert") /\ req'[u].pc = "done"
  BY <1>1, <1>2 DEF MovedOn, OnTrack, Unsent, Uploads, At, Acknowledged
<1>4. InsertRow(u)
  BY <1>2, <1>3 DEF Proceed, SaveCreate, SaveCopy, SavePut, Rollback,
     DownloadCount, DownloadOpen, DeleteStorage, DeleteRow, ExpireLookup,
     ExpireSet, At
<1>5. req[u] \in Request
  BY <1>1 DEF TypeOK
<1>6. OnFileUpload(u, FALSE)
  <2> PICK err \in BOOLEAN :
          /\ OnFileUpload(u, err)
          /\ req' = [req EXCEPT ![u] = IF err THEN Goto(@, "rollback")
                                       ELSE Answer(@, "ok")]
    BY <1>4 DEF InsertRow
  <2>1. ~err
    BY <1>1, <1>3, <1>5, GotoFields DEF TypeOK
  <2> QED BY <2>1
<1>7. files'[i].token = u
  BY <1>3, <1>6, NewRowType DEF OnFileUpload, TypeOK, Uploads
<1>8. objects'[i] = CopyOf(u)
  BY <1>3, <1>4 DEF InsertRow, UploadObject
<1> QED
  BY <1>1, <1>3, <1>4, <1>7, <1>8 DEF Available, CopyOf, Settled, Uploads

\* an upload that was answered 200 stays answered, with the same id
LEMMA AckedStep ==
  ASSUME TypeOK, OnTrack, Next, NEW u \in Acknowledged
  PROVE  req'[u] = req[u] /\ u \in Acknowledged'
<1>1. u \in Requests /\ At(u, "done")
  BY DEF Acknowledged, Uploads, OnTrack, Unsent
<1>2. req'[u] = req[u]
  BY <1>1, StepShape DEF ArrivedAs, MovedOn, LostIn, At
<1> QED BY <1>2 DEF Acknowledged, Uploads

LEMMA StepAckedSettled ==
  ASSUME IInv, Next
  PROVE  AckedSettled'
<1> SUFFICES ASSUME NEW u \in Acknowledged' PROVE Settled(u)'
  BY DEF AckedSettled
<1>1. CASE u \in Acknowledged
  <2>1. SettledAt(u, req[u].id) /\ req[u].id \in Ids /\ u \in Requests
    BY <1>1 DEF IInv, AckedSettled, SettledAt, Settled, Uploads, OnTrack,
       Unsent, Acknowledged
  <2> QED BY <2>1, SettledStep DEF IInv, SettledAt
<1> QED BY <1>1, AnsweredIsAvailable

LEMMA StepKeptUntilDue ==
  ASSUME IInv, Next
  PROVE  KeptUntilDue'
<1> USE DEF IInv
<1> SUFFICES ASSUME NEW u \in Acknowledged' PROVE Due(u)' \/ Available(u)'
  BY DEF KeptUntilDue
<1>1. CASE u \in Acknowledged /\ Due(u)
  BY <1>1, AckedStep, DueStep DEF Acknowledged, Uploads
<1>2. CASE u \in Acknowledged /\ ~Due(u)
  <2>1. Available(u)
    BY <1>2 DEF KeptUntilDue
  <2> QED BY <1>2, <2>1, AckedStep, KeptWhileNotDue DEF Available, CopyOf
<1> QED BY <1>1, <1>2, AnsweredIsAvailable

-----------------------------------------------------------------------------
(* The invariant holds in every behaviour. *)

LEMMA InitIInv == Init => IInv
<1> SUFFICES ASSUME Init PROVE IInv
  OBVIOUS
<1>1. TypeOK
  BY InitType
<1>2. /\ \A r \in Requests : req[r] = Unsent
      /\ \A i \in Ids : ~HasRow(i)
      /\ \A h \in Replicas : cleaner[h] = Idle
  BY DEF Init, HasRow
<1>3. Uploads = {} /\ Acknowledged = {}
  BY <1>2 DEF Uploads, Acknowledged, Unsent
<1>4. OnTrack /\ DownloadTrack /\ DeleteTrack
  BY <1>2 DEF OnTrack, DownloadTrack, DeleteTrack, Unsent
<1>5. UniqueIds /\ UploadObject /\ AckedSettled /\ KeptUntilDue
  BY <1>3 DEF UniqueIds, UploadObject, AckedSettled, KeptUntilDue
<1>6. RowSettled /\ LapsedRows /\ LapsedLate
  BY <1>2 DEF RowSettled, LapsedRows, ExpiredFiles, LapsedLate, Init
<1>7. CleanupTrack
  BY <1>2 DEF CleanupTrack, Idle
<1> QED BY <1>1, <1>4, <1>5, <1>6, <1>7 DEF IInv

LEMMA NextIInv ==
  ASSUME FreshIds, IInv, Next
  PROVE  IInv'
<1> USE DEF IInv
<1>1. RowSettled'
  BY StepRowSettled
<1> QED
  BY <1>1, StepType, StepOnTrack, StepUniqueIds, StepUploadObject,
     StepDownloadTrack, StepDeleteTrack, StepCleanupTrack, StepLapsedRows,
     StepLapsedLate, StepAckedSettled, StepKeptUntilDue

LEMMA StutterIInv ==
  ASSUME IInv, UNCHANGED vars
  PROVE  IInv'
<1> USE DEF vars
<1>1. TypeOK' /\ OnTrack' /\ UniqueIds' /\ LapsedRows' /\ LapsedLate'
  BY DEF IInv, TypeOK, OnTrack, UniqueIds, Uploads, LapsedRows, ExpiredFiles,
     LapsedLate, HasRow, At
<1>2. \A u \in Requests : Settled(u) => Settled(u)'
  BY DEF Settled, Uploads, CopyOf, NoObject
<1>3. UploadObject' /\ AckedSettled'
  BY <1>2 DEF IInv, UploadObject, AckedSettled, Acknowledged, Uploads, At, CopyOf
<1>4. RowSettled' /\ CleanupTrack'
  BY <1>2 DEF IInv, RowSettled, CleanupTrack, SettledAt, Settled, Uploads,
     HasRow, TypeOK
<1>5. \A r \in Requests : AboutSettled(r) => AboutSettled(r)'
  BY <1>2 DEF AboutSettled
<1>6. DownloadTrack' /\ DeleteTrack'
  BY <1>5 DEF IInv, DownloadTrack, DeleteTrack, CopyOf, At, HasObject, HasRow
<1>7. KeptUntilDue'
  BY DEF IInv, KeptUntilDue, Acknowledged, Uploads, Due, DeletionAsked,
     Available, CopyOf
<1> QED BY <1>1, <1>3, <1>4, <1>6, <1>7 DEF IInv

\* The inductive invariant: with ids that do not repeat, it holds in every
\* state of every behaviour of the handlers and the cleanup loops.
THEOREM InductiveInvariant == FreshIds => (Spec => []IInv)
<1> SUFFICES ASSUME FreshIds PROVE Spec => []IInv
  OBVIOUS
<1>1. IInv /\ [Next]_vars => IInv'
  BY NextIInv, StutterIInv
<1> QED BY InitIInv, <1>1, PTL DEF Spec

\* Type correctness of the two stores, the requests and the cleanup loops.
THEOREM TypeCorrect == FreshIds => (Spec => []TypeOK)
<1>1. IInv => TypeOK
  BY DEF IInv
<1> QED BY <1>1, InductiveInvariant, PTL

\* A file whose upload was answered 200 (processUpload) keeps its row and its
\* bytes until it expires or is deleted by somebody entitled to, whatever the
\* other handlers, the cleanup loops, failures and crashes do meanwhile: if no
\* wall clock that GetExpiredFiles compares is behind the database's UTC.
THEOREM AcknowledgedFilesAreKept ==
  FreshIds /\ NoZoneBehind => (Spec => []AckedFileKept)
<1> SUFFICES ASSUME FreshIds, NoZoneBehind PROVE Spec => []AckedFileKept
  OBVIOUS
<1>1. IInv => AckedFileKept
  BY DEF IInv, LapsedLate, KeptUntilDue, Due, AckedFileKept, Ended
<1>2. Spec => []IInv
  BY InductiveInvariant
<1> QED BY <1>1, <1>2, PTL

\* A download that is served (Download, then Open) carries the bytes of the
\* upload whose row it read, complete and unmixed.
THEOREM DownloadsServeTheirUpload == FreshIds => (Spec => []DownloadIsUpload)
<1>1. IInv => DownloadIsUpload
  BY DEF IInv, DownloadTrack, DownloadIsUpload
<1> QED BY <1>1, InductiveInvariant, PTL

\* After a delete answered 204 (deleteFile) the row and the bytes are gone, and
\* no handler in flight brings either back.
THEOREM DeletedFilesAreGone == FreshIds => (Spec => []DeletedIsGone)
<1>1. IInv => DeletedIsGone
  BY DEF IInv, DeleteTrack, DeletedIsGone
<1> QED BY <1>1, InductiveInvariant, PTL

-----------------------------------------------------------------------------
(* Bytes without a row.  The object store does what it is asked; the       *)
(* database may fail, a cleanup may run out of time, a replica may stop.   *)

NoLoss == Faults \subseteq {"database", "timeout", "crash"}

\* upload u has bytes in the store and no row yet, or was lost in that state
Unrecorded(u) ==
    req[u].pc \in {"copy", "insert", "rollback"} \/ req[u].status = "lost"

\* a delete that the object store reports as failed has been carried out
DeletesWork == "storage" \notin Faults

\* a cleanup loop that may delete the row has seen the object go
RowTrack ==
    \A h \in Replicas :
        cleaner[h].pc = "row" /\ cleaner[h].storage # "timeout"
            => ~HasObject(cleaner[h].at)

OrphanInv == IInv /\ RowTrack /\ NoOrphans

\* whoever has written the bytes goes on until the row is there or they are
\* gone, or is lost
LEMMA WriterStep ==
  ASSUME NoLoss, IInv, Next, NEW u \in Uploads, NEW i \in Ids, req[u].id = i,
         Unrecorded(u) \/ (At(u, "save") /\ req'[u] # req[u])
  PROVE  \/ /\ u \in Uploads' /\ req'[u].id = i
            /\ Unrecorded(u)'
         \/ HasRow(i)'
         \/ ~HasObject(i)'
<1> USE DEF IInv, Unrecorded
<1>1. CASE req'[u] = req[u]
  BY <1>1 DEF Uploads, At
<1>2. CASE LostIn(u)
  BY <1>2 DEF LostIn, Uploads
<1>3. CASE req'[u] # req[u] /\ ~LostIn(u)
  <2>1. Proceed(u) /\ MovedOn(u) /\ req[u] \in Request
    BY <1>3, StepShape DEF ArrivedAs, OnTrack, Unsent, Uploads, At, TypeOK
  <2>2. req'[u].op = "upload" /\ req'[u].id = i /\ u \in Requests
    BY <2>1 DEF MovedOn, Uploads
  <2>3. CASE At(u, "save")
    <3>1. SaveCreate(u) \/ SavePut(u)
      BY <2>1, <2>3 DEF Proceed, SaveCopy, InsertRow, Rollback, DownloadCount,
         DownloadOpen, DeleteStorage, DeleteRow, ExpireLookup, ExpireSet, At
    <3>2. req'[u].pc \in {"copy", "insert"}
      BY <2>1, <2>2, <3>1, GotoFields DEF SaveCreate, SavePut, NoLoss, TypeOK
    <3> QED BY <2>2, <3>2 DEF Uploads
  <2>4. CASE At(u, "copy")
    <3>1. SaveCopy(u)
      BY <2>1, <2>4 DEF Proceed, SaveCreate, SavePut, InsertRow, Rollback,
         DownloadCount, DownloadOpen, DeleteStorage, DeleteRow, ExpireLookup,
         ExpireSet, At
    <3>2. req'[u].pc = "insert"
      BY <2>1, <2>2, <3>1, GotoFields DEF SaveCopy, NoLoss, TypeOK
    <3> QED BY <2>2, <3>2 DEF Uploads
  <2>5. CASE At(u, "insert")
    <3>1. InsertRow(u)
      BY <2>1, <2>5 DEF Proceed, SaveCreate, SaveCopy, SavePut, Rollback,
         DownloadCount, DownloadOpen, DeleteStorage, DeleteRow, ExpireLookup,
         ExpireSet, At
    <3>2. req'[u].pc = "rollback" \/ req'[u].status = "ok"
      BY <2>1, <2>2, <3>1, GotoFields, AnswerFields DEF InsertRow, TypeOK
    <3>3. CASE req'[u].status = "ok"
      <4>1. u \in Acknowledged' /\ u \notin Acknowledged
        BY <2>2, <2>5, <3>3 DEF Acknowledged, Uploads, OnTrack, Unsent, At
      <4>2. Available(u)'
        BY <4>1, AnsweredIsAvailable
      <4> QED BY <2>2, <4>2 DEF Available, HasRow, NoRow
    <3> QED BY <2>2, <3>2, <3>3 DEF Uploads
  <2>6. CASE At(u, "rollback")
    <3>1. Rollback(u)
      BY <2>1, <2>6 DEF Proceed, SaveCreate, SaveCopy, SavePut, InsertRow,
         DownloadCount, DownloadOpen, DeleteStorage, DeleteRow, ExpireLookup,
         ExpireSet, At
    <3>2. objects'[i] = NoObject
      BY <2>2, <3>1 DEF Rollback, DeleteFile, NoLoss, TypeOK
    <3> QED BY <3>2 DEF HasObject, NoObject
  <2>7. At(u, "save") \/ At(u, "copy") \/ At(u, "insert") \/ At(u, "rollback")
    BY <2>1 DEF MovedOn, OnTrack, Unsent, Uploads, At
  <2> QED BY <2>3, <2>4, <2>5, <2>6, <2>7
<1> QED BY <1>1, <1>2, <1>3

LEMMA StepRowTrack ==
  ASSUME DeletesWork, IInv, RowTrack, Next
  PROVE  RowTrack'
<1> USE DEF IInv
<1> SUFFICES ASSUME NEW h \in Replicas, cleaner'[h].pc = "row",
                    cleaner'[h].storage # "timeout"
             PROVE  objects'[cleaner'[h].at] = NoObject
  BY DEF RowTrack, HasObject, NoObject
<1>1. CASE cleaner'[h] = cleaner[h]
  <2>1. PICK i \in Ids : i = cleaner[h].at /\ i \in cleaner[h].todo
    BY <1>1 DEF CleanupTrack, TypeOK, Cleaner
  <2>2. PICK u \in Requests : SettledAt(u, i)
    BY <2>1 DEF CleanupTrack, TypeOK
  <2>3. ~HasObject(i)
    BY <1>1, <2>1 DEF RowTrack
  <2>4. ~HasObject(i)'
    BY <2>2, <2>3, ObjectStaysGone
  <2> QED BY <1>1, <2>1, <2>4 DEF HasObject, NoObject
<1>2. CASE cleaner'[h] # cleaner[h]
  <2>1. ASSUME NEW g \in Replicas, NEW i \in Ids,
               NEW outcome \in {"ok", "error", "timeout"},
               CleanupStorage(g, i, outcome)
        PROVE  objects'[cleaner'[h].at] = NoObject
    <3>1. g = h /\ cleaner[h] \in Cleaner
      BY <1>2, <2>1 DEF CleanupStorage, TypeOK
    <3>2. cleaner'[h].at = i /\ outcome # "timeout"
      BY <2>1, <3>1 DEF CleanupStorage, Cleaner, TypeOK
    <3>3. DeleteFile(i, outcome = "error")
      BY <2>1, <3>2 DEF CleanupStorage
    <3> QED BY <3>2, <3>3 DEF DeleteFile, DeletesWork, TypeOK
  <2>2. ASSUME NEW g \in Replicas, NEW err \in BOOLEAN,
               CycleStart(g) \/ CleanupRow(g, err) \/ Crash(g)
        PROVE  FALSE
    <3>1. NextExpired(cleaner[h]).pc # "row" /\ Idle.pc # "row"
      BY DEF NextExpired, Idle
    <3>2. [Idle EXCEPT !.pc = "sweep", !.todo = ExpiredFiles].pc # "row"
      BY DEF Idle
    <3> QED BY <1>2, <2>2, <3>1, <3>2 DEF CycleStart, CleanupRow, Crash, TypeOK
  <2>3. ASSUME NEW r \in Requests, Arrive(r) \/ Proceed(r)
        PROVE  FALSE
    <3>1. cleaner' = cleaner
      BY <2>3, ArriveType, ProceedType
    <3> QED BY <1>2, <3>1
  <2>4. ~Tick
    BY <1>2 DEF Tick
  <2> QED BY <2>1, <2>2, <2>3, <2>4 DEF Next, Step, Cleanup
<1> QED BY <1>1, <1>2

LEMMA StepNoOrphans ==
  ASSUME NoLoss, IInv, RowTrack, NoOrphans, Next
  PROVE  NoOrphans'
<1> USE DEF IInv
<1> SUFFICES ASSUME NEW i \in Ids, HasObject(i)', ~HasRow(i)'
             PROVE  \E u \in Requests :
                       /\ req'[u].op = "upload" /\ req'[u].id = i
                       /\ Unrecorded(u)'
  BY DEF NoOrphans, Uploads, Unrecorded
<1>1. CASE BeingWritten(i)
  <2> PICK u \in Uploads : /\ req[u].id = i /\ req'[u] # req[u]
                           /\ At(u, "save") \/ At(u, "copy")
    BY <1>1 DEF BeingWritten, At
  <2>1. Unrecorded(u) \/ (At(u, "save") /\ req'[u] # req[u])
    BY DEF Unrecorded, At
  <2> QED BY <2>1, WriterStep DEF Uploads
<1>2. CASE \E u \in Uploads : req[u].id = i /\ Unrecorded(u)
  <2> PICK u \in Uploads : req[u].id = i /\ Unrecorded(u)
    BY <1>2
  <2>1. Unrecorded(u) \/ (At(u, "save") /\ req'[u] # req[u])
    BY DEF Unrecorded, At
  <2> QED BY <2>1, WriterStep DEF Uploads
<1>3. CASE HasRow(i) /\ HasObject(i)
  <2>1. files'[i] = NoRow /\ files[i] # NoRow
    BY <1>3 DEF HasRow, NoRow
  <2>2. ASSUME NEW r \in Requests, Proceed(r)
        PROVE  FALSE
    <3>1. DeleteRow(r) /\ req[r].id = i
      <4>1. /\ ~SaveCreate(r) /\ ~SaveCopy(r) /\ ~SavePut(r) /\ ~Rollback(r)
            /\ ~DownloadOpen(r) /\ ~DeleteStorage(r) /\ ~ExpireLookup(r)
        BY <2>1 DEF SaveCreate, SaveCopy, SavePut, Rollback, DownloadOpen,
           DeleteStorage, ExpireLookup
      <4>2. files[i] \in Row /\ files[i].token # None /\ NoRow.token = None
        BY <1>3 DEF TypeOK, RowSettled, NoRow
      <4>3. ~InsertRow(r)
        BY <2>1, NewRowType DEF InsertRow, OnFileUpload, TypeOK
      <4>4. ~DownloadCount(r)
        BY <2>1, <4>2 DEF DownloadCount, OnFileDownload, TypeOK, Row
      <4>5. ~ExpireSet(r)
        <5>1. ASSUME ExpireSet(r) PROVE req[r].id \in Ids
          BY <5>1 DEF ExpireSet, OnTrack, Unsent, At
        <5>2. req[r].expiration \in Times
          BY DEF TypeOK, Request
        <5> QED BY <2>1, <4>2, <5>1, <5>2, SetExpirationType DEF ExpireSet, TypeOK
      <4> QED BY <2>1, <2>2, <4>1, <4>3, <4>4, <4>5
              DEF Proceed, DeleteRow, OnFileDelete, TypeOK
    <3> QED BY <1>3, <3>1, OpOfStep DEF DeleteRow, DeleteTrack, At
  <2>3. ASSUME NEW h \in Replicas, Cleanup(h)
        PROVE  FALSE
    <3>1. PICK err \in BOOLEAN : CleanupRow(h, err)
      BY <2>1, <2>3 DEF Cleanup, CycleStart, CleanupStorage
    <3>2. cleaner[h].at = i /\ cleaner[h].storage # "timeout"
      BY <2>1, <3>1 DEF CleanupRow, OnFileDelete, TypeOK
    <3> QED BY <1>3, <3>1, <3>2 DEF CleanupRow, RowTrack
  <2>4. ASSUME NEW r \in Requests, Arrive(r) PROVE FALSE
    BY <2>1, <2>4, ArriveType
  <2>5. ASSUME NEW h \in Replicas, Crash(h) PROVE FALSE
    BY <2>1, <2>5 DEF Crash
  <2>6. ~Tick
    BY <2>1 DEF Tick
  <2> QED BY <2>2, <2>3, <2>4, <2>5, <2>6 DEF Next, Step
<1>4. HasObject(i) \/ BeingWritten(i)
  BY ObjectFrame DEF HasObject, NoObject
<1> QED BY <1>1, <1>2, <1>3, <1>4 DEF NoOrphans, Unrecorded

\* Bytes without a row, which no cleanup cycle can find (GetExpiredFiles reads
\* rows), exist only while their upload is between Save and OnFileUpload or its
\* rollback, or after a crash there, whatever the database and the cleanup's
\* 30 s context do.
THEOREM NothingIsOrphaned == FreshIds /\ NoLoss => (Spec => []NoOrphans)
<1> SUFFICES ASSUME FreshIds, NoLoss PROVE Spec => []NoOrphans
  OBVIOUS
<1>1. Init => OrphanInv
  <2> SUFFICES ASSUME Init PROVE RowTrack /\ NoOrphans
    BY InitIInv DEF OrphanInv
  <2> QED BY DEF Init, RowTrack, NoOrphans, HasObject, Idle
<1>2. OrphanInv /\ [Next]_vars => OrphanInv'
  <2>1. CASE Next
    BY <2>1, NextIInv, StepRowTrack, StepNoOrphans DEF OrphanInv, NoLoss, DeletesWork
  <2>2. ASSUME OrphanInv, UNCHANGED vars
        PROVE  RowTrack' /\ NoOrphans'
    BY <2>2 DEF OrphanInv, vars, RowTrack, NoOrphans, HasObject, HasRow, Uploads
  <2> QED BY <2>1, <2>2, StutterIInv DEF OrphanInv
<1>3. OrphanInv => NoOrphans
  BY DEF OrphanInv
<1> QED BY <1>1, <1>2, <1>3, PTL DEF Spec

\* The cleanup loop never deletes the row of an object it has left behind, if no
\* delete of the object store fails without effect: neither a lost reply, nor
\* the end of its context, nor a crash between the two deletes, makes it do so.
THEOREM CleanupsRemoveBoth == FreshIds /\ DeletesWork => (Spec => CleanupRemovesBoth)
<1> SUFFICES ASSUME FreshIds, DeletesWork PROVE Spec => CleanupRemovesBoth
  OBVIOUS
<1>1. Init => RowTrack
  BY DEF Init, RowTrack, Idle
<1>2. IInv /\ RowTrack /\ [Next]_vars => RowTrack'
  <2>1. RowTrack /\ UNCHANGED vars => RowTrack'
    BY DEF vars, RowTrack, HasObject
  <2> QED BY <2>1, StepRowTrack
<1>3. IInv /\ RowTrack /\ [Next]_vars
        => [\A i \in Ids : cleaner' # cleaner /\ HasRow(i) /\ ~HasRow(i)'
              => ~HasObject(i)']_vars
  <2> SUFFICES ASSUME IInv, RowTrack, Next, NEW i \in Ids,
                      cleaner' # cleaner, HasRow(i), ~HasRow(i)'
               PROVE  ~HasObject(i)'
    OBVIOUS
  <2>1. PICK h \in Replicas, err \in BOOLEAN : CleanupRow(h, err)
    <3>1. files' # files
      BY DEF HasRow
    <3>2. ASSUME NEW r \in Requests, Arrive(r) \/ Proceed(r)
          PROVE  FALSE
      BY <3>2, ArriveType, ProceedType DEF IInv
    <3>3. ~Tick /\ \A h \in Replicas : ~Crash(h)
      BY <3>1 DEF Tick, Crash
    <3>4. ASSUME NEW h \in Replicas, NEW j \in Ids,
                 NEW outcome \in {"ok", "error", "timeout"}
          PROVE  ~CycleStart(h) /\ ~CleanupStorage(h, j, outcome)
      BY <3>1 DEF CycleStart, CleanupStorage
    <3> QED BY <3>2, <3>3, <3>4 DEF Next, Step, Cleanup
  <2>2. cleaner[h].storage # "timeout" /\ cleaner[h].pc = "row"
    BY <2>1 DEF CleanupRow, HasRow
  <2>3. cleaner[h].at = i
    BY <2>1, <2>2 DEF CleanupRow, OnFileDelete, HasRow, IInv, TypeOK
  <2>4. objects' = objects
    BY <2>1 DEF CleanupRow
  <2> QED BY <2>2, <2>3, <2>4 DEF RowTrack, HasObject
<1>4. Spec => []IInv
  BY InductiveInvariant
<1> QED BY <1>1, <1>2, <1>3, <1>4, PTL DEF Spec, CleanupRemovesBoth
=============================================================================
