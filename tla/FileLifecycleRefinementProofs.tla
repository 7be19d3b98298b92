-------------------- MODULE FileLifecycleRefinementProofs --------------------
(***************************************************************************)
(* FileLifecycle implements ShareService for every value of the constants, *)
(* provided that ids do not repeat and that no wall clock is behind the    *)
(* database's, which would have the cleanup withdraw shares too early.     *)
(*                                                                         *)
(* A step of a handler or of a cleanup loop touches one key of the stores  *)
(* and one request, hence at most one share or one reader.                 *)
(***************************************************************************)
EXTENDS FileLifecycleProofs, FileLifecycleRefinement

USE LifecycleAssumption

-----------------------------------------------------------------------------
(* Release: what has ended stays ended. *)

LEMMA ReleasedStep ==
  ASSUME TypeOK, OnTrack, Next
  PROVE  Abstract!Release
<1>1. expired \subseteq expired'
  BY DEF Next, Lapse
<1>2. ASSUME NEW u \in Requests, DeletionAsked(u)
      PROVE  DeletionAsked(u)'
  <2>1. req'[u].id = req[u].id
    <3> SUFFICES ASSUME At(u, "start") PROVE FALSE
      BY StepShape DEF ArrivedAs, MovedOn, LostIn
    <3> QED BY <1>2 DEF DeletionAsked, OnTrack, Unsent, At
  <2> QED BY <1>2, <2>1, DeletionStep
<1> QED BY <1>1, <1>2 DEF Abstract!Release, shareReleased, Ended

-----------------------------------------------------------------------------
(* Shares: what a step that leaves the answers to uploads alone does.      *)

\* a file whose row or bytes have gone never comes back
LEMMA WithdrawnStays ==
  ASSUME IInv, Next, NEW u \in Acknowledged, ~Available(u)
  PROVE  ~Available(u)'
<1> USE DEF IInv
<1> DEFINE i == req[u].id
<1>1. /\ u \in Requests /\ i \in Ids /\ SettledAt(u, i) /\ u \in Uploads
      /\ req'[u] = req[u]
  BY AckedStep DEF Acknowledged, Uploads, AckedSettled, SettledAt, OnTrack, Unsent
<1>2. HasRow(i) => files[i].token = u
  BY <1>1 DEF RowSettled, SettledAt, Settled, UniqueIds
<1>3. HasObject(i) => objects[i] = CopyOf(u)
  BY <1>1 DEF SettledAt, Settled, HasObject
<1>4. ~HasRow(i) \/ ~HasObject(i)
  BY <1>2, <1>3 DEF Available
<1>5. ~HasRow(i)' \/ ~HasObject(i)'
  BY <1>1, <1>4, RowStaysGone, ObjectStaysGone
<1>6. ASSUME ~HasRow(i)' PROVE files'[i].token # u
  BY <1>1, <1>6 DEF HasRow, NoRow
<1>7. ASSUME ~HasObject(i)' PROVE objects'[i] # CopyOf(u)
  BY <1>1, <1>7 DEF HasObject, NoObject, CopyOf
<1> QED BY <1>1, <1>5, <1>6, <1>7 DEF Available, CopyOf

\* a step that leaves the tokens, the bytes and the answers alone
LEMMA KeysFrame ==
  ASSUME IInv, Next, Acknowledged' = Acknowledged,
         \A i \in Ids : /\ objects'[i] = objects[i]
                        /\ files'[i].token = files[i].token
  PROVE  shareState' = shareState
<1>1. ASSUME NEW u \in Acknowledged
      PROVE  Available(u)' <=> Available(u)
  <2>1. req[u].id \in Ids /\ req'[u] = req[u]
    BY AckedStep DEF IInv, Acknowledged, Uploads, OnTrack, Unsent
  <2> QED BY <2>1 DEF Available, CopyOf
<1> QED BY <1>1 DEF shareState

\* a step within one key withdraws at most the share that has the key
LEMMA OneKeyStep ==
  ASSUME NoZoneBehind, IInv, Next, Acknowledged' = Acknowledged, NEW j,
         \A i \in Ids \ {j} : /\ objects'[i] = objects[i]
                              /\ files'[i].token = files[i].token
  PROVE  \/ shareState' = shareState
         \/ \E u \in Requests :
               /\ shareState[u] = "shared"
               /\ u \in shareReleased
               /\ shareState' = [shareState EXCEPT ![u] = "withdrawn"]
<1>1. ASSUME NEW u \in Acknowledged
      PROVE  /\ u \in Requests /\ u \in Uploads /\ req[u].id \in Ids
             /\ req'[u] = req[u]
             /\ req[u].id # j => (Available(u)' <=> Available(u))
             /\ ~Available(u) => ~Available(u)'
             /\ ~Ended(u) => Available(u)'
  <2>1. u \in Uploads /\ req[u].id \in Ids /\ req'[u] = req[u]
    BY AckedStep DEF IInv, Acknowledged, Uploads, OnTrack, Unsent
  <2>2. req[u].id # j => (Available(u)' <=> Available(u))
    BY <2>1 DEF Available, CopyOf
  <2>3. ASSUME ~Ended(u) PROVE Available(u)'
    <3>1. ~Due(u)
      BY <2>3 DEF IInv, LapsedLate, Due, Ended
    <3> QED BY <2>1, <3>1, KeptWhileNotDue DEF IInv, KeptUntilDue, Available, CopyOf
  <2> QED BY <2>1, <2>2, <2>3, WithdrawnStays DEF Uploads
<1>2. CASE \A u \in Acknowledged : Available(u)' <=> Available(u)
  BY <1>2 DEF shareState
<1>3. ASSUME NEW u \in Acknowledged, Available(u)' # Available(u)
      PROVE  /\ shareState[u] = "shared"
             /\ u \in shareReleased
             /\ shareState' = [shareState EXCEPT ![u] = "withdrawn"]
  <2>1. req[u].id = j /\ Available(u) /\ ~Available(u)' /\ Ended(u)
    BY <1>1, <1>3 DEF Available
  <2>2. \A v \in Acknowledged : v # u => (Available(v)' <=> Available(v))
    BY <1>1, <2>1 DEF IInv, UniqueIds
  <2>3. u \in Requests
    BY <1>1
  <2> QED BY <2>1, <2>2, <2>3 DEF shareState, shareReleased
<1> QED BY <1>1, <1>2, <1>3 DEF Available

-----------------------------------------------------------------------------
(* Readers. *)

\* what a reader sees depends on its request alone, as long as it does not
\* read of an upload that is being answered
LEMMA ReaderFrame ==
  ASSUME IInv, IInv', Next, NEW r \in Requests,
         \/ req'[r] = req[r]
         \/ /\ req'[r].op = req[r].op
            /\ req'[r].about = req[r].about
            /\ gotten(r)' = gotten(r)
  PROVE  shareReading'[r] = shareReading[r]
<1>1. /\ req'[r].op = req[r].op
      /\ req'[r].about = req[r].about
      /\ gotten(r)' = gotten(r)
  BY DEF gotten, CopyOf
<1>2. ASSUME req[r].op = "download"
      PROVE  req[r].about \in Acknowledged' <=> req[r].about \in Acknowledged
  <2>1. CASE req[r].about = None
    BY <2>1 DEF Acknowledged, Uploads
  <2>2. CASE req[r].about # None
    <3>1. Settled(req[r].about)
      BY <1>2, <2>2 DEF IInv, DownloadTrack, AboutSettled
    <3>2. ~InsertRow(req[r].about)
      BY <3>1 DEF Settled, InsertRow, At
    <3> QED BY <3>2, AnsweredIsAvailable, AckedStep DEF IInv
  <2> QED BY <2>1, <2>2
<1> QED BY <1>1, <1>2 DEF shareReading

LEMMA ReadersFrame ==
  ASSUME \A r \in Requests : shareReading'[r] = shareReading[r]
  PROVE  shareReading' = shareReading
  BY DEF shareReading

\* one reader moves
LEMMA OneReader ==
  ASSUME NEW r \in Requests, NEW x,
         \A q \in Requests : q # r => shareReading'[q] = shareReading[q],
         shareReading'[r] = x
  PROVE  shareReading' = [shareReading EXCEPT ![r] = x]
  BY DEF shareReading

-----------------------------------------------------------------------------
(* Every step of the handlers and the loops is one of ShareService's.      *)

LEMMA ArriveShares ==
  ASSUME IInv, IInv', Next, NEW r \in Requests, Arrive(r)
  PROVE  Abstract!ShareNext
<1> USE DEF IInv
<1>1. /\ ArrivedAs(r) /\ req[r] = Unsent
      /\ UNCHANGED <<files, objects>>
      /\ req'[r].status # "ok"
      /\ \A q \in Requests : q # r => req'[q] = req[q]
  BY ArriveShape, ArriveType DEF ArrivedAs, OnTrack, At
<1>2. Acknowledged' = Acknowledged
  BY <1>1 DEF Acknowledged, Uploads, Unsent
<1>3. shareState' = shareState
  BY <1>1, <1>2, KeysFrame
<1>4. \A q \in Requests : q # r => shareReading'[q] = shareReading[q]
  BY <1>1, ReaderFrame
<1>5. shareReading[r] = Abstract!NotReading
  BY <1>1 DEF shareReading, Unsent, Abstract!NotReading
<1>6. CASE /\ req'[r].op = "download" /\ req'[r].pc = "count"
           /\ req'[r].about \in Acknowledged
  <2> DEFINE u == req'[r].about
  <2>1. req'[r].status = "none"
    BY <1>1, <1>6 DEF ArrivedAs
  <2>2. shareReading'[r] = [file |-> u, got |-> "nothing"]
    BY <1>2, <1>6, <2>1 DEF shareReading, gotten
  <2>3. shareState[u] # "none" /\ u \in Requests
    BY <1>6 DEF shareState, Acknowledged, Uploads
  <2>4. Abstract!Find(r, u)
    BY <1>3, <1>4, <1>5, <2>2, <2>3, OneReader DEF Abstract!Find
  <2> QED BY <2>3, <2>4, ReleasedStep DEF Abstract!ShareNext
<1>7. CASE ~(/\ req'[r].op = "download" /\ req'[r].pc = "count"
             /\ req'[r].about \in Acknowledged)
  <2>1. ~(req'[r].op = "download" /\ req'[r].about \in Acknowledged)
    BY <1>1, <1>7 DEF ArrivedAs, Acknowledged, Uploads
  <2>2. shareReading'[r] = shareReading[r]
    BY <1>2, <1>5, <2>1 DEF shareReading, Abstract!NotReading
  <2> QED BY <1>3, <1>4, <2>2, ReadersFrame, ReleasedStep DEF Abstract!ShareNext
<1> QED BY <1>6, <1>7

LEMMA UploadShares ==
  ASSUME IInv, IInv', Next, NEW u \in Uploads, Proceed(u)
  PROVE  Abstract!ShareNext
<1> USE DEF IInv
<1>1. /\ MovedOn(u) /\ u \in Requests /\ req[u].op = "upload"
      /\ u \notin Acknowledged
      /\ \A q \in Requests : q # u => req'[q] = req[q]
  BY ProceedShape DEF MovedOn, OnTrack, Unsent, Acknowledged, Uploads, At
<1>2. shareReading' = shareReading
  <2>1. \A q \in Requests : q # u => shareReading'[q] = shareReading[q]
    BY <1>1, ReaderFrame
  <2>2. shareReading'[u] = shareReading[u]
    BY <1>1 DEF MovedOn, shareReading
  <2> QED BY <2>1, <2>2, ReadersFrame
<1>3. ASSUME NEW v \in Acknowledged
      PROVE  v \in Acknowledged' /\ (Available(v)' <=> Available(v))
  <2>1. /\ v \in Requests /\ req[v].op = "upload" /\ At(v, "done")
        /\ req[v].id \in Ids /\ req'[v] = req[v] /\ v \in Acknowledged'
        /\ req[v].id # req[u].id
    BY <1>1, AckedStep DEF Acknowledged, Uploads, OnTrack, Unsent, UniqueIds
  <2>2. objects'[req[v].id] = objects[req[v].id]
    BY <1>1, <2>1 DEF Proceed, SaveCreate, SaveCopy, SavePut, InsertRow, Rollback,
       DeleteFile, DownloadCount, DownloadOpen, DeleteStorage, DeleteRow,
       ExpireLookup, ExpireSet, TypeOK
  <2>3. files'[req[v].id] = files[req[v].id]
    <3>1. ~DownloadCount(u) /\ ~DownloadOpen(u) /\ ~DeleteStorage(u) /\ ~DeleteRow(u)
      <4>1. req[u].pc \notin {"count", "open", "delStorage", "delRow"}
        BY <1>1, OpOfStep
      <4> QED BY <4>1 DEF DownloadCount, DownloadOpen, DeleteStorage, DeleteRow, At
    <3>2. ~ExpireLookup(u) /\ ~ExpireSet(u)
      <4>1. req[u].pc \notin {"lookup", "setExpiration"}
        BY <1>1 DEF OnTrack, Unsent
      <4> QED BY <4>1 DEF ExpireLookup, ExpireSet, At
    <3>3. \/ SaveCreate(u) \/ SaveCopy(u) \/ SavePut(u)
          \/ InsertRow(u) \/ Rollback(u)
      BY <1>1, <3>1, <3>2 DEF Proceed
    <3>4. CASE InsertRow(u)
      BY <2>1, <3>4 DEF InsertRow, OnFileUpload, TypeOK
    <3>5. CASE SaveCreate(u) \/ SaveCopy(u) \/ SavePut(u) \/ Rollback(u)
      BY <3>5 DEF SaveCreate, SaveCopy, SavePut, Rollback
    <3> QED BY <3>3, <3>4, <3>5
  <2> QED BY <2>1, <2>2, <2>3 DEF Available, CopyOf
<1>4. \A v \in Requests : v # u => (v \in Acknowledged' <=> v \in Acknowledged)
  BY <1>1 DEF Acknowledged, Uploads
<1>5. CASE u \notin Acknowledged'
  <2>1. shareState' = shareState
    BY <1>1, <1>3, <1>4, <1>5 DEF shareState
  <2> QED BY <1>2, <2>1, ReleasedStep DEF Abstract!ShareNext
<1>6. CASE u \in Acknowledged'
  <2>1. Available(u)'
    BY <1>1, <1>6, AnsweredIsAvailable
  <2>2. shareState[u] = "none"
    BY <1>1 DEF shareState
  <2>3. shareState' = [shareState EXCEPT ![u] = "shared"]
    BY <1>1, <1>3, <1>4, <1>6, <2>1 DEF shareState
  <2>4. Abstract!Share(u)
    BY <1>2, <2>2, <2>3 DEF Abstract!Share
  <2> QED BY <1>1, <2>4, ReleasedStep DEF Abstract!ShareNext
<1> QED BY <1>5, <1>6

LEMMA DownloadShares ==
  ASSUME IInv, IInv', Next, NEW r \in Requests, req[r].op = "download",
         Proceed(r)
  PROVE  Abstract!ShareNext
<1> USE DEF IInv
<1> DEFINE u == req[r].about
<1>1. /\ MovedOn(r) /\ req'[r].op = "download" /\ req'[r].about = u
      /\ ~At(r, "done") /\ req[r].status = "none" /\ req[r].id \in Ids
      /\ \A q \in Requests : q # r => req'[q] = req[q]
  BY ProceedShape DEF MovedOn, OnTrack, Unsent, At
<1>2. DownloadCount(r) \/ DownloadOpen(r)
  <2>1. req[r].pc \in {"count", "open"}
    BY <1>1 DEF OnTrack, Unsent, At
  <2>2. ~SaveCreate(r) /\ ~SaveCopy(r) /\ ~SavePut(r) /\ ~InsertRow(r) /\ ~Rollback(r)
    BY <2>1 DEF SaveCreate, SaveCopy, SavePut, InsertRow, Rollback, At
  <2>3. ~DeleteStorage(r) /\ ~DeleteRow(r) /\ ~ExpireLookup(r) /\ ~ExpireSet(r)
    BY <2>1 DEF DeleteStorage, DeleteRow, ExpireLookup, ExpireSet, At
  <2> QED BY <2>2, <2>3 DEF Proceed
<1>3. Acknowledged' = Acknowledged
  BY <1>1 DEF Acknowledged, Uploads
<1>4. shareState' = shareState
  <2>1. objects' = objects
    BY <1>2 DEF DownloadCount, DownloadOpen
  <2>2. ASSUME NEW i \in Ids PROVE files'[i].token = files[i].token
    <3>1. files[i] \in Row
      BY DEF TypeOK
    <3> QED BY <1>2, <3>1 DEF DownloadCount, DownloadOpen, OnFileDownload, Row,
               TypeOK
  <2> QED BY <1>3, <2>1, <2>2, KeysFrame
<1>5. \A q \in Requests : q # r => shareReading'[q] = shareReading[q]
  BY <1>1, ReaderFrame
<1>6. CASE gotten(r)' = gotten(r) \/ u \notin Acknowledged
  <2>1. shareReading'[r] = shareReading[r]
    BY <1>1, <1>3, <1>6 DEF shareReading
  <2> QED BY <1>4, <1>5, <2>1, ReadersFrame, ReleasedStep DEF Abstract!ShareNext
<1>7. CASE gotten(r)' # gotten(r) /\ u \in Acknowledged
  <2>1. gotten(r) = "nothing"
    BY <1>1 DEF gotten
  <2>2. shareReading[r] = [file |-> u, got |-> "nothing"] /\ u # None
    BY <1>7, <2>1 DEF shareReading, Acknowledged, Uploads
  <2>3. shareReading'[r] = [shareReading[r] EXCEPT !.got = gotten(r)']
    BY <1>1, <1>3, <1>7, <2>2 DEF shareReading
  <2>4. shareReading' = [shareReading EXCEPT ![r].got = gotten(r)']
    BY <1>5, <2>3, OneReader
  <2>5. CASE req'[r].status = "ok"
    <3>1. gotten(r)' = "file"
      BY <1>1, <2>5 DEF gotten, DownloadTrack, CopyOf
    <3>2. Abstract!Get(r)
      BY <1>4, <2>2, <2>4, <3>1 DEF Abstract!Get
    <3> QED BY <3>2, ReleasedStep DEF Abstract!ShareNext
  <2>6. CASE req'[r].status = "notFound"
    <3>1. gotten(r)' = "miss"
      BY <2>6 DEF gotten
    <3>2. ~HasObject(req[r].id)
      <4>1. req[r] \in Request
        BY DEF TypeOK
      <4> QED BY <1>1, <1>2, <2>6, <4>1, AnswerFields, GotoFields
              DEF DownloadCount, DownloadOpen, TypeOK, Request
    <3>3. SettledAt(u, req[r].id)
      BY <2>2 DEF DownloadTrack, AboutSettled, SettledAt
    <3>4. ~Available(u)
      BY <3>2, <3>3 DEF Available, SettledAt, HasObject, NoObject, CopyOf
    <3>5. shareState[shareReading[r].file] = "withdrawn"
      BY <1>7, <2>2, <3>4 DEF shareState, Acknowledged, Uploads
    <3>6. Abstract!Miss(r)
      BY <1>4, <2>2, <2>4, <3>1, <3>5 DEF Abstract!Miss
    <3> QED BY <3>6, ReleasedStep DEF Abstract!ShareNext
  <2>7. CASE req'[r].status \notin {"ok", "notFound"}
    BY <1>7, <2>1, <2>7 DEF gotten
  <2> QED BY <2>5, <2>6, <2>7
<1> QED BY <1>6, <1>7

\* a step that moves no reader and stays within one key
LEMMA KeyShares ==
  ASSUME NoZoneBehind, IInv, Next, Acknowledged' = Acknowledged, shareReading' = shareReading,
         NEW j,
         \A i \in Ids \ {j} : /\ objects'[i] = objects[i]
                              /\ files'[i].token = files[i].token
  PROVE  Abstract!ShareNext
<1>1. Abstract!Release
  BY ReleasedStep DEF IInv
<1>2. CASE shareState' = shareState
  BY <1>1, <1>2 DEF Abstract!ShareNext
<1>3. ASSUME NEW u \in Requests,
             shareState[u] = "shared",
             u \in shareReleased,
             shareState' = [shareState EXCEPT ![u] = "withdrawn"]
      PROVE  Abstract!ShareNext
  BY <1>1, <1>3 DEF Abstract!ShareNext, Abstract!Withdraw
<1> QED BY <1>2, <1>3, OneKeyStep

LEMMA OwnerShares ==
  ASSUME NoZoneBehind, IInv, IInv', Next, NEW r \in Requests,
         req[r].op \in {"delete", "adminDelete", "expire"}, Proceed(r)
  PROVE  Abstract!ShareNext
<1> USE DEF IInv
<1>1. /\ req'[r].op = req[r].op
      /\ \A q \in Requests : q # r => req'[q] = req[q]
  BY ProceedShape DEF MovedOn
<1>2. DeleteStorage(r) \/ DeleteRow(r) \/ ExpireLookup(r) \/ ExpireSet(r)
  <2>1. req[r].pc \notin {"save", "copy", "insert", "rollback", "count", "open"}
    BY DEF OnTrack, Unsent
  <2>2. ~SaveCreate(r) /\ ~SaveCopy(r) /\ ~SavePut(r) /\ ~InsertRow(r) /\ ~Rollback(r)
    BY <2>1 DEF SaveCreate, SaveCopy, SavePut, InsertRow, Rollback, At
  <2>3. ~DownloadCount(r) /\ ~DownloadOpen(r)
    BY <2>1 DEF DownloadCount, DownloadOpen, At
  <2> QED BY <2>2, <2>3 DEF Proceed
<1>3. Acknowledged' = Acknowledged
  BY <1>1 DEF Acknowledged, Uploads
<1>4. shareReading' = shareReading
  <2>1. \A q \in Requests : q # r => shareReading'[q] = shareReading[q]
    BY <1>1, ReaderFrame
  <2>2. shareReading'[r] = shareReading[r]
    BY <1>1 DEF shareReading
  <2> QED BY <2>1, <2>2, ReadersFrame
<1>5. ASSUME NEW i \in Ids \ {req[r].id}
      PROVE  objects'[i] = objects[i] /\ files'[i].token = files[i].token
  BY <1>2 DEF DeleteStorage, DeleteFile, DeleteRow, OnFileDelete, ExpireLookup,
     ExpireSet, SetExpiration, TypeOK
<1> QED BY <1>3, <1>4, <1>5, KeyShares

\* the cleanup loop withdraws what has expired, one file at a time
LEMMA CleanupShares ==
  ASSUME NoZoneBehind, IInv, IInv', Next, NEW h \in Replicas, Cleanup(h)
  PROVE  Abstract!ShareNext
<1> USE DEF IInv
<1>1. req' = req
  BY CleanupType
<1>2. Acknowledged' = Acknowledged
  BY <1>1 DEF Acknowledged, Uploads
<1>3. shareReading' = shareReading
  BY <1>1, ReaderFrame, ReadersFrame
<1>4. CASE CycleStart(h)
  <2>1. objects' = objects /\ files' = files
    BY <1>4 DEF CycleStart
  <2> QED BY <1>2, <1>3, <2>1, KeyShares
<1>5. ASSUME NEW i \in Ids, NEW outcome \in {"ok", "error", "timeout"},
             CleanupStorage(h, i, outcome)
      PROVE  Abstract!ShareNext
  <2>1. ASSUME NEW j \in Ids \ {i}
        PROVE  objects'[j] = objects[j] /\ files'[j].token = files[j].token
    BY <1>5 DEF CleanupStorage, DeleteFile, TypeOK
  <2> QED BY <1>2, <1>3, <2>1, KeyShares
<1>6. ASSUME NEW err \in BOOLEAN, CleanupRow(h, err)
      PROVE  Abstract!ShareNext
  <2>1. ASSUME NEW j \in Ids \ {cleaner[h].at}
        PROVE  objects'[j] = objects[j] /\ files'[j].token = files[j].token
    BY <1>6 DEF CleanupRow, OnFileDelete, TypeOK
  <2> QED BY <1>2, <1>3, <2>1, KeyShares
<1> QED BY <1>4, <1>5, <1>6 DEF Cleanup

LEMMA CrashShares ==
  ASSUME NoZoneBehind, IInv, IInv', Next, NEW h \in Replicas, Crash(h)
  PROVE  Abstract!ShareNext
<1> USE DEF IInv
<1>1. \A r \in Requests : req'[r] = req[r] \/ LostIn(r)
  BY CrashShape
<1>2. Acknowledged' = Acknowledged
  BY <1>1 DEF Acknowledged, Uploads, LostIn, OnTrack, Unsent, At
<1>3. ASSUME NEW r \in Requests
      PROVE  shareReading'[r] = shareReading[r]
  <2>1. CASE req'[r] = req[r]
    BY <2>1, ReaderFrame
  <2>2. CASE LostIn(r)
    <3>1. gotten(r) = "nothing" /\ gotten(r)' = "nothing"
      BY <2>2 DEF LostIn, OnTrack, Unsent, At, gotten
    <3> QED BY <2>2, <3>1, ReaderFrame DEF LostIn
  <2> QED BY <1>1, <2>1, <2>2
<1>4. objects' = objects /\ files' = files
  BY DEF Crash
<1> QED BY <1>2, <1>3, <1>4, ReadersFrame, KeyShares

LEMMA TickShares ==
  ASSUME NoZoneBehind, IInv, IInv', Next, Tick
  PROVE  Abstract!ShareNext
<1>1. UNCHANGED <<files, objects, req>>
  BY DEF Tick
<1>2. Acknowledged' = Acknowledged
  BY <1>1 DEF Acknowledged, Uploads
<1>3. shareReading' = shareReading
  BY <1>1, ReaderFrame, ReadersFrame
<1> QED BY <1>1, <1>2, <1>3, KeyShares

LEMMA StepShares ==
  ASSUME NoZoneBehind, IInv, IInv', Next
  PROVE  Abstract!ShareNext
<1>1. ASSUME NEW r \in Requests, Proceed(r)
      PROVE  Abstract!ShareNext
  <2>1. req[r] # Unsent
    BY <1>1, ProceedShape DEF IInv, MovedOn, Unsent, At
  <2> QED BY <1>1, <2>1, UploadShares, DownloadShares, OwnerShares
          DEF IInv, OnTrack, Uploads
<1> QED BY <1>1, ArriveShares, CleanupShares, CrashShares, TickShares
        DEF Next, Step

LEMMA StutterShares ==
  ASSUME UNCHANGED vars
  PROVE  UNCHANGED Abstract!shareVars
  BY DEF vars, Abstract!shareVars, shareState, shareReleased, shareReading,
     Acknowledged, Uploads, Available, Ended, DeletionAsked, gotten, CopyOf

LEMMA InitShares ==
  ASSUME Init
  PROVE  Abstract!ShareInit
<1>1. \A r \in Requests : req[r] = Unsent
  BY DEF Init
<1>2. shareState = [u \in Requests |-> "none"]
  BY <1>1 DEF shareState, Acknowledged, Uploads, Unsent
<1>3. shareReleased = {}
  BY <1>1 DEF shareReleased, Ended, DeletionAsked, Init, Unsent
<1>4. shareReading = [r \in Requests |-> Abstract!NotReading]
  BY <1>1 DEF shareReading, Unsent, Abstract!NotReading
<1> QED BY <1>2, <1>3, <1>4 DEF Abstract!ShareInit

\* With ids that do not repeat and no clock behind the database's, the handlers, the cleanup loops and the two
\* stores together are a ShareService: a file, once its upload was answered
\* 200, is withdrawn only after its release, never comes back, and a download
\* that has read its row gets its bytes or, if it has been withdrawn, nothing.
THEOREM ServesShares ==
  FreshIds /\ NoZoneBehind => (Spec => ImplementsShareService)
<1> SUFFICES ASSUME FreshIds, NoZoneBehind PROVE Spec => Abstract!ShareSpec
  BY DEF ImplementsShareService
<1>1. Init => Abstract!ShareInit
  BY InitShares
<1>2. IInv /\ IInv' /\ [Next]_vars => [Abstract!ShareNext]_(Abstract!shareVars)
  BY StepShares, StutterShares
<1>3. Spec => []IInv
  BY InductiveInvariant
<1> QED BY <1>1, <1>2, <1>3, PTL DEF Spec, Abstract!ShareSpec

-----------------------------------------------------------------------------
(* What follows from the abstract service alone. *)

ShareInv == Abstract!ShareTypeOK /\ Abstract!ShareSafe

LEMMA ShareInvStep ==
  ASSUME ShareInv, Abstract!ShareNext
  PROVE  ShareInv'
<1> USE DEF Abstract!ShareTypeOK, Abstract!Reading, Abstract!ShareSafe
<1>1. shareReleased \subseteq shareReleased' /\ shareReleased' \subseteq Requests
  BY DEF Abstract!ShareNext, Abstract!Release
<1>2. CASE \E s \in Requests : Abstract!Share(s) \/ Abstract!Withdraw(s)
  BY <1>1, <1>2 DEF ShareInv, Abstract!Share, Abstract!Withdraw
<1>3. CASE \E r \in Requests, s \in Requests : Abstract!Find(r, s)
  BY <1>1, <1>3 DEF ShareInv, Abstract!Find
<1>4. CASE \E r \in Requests : Abstract!Get(r) \/ Abstract!Miss(r)
  BY <1>1, <1>4 DEF ShareInv, Abstract!Get, Abstract!Miss
<1>5. CASE UNCHANGED <<shareState, shareReading>>
  BY <1>1, <1>5 DEF ShareInv
<1> QED BY <1>2, <1>3, <1>4, <1>5 DEF Abstract!ShareNext

\* ShareService keeps ShareSafe, and so does everything that implements it.
THEOREM SharesAreSafe ==
  FreshIds /\ NoZoneBehind => (Spec => []ShareInv)
<1>1. Abstract!ShareInit => ShareInv
  BY DEF Abstract!ShareInit, Abstract!NotReading, ShareInv, Abstract!ShareTypeOK,
     Abstract!Reading, Abstract!ShareSafe
<1>2. ShareInv /\ UNCHANGED Abstract!shareVars => ShareInv'
  BY DEF ShareInv, Abstract!ShareTypeOK, Abstract!Reading, Abstract!ShareSafe,
     Abstract!shareVars
<1>3. Abstract!ShareSpec => []ShareInv
  BY <1>1, <1>2, ShareInvStep, PTL DEF Abstract!ShareSpec
<1> QED BY <1>3, ServesShares DEF ImplementsShareService

\* A download that has read the row of a file whose upload was answered and is
\* still told that there is no such file: the file had been released, and it is
\* not there any more.
NotFoundIsGone ==
    \A r \in Requests :
        /\ req[r].op = "download" /\ req[r].status = "notFound"
        /\ req[r].about \in Acknowledged
        => Ended(req[r].about) /\ ~Available(req[r].about)

\* Nobody is sent away from a file that nobody entitled to has ended, though the
\* row is read well before the object is opened.
THEOREM MissesWereReleased ==
  FreshIds /\ NoZoneBehind => (Spec => []NotFoundIsGone)
<1> SUFFICES ASSUME FreshIds, NoZoneBehind PROVE Spec => []NotFoundIsGone OBVIOUS
<1>1. ShareInv /\ IInv => NotFoundIsGone
  <2> SUFFICES ASSUME ShareInv, IInv, NEW r \in Requests, req[r].op = "download",
                      req[r].status = "notFound", req[r].about \in Acknowledged
               PROVE  Ended(req[r].about) /\ ~Available(req[r].about)
    BY DEF NotFoundIsGone
  <2> DEFINE u == req[r].about
  <2>1. u \in Requests /\ u \in Acknowledged
    BY DEF Acknowledged, Uploads
  <2>2. shareReading[r] = [file |-> u, got |-> "miss"]
    BY DEF shareReading, gotten
  <2>3. shareState[u] = "withdrawn"
    BY <2>2 DEF ShareInv, Abstract!ShareSafe
  <2>4. u \in shareReleased
    BY <2>1, <2>3 DEF ShareInv, Abstract!ShareSafe
  <2> QED BY <2>1, <2>3, <2>4 DEF shareReleased, shareState
<1>2. Spec => []IInv
  BY InductiveInvariant
<1>3. Spec => []ShareInv
  BY SharesAreSafe
<1> QED BY <1>1, <1>2, <1>3, PTL
=============================================================================
