----------------------------- MODULE MCBoundaries -----------------------------
(***************************************************************************)
(* The algorithms of ByteRange, Container, Expiration and Listing over     *)
(* bounded inputs: the state is one input, chosen by the only step there   *)
(* is.                                                                     *)
(***************************************************************************)
EXTENDS ByteRange, Container, Expiration, Listing

CONSTANTS MaxFileSize, MaxLimit, MaxRows, MaxPages

\* sizes are words
ASSUME InputsAssumption ==
  /\ {MaxFileSize, MaxLimit, MaxRows, MaxPages} \subseteq Nat
  /\ MaxFileSize <= MaxInt64

VARIABLE input

Init == input = [kind |-> "none"]

-----------------------------------------------------------------------------
Numerals == {<<>>} \cup {<<n>>: n \in -1 .. (MaxFileSize + 1)}
              \cup {<<n>>: n \in (MaxInt64 - 1) .. (MaxInt64 + 1)}

AskRange ==
  \E single \in BOOLEAN, first, last \in Numerals, size \in 0 .. MaxFileSize:
    input' = [kind |-> "range", size |-> size,
              header |-> [single |-> single, first |-> first, last |-> last]]

Keys == {"k1", "k2"}

Files == BoundedSeq({"a", "b"}, MaxFileSize)

EncryptFile ==
  \E file \in Files, key, other \in Keys, limit \in 0 .. MaxLimit:
    input' = [kind |-> "container", file |-> file, key |-> key, other |-> other,
              limit |-> limit]

\* a body put together from records of the file under both keys, less its
\* last bytes
RecordsOf(file) == Keys \X (0 .. (contentRecordCount(Len(file)) - 1))

DamageContainer ==
  \E file \in {f \in Files: Len(f) >= MaxFileSize - 1}, key \in Keys, cut \in 0 .. 2:
    \E records \in BoundedSeq(RecordsOf(file), contentRecordCount(Len(file)) + 1):
      input' = [kind |-> "damage", file |-> file, key |-> key, records |-> records,
                cut |-> cut]

Body(file, records, cut) ==
  LET whole == FlattenSeq([i \in DOMAIN records |->
                             Bytes(ContentRecord(records[i][1], file, records[i][2]))])
  IN SubSeq(whole, 1, Len(whole) - cut)

SetExpiration ==
  \E form \in {<<>>} \cup {<<v>>: v \in Representable},
     size, larger \in 0 .. (2 * MaxSize), now \in {HoursBelow, 2 * HoursBelow}:
    input' = [kind |-> "expiration", form |-> form, size |-> size,
              larger |-> larger, now |-> now]

\* files are uploaded one after the other, uploaded[i] of them until the ith
\* statement of the walk
WalkPages ==
  \E search, ip \in BOOLEAN, sortBy \in {"created_at", "size", "id"},
     sortDir \in {"asc", "desc"}, limit \in 1 .. maxAdminPageSize,
     named \in SUBSET (1 .. MaxRows),
     sizes \in {s \in [1 .. MaxRows -> 1 .. MaxRows]: IsInjective(s)}:
    \E uploaded \in [1 .. (2 * MaxPages) -> 0 .. MaxRows]:
      /\ \A i \in 1 .. (2 * MaxPages - 1): uploaded[i] <= uploaded[i + 1]
      /\ input' = [kind |-> "listing",
                   filter |-> [search |-> search, ip |-> ip,
                               sortBy |-> sortBy, sortDir |-> sortDir],
                   limit |-> limit, named |-> named, sizes |-> sizes,
                   uploaded |-> uploaded]

Table(uploaded, named, sizes) ==
  {[id |-> n, created_at |-> n, file_size |-> sizes[n],
    named |-> n \in named, addressed |-> n # 1]: n \in 1 .. uploaded}

Next ==
  /\ input.kind = "none"
  /\ \/ AskRange
     \/ EncryptFile
     \/ DamageContainer
     \/ SetExpiration
     \/ WalkPages

Spec == Init /\ [][Next]_input

-----------------------------------------------------------------------------
\* parseRangeHeader, serveStream and the three storages' Open answer every
\* Range header with the bytes it asks for: RangeServed.
RangesServed ==
  input.kind = "range" => RangeServed(input.header, input.size)

\* The browser reads every container it has written, with its key only:
\* RoundTrip.
ContainersReadable ==
  input.kind = "container" => RoundTrip(input.file, input.key, input.other)

\* The browser refuses a container with a damaged content: DamageRefused.
DamagedContainersRefused ==
  input.kind = "damage" =>
    DamageRefused(input.file, input.key, Body(input.file, input.records, input.cut))

\* The download page takes what the server has admitted, under every limit
\* within the record counter, and nothing under any other: AdmittedIsFetched.
AdmittedContainersFetched ==
  input.kind = "container" => AdmittedIsFetched(input.file, input.key, input.limit)

\* The server admits the container of every file within the limit, as the
\* comment of MaxCiphertextSize has it: FileWithinLimitAdmitted.
FilesWithinLimitAdmitted ==
  input.kind = "container" =>
    FileWithinLimitAdmitted(input.file, input.key, input.limit)

\* No request gives a file more time than the settings allow, or less than
\* it asked for within them: ExpirationBounded.
ExpirationsBounded ==
  input.kind = "expiration" => ExpirationBounded(input.form, input.size, input.now)

\* A larger file never outlives a smaller one: LargerExpiresSooner.
LargerFilesExpireSooner ==
  input.kind = "expiration" =>
    LargerExpiresSooner(input.size, input.larger, input.now)

\* Uploads during a walk through the admin panel's pages hide no file:
\* UploadsHideNothing.
PagesHideNothing ==
  input.kind = "listing" =>
    UploadsHideNothing(input.filter, input.limit,
      [i \in DOMAIN input.uploaded |->
         Table(input.uploaded[i], input.named, input.sizes)])

===============================================================================
