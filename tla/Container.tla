------------------------------ MODULE Container ------------------------------
(***************************************************************************)
(* The container of the end-to-end encryption: written and read in the     *)
(* browser by features/e2ee/crypto.ts, admitted by the server, which       *)
(* cannot read it, by clientencryption/container.go.                       *)
(*                                                                         *)
(* A file is a sequence of bytes. A sealed record of n bytes is n bytes of *)
(* ciphertext and TagLength bytes of tag; its bytes are known by the       *)
(* record they belong to and their place in it, and only all of them in    *)
(* their order, under the same key and additional data, can be opened.     *)
(***************************************************************************)
EXTENDS Integers, SequencesExt

CONSTANTS
  ChunkSize,            \* plaintext bytes of a record (1 MiB)
  TagLength,            \* bytes of an AES-GCM tag (16)
  MaxCounter            \* of the record counter in the nonce (2^32 - 1)

ASSUME ContainerAssumption ==
  {ChunkSize, TagLength, MaxCounter} \subseteq Nat \ {0}

Version == 1

Ceil(a, b) == (a + b - 1) \div b

-----------------------------------------------------------------------------
(* The server. *)

\* magic, version, flags, chunk size, salt, nonce prefix
headerSize == 8 + 1 + 1 + 4 + 16 + 8

metadataCiphertextSize == 4096 + TagLength

minimumV1CiphertextSize == headerSize + metadataCiphertextSize

MaxCiphertextSize(maxPlaintextSize) ==
  maxPlaintextSize + minimumV1CiphertextSize
    + Ceil(maxPlaintextSize, ChunkSize) * TagLength

\* of the clear part of a container
ValidateV1Header(c, size) ==
  /\ size >= minimumV1CiphertextSize
  /\ c.header.magic
  /\ c.header.version = Version
  /\ c.header.flags = 0
  /\ c.header.chunk_size = ChunkSize

\* the upload handler's check of an upload with clientEncryptionVersion 1
Admitted(c, size, maxPlaintextSize) ==
  size <= MaxCiphertextSize(maxPlaintextSize) /\ ValidateV1Header(c, size)

-----------------------------------------------------------------------------
(* The browser. *)

\* magic, version, flags, chunk size, salt, nonce prefix, key commitment
HEADER_LENGTH == 8 + 1 + 1 + 4 + 16 + 8 + 32

METADATA_CIPHERTEXT_LENGTH == 4096 + TagLength

contentRecordCount(size) == Ceil(size, ChunkSize)

assertSupportedSize(size) == contentRecordCount(size) <= MaxCounter

\* in the place of a size, where assertSupportedSize throws: no container is
\* so small
Throws == -1

\* a fault: the tags of the content are left out
UntaggedContainerSize(maxPlaintextSize) ==
  IF assertSupportedSize(maxPlaintextSize)
  THEN HEADER_LENGTH + METADATA_CIPHERTEXT_LENGTH + maxPlaintextSize
  ELSE Throws

maxEncryptedContainerSize(maxPlaintextSize) ==
  IF assertSupportedSize(maxPlaintextSize)
  THEN HEADER_LENGTH + METADATA_CIPHERTEXT_LENGTH + maxPlaintextSize
         + contentRecordCount(maxPlaintextSize) * TagLength
  ELSE Throws

\* aesGCMParams: what a record is bound to, its plaintext and its key
Sealed(key, header, type, counter, plaintext) ==
  [key |-> key, header |-> header, type |-> type, counter |-> counter,
   length |-> Len(plaintext), plaintext |-> plaintext]

Bytes(record) ==
  [i \in 1 .. (record.length + TagLength) |-> [of |-> record, at |-> i]]

buildHeader(key) ==
  [magic |-> TRUE, version |-> Version, flags |-> 0, chunk_size |-> ChunkSize,
   keyCommitment |-> key]

Slice(file, start, end) == SubSeq(file, start + 1, Min({end, Len(file)}))

\* a fault: counters from 0, where the metadata record has its own
CountedFromZero(key, file, index) ==
  Sealed(key, buildHeader(key), "content", index,
         Slice(file, index * ChunkSize, (index + 1) * ChunkSize))

ContentRecord(key, file, index) ==
  Sealed(key, buildHeader(key), "content", index + 1,
         Slice(file, index * ChunkSize, (index + 1) * ChunkSize))

\* a new key for every file; file.size is in the metadata
encryptFile(key, file) ==
  [header   |-> buildHeader(key),
   metadata |-> [key |-> key, header |-> buildHeader(key), size |-> Len(file)],
   body     |-> FlattenSeq([n \in 1 .. contentRecordCount(Len(file)) |->
                              Bytes(ContentRecord(key, file, n - 1))])]

\* the bytes of a container: ciphertext.size
SizeOf(c) == HEADER_LENGTH + METADATA_CIPHERTEXT_LENGTH + Len(c.body)

\* crypto.subtle.decrypt of these bytes
Opens(bytes, key, header, counter, plaintextLength) ==
  /\ Len(bytes) = plaintextLength + TagLength
  /\ LET record == bytes[1].of
     IN /\ bytes = Bytes(record)
        /\ record.key = key
        /\ record.header = header
        /\ record.type = "content"
        /\ record.counter = counter
        /\ record.length = plaintextLength

Failed == [ok |-> FALSE, plaintext |-> <<>>]

\* a fault: the container may be longer
LongEnough(c) ==
  Len(c.body) >= c.metadata.size + contentRecordCount(c.metadata.size) * TagLength

\* ciphertext.size is expectedSize
ExpectedSize(c) ==
  Len(c.body) = c.metadata.size + contentRecordCount(c.metadata.size) * TagLength

decryptContainer(c, key) ==
  LET size    == c.metadata.size
      records == contentRecordCount(size)
      length(index) == Min({ChunkSize, size - index * ChunkSize})
      offset(index) == index * (ChunkSize + TagLength)
      encryptedRecord(index) ==
        Slice(c.body, offset(index), offset(index) + length(index) + TagLength)
  IN IF /\ c.header.magic
        /\ c.header.version = Version
        /\ c.header.flags = 0
        /\ c.header.chunk_size = ChunkSize
        /\ c.header.keyCommitment = key
        /\ c.metadata.key = key /\ c.metadata.header = c.header
        /\ assertSupportedSize(size)
        /\ ExpectedSize(c)
        /\ \A index \in 0 .. (records - 1):
             Opens(encryptedRecord(index), key, c.header, index + 1, length(index))
     THEN [ok |-> TRUE,
          plaintext |-> FlattenSeq([n \in 1 .. records |->
                                      encryptedRecord(n - 1)[1].of.plaintext])]
     ELSE Failed

\* the checks of the download page before it decrypts: it fails with the size
\* it compares with
Fetched(size, maxPlaintextSize) == size <= maxEncryptedContainerSize(maxPlaintextSize)

-----------------------------------------------------------------------------
(***************************************************************************)
(* What the browser writes it reads again with the same key, and with no   *)
(* other: the boundaries of the records are nowhere written down, the      *)
(* reader derives them from the size in the metadata.                      *)
(***************************************************************************)
RoundTrip(file, key, other) ==
  assertSupportedSize(Len(file)) =>
  /\ decryptContainer(encryptFile(key, file), key) = [ok |-> TRUE, plaintext |-> file]
  /\ other # key => decryptContainer(encryptFile(key, file), other) = Failed

(***************************************************************************)
(* A container whose content was cut, extended, or put together again in   *)
(* another order or from two containers is refused: no part of a file is   *)
(* ever given out for the file.                                            *)
(***************************************************************************)
DamageRefused(file, key, body) ==
  LET c == encryptFile(key, file)
  IN body # c.body => ~decryptContainer([c EXCEPT !.body = body], key).ok

(***************************************************************************)
(* Of the containers that the server admits under a limit the download     *)
(* page takes, under the same limit, all if the record counter reaches to  *)
(* the limit, and none if it does not: two formulas, in Go and in          *)
(* TypeScript, have to agree for every size. The settings admit limits     *)
(* beyond the counter (2^32 - 1 records of 1 MiB), and under one of them   *)
(* the server goes on storing what nobody can fetch from the page.         *)
(***************************************************************************)
AdmittedIsFetched(file, key, limit) ==
  LET c == encryptFile(key, file)
  IN /\ Admitted(c, SizeOf(c), limit) =>
          (Fetched(SizeOf(c), limit) <=> assertSupportedSize(limit))
     /\ assertSupportedSize(Len(file)) =>
          SizeOf(c) = maxEncryptedContainerSize(Len(file))

(***************************************************************************)
(* The server admits every container that the browser writes for a file    *)
(* within the limit: MaxCiphertextSize "returns the largest valid v1       *)
(* container for a plaintext size limit" (container.go:21). It does not,   *)
(* because headerSize leaves out the key commitment.                       *)
(***************************************************************************)
FileWithinLimitAdmitted(file, key, limit) ==
  LET c == encryptFile(key, file)
  IN Len(file) <= limit => Admitted(c, SizeOf(c), limit)

=============================================================================
