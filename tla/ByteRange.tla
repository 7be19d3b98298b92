------------------------------ MODULE ByteRange ------------------------------
(***************************************************************************)
(* Byte ranges of a download: parseRangeHeader and serveStream of          *)
(* handlers/download.go over the three storages' Open.                     *)
(*                                                                         *)
(* A Range header is abstracted to [single, first, last]: whether it is    *)
(* one range of bytes ("bytes=", no comma, a dash), and the two numerals   *)
(* around the dash, each <<>> when blank and <<n>> otherwise.              *)
(***************************************************************************)
EXTENDS Word, FiniteSetsExt

Blank == <<>>

\* strconv.ParseInt succeeds
Parses(numeral) == numeral # Blank /\ numeral[1] \in Representable

\* storage.ByteRange; a nil pointer is NoRange
NoRange == [Start |-> -1, End |-> -1, Suffix |-> 0]
StartEnd(start, end) == [Start |-> start, End |-> end, Suffix |-> 0]
SuffixRange(n) == [Start |-> 0, End |-> 0, Suffix |-> n]

parseRangeHeader(h) ==
  CASE /\ h.single
       /\ h.first = Blank
       /\ Parses(h.last) /\ h.last[1] > 0           -> SuffixRange(h.last[1])
    [] /\ h.single
       /\ Parses(h.first) /\ h.first[1] >= 0
       /\ h.last = Blank                            -> StartEnd(h.first[1], -1)
    [] /\ h.single
       /\ Parses(h.first) /\ h.first[1] >= 0
       /\ Parses(h.last) /\ h.last[1] >= h.first[1] -> StartEnd(h.first[1], h.last[1])
    [] OTHER                                        -> NoRange

-----------------------------------------------------------------------------
(* storage.Object: the bytes in Body are those from position At on, Length *)
(* of them. An error is an object, too.                                    *)

Whole(size) ==
  [Error |-> FALSE, At |-> 0, Length |-> size, Partial |-> FALSE, ContentRange |-> <<>>]

Part(first, last, size) ==
  [Error |-> FALSE, At |-> first, Length |-> last - first + 1, Partial |-> TRUE,
   ContentRange |-> <<first, last, size>>]

ErrInvalidRange ==
  [Error |-> TRUE, At |-> 0, Length |-> 0, Partial |-> FALSE, ContentRange |-> <<>>]

\* LocalStorage: Stat gives the size, resolveRange the bounds
resolveRange(r, size) ==
  LET start == IF r.Suffix > 0 THEN size - Min({r.Suffix, size}) ELSE r.Start
      end   == IF r.Suffix > 0 \/ r.End < 0 \/ r.End >= size THEN size - 1 ELSE r.End
  IN IF size > 0 /\ start \in 0 .. end THEN Part(start, end, size) ELSE ErrInvalidRange

LocalOpen(r, size) == IF r = NoRange THEN Whole(size) ELSE resolveRange(r, size)

\* ByteRange.header, and S3's answer to it
header(r) ==
  CASE r.Suffix > 0               -> [single |-> TRUE, first |-> Blank, last |-> <<r.Suffix>>]
    [] r.Suffix <= 0 /\ r.End < 0 -> [single |-> TRUE, first |-> <<r.Start>>, last |-> Blank]
    [] OTHER                      -> [single |-> TRUE, first |-> <<r.Start>>, last |-> <<r.End>>]

GetObject(h, size) ==
  CASE size > 0 /\ h.first = Blank /\ h.last[1] > 0 ->
         Part(size - Min({h.last[1], size}), size - 1, size)
    [] h.first # Blank /\ h.first[1] < size /\ h.last = Blank ->
         Part(h.first[1], size - 1, size)
    [] h.first # Blank /\ h.first[1] < size /\ h.last # Blank ->
         Part(h.first[1], Min({h.last[1], size - 1}), size)
    [] OTHER -> ErrInvalidRange

S3Open(r, size) == IF r = NoRange THEN Whole(size) ELSE GetObject(header(r), size)

\* a fault: the last position is left out
LastExcluded(r) ==
  CASE r = NoRange                              -> <<0, -1>>
    [] r # NoRange /\ r.Suffix > 0              -> <<-r.Suffix, -1>>
    [] r # NoRange /\ r.Suffix <= 0 /\ r.End < 0 -> <<r.Start, -1>>
    [] OTHER                                    -> <<r.Start, r.End - r.Start>>

\* GCS takes an offset and a length: a negative offset counts from the end,
\* a negative length means up to the end
gcsRange(r) ==
  CASE r = NoRange                  -> <<0, -1>>
    [] r # NoRange /\ r.Suffix > 0  -> <<-r.Suffix, -1>>
    [] r # NoRange /\ r.Suffix <= 0 /\ r.End < 0 -> <<r.Start, -1>>
    [] OTHER                        -> <<r.Start, Int64(Int64(r.End - r.Start) + 1)>>

NewRangeReader(offset, length, size) ==
  LET start == CASE offset >= 0      -> offset
                 [] offset < -size   -> 0
                 [] OTHER            -> size + offset
  IN IF start >= size /\ (start > 0 \/ length >= 0 \/ offset < 0)
     THEN [Error |-> TRUE, StartOffset |-> 0, Remain |-> 0]
     ELSE [Error |-> FALSE, StartOffset |-> start,
           Remain |-> IF length < 0 THEN size - start ELSE Min({length, size - start})]

GCSOpen(r, size) ==
  LET reader == NewRangeReader(gcsRange(r)[1], gcsRange(r)[2], size)
  IN CASE reader.Error -> ErrInvalidRange
       [] ~reader.Error /\ r = NoRange -> Whole(reader.Remain)
       [] OTHER -> [Error |-> FALSE, At |-> reader.StartOffset, Length |-> reader.Remain,
                    Partial |-> TRUE,
                    ContentRange |-> <<reader.StartOffset,
                                       reader.StartOffset + reader.Remain - 1, size>>]

Backends == {"local", "s3", "gcs"}

Open(backend, r, size) ==
  CASE backend = "local" -> LocalOpen(r, size)
    [] backend = "s3"    -> S3Open(r, size)
    [] OTHER             -> GCSOpen(r, size)

\* the response: its status, the positions of the bytes in it and the
\* Content-Range header
serveStream(backend, h, size) ==
  LET object == Open(backend, parseRangeHeader(h), size)
  IN [status |-> CASE object.Error   -> 416
                   [] object.Partial -> 206
                   [] OTHER          -> 200,
      bytes |-> object.At .. (object.At + object.Length - 1),
      contentRange |-> object.ContentRange]

-----------------------------------------------------------------------------
(* What RFC 9110 says. *)

\* A single range that the server must be able to read: numbers of 64 bits,
\* the first not after the last, at least one byte from the end.
Valid(h) ==
  /\ h.single
  /\ \A n \in {h.first, h.last} \ {Blank}: n[1] \in 0 .. MaxInt64
  /\ h.first # Blank \/ h.last # Blank
  /\ h.first = Blank => h.last[1] > 0
  /\ h.first # Blank /\ h.last # Blank => h.first[1] <= h.last[1]

\* the positions of a file of this size that a valid range names
Requested(h, size) ==
  {p \in 0 .. (size - 1):
     IF h.first = Blank THEN p >= size - h.last[1]
     ELSE p >= h.first[1] /\ (h.last = Blank \/ p <= h.last[1])}

(***************************************************************************)
(* Whatever the storage, a valid range is answered with exactly the bytes  *)
(* it names and a Content-Range that names them, or with 416 when the file *)
(* has none of them; any other header is ignored and the whole file is     *)
(* served. This holds for the suffixes that are longer than the file and   *)
(* for last positions at which the length that gcsRange computes           *)
(* overflows.                                                              *)
(***************************************************************************)
RangeServed(h, size) ==
  \A backend \in Backends:
    LET response == serveStream(backend, h, size)
        wanted   == Requested(h, size)
    IN CASE ~Valid(h) ->
              response.status = 200 /\ response.bytes = 0 .. (size - 1)
         [] Valid(h) /\ wanted = {} /\ size > 0 -> response.status = 416
         [] Valid(h) /\ size = 0 -> response.bytes = {}
         [] OTHER ->
              /\ response.status = 206
              /\ response.bytes = wanted
              /\ response.contentRange[1] \in wanted
              /\ \A p \in wanted: p \in response.contentRange[1] .. response.contentRange[2]
              /\ response.contentRange[2] \in wanted
              /\ response.contentRange[3] = size

=============================================================================
