--------------------------- MODULE BoundaryProofs ---------------------------
(***************************************************************************)
(* Proofs about the algorithms of ByteRange, Expiration and Listing: what  *)
(* they return for every input, of which MCBoundaries enumerates a few.    *)
(***************************************************************************)
EXTENDS MCBoundaries, Induction

USE WordAssumption

-----------------------------------------------------------------------------
(* Integers. *)

LEMMA MinOfTwo ==
  ASSUME NEW a \in Int, NEW b \in Int
  PROVE  Min({a, b}) = IF a <= b THEN a ELSE b
<1>1. CASE a <= b
  <2>1. a \in {a, b} /\ \A y \in {a, b}: a <= y
    BY <1>1
  <2>2. \A x \in {a, b}: (\A y \in {a, b}: x <= y) => x = a
    BY <1>1
  <2> QED
    BY <2>1, <2>2, <1>1 DEF Min
<1>2. CASE ~(a <= b)
  <2>1. b \in {a, b} /\ \A y \in {a, b}: b <= y
    BY <1>2
  <2>2. \A x \in {a, b}: (\A y \in {a, b}: x <= y) => x = b
    BY <1>2
  <2> QED
    BY <2>1, <2>2, <1>2 DEF Min
<1> QED
  BY <1>1, <1>2

\* A word holds a number that fits.
LEMMA Int64Fits ==
  ASSUME NEW n \in Representable
  PROVE  Int64(n) = n
<1>1. \A k \in Nat \ {0}: \A m \in 0 .. (k - 1): m % k = m
  OBVIOUS
<1>2. /\ 2 * (MaxInt64 + 1) \in Nat \ {0}
      /\ n + MaxInt64 + 1 \in 0 .. (2 * (MaxInt64 + 1) - 1)
      /\ n \in Int
  BY DEF Representable
<1>3. (n + MaxInt64 + 1) % (2 * (MaxInt64 + 1)) = n + MaxInt64 + 1
  BY <1>1, <1>2
<1> QED
  BY <1>2, <1>3 DEF Int64

\* One more than the largest wraps around.
LEMMA Int64Wraps == Int64(MaxInt64 + 1) = -MaxInt64 - 1
<1>1. \A k \in Nat \ {0}: k % k = 0
  OBVIOUS
<1>2. MaxInt64 + 1 + MaxInt64 + 1 = 2 * (MaxInt64 + 1) /\ 2 * (MaxInt64 + 1) \in Nat \ {0}
  OBVIOUS
<1> QED
  BY <1>1, <1>2 DEF Int64

LEMMA Int64Representable ==
  ASSUME NEW n \in Int
  PROVE  Int64(n) \in Representable
<1>1. \A k \in Nat \ {0}: \A m \in Int: m % k \in 0 .. (k - 1)
  OBVIOUS
<1>2. 2 * (MaxInt64 + 1) \in Nat \ {0} /\ n + MaxInt64 + 1 \in Int
  OBVIOUS
<1>3. (n + MaxInt64 + 1) % (2 * (MaxInt64 + 1)) \in 0 .. (2 * (MaxInt64 + 1) - 1)
  BY <1>1, <1>2
<1> QED
  BY <1>3 DEF Int64, Representable

-----------------------------------------------------------------------------
(* Byte ranges. *)

Numeral == {Blank} \cup {<<n>>: n \in Int}

RangeHeader == [single: BOOLEAN, first: Numeral, last: Numeral]

\* How a valid header is read, and which positions it names.
Suffix(h, n) ==
  /\ h.single /\ h.first = Blank /\ h.last = <<n>> /\ n \in 1 .. MaxInt64
  /\ parseRangeHeader(h) = SuffixRange(n)

OpenEnded(h, a) ==
  /\ h.single /\ h.first = <<a>> /\ h.last = Blank /\ a \in 0 .. MaxInt64
  /\ parseRangeHeader(h) = StartEnd(a, -1)

Closed(h, a, b) ==
  /\ h.single /\ h.first = <<a>> /\ h.last = <<b>>
  /\ a \in 0 .. MaxInt64 /\ b \in a .. MaxInt64
  /\ parseRangeHeader(h) = StartEnd(a, b)

LEMMA HeaderRead ==
  ASSUME NEW h \in RangeHeader
  PROVE  \/ ~Valid(h) /\ parseRangeHeader(h) = NoRange
         \/ /\ Valid(h)
            /\ \/ \E n \in Int: Suffix(h, n)
               \/ \E a \in Int: OpenEnded(h, a)
               \/ \E a, b \in Int: Closed(h, a, b)
<1>1. /\ h.single \in BOOLEAN
      /\ h.first = Blank \/ \E a \in Int: h.first = <<a>>
      /\ h.last = Blank \/ \E b \in Int: h.last = <<b>>
  BY DEF RangeHeader, Numeral
<1>2. \A n \in Int: <<n>> # Blank /\ <<n>>[1] = n
  BY DEF Blank
<1>3. ~Parses(Blank) /\ \A n \in Int: Parses(<<n>>) <=> n \in Representable
  BY <1>2 DEF Parses
<1>4. CASE h.first = Blank /\ h.last = Blank
  BY <1>3, <1>4 DEF Valid, parseRangeHeader
<1>5. ASSUME NEW b \in Int, h.first = Blank, h.last = <<b>>
      PROVE  \/ ~Valid(h) /\ parseRangeHeader(h) = NoRange
             \/ Valid(h) /\ Suffix(h, b)
  <2>1. {h.first, h.last} \ {Blank} = {<<b>>}
    BY <1>2, <1>5
  <2>2. Valid(h) <=> h.single /\ b \in 1 .. MaxInt64
    BY <1>2, <1>5, <2>1 DEF Valid
  <2>3. parseRangeHeader(h)
          = IF h.single /\ b \in Representable /\ b > 0 THEN SuffixRange(b) ELSE NoRange
    BY <1>2, <1>3, <1>5 DEF parseRangeHeader
  <2> QED
    BY <1>5, <2>2, <2>3 DEF Suffix, Representable
<1>6. ASSUME NEW a \in Int, h.first = <<a>>, h.last = Blank
      PROVE  \/ ~Valid(h) /\ parseRangeHeader(h) = NoRange
             \/ Valid(h) /\ OpenEnded(h, a)
  <2>1. {h.first, h.last} \ {Blank} = {<<a>>}
    BY <1>2, <1>6
  <2>2. Valid(h) <=> h.single /\ a \in 0 .. MaxInt64
    BY <1>2, <1>6, <2>1 DEF Valid
  <2>3. parseRangeHeader(h)
          = IF h.single /\ a \in Representable /\ a >= 0 THEN StartEnd(a, -1) ELSE NoRange
    BY <1>2, <1>3, <1>6 DEF parseRangeHeader
  <2> QED
    BY <1>6, <2>2, <2>3 DEF OpenEnded, Representable
<1>7. ASSUME NEW a \in Int, NEW b \in Int, h.first = <<a>>, h.last = <<b>>
      PROVE  \/ ~Valid(h) /\ parseRangeHeader(h) = NoRange
             \/ Valid(h) /\ Closed(h, a, b)
  <2>1. {h.first, h.last} \ {Blank} = {<<a>>, <<b>>}
    BY <1>2, <1>7
  <2>2. Valid(h) <=>
          h.single /\ a \in 0 .. MaxInt64 /\ b \in 0 .. MaxInt64 /\ a <= b
    BY <1>2, <1>7, <2>1 DEF Valid
  <2>3. parseRangeHeader(h)
          = IF /\ h.single /\ a \in Representable /\ a >= 0
               /\ b \in Representable /\ b >= a
            THEN StartEnd(a, b) ELSE NoRange
    BY <1>2, <1>3, <1>7 DEF parseRangeHeader
  <2> QED
    BY <1>7, <2>2, <2>3 DEF Closed, Representable
<1> QED
  BY <1>1, <1>4, <1>5, <1>6, <1>7

\* What the storages make of a range of a file with bytes: all the same.
Serves(object, first, last, size) ==
  /\ ~object.Error /\ object.Partial
  /\ object.At = first /\ object.Length = last - first + 1
  /\ object.ContentRange = <<first, last, size>>

LEMMA PartServes ==
  \A first, last, size \in Int: Serves(Part(first, last, size), first, last, size)
  BY DEF Serves, Part

LEMMA WholeOpened ==
  ASSUME NEW backend \in Backends, NEW size \in 0 .. MaxInt64
  PROVE  Open(backend, NoRange, size) = Whole(size)
<1>1. NoRange.Suffix = 0
  BY DEF NoRange
<1>2. gcsRange(NoRange) = <<0, -1>>
  BY DEF gcsRange
<1>3. ~NewRangeReader(0, -1, size).Error /\ NewRangeReader(0, -1, size).Remain = size
  BY DEF NewRangeReader
<1>4. GCSOpen(NoRange, size) = Whole(size)
  BY <1>2, <1>3 DEF GCSOpen
<1> QED
  BY <1>4 DEF Open, LocalOpen, S3Open, Backends

LEMMA Ranges ==
  /\ \A n \in Int:
       /\ SuffixRange(n).Suffix = n
       /\ n > 0 => SuffixRange(n) # NoRange
  /\ \A a, b \in Int:
       /\ StartEnd(a, b).Start = a /\ StartEnd(a, b).End = b /\ StartEnd(a, b).Suffix = 0
       /\ a >= 0 => StartEnd(a, b) # NoRange
  BY DEF SuffixRange, StartEnd, NoRange

LEMMA SuffixOpened ==
  ASSUME NEW backend \in Backends, NEW size \in 1 .. MaxInt64, NEW n \in 1 .. MaxInt64
  PROVE  Serves(Open(backend, SuffixRange(n), size),
                IF n < size THEN size - n ELSE 0, size - 1, size)
<1>1. Min({n, size}) = IF n < size THEN n ELSE size
  BY MinOfTwo
<1> DEFINE r == SuffixRange(n)
           start == IF n < size THEN size - n ELSE 0
<1>2. r.Suffix = n /\ r # NoRange
  BY Ranges
<1>3. start \in 0 .. (size - 1) /\ start = size - Min({n, size})
  BY <1>1
<1> HIDE DEF r
<1>4. Serves(LocalOpen(r, size), start, size - 1, size)
  BY <1>2, <1>3, PartServes DEF LocalOpen, resolveRange
<1>5. Serves(S3Open(r, size), start, size - 1, size)
  <2>1. header(r).first = Blank /\ header(r).last[1] = n
    BY <1>2 DEF header
  <2> DEFINE asked == header(r)
  <2> HIDE DEF asked
  <2>2. GetObject(asked, size) = Part(start, size - 1, size)
    BY <1>3, <2>1 DEF GetObject, asked
  <2> QED
    BY <1>2, <1>3, <2>2, PartServes DEF S3Open, asked
<1>6. Serves(GCSOpen(r, size), start, size - 1, size)
  <2>1. gcsRange(r)[1] = -n /\ gcsRange(r)[2] = -1
    BY <1>2 DEF gcsRange
  <2>2. /\ ~NewRangeReader(-n, -1, size).Error
        /\ NewRangeReader(-n, -1, size).StartOffset = start
        /\ NewRangeReader(-n, -1, size).Remain = size - start
    BY DEF NewRangeReader
  <2> QED
    BY <1>2, <1>3, <2>1, <2>2 DEF GCSOpen, Serves
<1> QED
  BY <1>4, <1>5, <1>6 DEF Open, Backends, r

LEMMA OpenEndedOpened ==
  ASSUME NEW backend \in Backends, NEW size \in 1 .. MaxInt64, NEW a \in 0 .. MaxInt64
  PROVE  IF a < size THEN Serves(Open(backend, StartEnd(a, -1), size), a, size - 1, size)
         ELSE Open(backend, StartEnd(a, -1), size) = ErrInvalidRange
<1> DEFINE r == StartEnd(a, -1)
<1>1. r.Start = a /\ r.End = -1 /\ r.Suffix = 0 /\ r # NoRange
  BY Ranges
<1> HIDE DEF r
<1>2. IF a < size THEN Serves(LocalOpen(r, size), a, size - 1, size) ELSE LocalOpen(r, size) = ErrInvalidRange
  BY <1>1, PartServes DEF LocalOpen, resolveRange
<1>3. IF a < size THEN Serves(S3Open(r, size), a, size - 1, size) ELSE S3Open(r, size) = ErrInvalidRange
  <2>1. /\ header(r).first # Blank /\ header(r).first[1] = a
        /\ header(r).last = Blank
    BY <1>1 DEF header, Blank
  <2> DEFINE asked == header(r)
  <2> HIDE DEF asked
  <2>2. GetObject(asked, size)
          = IF a < size THEN Part(a, size - 1, size) ELSE ErrInvalidRange
    BY <2>1 DEF GetObject, asked
  <2> QED
    BY <1>1, <2>2, PartServes DEF S3Open, asked
<1>4. IF a < size THEN Serves(GCSOpen(r, size), a, size - 1, size) ELSE GCSOpen(r, size) = ErrInvalidRange
  <2>1. gcsRange(r)[1] = a /\ gcsRange(r)[2] = -1
    BY <1>1 DEF gcsRange
  <2>2. CASE a < size
    <3>1. /\ ~NewRangeReader(a, -1, size).Error
          /\ NewRangeReader(a, -1, size).StartOffset = a
          /\ NewRangeReader(a, -1, size).Remain = size - a
      BY <2>2 DEF NewRangeReader
    <3> QED
      BY <1>1, <2>1, <2>2, <3>1 DEF GCSOpen, Serves
  <2>3. CASE ~(a < size)
    <3>1. NewRangeReader(a, -1, size).Error
      BY <2>3 DEF NewRangeReader
    <3> QED
      BY <1>1, <2>1, <2>3, <3>1 DEF GCSOpen
  <2> QED
    BY <2>2, <2>3
<1> QED
  BY <1>2, <1>3, <1>4 DEF Open, Backends, r

LEMMA ClosedOpened ==
  ASSUME NEW backend \in Backends, NEW size \in 1 .. MaxInt64,
         NEW a \in 0 .. MaxInt64, NEW b \in a .. MaxInt64
  PROVE  IF a < size
         THEN Serves(Open(backend, StartEnd(a, b), size),
                     a, IF b < size THEN b ELSE size - 1, size)
         ELSE Open(backend, StartEnd(a, b), size) = ErrInvalidRange
<1> DEFINE r == StartEnd(a, b)
           end == IF b < size THEN b ELSE size - 1
<1>1. r.Start = a /\ r.End = b /\ r.Suffix = 0 /\ r # NoRange
  BY Ranges
<1>2. Min({b, size - 1}) = end
  BY MinOfTwo
<1> HIDE DEF r
<1>3. IF a < size THEN Serves(LocalOpen(r, size), a, end, size) ELSE LocalOpen(r, size) = ErrInvalidRange
  BY <1>1, PartServes DEF LocalOpen, resolveRange
<1>4. IF a < size THEN Serves(S3Open(r, size), a, end, size) ELSE S3Open(r, size) = ErrInvalidRange
  <2>1. /\ header(r).first # Blank /\ header(r).first[1] = a
        /\ header(r).last # Blank /\ header(r).last[1] = b
    BY <1>1 DEF header, Blank
  <2> QED
    BY <1>1, <1>2, <2>1, PartServes DEF S3Open, GetObject, ErrInvalidRange
<1>5. IF a < size THEN Serves(GCSOpen(r, size), a, end, size) ELSE GCSOpen(r, size) = ErrInvalidRange
  <2> DEFINE length == Int64(Int64(b - a) + 1)
  <2>1. gcsRange(r)[1] = a /\ gcsRange(r)[2] = length
    BY <1>1 DEF gcsRange
  <2>2. IF b - a = MaxInt64 THEN length = -MaxInt64 - 1 ELSE length = b - a + 1
    <3>1. Int64(b - a) = b - a
      BY Int64Fits DEF Representable
    <3>2. b - a # MaxInt64 => Int64(b - a + 1) = b - a + 1
      BY Int64Fits DEF Representable
    <3> QED
      BY <3>1, <3>2, Int64Wraps
  <2> HIDE DEF length
  <2>3. CASE a < size
    <3>1. IF length < 0 THEN size - a = end - a + 1
          ELSE Min({length, size - a}) = end - a + 1
      BY <2>2, <2>3, MinOfTwo
    <3>2. /\ ~NewRangeReader(a, length, size).Error
          /\ NewRangeReader(a, length, size).StartOffset = a
          /\ NewRangeReader(a, length, size).Remain = end - a + 1
      BY <2>3, <3>1 DEF NewRangeReader
    <3> QED
      BY <1>1, <2>1, <2>3, <3>2 DEF GCSOpen, Serves
  <2>4. CASE ~(a < size)
    <3>1. NewRangeReader(a, length, size).Error
      BY <2>4 DEF NewRangeReader
    <3> QED
      BY <1>1, <2>1, <2>4, <3>1 DEF GCSOpen
  <2> QED
    BY <2>3, <2>4
<1> QED
  BY <1>3, <1>4, <1>5 DEF Open, Backends, r

\* An empty file has no bytes for any range.
LEMMA EmptyOpened ==
  ASSUME NEW backend \in Backends, NEW r,
         \/ \E n \in 1 .. MaxInt64: r = SuffixRange(n)
         \/ \E a \in 0 .. MaxInt64: r = StartEnd(a, -1)
         \/ \E a \in 0 .. MaxInt64: \E b \in a .. MaxInt64: r = StartEnd(a, b)
  PROVE  Open(backend, r, 0).At = 0 /\ Open(backend, r, 0).Length = 0
<1>1. r # NoRange /\ r.Suffix \in Int /\ r.Start \in Int /\ r.End \in Int
      /\ r.Start >= 0 /\ r.Suffix >= 0
  BY Ranges DEF SuffixRange, StartEnd
<1>2. LocalOpen(r, 0) = ErrInvalidRange
  BY <1>1 DEF LocalOpen, resolveRange
<1>3. S3Open(r, 0) = ErrInvalidRange
  <2>1. \/ header(r).first = Blank
        \/ header(r).first[1] >= 0 /\ header(r).first[1] \in Int
    BY <1>1 DEF header
  <2> DEFINE asked == header(r)
  <2> HIDE DEF asked
  <2>2. GetObject(asked, 0) = ErrInvalidRange
    BY <2>1 DEF GetObject, asked
  <2> QED
    BY <1>1, <2>2 DEF S3Open, asked
<1>4. GCSOpen(r, 0).At = 0 /\ GCSOpen(r, 0).Length = 0
  <2>1. gcsRange(r)[1] \in Int /\ gcsRange(r)[2] \in Int
    BY <1>1, Int64Representable DEF gcsRange, Representable
  <2> DEFINE offset == gcsRange(r)[1]
             length == gcsRange(r)[2]
             reader == NewRangeReader(offset, length, 0)
  <2> HIDE DEF offset, length
  <2>2. ~reader.Error => reader.StartOffset = 0 /\ reader.Remain = 0
    <3>1. offset < 0 => reader.Error
      BY <2>1 DEF NewRangeReader, offset, length
    <3>2. offset > 0 => reader.Error
      BY <2>1 DEF NewRangeReader, offset, length
    <3>3. offset = 0 /\ length >= 0 => reader.Error
      BY <2>1 DEF NewRangeReader, offset, length
    <3>4. offset = 0 /\ length < 0 => reader.StartOffset = 0 /\ reader.Remain = 0
      BY <2>1 DEF NewRangeReader, offset, length
    <3>5. offset \in Int /\ length \in Int
      BY <2>1 DEF offset, length
    <3> HIDE DEF reader
    <3> QED
      BY <3>1, <3>2, <3>3, <3>4, <3>5
  <2> HIDE DEF reader
  <2>3. GCSOpen(r, 0)
          = IF reader.Error THEN ErrInvalidRange
            ELSE [Error |-> FALSE, At |-> reader.StartOffset, Length |-> reader.Remain,
                  Partial |-> TRUE,
                  ContentRange |-> <<reader.StartOffset,
                                     reader.StartOffset + reader.Remain - 1, 0>>]
    BY <1>1 DEF GCSOpen, reader, offset, length
  <2> QED
    BY <2>2, <2>3 DEF ErrInvalidRange
<1> QED
  BY <1>2, <1>3, <1>4 DEF Open, Backends, ErrInvalidRange

\* The answer to a range of which the file has the positions from first to
\* last.
LEMMA PartAnswered ==
  ASSUME NEW backend \in Backends, NEW h, NEW size \in 1 .. MaxInt64,
         NEW first \in 0 .. (size - 1), NEW last \in first .. (size - 1),
         Serves(Open(backend, parseRangeHeader(h), size), first, last, size)
  PROVE  /\ serveStream(backend, h, size).status = 206
         /\ serveStream(backend, h, size).bytes = first .. last
         /\ serveStream(backend, h, size).contentRange = <<first, last, size>>
<1> DEFINE object == Open(backend, parseRangeHeader(h), size)
<1>1. ~object.Error /\ object.Partial /\ object.At = first
      /\ object.Length = last - first + 1 /\ object.ContentRange = <<first, last, size>>
  BY DEF Serves
<1> HIDE DEF object
<1>2. object.At + object.Length - 1 = last
  BY <1>1
<1> QED
  BY <1>1, <1>2 DEF serveStream, object

\* serveStream over every storage answers every Range header, for every size
\* of a file, with exactly the bytes that it names: RangeServed of ByteRange.
THEOREM RangesAreServed ==
  ASSUME NEW h \in RangeHeader, NEW size \in 0 .. MaxInt64
  PROVE  RangeServed(h, size)
<1> SUFFICES ASSUME NEW backend \in Backends
             PROVE  LET response == serveStream(backend, h, size)
                        wanted   == Requested(h, size)
                    IN CASE ~Valid(h) ->
                              response.status = 200 /\ response.bytes = 0 .. (size - 1)
                         [] Valid(h) /\ wanted = {} /\ size > 0 -> response.status = 416
                         [] Valid(h) /\ size = 0 -> response.bytes = {}
                         [] OTHER ->
                              /\ response.status = 206
                              /\ response.bytes = wanted
                              /\ response.contentRange[1] \in wanted
                              /\ \A p \in wanted:
                                   p \in response.contentRange[1] .. response.contentRange[2]
                              /\ response.contentRange[2] \in wanted
                              /\ response.contentRange[3] = size
  BY DEF RangeServed
<1> DEFINE object == Open(backend, parseRangeHeader(h), size)
           response == serveStream(backend, h, size)
           wanted == Requested(h, size)
<1>1. CASE ~Valid(h)
  <2>1. object = Whole(size)
    BY <1>1, HeaderRead, WholeOpened
  <2>2. response.status = 200 /\ response.bytes = 0 .. (size - 1)
    BY <2>1 DEF serveStream, Whole
  <2> QED
    BY <1>1, <2>2
<1>2. ASSUME Valid(h), size = 0
      PROVE  response.bytes = {}
  <2>1. object.At = 0 /\ object.Length = 0
    BY <1>2, HeaderRead, EmptyOpened DEF Suffix, OpenEnded, Closed
  <2> HIDE DEF object
  <2>2. response.bytes = object.At .. (object.At + object.Length - 1)
    BY DEF serveStream, object
  <2> QED
    BY <2>1, <2>2
\* a range of which there are the positions from first to last
<1>3. ASSUME NEW first \in 0 .. (size - 1), NEW last \in first .. (size - 1),
             Valid(h), size > 0, wanted = first .. last,
             Serves(object, first, last, size)
      PROVE  /\ wanted # {}
             /\ response.status = 206
             /\ response.bytes = wanted
             /\ response.contentRange[1] \in wanted
             /\ \A p \in wanted:
                  p \in response.contentRange[1] .. response.contentRange[2]
             /\ response.contentRange[2] \in wanted
             /\ response.contentRange[3] = size
  <2>1. /\ response.status = 206 /\ response.bytes = first .. last
        /\ response.contentRange = <<first, last, size>>
    BY <1>3, PartAnswered
  <2> HIDE DEF response, wanted
  <2>2. /\ response.contentRange[1] = first /\ response.contentRange[2] = last
        /\ response.contentRange[3] = size
    BY <2>1
  <2>3. first \in first .. last /\ last \in first .. last
    BY <1>3
  <2> QED
    BY <1>3, <2>1, <2>2, <2>3
\* a range of which there is none
<1>4. ASSUME Valid(h), size > 0, wanted = {}, object = ErrInvalidRange
      PROVE  response.status = 416
  <2>1. object.Error /\ ~object.Partial
    BY <1>4 DEF ErrInvalidRange
  <2> HIDE DEF object, wanted
  <2> QED
    BY <2>1 DEF serveStream, object
<1>5. ASSUME NEW n \in Int, Suffix(h, n), size > 0
      PROVE  \E first \in 0 .. (size - 1): \E last \in first .. (size - 1):
               wanted = first .. last /\ Serves(object, first, last, size)
  <2> DEFINE start == IF n < size THEN size - n ELSE 0
  <2>1. Serves(object, start, size - 1, size)
    BY <1>5, SuffixOpened DEF Suffix
  <2>2. wanted = start .. (size - 1)
    BY <1>5 DEF Requested, Suffix
  <2>3. start \in 0 .. (size - 1) /\ size - 1 \in start .. (size - 1)
    BY <1>5 DEF Suffix
  <2> HIDE DEF start, object, wanted
  <2> QED
    BY <2>1, <2>2, <2>3
<1>6. ASSUME NEW a \in 0 .. MaxInt64, NEW last \in Int, h.first = <<a>>, size > 0,
             IF a < size THEN Serves(object, a, last, size) ELSE object = ErrInvalidRange,
             a < size => last \in a .. (size - 1),
             \A p \in 0 .. (size - 1): (h.last = Blank \/ p <= h.last[1]) <=> p <= last
      PROVE  \/ wanted = {} /\ object = ErrInvalidRange
             \/ \E first \in 0 .. (size - 1): \E end \in first .. (size - 1):
                  wanted = first .. end /\ Serves(object, first, end, size)
  <2>1. wanted = {p \in 0 .. (size - 1): p >= a /\ p <= last}
    <3>1. h.first # Blank /\ h.first[1] = a
      BY <1>6 DEF Blank
    <3> QED
      BY <1>6, <3>1 DEF Requested
  <2> HIDE DEF wanted, object
  <2>2. CASE a < size
    <3>1. wanted = a .. last
      BY <1>6, <2>1, <2>2
    <3> QED
      BY <1>6, <2>2, <3>1
  <2>3. CASE ~(a < size)
    BY <1>6, <2>1, <2>3
  <2> QED
    BY <2>2, <2>3
<1>7. ASSUME NEW a \in Int, OpenEnded(h, a), size > 0
      PROVE  \/ wanted = {} /\ object = ErrInvalidRange
             \/ \E first \in 0 .. (size - 1): \E end \in first .. (size - 1):
                  wanted = first .. end /\ Serves(object, first, end, size)
  <2>1. IF a < size THEN Serves(object, a, size - 1, size) ELSE object = ErrInvalidRange
    BY <1>7, OpenEndedOpened DEF OpenEnded
  <2> HIDE DEF wanted, object
  <2> QED
    BY <1>6, <1>7, <2>1 DEF OpenEnded
<1>8. ASSUME NEW a \in Int, NEW b \in Int, Closed(h, a, b), size > 0
      PROVE  \/ wanted = {} /\ object = ErrInvalidRange
             \/ \E first \in 0 .. (size - 1): \E end \in first .. (size - 1):
                  wanted = first .. end /\ Serves(object, first, end, size)
  <2> DEFINE last == IF b < size THEN b ELSE size - 1
  <2>1. IF a < size THEN Serves(object, a, last, size) ELSE object = ErrInvalidRange
    BY <1>8, ClosedOpened DEF Closed
  <2>2. h.last # Blank /\ h.last[1] = b
    BY <1>8 DEF Closed, Blank
  <2> HIDE DEF wanted, object
  <2> QED
    BY <1>6, <1>8, <2>1, <2>2 DEF Closed
<1>9. ASSUME Valid(h), size > 0
      PROVE  \/ wanted = {} /\ object = ErrInvalidRange
             \/ \E first \in 0 .. (size - 1): \E end \in first .. (size - 1):
                  wanted = first .. end /\ Serves(object, first, end, size)
  <2> HIDE DEF wanted, object
  <2> QED
    BY <1>5, <1>7, <1>8, <1>9, HeaderRead
<1> HIDE DEF response, wanted, object
<1>10. CASE Valid(h) /\ size = 0
  BY <1>2, <1>10 DEF response, wanted
<1>11. CASE Valid(h) /\ size > 0
  BY <1>3, <1>4, <1>9, <1>11 DEF response, wanted
<1> QED
  BY <1>1, <1>10, <1>11

-----------------------------------------------------------------------------
(* Expiration times. *)

LEMMA QuotientBounded ==
  ASSUME NEW p \in Nat \ {0}, NEW d \in Nat, NEW a \in 0 .. (d * p)
  PROVE  a \div p \in 0 .. d
<1>1. a \div p \in Nat
  OBVIOUS
<1>2. a \div p <= d
  <2>1. (a \div p) * p <= a
    OBVIOUS
  <2>2. \A q \in Nat: q > d => q * p > d * p
    OBVIOUS
  <2> QED
    BY <1>1, <2>1, <2>2
<1> QED
  BY <1>1, <1>2

LEMMA QuotientMonotone ==
  ASSUME NEW p \in Nat \ {0}, NEW a \in Nat, NEW b \in Nat, a <= b
  PROVE  a \div p <= b \div p
  OBVIOUS

LEMMA QuotientExact ==
  ASSUME NEW p \in Nat \ {0}, NEW n \in Int
  PROVE  (n * p) \div p = n
  OBVIOUS

LEMMA CubeMonotone ==
  ASSUME NEW x \in Int, NEW y \in Int, x <= y
  PROVE  Pow3(x) <= Pow3(y) /\ Pow3(x) \in Int
  BY DEF Pow3

LEMMA CubeNegated ==
  ASSUME NEW x \in Int
  PROVE  Pow3(-x) = -Pow3(x) /\ (x > 0 => Pow3(x) > 0)
  BY DEF Pow3

\* A duration of so many milliseconds that a time.Duration holds is added
\* without loss.
LEMMA AddFits ==
  ASSUME ExpirationAssumption, NEW now \in Int, NEW ms \in Int,
         ms * Millisecond \in Representable
  PROVE  Add(now, ms) = now + ms
  BY Int64Fits, QuotientExact DEF Add, ExpirationAssumption

\* What a size adds to MinAge.
Extension(size) == Truncate((MinAge - MaxAge) * Pow3(size - MaxSize), Pow3(MaxSize))

LEMMA ExtensionBounds ==
  ASSUME ExpirationAssumption, SaneAges, NEW size \in 0 .. (2 * MaxSize)
  PROVE  /\ Extension(size) \in -(MaxAge - MinAge) .. (MaxAge - MinAge)
         /\ size <= MaxSize => Extension(size) >= 0
<1> DEFINE D == MaxAge - MinAge
           P == Pow3(MaxSize)
           q == Pow3(size - MaxSize)
           a == (MinAge - MaxAge) * q
<1>1. D \in Nat /\ P \in Nat \ {0}
  <2>1. D \in Nat /\ MaxSize \in Int /\ MaxSize > 0
    BY DEF ExpirationAssumption, SaneAges
  <2>2. P \in Int /\ P > 0
    BY <2>1, CubeNegated, CubeMonotone
  <2> QED
    BY <2>1, <2>2
<1>2. q \in -P .. P /\ (size <= MaxSize => q <= 0)
  <2>1. Pow3(-MaxSize) <= q /\ q <= Pow3(MaxSize) /\ q \in Int
    BY CubeMonotone DEF ExpirationAssumption
  <2>2. Pow3(-MaxSize) = -P /\ Pow3(0) = 0
    BY CubeNegated DEF ExpirationAssumption, Pow3
  <2>3. size <= MaxSize => q <= Pow3(0)
    BY CubeMonotone DEF ExpirationAssumption
  <2> HIDE DEF q, P
  <2> QED
    BY <1>1, <2>1, <2>2, <2>3 DEF P
<1>3. a = D * (-q) /\ a \in Int
  <2> HIDE DEF q
  <2> QED
    BY <1>2 DEF ExpirationAssumption
<1> HIDE DEF D, P, q, a
<1>4. a \in -(D * P) .. (D * P) /\ (q <= 0 => a >= 0)
  <2>1. \A d, n, m \in Int: d >= 0 /\ n <= m => d * n <= d * m
    OBVIOUS
  <2>2. D * (-q) <= D * P /\ D * (-P) <= D * (-q) /\ D * (-P) = -(D * P)
    BY <1>1, <1>2, <2>1
  <2>3. q <= 0 => D * 0 <= D * (-q)
    BY <1>1, <1>2, <2>1
  <2> QED
    BY <1>1, <1>3, <2>2, <2>3
<1>5. Truncate(a, P) \in -D .. D /\ (a >= 0 => Truncate(a, P) >= 0)
  <2>1. CASE a >= 0
    <3>1. a \in 0 .. (D * P)
      BY <1>1, <1>4, <2>1
    <3>2. a \div P \in 0 .. D
      BY <1>1, <3>1, QuotientBounded
    <3> QED
      BY <1>1, <2>1, <3>2 DEF Truncate
  <2>2. CASE ~(a >= 0)
    <3>1. -a \in 0 .. (D * P)
      BY <1>1, <1>4, <2>2
    <3>2. (-a) \div P \in 0 .. D
      BY <1>1, <3>1, QuotientBounded
    <3> QED
      BY <1>1, <2>2, <3>2 DEF Truncate
  <2> QED
    BY <1>4, <2>1, <2>2
<1> QED
  BY <1>2, <1>4, <1>5 DEF Extension, D, P, q, a

LEMMA ExtensionMonotone ==
  ASSUME ExpirationAssumption, SaneAges,
         NEW size \in Int, NEW larger \in Int, size <= larger
  PROVE  Extension(larger) <= Extension(size)
<1> DEFINE D == MaxAge - MinAge
           P == Pow3(MaxSize)
           q == Pow3(size - MaxSize)
           r == Pow3(larger - MaxSize)
           a == (MinAge - MaxAge) * q
           b == (MinAge - MaxAge) * r
<1>1. D \in Nat /\ P \in Nat \ {0}
  <2>1. D \in Nat /\ MaxSize \in Int /\ MaxSize > 0
    BY DEF ExpirationAssumption, SaneAges
  <2>2. P \in Int /\ P > 0
    BY <2>1, CubeNegated, CubeMonotone
  <2> QED
    BY <2>1, <2>2
<1>2. q <= r /\ q \in Int /\ r \in Int
  BY CubeMonotone DEF ExpirationAssumption
<1>3. b <= a /\ a \in Int /\ b \in Int
  <2> HIDE DEF q, r
  <2>1. \A d, n, m \in Int: d >= 0 /\ n <= m => (-d) * m <= (-d) * n
    OBVIOUS
  <2>2. MinAge - MaxAge = -D
    BY DEF ExpirationAssumption
  <2> HIDE DEF D
  <2> QED
    BY <1>1, <1>2, <2>1, <2>2
<1> HIDE DEF P, a, b
<1>4. Truncate(b, P) <= Truncate(a, P)
  <2>1. CASE b >= 0
    BY <1>1, <1>3, <2>1, QuotientMonotone DEF Truncate
  <2>2. CASE b < 0 /\ a >= 0
    <3>1. a \div P >= 0 /\ (-b) \div P >= 0 /\ a \div P \in Int /\ (-b) \div P \in Int
      BY <1>1, <1>3, <2>2
    <3> QED
      BY <1>3, <2>2, <3>1 DEF Truncate
  <2>3. CASE b < 0 /\ a < 0
    <3>1. (-a) \div P <= (-b) \div P /\ (-a) \div P \in Int /\ (-b) \div P \in Int
      BY <1>1, <1>3, <2>3, QuotientMonotone
    <3> QED
      BY <1>3, <2>3, <3>1 DEF Truncate
  <2> QED
    BY <1>3, <2>1, <2>2, <2>3
<1> QED
  BY <1>4 DEF Extension, P, a, b

LEMMA MaxExpirationExact ==
  ASSUME ExpirationAssumption, SaneAges, NEW size \in 0 .. (2 * MaxSize), NEW now \in Int
  PROVE  MaxExpirationTime(size, now) = now + MinAge + Extension(size)
<1> DEFINE ms == MinAge + Extension(size)
<1>1. ms \in -MaxAge .. MaxAge
  BY ExtensionBounds DEF ExpirationAssumption, SaneAges
<1> HIDE DEF ms
<1>2. ms * Millisecond \in Representable
  <2>1. \A n, m, c \in Int: c >= 0 /\ n <= m => n * c <= m * c
    OBVIOUS
  <2>2. /\ ms * Millisecond <= MaxAge * Millisecond
        /\ (-MaxAge) * Millisecond <= ms * Millisecond
        /\ (-MaxAge) * Millisecond = -(MaxAge * Millisecond)
    BY <1>1, <2>1 DEF ExpirationAssumption
  <2> QED
    BY <1>1, <2>2 DEF ExpirationAssumption, SaneAges, Representable
<1>3. Add(now, ms) = now + ms
  BY <1>1, <1>2, AddFits DEF ExpirationAssumption
<1> QED
  BY <1>1, <1>3, ExtensionBounds DEF MaxExpirationTime, Extension, ms, ExpirationAssumption

\* A wish within the bounds of the file is met exactly.
LEMMA WishParsed ==
  ASSUME ExpirationAssumption, SaneAges, NEW value \in Int, NEW now \in Int,
         NEW wish, wish = IF value < HoursBelow THEN now + value * Hour ELSE value,
         wish \in now .. (now + MaxAge)
  PROVE  ParseExpiresForm(value, now) = wish
<1>1. CASE value < HoursBelow
  <2> DEFINE ms == value * Hour
  <2>1. ms \in 0 .. MaxAge
    BY <1>1 DEF ExpirationAssumption
  <2> HIDE DEF ms
  <2>2. ms * Millisecond \in 0 .. (MaxAge * Millisecond) /\ ms <= ms * Millisecond
    <3>1. \A n, m, c \in Nat: n <= m => n * c <= m * c
      OBVIOUS
    <3>2. \A n \in Nat, c \in Nat \ {0}: n <= n * c /\ n * c \in Nat
      OBVIOUS
    <3> QED
      BY <2>1, <3>1, <3>2 DEF ExpirationAssumption
  <2>3. ms \in Representable /\ ms * Millisecond \in Representable
    BY <2>1, <2>2 DEF ExpirationAssumption, SaneAges, Representable
  <2>4. Add(now, Int64(ms)) = now + ms
    BY <2>1, <2>3, AddFits, Int64Fits
  <2> QED
    BY <1>1, <2>4 DEF ParseExpiresForm, ms
<1>2. CASE ~(value < HoursBelow)
  BY <1>2 DEF ParseExpiresForm
<1> QED
  BY <1>1, <1>2

LEMMA ParsedTime ==
  ASSUME ExpirationAssumption, NEW value \in Int, NEW now \in Int
  PROVE  ParseExpiresForm(value, now) \in Int
<1>1. \A n \in Int: Int64(n) \in Int
  BY Int64Representable DEF Representable
<1>2. value * Hour \in Int /\ \A ms \in Int: ms * Millisecond \in Int
  BY DEF ExpirationAssumption
<1>3. \A n \in Int: n \div Millisecond \in Int
  BY DEF ExpirationAssumption
<1>4. \A ms \in Int: Add(now, ms) \in Int
  BY <1>1, <1>2, <1>3 DEF Add
<1> QED
  BY <1>1, <1>2, <1>4 DEF ParseExpiresForm

FormValue == {<<>>} \cup {<<n>>: n \in Int}

\* CalculateExpirationTime and applyExpire give no file more time than MaxAge,
\* whatever the form says and the arithmetic makes of it, no file within the
\* limit less than MinAge, and what was asked for within its bounds:
\* ExpirationBounded of Expiration. Containers of the end-to-end encryption
\* are larger than the limit, but never twice as large.
THEOREM ExpirationsAreBounded ==
  ASSUME NEW form \in FormValue, NEW size \in 0 .. (2 * MaxSize), NEW now \in Int
  PROVE  ExpirationBounded(form, size, now)
<1> USE ExpirationAssumption
<1> SUFFICES ASSUME SaneAges
             PROVE  ExpirationBounded(form, size, now)
  BY DEF ExpirationBounded
<1> DEFINE latest == MaxExpirationTime(size, now)
<1>1. /\ latest \in Int /\ latest <= now + MaxAge
      /\ size <= MaxSize => latest >= now + MinAge
  BY MaxExpirationExact, ExtensionBounds DEF ExpirationAssumption, SaneAges
<1> HIDE DEF latest
<1>2. CASE form = <<>>
  BY <1>1, <1>2 DEF ExpirationBounded, CalculateExpirationTime, latest
<1>3. ASSUME NEW value \in Int, form = <<value>>
      PROVE  ExpirationBounded(form, size, now)
  <2> DEFINE parsed == ParseExpiresForm(value, now)
             wish == IF value < HoursBelow THEN now + value * Hour ELSE value
  <2>1. form # <<>> /\ form[1] = value
    BY <1>3
  <2>2. parsed \in Int
    BY ParsedTime
  <2>3. wish \in now .. latest => parsed = wish
    BY <1>1, WishParsed DEF ExpirationAssumption
  <2> HIDE DEF parsed, wish
  <2>4. Min({parsed, latest}) = IF parsed <= latest THEN parsed ELSE latest
    BY <1>1, <2>2, MinOfTwo
  <2>5. CalculateExpirationTime(form, size, now) = Min({parsed, latest})
    BY <2>1 DEF CalculateExpirationTime, parsed, latest
  <2>6. ExpireAccepted(value, size, now) <=> parsed <= latest
    BY DEF ExpireAccepted, parsed, latest
  <2>7. CalculateExpirationTime(form, size, now) <= now + MaxAge
    BY <1>1, <2>2, <2>4, <2>5 DEF ExpirationAssumption
  <2>8. wish \in now .. latest =>
          CalculateExpirationTime(form, size, now) = wish /\ ExpireAccepted(value, size, now)
    BY <1>1, <2>2, <2>3, <2>4, <2>5, <2>6
  <2>9. ExpireAccepted(value, size, now) => parsed <= now + MaxAge
    BY <1>1, <2>2, <2>6 DEF ExpirationAssumption
  <2> QED
    BY <2>1, <2>7, <2>8, <2>9 DEF ExpirationBounded, parsed, wish, latest
<1> QED
  BY <1>2, <1>3 DEF FormValue

\* MaxExpirationTime gives a larger file never more time than a smaller one,
\* through its cube, its division and its overflow: LargerExpiresSooner of
\* Expiration.
THEOREM LargerExpireSooner ==
  ASSUME NEW size \in 0 .. (2 * MaxSize), NEW larger \in 0 .. (2 * MaxSize),
         NEW now \in Int
  PROVE  LargerExpiresSooner(size, larger, now)
<1> USE ExpirationAssumption
<1> SUFFICES ASSUME SaneAges, size <= larger
             PROVE  MaxExpirationTime(larger, now) <= MaxExpirationTime(size, now)
  BY DEF LargerExpiresSooner
<1>1. Extension(larger) <= Extension(size)
  BY ExtensionMonotone DEF ExpirationAssumption
<1> QED
  BY <1>1, MaxExpirationExact, ExtensionBounds DEF ExpirationAssumption, SaneAges

-----------------------------------------------------------------------------
(* The walk through the pages of the admin panel. *)

\* Rows that differ in the column by which they are sorted.
Sortable(filter, Rows) ==
  /\ \A a \in Rows: a[SortColumn(filter)] \in Int
  /\ \A a, b \in Rows: a[SortColumn(filter)] = b[SortColumn(filter)] => a = b

\* Every row has its place in an order.
LEMMA OrderComplete ==
  ASSUME NEW filter, NEW M, IsFiniteSet(M), NEW s \in Orders(filter, M)
  PROVE  /\ Cardinality(M) \in Nat
         /\ DOMAIN s = 1 .. Cardinality(M)
         /\ \A i \in DOMAIN s: s[i] \in M
         /\ \A f \in M: \E i \in DOMAIN s: s[i] = f
<1> DEFINE n == Cardinality(M)
<1>1. n \in Nat
  BY FS_CardinalityType
<1>2. s \in [1 .. n -> M] /\ \A i, j \in 1 .. n: i < j => s[i] # s[j]
  BY DEF Orders
<1> HIDE DEF n
<1>3. s \in Injection(1 .. n, M)
  <2>1. \A i, j \in 1 .. n: s[i] = s[j] => i = j
    BY <1>1, <1>2
  <2> QED
    BY <1>2, <2>1 DEF Injection, IsInjective
<1>4. Cardinality(1 .. n) = n
  BY <1>1, FS_Interval
<1>5. s \in Surjection(1 .. n, M)
  BY <1>3, <1>4, FS_Injection DEF n
<1> QED
  BY <1>1, <1>2, <1>5 DEF Surjection, n

\* Rows that are added to a table move no row forward.
LEMMA PositionGrows ==
  ASSUME NEW filter, NEW Rows, Sortable(filter, Rows),
         NEW M, NEW N, IsFiniteSet(M), IsFiniteSet(N), M \subseteq N, N \subseteq Rows,
         NEW s \in Orders(filter, M), NEW t \in Orders(filter, N),
         NEW i \in DOMAIN s, NEW j \in DOMAIN t, s[i] = t[j]
  PROVE  i <= j
<1>1. /\ DOMAIN s = 1 .. Cardinality(M) /\ Cardinality(M) \in Nat
      /\ DOMAIN t = 1 .. Cardinality(N) /\ Cardinality(N) \in Nat
      /\ \A k \in DOMAIN s: s[k] \in M
      /\ \A f \in N: \E k \in DOMAIN t: t[k] = f
  BY OrderComplete
<1>2. /\ \A k, l \in DOMAIN s: k < l =>
           s[k] # s[l] /\ buildListFilesOrderBy(filter, s[k], s[l])
      /\ \A k, l \in DOMAIN t: k < l =>
           t[k] # t[l] /\ buildListFilesOrderBy(filter, t[k], t[l])
  BY DEF Orders
<1>3. \A a, b \in Rows:
        buildListFilesOrderBy(filter, a, b) /\ buildListFilesOrderBy(filter, b, a) => a = b
  BY DEF buildListFilesOrderBy, Sortable
<1>4. 1 .. i \subseteq DOMAIN s /\ i \in Nat /\ j \in Nat
  BY <1>1
<1>5. \A k \in 1 .. i: \E l \in 1 .. j: t[l] = s[k]
  <2> SUFFICES ASSUME NEW k \in 1 .. i
               PROVE  \E l \in 1 .. j: t[l] = s[k]
    OBVIOUS
  <2>1. PICK l \in DOMAIN t : t[l] = s[k]
    BY <1>1, <1>4
  <2>2. CASE k = i
    <3>1. j \in 1 .. j
      BY <1>1
    <3> QED
      BY <2>2, <3>1
  <2>3. CASE k < i
    <3>1. s[k] # s[i] /\ buildListFilesOrderBy(filter, s[k], s[i])
      BY <1>2, <1>4, <2>3
    <3>2. s[k] \in Rows /\ s[i] \in Rows
      BY <1>1, <1>4
    <3>3. ~(j < l)
      BY <1>2, <1>3, <2>1, <3>1, <3>2
    <3>4. l \in 1 .. j
      BY <1>1, <3>3
    <3> QED
      BY <2>1, <3>4
  <2> QED
    BY <1>4, <2>2, <2>3
<1> DEFINE g == [k \in 1 .. i |-> CHOOSE l \in 1 .. j: t[l] = s[k]]
<1>6. g \in [1 .. i -> 1 .. j] /\ \A k \in 1 .. i: t[g[k]] = s[k]
  BY <1>5
<1> HIDE DEF g
<1>7. g \in Injection(1 .. i, 1 .. j)
  <2>1. \A k, l \in 1 .. i: g[k] = g[l] => k = l
    <3> SUFFICES ASSUME NEW k \in 1 .. i, NEW l \in 1 .. i, g[k] = g[l]
                 PROVE  k = l
      OBVIOUS
    <3>1. s[k] = s[l]
      BY <1>6
    <3>2. ~(k < l) /\ ~(l < k)
      BY <1>2, <1>4, <3>1
    <3> QED
      BY <3>2
  <2> QED
    BY <1>6, <2>1 DEF Injection, IsInjective
<1>8. Cardinality(1 .. i) = i /\ Cardinality(1 .. j) = j /\ IsFiniteSet(1 .. j)
  BY <1>1, <1>4, FS_Interval
<1> QED
  BY <1>7, <1>8, FS_Injection

\* A walk over n pages, the rows of each in an order of a table of its own.
Walk(filter, Rows, n, tables, w) ==
  /\ n \in Nat
  /\ Sortable(filter, Rows)
  /\ \A p \in 1 .. n: tables[p] \subseteq Rows /\ IsFiniteSet(tables[p])
  /\ \A p, q \in 1 .. n: p <= q => tables[p] \subseteq tables[q]
  /\ \A p \in 1 .. n: w[p] \in Orders(filter, tables[p])

\* the rows of page p, and whether it is the last
Shown(w, limit, p) == Items(w[p], limit, (p - 1) * limit)
IsLast(tables, limit, p) == Cardinality(tables[p]) <= p * limit

\* the place of row f on page p
Place(w, f, p) == CHOOSE i \in DOMAIN w[p]: w[p][i] = f

LEMMA PlacesOnWalk ==
  ASSUME NEW filter, NEW Rows, NEW n, NEW tables, NEW w,
         Walk(filter, Rows, n, tables, w),
         NEW p \in 1 .. n, NEW f \in tables[p]
  PROVE  /\ Place(w, f, p) \in DOMAIN w[p] /\ w[p][Place(w, f, p)] = f
         /\ Place(w, f, p) \in 1 .. Cardinality(tables[p])
         /\ Cardinality(tables[p]) \in Nat
<1>1. IsFiniteSet(tables[p]) /\ w[p] \in Orders(filter, tables[p])
  BY DEF Walk
<1>2. /\ DOMAIN w[p] = 1 .. Cardinality(tables[p]) /\ Cardinality(tables[p]) \in Nat
      /\ \E i \in DOMAIN w[p]: w[p][i] = f
  BY <1>1, OrderComplete
<1> QED
  BY <1>2 DEF Place

LEMMA PlacesGrow ==
  ASSUME NEW filter, NEW Rows, NEW n, NEW tables, NEW w,
         Walk(filter, Rows, n, tables, w),
         NEW p \in 1 .. n, NEW q \in 1 .. n, tables[p] \subseteq tables[q],
         NEW i \in DOMAIN w[p], NEW j \in DOMAIN w[q], w[p][i] = w[q][j]
  PROVE  i <= j
<1>1. /\ IsFiniteSet(tables[p]) /\ IsFiniteSet(tables[q]) /\ tables[q] \subseteq Rows
      /\ w[p] \in Orders(filter, tables[p]) /\ w[q] \in Orders(filter, tables[q])
      /\ Sortable(filter, Rows)
  BY DEF Walk
<1> QED
  BY <1>1, PositionGrows

\* Who is on the first page or pushed back by others is found on some page,
\* if the last one is the end of its table.
LEMMA WalkShowsAll ==
  ASSUME NEW filter, NEW Rows, NEW n, NEW tables, NEW w,
         Walk(filter, Rows, n, tables, w), NEW limit \in Nat \ {0},
         NEW p \in 1 .. n, IsLast(tables, limit, p), NEW f \in tables[1]
  PROVE  \E q \in 1 .. p: f \in Shown(w, limit, q)
<1>1. p \in Nat \ {0} /\ 1 .. p \subseteq 1 .. n /\ 1 \in 1 .. n
  BY DEF Walk
<1>2. ASSUME NEW q \in 1 .. p
      PROVE  f \in tables[q]
  BY <1>1 DEF Walk
<1> DEFINE pos == [q \in 1 .. p |-> Place(w, f, q)]
<1>3. ASSUME NEW q \in 1 .. p
      PROVE  /\ pos[q] \in DOMAIN w[q] /\ w[q][pos[q]] = f
             /\ pos[q] \in 1 .. Cardinality(tables[q]) /\ Cardinality(tables[q]) \in Nat
  <2>1. q \in 1 .. n /\ f \in tables[q]
    BY <1>1, <1>2
  <2> QED
    BY <2>1, PlacesOnWalk
<1> HIDE DEF pos
<1>4. \A q \in 1 .. p: pos[q] \in Nat \ {0}
  BY <1>3
<1> DEFINE shown == {q \in 1 .. p: pos[q] <= q * limit}
<1>5. p \in shown
  <2>1. p \in 1 .. p
    BY <1>1
  <2>2. pos[p] <= Cardinality(tables[p]) /\ Cardinality(tables[p]) \in Nat
    BY <1>3, <2>1
  <2>3. Cardinality(tables[p]) <= p * limit
    BY DEF IsLast
  <2> QED
    BY <1>1, <1>4, <2>1, <2>2, <2>3
<1>6. shown \subseteq Nat /\ shown # {}
  BY <1>5
<1>7. PICK m \in shown : \A k \in shown: m <= k
  <2> HIDE DEF shown
  <2> QED
    BY <1>6, LeastNatural
<1>8. m \in 1 .. p /\ m \in Nat /\ pos[m] <= m * limit /\ pos[m] \in Nat \ {0}
  BY <1>4
<1>9. pos[m] > (m - 1) * limit
  <2>1. CASE m = 1
    BY <1>8, <2>1
  <2>2. CASE m > 1
    <3>1. m - 1 \in 1 .. p /\ m - 1 \in Nat
      BY <1>1, <1>8, <2>2
    <3>2. m - 1 \notin shown
      <4> HIDE DEF shown
      <4> QED
        BY <1>7, <1>8, <3>1
    <3>3. pos[m - 1] \in Nat /\ ~(pos[m - 1] <= (m - 1) * limit)
      BY <1>4, <3>1, <3>2
    <3>4. tables[m - 1] \subseteq tables[m]
      BY <1>1, <1>8, <3>1 DEF Walk
    <3>5. pos[m - 1] <= pos[m]
      <4>1. /\ m - 1 \in 1 .. n /\ m \in 1 .. n
            /\ pos[m - 1] \in DOMAIN w[m - 1] /\ pos[m] \in DOMAIN w[m]
            /\ w[m - 1][pos[m - 1]] = w[m][pos[m]]
        BY <1>1, <1>3, <1>8, <3>1
      <4> QED
        BY <3>4, <4>1, PlacesGrow
    <3>6. (m - 1) * limit \in Nat
      BY <3>1
    <3> QED
      BY <1>8, <3>3, <3>5, <3>6
  <2> QED
    BY <1>8, <2>1, <2>2
<1>10. m * limit = (m - 1) * limit + limit
  BY <1>8
<1>11. pos[m] \in DOMAIN w[m] /\ w[m][pos[m]] = f
  BY <1>3, <1>8
<1> QED
  BY <1>8, <1>9, <1>10, <1>11 DEF Items, Shown

\* Nothing is on two pages of the same table.
LEMMA WalkShowsOnce ==
  ASSUME NEW filter, NEW Rows, NEW n, NEW tables, NEW w,
         Walk(filter, Rows, n, tables, w), NEW limit \in Nat \ {0},
         NEW p \in 1 .. n, NEW q \in 1 .. n, p < q, tables[q] \subseteq tables[p]
  PROVE  Shown(w, limit, p) \cap Shown(w, limit, q) = {}
<1> SUFFICES ASSUME NEW f, f \in Shown(w, limit, p), f \in Shown(w, limit, q)
             PROVE  FALSE
  OBVIOUS
<1>1. PICK i \in DOMAIN w[p] : w[p][i] = f /\ i <= (p - 1) * limit + limit
  BY DEF Items, Shown
<1>2. PICK j \in DOMAIN w[q] : w[q][j] = f /\ j > (q - 1) * limit
  BY DEF Items, Shown
<1>3. j <= i
  BY <1>1, <1>2, PlacesGrow
<1>4. i \in Nat /\ j \in Nat
  <2>1. /\ IsFiniteSet(tables[p]) /\ IsFiniteSet(tables[q])
        /\ w[p] \in Orders(filter, tables[p]) /\ w[q] \in Orders(filter, tables[q])
    BY DEF Walk
  <2>2. /\ DOMAIN w[p] = 1 .. Cardinality(tables[p]) /\ Cardinality(tables[p]) \in Nat
        /\ DOMAIN w[q] = 1 .. Cardinality(tables[q]) /\ Cardinality(tables[q]) \in Nat
    BY <2>1, OrderComplete
  <2> QED
    BY <1>1, <1>2, <2>2
<1>5. p * limit <= (q - 1) * limit /\ (p - 1) * limit + limit = p * limit
  <2>1. \A k, l \in Nat: k <= l => k * limit <= l * limit
    OBVIOUS
  <2>2. p \in Nat /\ q - 1 \in Nat /\ p <= q - 1
    OBVIOUS
  <2> QED
    BY <2>1, <2>2
<1>6. (q - 1) * limit \in Int /\ p * limit \in Int
  OBVIOUS
<1> QED
  BY <1>1, <1>2, <1>3, <1>4, <1>5, <1>6

\* What the dashboard asks for is what it gets.
LEMMA PageItems ==
  ASSUME NEW filter, NEW counted, NEW selected, NEW order,
         NEW limit \in 1 .. maxAdminPageSize, NEW p \in Nat \ {0}
  PROVE  ListFiles(filter, counted, selected, order, limit, Offset(p, limit)).items
           = Items(order, limit, (p - 1) * limit)
<1>1. limit \in Int /\ limit > 0 /\ limit <= maxAdminPageSize
  BY ListingAssumption
<1>2. clampLimit(<<limit>>) = limit
  BY <1>1, ListingAssumption DEF clampLimit
<1> DEFINE offset == (p - 1) * limit
<1>3. offset \in Nat
  BY <1>1
<1> HIDE DEF offset
<1>4. parseOffset(<<offset>>) = offset
  BY <1>3 DEF parseOffset
<1> QED
  BY <1>2, <1>4 DEF ListFiles, Offset, offset

\* The dashboard's walk shows every file that was there all along, however
\* many are uploaded between any two of its statements, and none twice if
\* there are no uploads: UploadsHideNothing of Listing.
THEOREM WalksMissNothing ==
  ASSUME NEW filter, NEW limit \in 1 .. maxAdminPageSize,
         NEW Rows, Sortable(filter, Rows),
         NEW tables \in Seq(SUBSET Rows),
         \A i \in DOMAIN tables: IsFiniteSet(tables[i]),
         \A i, j \in DOMAIN tables: i <= j => tables[i] \subseteq tables[j]
  PROVE  UploadsHideNothing(filter, limit, tables)
<1> DEFINE n == Len(tables) \div 2
           counted(p) == tables[2 * p - 1]
           selected(p) == tables[2 * p]
           orders == [p \in 1 .. n |-> Orders(filter, Matching(filter, selected(p)))]
           page(p, order) == ListFiles(filter, counted(p), selected(p), order, limit,
                                       Offset(p, limit))
           overtaken(p) == Matching(filter, counted(p)) # Matching(filter, selected(p))
           matching == [p \in 1 .. n |-> Matching(filter, selected(p))]
<1>1. limit \in Nat \ {0} /\ n \in Nat
  BY ListingAssumption
<1>2. ASSUME NEW p \in 1 .. n
      PROVE  /\ p \in Nat \ {0} /\ 1 \in DOMAIN tables
             /\ 2 * p \in DOMAIN tables /\ 2 * p - 1 \in DOMAIN tables
  OBVIOUS
<1>a. ASSUME NEW i \in DOMAIN tables
      PROVE  tables[i] \subseteq Rows /\ IsFiniteSet(tables[i])
  OBVIOUS
<1>b. ASSUME NEW p \in 1 .. n
      PROVE  p \in Nat /\ 1 .. p \subseteq 1 .. n /\ 1 \in 1 .. n /\ p * limit \in Nat
  <2> HIDE DEF n
  <2> QED
    BY <1>1
<1> SUFFICES ASSUME NEW walk \in [1 .. n -> UNION {orders[p]: p \in 1 .. n}],
                    \A p \in 1 .. n: walk[p] \in orders[p]
             PROVE  LET shown(p) == page(p, walk[p]).items
                        last == {p \in 1 .. n: ~HasNext(page(p, walk[p]), p, limit)}
                    IN  /\ \A p \in last:
                             \/ overtaken(p)
                             \/ Matching(filter, tables[1])
                                  \subseteq UNION {shown(q): q \in 1 .. p}
                        /\ (\A i \in DOMAIN tables: tables[i] = tables[1]) =>
                             \A p, q \in 1 .. n: p # q => shown(p) \cap shown(q) = {}
  BY DEF UploadsHideNothing
<1> DEFINE shown(p) == page(p, walk[p]).items
<1>3. Walk(filter, Rows, n, matching, walk)
  <2>1. ASSUME NEW p \in 1 .. n
        PROVE  matching[p] \subseteq Rows /\ IsFiniteSet(matching[p])
    <3>1. matching[p] \subseteq tables[2 * p]
      BY DEF Matching
    <3>2. tables[2 * p] \subseteq Rows /\ IsFiniteSet(tables[2 * p])
      <4>1. 2 * p \in DOMAIN tables
        BY <1>2
      <4> QED
        BY <4>1, <1>a
    <3>3. matching[p] \subseteq Rows
      BY <3>1, <3>2
    <3>4. IsFiniteSet(matching[p])
      <4> HIDE DEF matching
      <4> QED
        BY <3>1, <3>2, FS_Subset
    <3> QED
      BY <3>3, <3>4
  <2>2. ASSUME NEW p \in 1 .. n, NEW q \in 1 .. n, p <= q
        PROVE  matching[p] \subseteq matching[q]
    <3>1. 2 * p <= 2 * q /\ 2 * p \in DOMAIN tables /\ 2 * q \in DOMAIN tables
      BY <1>2, <2>2
    <3>2. tables[2 * p] \subseteq tables[2 * q]
      BY <3>1
    <3> QED
      BY <3>2 DEF Matching
  <2>3. \A p \in 1 .. n: walk[p] \in Orders(filter, matching[p])
    OBVIOUS
  <2> HIDE DEF matching, n
  <2> QED
    BY <1>1, <2>1, <2>2, <2>3 DEF Walk
<1>4. ASSUME NEW p \in 1 .. n
      PROVE  shown(p) = Shown(walk, limit, p)
  <2>1. p \in Nat \ {0}
    BY <1>2
  <2> QED
    BY <2>1, PageItems DEF Shown
<1>5. ASSUME NEW p \in 1 .. n, ~HasNext(page(p, walk[p]), p, limit), ~overtaken(p)
      PROVE  Matching(filter, tables[1]) \subseteq UNION {shown(q): q \in 1 .. p}
  <2>1. page(p, walk[p]).total = Cardinality(matching[p])
    BY <1>5 DEF ListFiles
  <2>2. 1 .. p \subseteq 1 .. n /\ 1 \in 1 .. n
    BY <1>b
  <2>3. Matching(filter, tables[1]) \subseteq matching[1]
    <3>1. 1 \in DOMAIN tables /\ 2 \in DOMAIN tables
      BY <1>2, <2>2
    <3>2. tables[1] \subseteq tables[2]
      <4>1. 1 <= 2
        OBVIOUS
      <4> QED
        BY <3>1, <4>1
    <3> QED
      BY <2>2, <3>2 DEF Matching
  <2> HIDE DEF page, matching, n, shown
  <2>4. IsLast(matching, limit, p)
    <3>1. IsFiniteSet(matching[p])
      BY <1>3 DEF Walk
    <3>2. Cardinality(matching[p]) \in Nat /\ p * limit \in Nat
      BY <1>b, <3>1, FS_CardinalityType
    <3> QED
      BY <1>5, <2>1, <3>2 DEF HasNext, IsLast
  <2>5. ASSUME NEW f \in matching[1]
        PROVE  \E q \in 1 .. p: f \in shown(q)
    <3>1. PICK q \in 1 .. p : f \in Shown(walk, limit, q)
      <4>1. /\ Walk(filter, Rows, n, matching, walk) /\ limit \in Nat \ {0}
            /\ p \in 1 .. n /\ IsLast(matching, limit, p) /\ f \in matching[1]
        BY <1>1, <1>3, <2>4
      <4> QED
        BY ONLY <4>1, WalkShowsAll
    <3> QED
      BY <1>4, <2>2, <3>1
  <2> QED
    BY <2>3, <2>5
<1>6. ASSUME \A i \in DOMAIN tables: tables[i] = tables[1],
             NEW p \in 1 .. n, NEW q \in 1 .. n, p < q
      PROVE  shown(p) \cap shown(q) = {}
  <2>1. matching[q] = matching[p]
    <3>1. tables[2 * p] = tables[1] /\ tables[2 * q] = tables[1]
      BY <1>2, <1>6
    <3> QED
      BY <3>1
  <2> HIDE DEF page, matching, n, shown
  <2>2. Shown(walk, limit, p) \cap Shown(walk, limit, q) = {}
    <3>1. matching[q] \subseteq matching[p] /\ p < q
      BY <1>6, <2>1
    <3> QED
      BY <1>1, <1>3, <3>1, WalkShowsOnce
  <2> QED
    BY <1>4, <2>2
<1>7. ASSUME \A i \in DOMAIN tables: tables[i] = tables[1],
             NEW p \in 1 .. n, NEW q \in 1 .. n, p # q
      PROVE  shown(p) \cap shown(q) = {}
  <2>1. p < q \/ q < p
    BY <1>2, <1>7
  <2> HIDE DEF shown, n
  <2> QED
    BY <1>6, <1>7, <2>1
<1> HIDE DEF n, page, overtaken, matching
<1> QED
  BY <1>5, <1>7

\* What grows from each step to the next grows from any to any later one.
LEMMA GrowsThroughout ==
  ASSUME NEW n \in Nat, NEW u \in [1 .. n -> Nat],
         \A i \in 1 .. (n - 1): u[i] <= u[i + 1],
         NEW i \in 1 .. n, NEW j \in 1 .. n, i <= j
  PROVE  u[i] <= u[j]
<1> DEFINE T == {k \in 1 .. n: i <= k /\ ~(u[i] <= u[k])}
<1> SUFFICES ASSUME ~(u[i] <= u[j])
             PROVE  FALSE
  OBVIOUS
<1>1. T \subseteq Nat /\ T # {}
  <2>1. j \in T /\ T \subseteq Nat
    OBVIOUS
  <2> HIDE DEF T
  <2> QED
    BY <2>1
<1>2. PICK m \in T : \A k \in T: m <= k
  <2> HIDE DEF T
  <2> QED
    BY <1>1, LeastNatural
<1>3. m \in 1 .. n /\ i <= m /\ ~(u[i] <= u[m]) /\ u[i] \in Nat /\ u[m] \in Nat
  OBVIOUS
<1>4. m # i
  BY <1>3
<1>5. m - 1 \in 1 .. (n - 1) /\ m - 1 \in 1 .. n /\ i <= m - 1
  BY <1>3, <1>4
<1>6. m - 1 \notin T
  <2> HIDE DEF T
  <2> QED
    BY <1>2, <1>3
<1>7. u[i] <= u[m - 1] /\ u[m - 1] \in Nat
  BY <1>5, <1>6
<1>8. u[m - 1] <= u[m]
  <2>1. (m - 1) + 1 = m
    BY <1>3
  <2> QED
    BY <1>5, <2>1
<1> QED
  BY <1>3, <1>7, <1>8

\* The tables of MCBoundaries.
LEMMA TablesSortable ==
  ASSUME InputsAssumption, NEW filter, NEW named, NEW sizes \in [1 .. MaxRows -> 1 .. MaxRows],
         IsInjective(sizes)
  PROVE  /\ Sortable(filter, Table(MaxRows, named, sizes))
         /\ \A m, n \in 0 .. MaxRows: m <= n =>
              Table(m, named, sizes) \subseteq Table(n, named, sizes)
         /\ \A n \in 0 .. MaxRows: IsFiniteSet(Table(n, named, sizes))
<1> DEFINE row == [n \in 1 .. MaxRows |->
                     [id |-> n, created_at |-> n, file_size |-> sizes[n],
                      named |-> n \in named, addressed |-> n # 1]]
           Rows == Table(MaxRows, named, sizes)
<1>1. MaxRows \in Nat
  BY DEF InputsAssumption
<1>2. ASSUME NEW m \in 0 .. MaxRows
      PROVE  Table(m, named, sizes) = {row[n]: n \in 1 .. m}
  <2>1. \A n \in 1 .. m:
          row[n] = [id |-> n, created_at |-> n, file_size |-> sizes[n],
                    named |-> n \in named, addressed |-> n # 1]
    BY <1>1
  <2> HIDE DEF row
  <2>2. \A x \in Table(m, named, sizes): \E n \in 1 .. m: x = row[n]
    BY <2>1 DEF Table
  <2>3. \A n \in 1 .. m: row[n] \in Table(m, named, sizes)
    BY <2>1 DEF Table
  <2> QED
    BY <2>2, <2>3
<1>3. SortColumn(filter) \in {"created_at", "file_size"}
  <2>1. \A sort \in DOMAIN listFilesSortColumns:
          listFilesSortColumns[sort] \in {"created_at", "file_size"}
    BY DEF listFilesSortColumns
  <2> QED
    BY <2>1 DEF SortColumn
<1>4. \A n \in 1 .. MaxRows: row[n].created_at = n /\ row[n].file_size = sizes[n]
  OBVIOUS
<1>5. /\ \A n \in 1 .. MaxRows: row[n][SortColumn(filter)] \in Int
      /\ \A m, n \in 1 .. MaxRows:
           row[m][SortColumn(filter)] = row[n][SortColumn(filter)] => m = n
  <2> HIDE DEF row
  <2>1. CASE SortColumn(filter) = "created_at"
    BY <1>4, <2>1
  <2>2. CASE SortColumn(filter) = "file_size"
    BY <1>4, <2>2 DEF IsInjective
  <2> QED
    BY <1>3, <2>1, <2>2
<1> HIDE DEF row
<1>6. Rows = {row[n]: n \in 1 .. MaxRows}
  BY <1>1, <1>2
<1>7. Sortable(filter, Rows)
  <2> HIDE DEF Rows
  <2> QED
    BY <1>5, <1>6 DEF Sortable
<1>8. \A m, n \in 0 .. MaxRows: m <= n =>
        Table(m, named, sizes) \subseteq Table(n, named, sizes)
  BY <1>1, <1>2
<1>9. ASSUME NEW n \in 0 .. MaxRows
      PROVE  IsFiniteSet(Table(n, named, sizes))
  <2> DEFINE f == [k \in 1 .. n |-> row[k]]
  <2>1. f \in Surjection(1 .. n, Table(n, named, sizes))
    BY <1>2 DEF Surjection
  <2>2. IsFiniteSet(1 .. n)
    BY FS_Interval
  <2> HIDE DEF f
  <2> QED
    BY <2>1, <2>2, FS_Surjection
<1> QED
  BY <1>7, <1>8, <1>9

-----------------------------------------------------------------------------
(* The inputs of MCBoundaries are among those of the theorems. *)

InputOK ==
  /\ input.kind = "range" => input.header \in RangeHeader /\ input.size \in 0 .. MaxInt64
  /\ input.kind = "expiration" =>
       /\ input.form \in FormValue /\ input.now \in Int
       /\ input.size \in 0 .. (2 * MaxSize) /\ input.larger \in 0 .. (2 * MaxSize)
  /\ input.kind = "listing" =>
       /\ input.limit \in 1 .. maxAdminPageSize
       /\ input.sizes \in [1 .. MaxRows -> 1 .. MaxRows] /\ IsInjective(input.sizes)
       /\ input.uploaded \in [1 .. (2 * MaxPages) -> 0 .. MaxRows]
       /\ \A i \in 1 .. (2 * MaxPages - 1): input.uploaded[i] <= input.uploaded[i + 1]

LEMMA InputsOK == Spec => []InputOK
<1> USE InputsAssumption, ExpirationAssumption
<1>1. Init => InputOK
  BY DEF Init, InputOK
<1>2. InputOK /\ [Next]_input => InputOK'
  <2> SUFFICES ASSUME InputOK, [Next]_input
               PROVE  InputOK'
    OBVIOUS
  <2>1. CASE AskRange
    <3>1. Numerals \subseteq Numeral
      BY DEF Numerals, Numeral, Blank
    <3>2. PICK single \in BOOLEAN, first \in Numerals, last \in Numerals,
               size \in 0 .. MaxFileSize :
            input' = [kind |-> "range", size |-> size,
                      header |-> [single |-> single, first |-> first, last |-> last]]
      BY <2>1 DEF AskRange
    <3>3. [single |-> single, first |-> first, last |-> last] \in RangeHeader
      BY <3>1 DEF RangeHeader
    <3> QED
      BY <3>2, <3>3 DEF InputOK
  <2>2. CASE SetExpiration
    <3>1. HoursBelow \in Int /\ 2 * HoursBelow \in Int
      OBVIOUS
    <3>2. PICK form \in {<<>>} \cup {<<v>>: v \in Representable},
               size \in 0 .. (2 * MaxSize), larger \in 0 .. (2 * MaxSize),
               now \in {HoursBelow, 2 * HoursBelow} :
            input' = [kind |-> "expiration", form |-> form, size |-> size,
                      larger |-> larger, now |-> now]
      BY <2>2 DEF SetExpiration
    <3>3. form \in FormValue
      BY DEF FormValue, Representable
    <3> QED
      BY <3>1, <3>2, <3>3 DEF InputOK
  <2>5. CASE WalkPages
    <3>1. PICK search \in BOOLEAN, ip \in BOOLEAN,
               sortBy \in {"created_at", "size", "id"}, sortDir \in {"asc", "desc"},
               limit \in 1 .. maxAdminPageSize, named \in SUBSET (1 .. MaxRows),
               sizes \in {s \in [1 .. MaxRows -> 1 .. MaxRows]: IsInjective(s)},
               uploaded \in [1 .. (2 * MaxPages) -> 0 .. MaxRows] :
            /\ \A i \in 1 .. (2 * MaxPages - 1): uploaded[i] <= uploaded[i + 1]
            /\ input' = [kind |-> "listing",
                         filter |-> [search |-> search, ip |-> ip,
                                     sortBy |-> sortBy, sortDir |-> sortDir],
                         limit |-> limit, named |-> named, sizes |-> sizes,
                         uploaded |-> uploaded]
      BY <2>5 DEF WalkPages
    <3>2. /\ input'.kind = "listing" /\ input'.limit = limit
          /\ input'.sizes = sizes /\ input'.uploaded = uploaded
      BY <3>1
    <3> QED
      BY <3>1, <3>2 DEF InputOK
  <2>3. CASE EncryptFile \/ DamageContainer
    <3>1. input'.kind \notin {"range", "expiration", "listing"}
      BY <2>3 DEF EncryptFile, DamageContainer
    <3> QED
      BY <3>1 DEF InputOK
  <2>4. CASE UNCHANGED input
    BY <2>4 DEF InputOK
  <2> QED
    BY <2>1, <2>2, <2>3, <2>4, <2>5 DEF Next
<1> QED
  BY <1>1, <1>2, PTL DEF Spec

\* parseRangeHeader, serveStream and the three storages' Open answer every
\* Range header with the bytes it asks for.
THEOREM RangesServedByAll == Spec => []RangesServed
<1>1. InputOK => RangesServed
  BY RangesAreServed DEF InputOK, RangesServed
<1> QED
  BY <1>1, InputsOK, PTL

\* CalculateExpirationTime and applyExpire give no file more time than the
\* settings allow, or less than it asked for within them.
THEOREM ExpirationsKeepBounds == Spec => []ExpirationsBounded
<1>1. InputOK => ExpirationsBounded
  BY ExpirationsAreBounded DEF InputOK, ExpirationsBounded
<1> QED
  BY <1>1, InputsOK, PTL

\* By MaxExpirationTime a larger file never outlives a smaller one.
THEOREM LargerFilesNeverOutlive == Spec => []LargerFilesExpireSooner
<1>1. InputOK => LargerFilesExpireSooner
  BY LargerExpireSooner DEF InputOK, LargerFilesExpireSooner
<1> QED
  BY <1>1, InputsOK, PTL

\* Uploads during a walk through the admin panel's pages hide no file, for
\* any number of files, pages and uploads and any size of a page.
THEOREM WalksHideNothing == Spec => []PagesHideNothing
<1>1. InputOK => PagesHideNothing
  <2> SUFFICES ASSUME InputOK, input.kind = "listing"
               PROVE  UploadsHideNothing(input.filter, input.limit,
                        [i \in DOMAIN input.uploaded |->
                           Table(input.uploaded[i], input.named, input.sizes)])
    BY DEF PagesHideNothing
  <2> DEFINE n == 2 * MaxPages
             u == input.uploaded
             Rows == Table(MaxRows, input.named, input.sizes)
             tables == [i \in DOMAIN u |-> Table(u[i], input.named, input.sizes)]
  <2>1. /\ n \in Nat /\ MaxRows \in Nat
        /\ input.limit \in 1 .. maxAdminPageSize
        /\ u \in [1 .. n -> 0 .. MaxRows]
        /\ \A i \in 1 .. (n - 1): u[i] <= u[i + 1]
        /\ input.sizes \in [1 .. MaxRows -> 1 .. MaxRows] /\ IsInjective(input.sizes)
    BY InputsAssumption DEF InputOK
  <2> HIDE DEF n, u
  <2>2. /\ \A filter: Sortable(filter, Rows)
        /\ \A l, m \in 0 .. MaxRows: l <= m =>
             Table(l, input.named, input.sizes) \subseteq Table(m, input.named, input.sizes)
        /\ \A m \in 0 .. MaxRows: IsFiniteSet(Table(m, input.named, input.sizes))
    BY <2>1, InputsAssumption, TablesSortable
  <2>3. DOMAIN u = 1 .. n /\ \A i \in 1 .. n: u[i] \in 0 .. MaxRows
    BY <2>1
  <2>4. \A i \in DOMAIN tables:
          tables[i] \subseteq Rows /\ IsFiniteSet(tables[i])
    <3>1. \A i \in 1 .. n: u[i] <= MaxRows /\ MaxRows \in 0 .. MaxRows
      BY <2>1, <2>3
    <3> QED
      BY <2>2, <2>3, <3>1
  <2>5. tables \in Seq(SUBSET Rows)
    <3>1. tables \in [1 .. n -> SUBSET Rows]
      <4> HIDE DEF Rows
      <4> QED
        BY <2>3, <2>4
    <3> HIDE DEF tables, Rows
    <3> QED
      BY <2>1, <3>1
  <2>6. ASSUME NEW i \in DOMAIN tables, NEW j \in DOMAIN tables, i <= j
        PROVE  tables[i] \subseteq tables[j]
    <3>1. u \in [1 .. n -> Nat] /\ i \in 1 .. n /\ j \in 1 .. n
      BY <2>1, <2>3
    <3>2. u[i] <= u[j]
      BY <2>1, <2>6, <3>1, GrowsThroughout
    <3> QED
      BY <2>2, <2>3, <3>1, <3>2
  <2>7. tables = [i \in DOMAIN input.uploaded |->
                    Table(input.uploaded[i], input.named, input.sizes)]
    BY DEF u
  <2> HIDE DEF tables, Rows
  <2>8. UploadsHideNothing(input.filter, input.limit, tables)
    BY <2>1, <2>2, <2>4, <2>5, <2>6, WalksMissNothing
  <2> QED
    BY <2>7, <2>8
<1> QED
  BY <1>1, InputsOK, PTL

=============================================================================
