------------------------------ MODULE Expiration -----------------------------
(***************************************************************************)
(* How long a file may stay: utils.ParseExpiresForm, MaxExpirationTime and *)
(* CalculateExpirationTime, and the check of applyExpire. Times and ages   *)
(* are milliseconds, a time.Duration counts in units of which a            *)
(* millisecond has Millisecond. float64 is exact here.                     *)
(***************************************************************************)
EXTENDS Word, FiniteSetsExt

CONSTANTS
  Hour,          \* milliseconds
  Millisecond,   \* units of time.Duration
  HoursBelow,    \* form values below this are hours (1,000,000)
  MaxSize,       \* MaxFileSizeMB in bytes
  MinAge, MaxAge \* MinAgeDays and MaxAgeDays in milliseconds

ASSUME ExpirationAssumption ==
  /\ {Hour, Millisecond, HoursBelow, MaxSize} \subseteq Nat \ {0}
  /\ {MinAge, MaxAge} \subseteq Int

\* time.Now().Add(time.Duration(ms) * time.Millisecond)
Add(now, ms) == now + Int64(ms * Millisecond) \div Millisecond

Pow3(x) == x * x * x

\* conversion of a quotient to an integer, towards zero
Truncate(a, b) == IF a >= 0 THEN a \div b ELSE -((-a) \div b)

ParseExpiresForm(value, now) ==
  IF value < HoursBelow THEN Add(now, Int64(value * Hour)) ELSE value

\* a fault: the distance from the limit, on either side of it
DistanceExpirationTime(size, now) ==
  LET distance == Max({size - MaxSize, MaxSize - size})
  IN Add(now, MinAge + Truncate((MaxAge - MinAge) * Pow3(distance), Pow3(MaxSize)))

MaxExpirationTime(size, now) ==
  Add(now, MinAge + Truncate((MinAge - MaxAge) * Pow3(size - MaxSize), Pow3(MaxSize)))

\* a fault: the wish is not bounded
WishGranted(form, size, now) ==
  IF form = <<>> THEN MaxExpirationTime(size, now) ELSE ParseExpiresForm(form[1], now)

\* no value, or one that does not parse, is <<>>
CalculateExpirationTime(form, size, now) ==
  IF form = <<>> THEN MaxExpirationTime(size, now)
  ELSE Min({ParseExpiresForm(form[1], now), MaxExpirationTime(size, now)})

\* applyExpire accepts the value and sets it, or answers 422
ExpireAccepted(value, size, now) ==
  ParseExpiresForm(value, now) <= MaxExpirationTime(size, now)

-----------------------------------------------------------------------------
\* settings that verifyConfiguration lets pass but the arithmetic does not
\* survive are excluded here: ages the wrong way round or longer than a
\* time.Duration
SaneAges == 0 <= MinAge /\ MinAge <= MaxAge /\ MaxAge * Millisecond <= MaxInt64

(***************************************************************************)
(* No request, by upload or by a later change, whatever its form says and  *)
(* however its arithmetic overflows, gives a file a later expiration than  *)
(* MaxAge from now, and a file without a form value at least MinAge if its *)
(* size is within the limit; a request for an hour count or a time within  *)
(* the file's bounds is met exactly.                                       *)
(***************************************************************************)
ExpirationBounded(form, size, now) ==
  SaneAges =>
    /\ CalculateExpirationTime(form, size, now) <= now + MaxAge
    /\ form = <<>> /\ size <= MaxSize =>
         CalculateExpirationTime(form, size, now) >= now + MinAge
    /\ form # <<>> =>
         LET value == form[1]
             wish  == IF value < HoursBelow THEN now + value * Hour ELSE value
         IN /\ wish \in now .. MaxExpirationTime(size, now) =>
                 /\ CalculateExpirationTime(form, size, now) = wish
                 /\ ExpireAccepted(value, size, now)
            /\ ExpireAccepted(value, size, now) =>
                 ParseExpiresForm(value, now) <= now + MaxAge

(***************************************************************************)
(* A larger file never stays longer than a smaller one, also beyond the    *)
(* limit, where the containers of the end-to-end encryption are.           *)
(***************************************************************************)
LargerExpiresSooner(size, larger, now) ==
  SaneAges /\ size <= larger =>
    MaxExpirationTime(larger, now) <= MaxExpirationTime(size, now)

=============================================================================
