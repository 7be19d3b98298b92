--------------------------------- MODULE Word ---------------------------------
(* Go's int64, whose arithmetic wraps around. *)
EXTENDS Integers

CONSTANT MaxInt64       \* scaled down in the runs

ASSUME WordAssumption == MaxInt64 \in Nat \ {0}

Representable == (-MaxInt64 - 1) .. MaxInt64

\* two's complement
Int64(n) == ((n + MaxInt64 + 1) % (2 * (MaxInt64 + 1))) - MaxInt64 - 1

===============================================================================
