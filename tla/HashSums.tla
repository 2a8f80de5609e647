------------------------------ MODULE HashSums ------------------------------
(***************************************************************************)
(* The sums walker.visit of hashstructure.go computes, with the default    *)
(* options all callers use: of a value without parts, and of what a value  *)
(* with parts has got so far and its next part.                            *)
(***************************************************************************)
EXTENDS Integers, Sequences

CONSTANT BitXor(_, _)  \* Go's ^ on uint64

ASSUME XorAssumption == BitXor(0, 0) = 0

\* What a visit returns: a sum and whether an error comes with it.
Result(sum, err) == [sum |-> sum, err |-> err]

\* h.Sum(buf) returns buf with the digest after it, and every caller drops what
\* it returns: the buffer the number is then read from is still empty.
\* Mutant: the digest is kept.
SumInto_kept(written) == written
SumInto(written) == <<>>

\* binary.ReadVarint: an empty buffer is io.EOF and 0.  (A digest stands here for
\* the data it is of.)
ReadVarint(buf) == IF buf = <<>> THEN Result(0, TRUE) ELSE Result(Head(buf), FALSE)

hashUpdateOrdered(a, b) == ReadVarint(SumInto(<<2 * a + b + 1>>)).sum
hashUpdateUnordered(a, b) == BitXor(a, b)

\* How a struct, a map entry or a field that cannot be hashed is reported.
\* Mutant: the error is passed on.
Unhashable_error == Result(0, TRUE)
Unhashable == Result(0, FALSE)

\* The branches of visit for a value without parts: the error of a number is
\* dropped, and that of a string is not.
visitNumber(n) == Result(ReadVarint(SumInto(<<n>>)).sum, FALSE)
visitString(x) == ReadVarint(SumInto(<<x>>))
visitUnknown == Result(0, TRUE)
=============================================================================
