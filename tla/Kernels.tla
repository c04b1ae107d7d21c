------------------------------- MODULE Kernels -------------------------------
(***************************************************************************)
(* The distance kernels and the INT8 quantizer (src/kernels.cpp), on        *)
(* vectors of integers, and how FillScoresForRange (src/engine.cpp) runs    *)
(* them over a ring that wraps.                                             *)
(*                                                                          *)
(* A score is an integer in units of 1/One, and exact: the vectors are to   *)
(* have norms of 0 or n with n*n dividing Resolution, so that floats'       *)
(* rounding is left out and the quantizer's is not.                         *)
(***************************************************************************)
EXTENDS Integers, Sequences, FiniteSetsExt

CONSTANTS
    Int8Max,        \* the largest quantized component
    Resolution

ASSUME ResolutionAssumption == {Int8Max, Resolution} \subseteq Nat \ {0}

\* dot_i8 sums in an int32, for every dim validate_and_default lets through.
ASSUME AccumulatorAssumption == 65536 * Int8Max * Int8Max <= 2147483647

One == Int8Max * Int8Max * Resolution

Abs(n) == IF n < 0 THEN -n ELSE n
Dot(v, w) == MapThenSumSet(LAMBDA i : v[i] * w[i], DOMAIN v)
MaxAbs(v) == Max({Abs(v[i]) : i \in DOMAIN v})
Norm(v) == CHOOSE n \in 0 .. Len(v) * MaxAbs(v) : n * n = Dot(v, v)

\* A vector there is a Norm of.
HasNorm(v) ==
    v \in Seq(Int) /\ v # <<>> /\ \E n \in 0 .. Len(v) * MaxAbs(v) : n * n = Dot(v, v)

-----------------------------------------------------------------------------
(* One row of each kernel *)

CosineF32(row, q, qn) ==
    IF qn > 0 /\ row.norm > 0 THEN (One * Dot(row.vec, q)) \div (row.norm * qn) ELSE 0

\* Through the norms, clamped at 0.
EuclideanSqF32(row, q, qn) ==
    One * Max({0, row.norm * row.norm + qn * qn - 2 * Dot(row.vec, q)})

\* lround(n / d), halves away from zero.
Rounded(n, d) == IF n < 0 THEN -((d - 2 * n) \div (2 * d)) ELSE (2 * n + d) \div (2 * d)

\* The scale is max / Int8Max; a zero vector has scale 0.
Quantized(v) ==
    [q |-> [i \in DOMAIN v |-> IF MaxAbs(v) = 0 THEN 0 ELSE Rounded(v[i] * Int8Max, MaxAbs(v))],
     max |-> MaxAbs(v)]

\* The dot product of what was quantized, in units of 1/One.
DotI8(row, query) == Resolution * row.max * query.max * Dot(row.vec, query.q)

CosineI8(row, query, qn) ==
    IF qn > 0 /\ query.max > 0 /\ row.norm > 0 /\ row.max > 0
      THEN DotI8(row, query) \div (row.norm * qn) ELSE 0

EuclideanSqI8(row, query, qn) ==
    Max({0, One * (row.norm * row.norm + qn * qn) - 2 * DotI8(row, query)})

Score(int8, cosine, row, q, qn) ==
    CASE int8 /\ cosine   -> CosineI8(row, Quantized(q), qn)
      [] int8 /\ ~cosine  -> EuclideanSqI8(row, Quantized(q), qn)
      [] ~int8 /\ cosine  -> CosineF32(row, q, qn)
      [] ~int8 /\ ~cosine -> EuclideanSqF32(row, q, qn)

-----------------------------------------------------------------------------
(* References *)

\* EuclideanSqF32Chunk_Direct
EuclideanSqDirect(v, q) == One * MapThenSumSet(LAMBDA i : (v[i] - q[i]) * (v[i] - q[i]), DOMAIN v)

\* A component is off by at most half a scale.
QuantizationError(v, q) == Resolution * Len(v) * MaxAbs(v) * MaxAbs(q) * (Int8Max + 1)

\* The score of v and how far from it a kernel may be.
Reference(int8, cosine, v, q) ==
    LET norms == Norm(v) * Norm(q)
        off == IF int8 THEN QuantizationError(v, q) ELSE 0
    IN IF cosine
         THEN IF norms = 0 THEN [score |-> 0, off |-> 0]
                           ELSE [score |-> (One * Dot(v, q)) \div norms, off |-> (off \div norms) + 1]
         ELSE [score |-> EuclideanSqDirect(v, q), off |-> 2 * off]

=============================================================================
