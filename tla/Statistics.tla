------------------------------ MODULE Statistics ------------------------------
(***************************************************************************)
(* CalculateBandwidth and CalculateOneTripDuration of common.cc: the       *)
(* average a benchmark reports of the durations it kept.  A double is an   *)
(* exact fraction here, without its rounding, and a standard deviation is  *)
(* its square.                                                             *)
(***************************************************************************)
EXTENDS Integers, Sequences

Fraction(num, den) == [num |-> num, den |-> den]

a \preceq b == a.num * b.den <= b.num * a.den

Square(x) == x * x

\* std::accumulate over the values of index first to last, one after the other.
Accumulate(values, first, last) ==
    LET sum[k \in first - 1 .. last] == IF k < first THEN 0 ELSE sum[k - 1] + values[k]
    IN  sum[last]

\* Mutant: the sum leaves out the first and the last duration, as OneTrip's does.
Bandwidth_Filtered(durations, data_size) ==
    Fraction(data_size * Len(durations), Accumulate(durations, 2, Len(durations) - 1))

\* data_size by the average of the durations.
Bandwidth(durations, data_size) ==
    Fraction(data_size * Len(durations), Accumulate(durations, 1, Len(durations)))

\* The mean square of the distances to average.
Variance(durations, average) ==
    LET squares == [k \in DOMAIN durations |-> Square(durations[k] * average.den - average.num)]
    IN  Fraction(Accumulate(squares, 1, Len(durations)), Len(durations) * Square(average.den))

\* The deviation of the durations by the square of their average, times data_size.
BandwidthVariance(durations, data_size) ==
    LET average == Fraction(Accumulate(durations, 1, Len(durations)), Len(durations))
        v == Variance(durations, average)
    IN  Fraction(Square(data_size) * v.num * Square(Square(average.den)),
                 v.den * Square(Square(average.num)))

\* From begin() + 1 to end() - 1, by the number of all durations.  With one
\* duration begin() + 1 is past end() - 1: at least two are given here.
OneTrip(durations) ==
    Fraction(Accumulate(durations, 2, Len(durations) - 1), Len(durations))

\* a is a mean of the given values: not below all of them and not above all.
Between(a, values) == (\E v \in values : v \preceq a) /\ (\E v \in values : a \preceq v)
=============================================================================
