------------------------------ MODULE Sampler ------------------------------
(***************************************************************************)
(* Sampler: decides from eight random bytes, read as a signed long.        *)
(* A rate is a number of 1/(Precision * Fine): the code rounds to          *)
(* 1/Precision (0.0001), and what a user writes may be finer.              *)
(***************************************************************************)
EXTENDS Integers

CONSTANTS
    Precision, Fine,
    MaxLong             \* long.MaxValue; long.MinValue is -MaxLong - 1

ASSUME SamplerConstants ==
    /\ Precision \in Nat \ {0} /\ Fine \in Nat \ {0}
    /\ MaxLong \in Nat

One == Precision * Fine
IsValidRate(rate) == 0 <= rate /\ rate <= One
Longs == -MaxLong - 1 .. MaxLong

(* In 1/Precision; half away from zero, and never down to zero. *)
RoundToPrecision(rate) ==
    IF rate > 0 /\ rate < Fine THEN 1 ELSE (2 * rate + Fine) \div (2 * Fine)

(* Constant: whether every transaction is sampled, or none, is fixed.      *)
Constant(rate) == RoundToPrecision(rate) \in {0, Precision}

(* (long)(long.MaxValue * rate), of the rate as it was given.              *)
HigherBound(rate) == (MaxLong * rate) \div One

DecideOneSided(rate, v) ==       \* mutant: compares with the upper bound only
    IF Constant(rate) THEN RoundToPrecision(rate) = Precision
    ELSE v < HigherBound(rate)

DecideIfToSample(rate, v) ==
    IF Constant(rate) THEN RoundToPrecision(rate) = Precision
    ELSE v > -HigherBound(rate) /\ v < HigherBound(rate)
=============================================================================
