----------------------------- MODULE RetryPolicy -----------------------------
(***************************************************************************)
(* The backoff of retry.rs.  Factors are u32 and delays are Durations, both *)
(* with saturating arithmetic; the widths are scaled down by constants.    *)
(* Publisher sleeps for these delays.                                      *)
(***************************************************************************)
EXTENDS Integers

CONSTANTS U32Max,     \* u32::MAX
          DurationMax \* Duration::MAX, in units of the delays

ASSUME WidthAssumption == U32Max \in Nat /\ DurationMax \in Nat

\* A multiplier of 0 would make every delay but the first 0.  The counter of
\* attempts is a u32 too and reaches max_retries + 1.
Policy == [max_retries : 0..(U32Max - 1), base : 0..DurationMax,
           max : 0..DurationMax, multiplier : 1..U32Max]

\* Saturating arithmetic at a width.
Saturate(n, width) == IF n \in 0..width THEN n ELSE width

saturating_pow(m, n) ==
    LET pow[i \in Nat] == IF i = 0 THEN 1 ELSE m * pow[i - 1]
    IN  Saturate(pow[n], U32Max)

\* Mutant of delay_for: the exponent is the number of the retry.
delay_shifted(p, retry) ==
    Saturate(Saturate(p.base * saturating_pow(p.multiplier, retry), DurationMax), p.max)

\* The delay before a retry; they are numbered from 1.
delay_for(p, retry) ==
    LET factor == saturating_pow(p.multiplier, IF retry = 0 THEN 0 ELSE retry - 1)
    IN  Saturate(Saturate(p.base * factor, DurationMax), p.max)

=============================================================================
