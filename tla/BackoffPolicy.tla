--------------------------- MODULE BackoffPolicy ----------------------------
(***************************************************************************)
(* RetryBackoffPolicy of task-control/src/scheduler/backoff.rs: the delay  *)
(* before the next attempt, in the integer arithmetic of the code.         *)
(***************************************************************************)
EXTENDS Integers

CONSTANT Width      \* bits of i64 and u64, at least 4

LOCAL Least(a, b) == IF a <= b THEN a ELSE b

MaxInt == 2 ^ (Width - 1) - 1

\* i64::saturating_mul and i64::saturating_add, for non-negative arguments.
SaturatingMul(a, b) == Least(a * b, MaxInt)
SaturatingAdd(a, b) == Least(a + b, MaxInt)

\* The policies RetryBackoffPolicy::with_jitter accepts.
WithJitter(p) == p.base > 0 /\ p.max >= p.base /\ p.jitter_span >= 0

\* LcgJitter::next_millis: a value below the span drawn from the generator's state.
NextMillis(seed, span) == IF span <= 0 THEN 0 ELSE seed % span

\* generation.saturating_sub(1).min(62): the shift never reaches the sign bit.
Exponent(generation) == Least(IF generation = 0 THEN 0 ELSE generation - 1, Width - 2)

DelayMillis(p, generation, jitter) ==
    SaturatingAdd(Least(SaturatingMul(p.base, 2 ^ Exponent(generation)), p.max), jitter)
=============================================================================
