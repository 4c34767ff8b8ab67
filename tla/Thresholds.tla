------------------------------ MODULE Thresholds -----------------------------
(***************************************************************************)
(* checkThresholdExceeded of src/models/ingestion/                         *)
(* validationErrorCollector.ts: n features of total, against a limit in    *)
(* hundredths of a percent.                                                *)
(*                                                                         *)
(* The code divides, multiplies by 100 and rounds in doubles.  The error   *)
(* of a double is far smaller than the distance between a percentage and   *)
(* the middle of two hundredths, unless it is that middle: a tie, which    *)
(* the double may miss or not.  For 3 of 20000 it is just below 0.015, and *)
(* toFixed(2) gives 0.01; for 1 of 32 it is 3.125, and gives 3.13.         *)
(***************************************************************************)
EXTENDS Integers

CONSTANT TiesUp   \* the <<n, total>> with a tie whose double is not below it

Tie(n, total) == (20000 * n + total) % (2 * total) = 0

\* (n / total * 100).toFixed(2), in hundredths.
Hundredths(n, total) ==
  (20000 * n + total) \div (2 * total)
    - (IF Tie(n, total) /\ <<n, total>> \notin TiesUp THEN 1 ELSE 0)

\* Mutant: a percentage that meets the limit exceeds it.
ExceededOrMet(n, total, limit) == total # 0 /\ Hundredths(n, total) >= limit

Exceeded(n, total, limit) == total # 0 /\ Hundredths(n, total) > limit

\* Beyond the limit by more than half a hundredth of a percent, or by that much
\* if it is one of the ties that are rounded up.
Beyond(n, total, limit) ==
  \/ 20000 * n > total * (2 * limit + 1)
  \/ 20000 * n = total * (2 * limit + 1) /\ <<n, total>> \in TiesUp

=============================================================================
