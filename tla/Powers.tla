------------------------------- MODULE Powers -------------------------------
(***************************************************************************)
(* The powers of two by which the program sizes its tables and masks its   *)
(* hashes, as it makes them: by shifting.                                  *)
(***************************************************************************)
EXTENDS Naturals

\* 1 << n
Pow2[n \in Nat] == IF n = 0 THEN 1 ELSE 2 * Pow2[n - 1]
=============================================================================
