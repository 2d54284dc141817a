------------------------------- MODULE Loops -------------------------------
(***************************************************************************)
(* Loops as functions of what they start from, one pass after the other.   *)
(***************************************************************************)
EXTENDS Integers

(* What n passes make of x, the k-th of them being the function pass[k]. *)
AfterLoop(n, x, pass) ==
    LET after[k \in 0..n] == IF k = 0 THEN x ELSE pass[k][after[k - 1]]
    IN  after[n]
=============================================================================
