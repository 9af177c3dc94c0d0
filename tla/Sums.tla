-------------------------------- MODULE Sums --------------------------------
(***************************************************************************)
(* Sums of the values of a function over 1..n.  The supervisor keeps its   *)
(* totals incrementally (+= and -=, src/src/qsup.c); its invariants say    *)
(* that each total is the sum it stands for.  The sum is a recursive       *)
(* function rather than a fold, so that facts about it can be proved (see  *)
(* Qsup_proofs).                                                           *)
(***************************************************************************)
EXTENDS Integers

\* The running sums of f: the i-th is f[1] + ... + f[i].
PartialSums(f, n) ==
    LET acc[i \in 0 .. n] == IF i = 0 THEN 0 ELSE acc[i - 1] + f[i]
    IN  acc

\* f[1] + ... + f[n].
Total(f, n) == PartialSums(f, n)[n]

\* The values of f on the members of S, zero elsewhere.
On(S, f, n) == [i \in 1 .. n |-> IF i \in S THEN f[i] ELSE 0]
=============================================================================
