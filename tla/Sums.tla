-------------------------------- MODULE Sums --------------------------------
(***************************************************************************)
(* Sums of the values of a function over 1 .. n.  The recursion runs over  *)
(* the naturals, so that SumsProofs can prove what an update of f does to  *)
(* the sum.                                                                *)
(***************************************************************************)
EXTENDS Integers

\* The function k |-> f[1] + ... + f[k] on 0 .. n.
PartialSums(f, n) ==
    LET s[k \in 0..n] == IF k = 0 THEN 0 ELSE s[k-1] + f[k] IN s

\* f[1] + ... + f[n].
Total(f, n) == PartialSums(f, n)[n]
=============================================================================
