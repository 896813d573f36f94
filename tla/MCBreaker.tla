----------------------------- MODULE MCBreaker -----------------------------
(* The breaker with a few concurrent attempts. *)
EXTENDS Breaker, TLC

Symmetry == Permutations(Attempts)
=============================================================================
