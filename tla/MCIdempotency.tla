---------------------------- MODULE MCIdempotency -----------------------------
(* Idempotency for TLC.                                                      *)
EXTENDS Idempotency, TLC

WorkerSymmetry == Permutations(Workers)

\* With every mishap allowed two requests are explored, with one fewer three.
Explored == left = 0 => Cardinality({a \in Attempts : pc[a] # "unborn"}) <= 2
===============================================================================
