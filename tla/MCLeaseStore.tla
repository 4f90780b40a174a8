---------------------------- MODULE MCLeaseStore -----------------------------
(* LeaseStore for TLC.                                                       *)
EXTENDS LeaseStore, TLC

Symmetry == Permutations(Instances)
==============================================================================
