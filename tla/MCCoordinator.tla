--------------------------- MODULE MCCoordinator ----------------------------
(* Coordinator for TLC.                                                      *)
EXTENDS Coordinator, TLC

CONSTANT First  \* the instance that booted first and serves every phone

PhoneSymmetry == Permutations(Phones)

\* First has claimed everything, the others have just started.
ServedByFirst ==
  /\ AtRest
  /\ auth = [p \in Phones |-> "paired"]
  /\ lease = [p \in Phones |-> [owner |-> First, epoch |-> 1]]
  /\ held = [i \in Instances |-> [p \in Phones |-> IF i = First THEN 1 ELSE 0]]
  /\ conn = [i \in Instances |-> [p \in Phones |->
               IF i = First THEN [epoch |-> 1, st |-> "live"] ELSE NoConn]]

\* A scale-out.
ScaleOutSpec == ServedByFirst /\ left = MaxDisturbed /\ [][Next]_vars

\* A cold start: one phone was ever paired, and nobody owns it.
ColdStart ==
  /\ AtRest /\ Unowned
  /\ \E p \in Phones : auth = [q \in Phones |-> IF q = p THEN "paired" ELSE "none"]

\* Either of the two; the cold start is disturbed once more.
StartOrScaleOutSpec ==
  /\ \/ ColdStart /\ left = MaxDisturbed
     \/ ServedByFirst /\ left = MaxDisturbed - 1
  /\ [][Next]_vars
==============================================================================
