------------------------------ MODULE LeaseLock ------------------------------
(***************************************************************************)
(* What the lease of a phone number promises to its users, with no Redis,  *)
(* no TTL and no calls in flight: per phone there is at most one current   *)
(* grant, a grant carries an epoch no earlier grant of that phone carried, *)
(* and a grant that ended never becomes current again.  Nothing is said    *)
(* about the order of the epochs of two different owners: the code does    *)
(* not ensure one (see LeaseStore!SuccessorEpochsIncrease).                *)
(***************************************************************************)
EXTENDS Naturals

CONSTANTS Instances,  \* the worker processes that may own a phone
          Phones,     \* the phone numbers
          NoLease     \* the value of a phone nobody owns

VARIABLES grant,      \* grant[p]: the current grant of phone p, or NoLease
          used        \* used[p]: the epochs granted on p so far

lockVars == <<grant, used>>

Grants == [owner : Instances, epoch : Nat]

Init ==
  /\ grant = [p \in Phones |-> NoLease]
  /\ used = [p \in Phones |-> {}]

\* A grant is issued, on a free phone or over the current grant.
Issue(p) ==
  /\ grant'[p] \in Grants
  /\ grant'[p].epoch \notin used[p]
  /\ grant' = [grant EXCEPT ![p] = grant'[p]]
  /\ used' = [used EXCEPT ![p] = @ \cup {grant'[p].epoch}]

\* The current grant ends without a successor.
End(p) ==
  /\ grant[p] # NoLease
  /\ grant' = [grant EXCEPT ![p] = NoLease]
  /\ UNCHANGED used

Next ==
  \E p \in Phones : End(p) \/ Issue(p)

Spec == Init /\ [][Next]_lockVars
==============================================================================
