-------------------------- MODULE LeaseStore_proofs --------------------------
(***************************************************************************)
(* Theorems about LeaseStore for any instances, phones, TTL and bounds.    *)
(***************************************************************************)
EXTENDS LeaseStore, TLAPS

Setting == {c \in calls : c.op \in SetOps}

\* Every epoch that was granted or taken has been counted.
EpochsCounted ==
  /\ \A p \in Phones : \A g \in granted[p] : g.epoch <= epochCounter[p]
  /\ \A c \in Setting : c.epoch <= epochCounter[c.phone]

\* An epoch a call has taken and not SET yet belongs to that call alone.
EpochsReserved ==
  /\ \A c, d \in Setting : c.phone = d.phone /\ c.epoch = d.epoch => c = d
  /\ \A c \in Setting : \A g \in granted[c.phone] : g.epoch # c.epoch

\* A pending SET of an instance is above everything that instance wrote.
PendingAboveOwn ==
  \A c \in Setting : \A g \in granted[c.phone] :
    g.owner = c.instance => g.epoch < c.epoch

\* The current lease is one of those written.
LeaseGranted == \A p \in Phones : lease[p] # NoLease => lease[p] \in granted[p]

\* The inductive invariant: EpochsUnique alone is not inductive, because it
\* says nothing of the epochs that calls in flight are about to write.
IInv ==
  /\ TypeOK
  /\ EpochsCounted
  /\ EpochsReserved
  /\ PendingAboveOwn
  /\ LeaseGranted
  /\ EpochsUnique

-----------------------------------------------------------------------------

LEMMA InitIInv == Init => IInv
  BY LeaseTtlAssumption
  DEF Init, IInv, TypeOK, EpochsCounted, EpochsReserved, PendingAboveOwn,
      LeaseGranted, EpochsUnique, Setting, Call, Lease

\* Every step but Incr and the SETs adds no grant and no pending SET.
LEMMA QuietStep ==
  ASSUME IInv, TypeOK',
         UNCHANGED <<epochCounter, granted>>,
         Setting' \subseteq Setting,
         \A p \in Phones : lease'[p] \in {lease[p], NoLease}
  PROVE  IInv'
  BY DEF IInv, EpochsCounted, EpochsReserved, PendingAboveOwn, LeaseGranted, EpochsUnique

LEMMA IncrPreserves ==
  ASSUME IInv, NEW i \in Instances, NEW p \in Phones, NEW op \in SetOps,
         IncrEpoch(i, p, op)
  PROVE  IInv'
  <1> DEFINE new == [op |-> op, instance |-> i, phone |-> p,
                     epoch |-> epochCounter[p] + 1]
  <1> USE DEF IInv
  <1>1. epochCounter[p] \in Nat /\ epochCounter' \in [Phones -> Nat]
    BY DEF IncrEpoch, TypeOK
  <1>2. new \in Call
    BY <1>1 DEF Call, SetOps
  <1>3. TypeOK'
    BY <1>1, <1>2 DEF IncrEpoch, TypeOK
  <1>4. /\ Setting' = Setting \cup {new}
        /\ granted' = granted
        /\ \A q \in Phones : epochCounter'[q] =
                               IF q = p THEN epochCounter[p] + 1 ELSE epochCounter[q]
    BY DEF IncrEpoch, TypeOK, Setting
  <1>5. /\ \A q \in Phones : epochCounter[q] \in Nat
        /\ \A c \in Setting : c.phone \in Phones /\ c.epoch \in Nat
        /\ \A q \in Phones : \A g \in granted[q] : g.epoch \in Nat
    BY DEF TypeOK, Setting, Call, Lease
  <1>6. EpochsCounted'
    BY <1>4, <1>5 DEF EpochsCounted
  <1>7. EpochsReserved'
    BY <1>4, <1>5 DEF EpochsCounted, EpochsReserved
  <1>8. PendingAboveOwn'
    BY <1>4, <1>5 DEF EpochsCounted, PendingAboveOwn
  <1>9. EpochsUnique' /\ LeaseGranted'
    BY <1>4 DEF EpochsUnique, LeaseGranted, IncrEpoch
  <1>10. QED
    BY <1>3, <1>6, <1>7, <1>8, <1>9

\* A SET that writes: granted grows by the call's lease.
LEMMA WritePreserves ==
  ASSUME IInv, NEW c \in calls, c.op \in SetOps, IsNextSet(c),
         calls' = calls \ {c}, WriteLease(c), UNCHANGED epochCounter
  PROVE  IInv'
  <1> DEFINE p == c.phone
             new == [owner |-> c.instance, epoch |-> c.epoch]
  <1> USE DEF IInv
  <1>1. /\ c \in Setting /\ p \in Phones /\ new \in Lease
        /\ new.epoch = c.epoch /\ new.owner = c.instance
        /\ c.epoch \in Nat
    BY DEF TypeOK, Setting, Call, Lease
  <1>2. TypeOK'
    BY <1>1, LeaseTtlAssumption, NoLeaseAssumption DEF TypeOK, WriteLease, Lease
  <1>3. /\ Setting' = Setting \ {c}
        /\ \A q \in Phones : granted'[q] = IF q = p THEN granted[p] \cup {new}
                                                    ELSE granted[q]
    BY <1>1 DEF WriteLease, TypeOK, Setting
  <1>4. /\ \A q \in Phones : epochCounter[q] \in Nat
        /\ \A d \in Setting : d.phone \in Phones /\ d.epoch \in Nat
        /\ \A q \in Phones : \A g \in granted[q] : g.epoch \in Nat
    BY DEF TypeOK, Setting, Call, Lease
  <1>5. EpochsCounted'
    BY <1>1, <1>3, <1>4 DEF EpochsCounted
  <1>6. EpochsReserved'
    BY <1>1, <1>3, <1>4 DEF EpochsReserved
  <1>7. PendingAboveOwn'
    <2> SUFFICES ASSUME NEW d \in Setting', NEW g \in granted'[d.phone],
                        g.owner = d.instance
                 PROVE  g.epoch < d.epoch
      BY DEF PendingAboveOwn
    <2>1. d \in Setting /\ d # c /\ d.phone \in Phones
      BY <1>3, <1>4
    <2>2. CASE g \in granted[d.phone]
      BY <2>1, <2>2 DEF PendingAboveOwn
    <2>3. CASE g = new /\ d.phone = p
      <3>1. c.epoch <= d.epoch
        BY <1>1, <2>1, <2>3 DEF IsNextSet, Setting
      <3>2. c.epoch # d.epoch
        BY <1>1, <2>1, <2>3 DEF EpochsReserved
      <3>3. QED
        BY <1>1, <1>4, <2>1, <2>3, <3>1, <3>2
    <2>4. QED
      BY <1>3, <2>1, <2>2, <2>3
  <1>8. EpochsUnique'
    BY <1>1, <1>3, <1>4 DEF EpochsReserved, EpochsUnique
  <1>9. LeaseGranted'
    BY <1>1, <1>3 DEF LeaseGranted, WriteLease, TypeOK
  <1>10. QED
    BY <1>2, <1>5, <1>6, <1>7, <1>8, <1>9

LEMMA ElapsePreserves ==
  ASSUME IInv, NEW p \in Phones, Elapse(p)
  PROVE  IInv'
  <1>1. TypeOK' /\ \A q \in Phones : lease'[q] \in {lease[q], NoLease}
    BY LeaseTtlAssumption DEF IInv, Elapse, DeleteLease, TypeOK
  <1>2. QED
    BY <1>1, QuietStep DEF Elapse, Setting

LEMMA InvokePreserves ==
  ASSUME IInv, NEW i \in Instances, NEW p \in Phones, Invoke(i, p)
  PROVE  IInv'
  <1>1. CASE \E op \in SetOps : IncrEpoch(i, p, op)
    BY <1>1, IncrPreserves
  <1>2. CASE CallRenew(i, p)
    <2>1. TypeOK'
      BY <1>2 DEF IInv, CallRenew, TypeOK, Call
    <2>2. Setting' \subseteq Setting
      BY <1>2 DEF CallRenew, Setting, SetOps
    <2>3. QED
      BY <1>2, <2>1, <2>2, QuietStep DEF CallRenew
  <1>3. CASE \E g \in granted[p] : CallRelease(i, p, g.epoch)
    <2> PICK g \in granted[p] : CallRelease(i, p, g.epoch)
      BY <1>3
    <2>1. TypeOK'
      BY DEF IInv, CallRelease, TypeOK, Call, Lease
    <2>2. Setting' \subseteq Setting
      BY DEF CallRelease, Setting, SetOps
    <2>3. QED
      BY <2>1, <2>2, QuietStep DEF CallRelease
  <1>4. QED
    BY <1>1, <1>2, <1>3 DEF Invoke

LEMMA ExecutePreserves ==
  ASSUME IInv, NEW c \in calls, Execute(c)
  PROVE  IInv'
  <1>0. c \in Call /\ c.phone \in Phones
    BY DEF IInv, TypeOK, Call
  <1>1. CASE SetIfAbsent(c)
    <2>1. CASE WriteLease(c)
      BY <1>1, <2>1, WritePreserves DEF SetIfAbsent, SetOps
    <2>2. CASE UNCHANGED <<lease, ttl, granted>>
      <3>1. TypeOK' /\ Setting' \subseteq Setting
        BY <1>1, <2>2 DEF IInv, SetIfAbsent, TypeOK, Setting
      <3>2. QED
        BY <1>1, <2>2, <3>1, QuietStep DEF SetIfAbsent
    <2>3. QED
      BY <1>1, <2>1, <2>2 DEF SetIfAbsent
  <1>2. CASE SetAlways(c)
    BY <1>2, WritePreserves DEF SetAlways, SetOps
  <1>3. CASE RenewScript(c)
    <2>1. TypeOK' /\ Setting' \subseteq Setting
      BY <1>0, <1>3, LeaseTtlAssumption DEF IInv, RenewScript, TypeOK, Setting
    <2>2. QED
      BY <1>3, <2>1, QuietStep DEF RenewScript
  <1>4. CASE ReleaseScript(c)
    <2>1. TypeOK' /\ Setting' \subseteq Setting
      BY <1>0, <1>4, LeaseTtlAssumption
      DEF IInv, ReleaseScript, DeleteLease, TypeOK, Setting
    <2>2. \A q \in Phones : lease'[q] \in {lease[q], NoLease}
      BY <1>0, <1>4 DEF IInv, ReleaseScript, DeleteLease, TypeOK
    <2>3. QED
      BY <1>4, <2>1, <2>2, QuietStep DEF ReleaseScript
  <1>5. CASE LoseCall(c)
    <2>1. TypeOK' /\ Setting' \subseteq Setting
      BY <1>5 DEF IInv, LoseCall, TypeOK, Setting
    <2>2. QED
      BY <1>5, <2>1, QuietStep DEF LoseCall
  <1>6. QED
    BY <1>1, <1>2, <1>3, <1>4, <1>5 DEF Execute

LEMMA NextIInv == IInv /\ [Next]_vars => IInv'
  <1> SUFFICES ASSUME IInv, [Next]_vars PROVE IInv'
    OBVIOUS
  <1>1. CASE \E i \in Instances, p \in Phones : Invoke(i, p)
    BY <1>1, InvokePreserves
  <1>2. CASE \E c \in calls : Execute(c)
    BY <1>2, ExecutePreserves
  <1>3. CASE \E p \in Phones : Elapse(p)
    BY <1>3, ElapsePreserves
  <1>4. CASE UNCHANGED vars
    <2>1. TypeOK' /\ Setting' \subseteq Setting
      BY <1>4 DEF vars, IInv, TypeOK, Setting
    <2>2. QED
      BY <1>4, <2>1, QuietStep DEF vars
  <1>5. QED
    BY <1>1, <1>2, <1>3, <1>4 DEF Next

-----------------------------------------------------------------------------

\* What a step does to a lease, and who did it.
LEMMA LeaseStep ==
  ASSUME IInv, [Next]_vars, NEW p \in Phones
  PROVE  \/ \E c \in Setting : /\ c.phone = p
                             /\ IsNextSet(c)
                             /\ lease'[p] = [owner |-> c.instance, epoch |-> c.epoch]
                             /\ granted' = [granted EXCEPT ![p] = @ \cup {lease'[p]}]
         \/ /\ lease'[p] = NoLease
            /\ ttl[p] = 1 \/ ReleasedByHolder(p)
            /\ granted' = granted
         \/ /\ lease'[p] = lease[p]
            /\ \/ ttl'[p] <= ttl[p]
               \/ \E c \in calls : /\ c.op = "renew"
                                  /\ c.phone = p
                                  /\ c.instance = lease[p].owner
  <1> USE DEF IInv
  <1>0. ttl[p] \in Nat /\ ttl \in [Phones -> Nat] /\ lease \in [Phones -> Lease \cup {NoLease}]
    BY DEF TypeOK
  <1>1. ASSUME NEW i \in Instances, NEW q \in Phones, Invoke(i, q)
        PROVE  lease' = lease /\ ttl' = ttl
    BY <1>1 DEF Invoke, IncrEpoch, CallRenew, CallRelease
  <1>2. ASSUME NEW c \in calls, SetIfAbsent(c) \/ SetAlways(c)
        PROVE  \/ c \in Setting /\ IsNextSet(c) /\ WriteLease(c)
               \/ lease' = lease /\ ttl' = ttl
    BY <1>2 DEF SetIfAbsent, SetAlways, Setting, SetOps
  <1>3. ASSUME NEW c \in calls, c \in Setting, IsNextSet(c), WriteLease(c)
        PROVE  \/ /\ c.phone = p
                  /\ lease'[p] = [owner |-> c.instance, epoch |-> c.epoch]
                  /\ granted' = [granted EXCEPT ![p] = @ \cup {lease'[p]}]
               \/ lease'[p] = lease[p] /\ ttl'[p] = ttl[p]
    BY <1>0, <1>3 DEF WriteLease, TypeOK
  <1>4. CASE \E c \in calls : SetIfAbsent(c) \/ SetAlways(c)
    BY <1>0, <1>2, <1>3, <1>4
  <1>5. ASSUME NEW c \in calls, RenewScript(c) \/ LoseCall(c)
        PROVE  /\ lease'[p] = lease[p]
               /\ ttl'[p] = ttl[p] \/ (c.op = "renew" /\ c.phone = p
                                       /\ c.instance = lease[p].owner)
    BY <1>0, <1>5 DEF RenewScript, LoseCall, TypeOK
  <1>6. ASSUME NEW c \in calls, ReleaseScript(c)
        PROVE  \/ lease'[p] = NoLease /\ ReleasedByHolder(p) /\ granted' = granted
               \/ lease'[p] = lease[p] /\ ttl'[p] = ttl[p]
    BY <1>0, <1>6 DEF ReleaseScript, DeleteLease, ReleasedByHolder, TypeOK
  <1>7. ASSUME NEW q \in Phones, Elapse(q)
        PROVE  \/ lease'[p] = NoLease /\ ttl[p] = 1 /\ granted' = granted
               \/ lease'[p] = lease[p] /\ ttl'[p] <= ttl[p]
    BY <1>0, <1>7 DEF Elapse, DeleteLease, TypeOK
  <1>8. CASE UNCHANGED vars
    BY <1>0, <1>8 DEF vars
  <1>9. CASE \E c \in calls : Execute(c)
    BY <1>0, <1>4, <1>5, <1>6, <1>9 DEF Execute
  <1>10. QED
    BY <1>0, <1>1, <1>7, <1>8, <1>9 DEF Next

LEMMA StepWritesAboveOwn == IInv /\ [Next]_vars => WritesAboveOwn
  <1> SUFFICES ASSUME IInv, [Next]_vars, NEW p \in Phones,
                      lease'[p] \notin {lease[p], NoLease},
                      NEW g \in granted[p], g.owner = lease'[p].owner
               PROVE  g.epoch < lease'[p].epoch
    BY DEF WritesAboveOwn
  <1>1. PICK c \in Setting : /\ c.phone = p
                            /\ lease'[p] = [owner |-> c.instance, epoch |-> c.epoch]
    BY LeaseStep
  <1>2. QED
    BY <1>1 DEF IInv, PendingAboveOwn

LEMMA StepEndsByHolder == IInv /\ [Next]_vars => EndsByHolder
  <1> SUFFICES ASSUME IInv, [Next]_vars, NEW p \in Phones,
                      lease[p] # NoLease, lease'[p] = NoLease
               PROVE  ttl[p] = 1 \/ ReleasedByHolder(p)
    BY DEF EndsByHolder
  <1>1. ASSUME NEW c \in Setting
        PROVE  [owner |-> c.instance, epoch |-> c.epoch] # NoLease
    BY NoLeaseAssumption DEF IInv, TypeOK, Setting, Call
  <1>2. QED
    BY <1>1, LeaseStep

LEMMA StepExtendsOwn == IInv /\ [Next]_vars => ExtendsOwn
  <1> SUFFICES ASSUME IInv, [Next]_vars, NEW p \in Phones,
                      lease'[p] = lease[p], ttl'[p] > ttl[p]
               PROVE  \E c \in calls : /\ c.op = "renew"
                                      /\ c.phone = p
                                      /\ c.instance = lease[p].owner
    BY DEF ExtendsOwn
  <1>1. lease[p] # NoLease /\ lease[p] \in granted[p]
    BY NextIInv DEF IInv, TypeOK, LeaseGranted
  <1>2. ASSUME NEW c \in Setting, c.phone = p
        PROVE  lease[p] # [owner |-> c.instance, epoch |-> c.epoch]
    BY <1>1, <1>2 DEF IInv, EpochsReserved
  <1>3. ttl[p] \in Nat /\ ttl'[p] \in Nat
    BY NextIInv DEF IInv, TypeOK
  <1>4. ~(ttl'[p] <= ttl[p])
    BY <1>3
  <1>5. CASE \E c \in Setting : /\ c.phone = p
                               /\ lease'[p] = [owner |-> c.instance, epoch |-> c.epoch]
    BY <1>2, <1>5
  <1>6. CASE lease'[p] = lease[p] /\ \E c \in calls : /\ c.op = "renew"
                                                      /\ c.phone = p
                                                      /\ c.instance = lease[p].owner
    BY <1>6
  <1>7. QED
    BY <1>1, <1>4, <1>5, <1>6, LeaseStep

-----------------------------------------------------------------------------
(* The refinement of LeaseLock *)

UsedEpochs == [p \in Phones |-> {g.epoch : g \in granted[p]}]

LEMMA InitLock == Init => Lock!Init
  BY DEF Init, Lock!Init

\* A SET that writes is the abstract Issue: its epoch has not been used.
LEMMA WriteIssues ==
  ASSUME IInv, NEW c \in Setting, WriteLease(c)
  PROVE  Lock!Issue(c.phone)
  <1> DEFINE p == c.phone
             new == [owner |-> c.instance, epoch |-> c.epoch]
  <1>1. p \in Phones /\ new \in Lock!Grants
    BY DEF IInv, TypeOK, Setting, Call, Lock!Grants
  <1>2. lease' = [lease EXCEPT ![p] = new] /\ lease'[p] = new
    BY <1>1 DEF WriteLease, IInv, TypeOK
  <1>3. new.epoch \notin UsedEpochs[p]
    BY <1>1 DEF IInv, EpochsReserved, UsedEpochs
  <1>4. /\ granted' \in [Phones -> SUBSET Lease]
        /\ \A q \in Phones : granted'[q] = IF q = p THEN granted[p] \cup {new}
                                                    ELSE granted[q]
    BY <1>1 DEF WriteLease, IInv, TypeOK, Lease, Lock!Grants
  <1>5. \A q \in Phones : {g.epoch : g \in granted'[q]} =
                            IF q = p THEN UsedEpochs[p] \cup {new.epoch}
                                     ELSE UsedEpochs[q]
    BY <1>1, <1>4 DEF UsedEpochs
  <1>6. UsedEpochs' = [UsedEpochs EXCEPT ![p] = @ \cup {new.epoch}]
    BY <1>1, <1>5 DEF UsedEpochs
  <1>7. QED
    BY <1>1, <1>2, <1>3, <1>6 DEF Lock!Issue, UsedEpochs

\* A key that goes away is the abstract End.
LEMMA DeleteEnds ==
  ASSUME IInv, NEW p \in Phones, lease[p] # NoLease, DeleteLease(p),
         granted' = granted
  PROVE  Lock!End(p)
  BY DEF DeleteLease, Lock!End

LEMMA StepRefines == IInv /\ [Next]_vars => [Lock!Next]_(Lock!lockVars)
  <1> SUFFICES ASSUME IInv, [Next]_vars
               PROVE  Lock!Next \/ UNCHANGED <<lease, granted>>
    BY DEF Lock!lockVars
  <1>1. CASE \E i \in Instances, p \in Phones : Invoke(i, p)
    BY <1>1 DEF Invoke, IncrEpoch, CallRenew, CallRelease
  <1>2. ASSUME NEW c \in calls, SetIfAbsent(c) \/ SetAlways(c)
        PROVE  Lock!Next \/ UNCHANGED <<lease, granted>>
    <2>1. CASE WriteLease(c)
      <3>1. c \in Setting /\ c.phone \in Phones
        BY <1>2 DEF SetIfAbsent, SetAlways, Setting, SetOps, IInv, TypeOK, Call
      <3>2. QED
        BY <2>1, <3>1, WriteIssues DEF Lock!Next
    <2>2. CASE ~WriteLease(c)
      BY <1>2, <2>2 DEF SetIfAbsent, SetAlways
    <2>3. QED
      BY <2>1, <2>2
  <1>3. ASSUME NEW c \in calls, ReleaseScript(c)
        PROVE  Lock!Next \/ UNCHANGED <<lease, granted>>
    <2>1. c.phone \in Phones /\ [owner |-> c.instance, epoch |-> c.epoch] # NoLease
      BY NoLeaseAssumption DEF IInv, TypeOK, Call
    <2>2. QED
      BY <1>3, <2>1, DeleteEnds DEF ReleaseScript, Lock!Next
  <1>4. ASSUME NEW c \in calls, RenewScript(c) \/ LoseCall(c)
        PROVE  UNCHANGED <<lease, granted>>
    BY <1>4 DEF RenewScript, LoseCall
  <1>5. ASSUME NEW p \in Phones, Elapse(p)
        PROVE  Lock!Next \/ UNCHANGED <<lease, granted>>
    <2>1. lease[p] # NoLease
      BY <1>5 DEF Elapse, IInv, TypeOK
    <2>2. QED
      BY <1>5, <2>1, DeleteEnds DEF Elapse, Lock!Next
  <1>6. CASE UNCHANGED vars
    BY <1>6 DEF vars
  <1>7. QED
    BY <1>1, <1>2, <1>3, <1>4, <1>5, <1>6 DEF Next, Execute

-----------------------------------------------------------------------------
(* Theorems *)

\* The strengthened invariant holds in every reachable state.
THEOREM Inductive == Spec => []IInv
  BY InitIInv, NextIInv, PTL DEF Spec

\* Every reachable state is well typed: in particular no lease key is without
\* a TTL and no expired key keeps its value.
THEOREM TypeCorrect == Spec => []TypeOK
  BY Inductive, PTL DEF IInv

\* No two leases of a phone are ever written with the same epoch, however the
\* INCRs and SETs of any number of instances interleave.
THEOREM UniqueEpochs == Spec => []EpochsUnique
  BY Inductive, PTL DEF IInv

\* Each instance writes growing epochs on a phone, for any number of its calls
\* in flight at once.
THEOREM OwnEpochs == Spec => OwnEpochsIncrease
  BY Inductive, StepWritesAboveOwn, PTL DEF Spec, OwnEpochsIncrease

\* A lease is ended by its TTL or by a release of that very grant, never by a
\* late release of an older one.
THEOREM EndsByHolderOnly == Spec => EndsOnlyByHolder
  BY Inductive, StepEndsByHolder, PTL DEF Spec, EndsOnlyByHolder

\* Only the owner's renewal extends a lease.
THEOREM ExtendedByOwner == Spec => ExtendedOnlyByOwner
  BY Inductive, StepExtendsOwn, PTL DEF Spec, ExtendedOnlyByOwner

\* The Redis lease implements the abstract lock.
THEOREM RefinesLock == Spec => ImplementsLock
  BY Inductive, InitLock, StepRefines, PTL DEF Spec, ImplementsLock, Lock!Spec
==============================================================================
