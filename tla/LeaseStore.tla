----------------------------- MODULE LeaseStore ------------------------------
(***************************************************************************)
(* src/cluster/leaseStore.ts: the lease of a phone number in Redis.        *)
(*                                                                         *)
(* Every Redis command is one step; the functions of leaseStore.ts that    *)
(* need two commands are two steps with other calls in between.  A call    *)
(* whose next command has not been executed yet is a member of `calls`.    *)
(* A process talks to Redis over one connection, which executes commands   *)
(* and resolves promises in the order they were sent: two acquisitions of  *)
(* one process on one phone therefore SET in the order they INCRemented.   *)
(* Nothing orders the commands of two processes, nor a renewal or release  *)
(* against anything else.                                                  *)
(***************************************************************************)
EXTENDS Naturals, FiniteSets

CONSTANTS Instances,    \* values of instanceId
          Phones,
          NoLease,      \* GET of a lease key that does not exist
          LeaseTtl,     \* leaseTtlMs, in ticks of the Redis clock
          MaxEpoch,     \* bound: INCRs of one epoch counter
          MaxInFlight   \* bound: calls in flight at once

ASSUME LeaseTtlAssumption == LeaseTtl \in Nat \ {0}
ASSUME BoundsAssumption == MaxEpoch \in Nat /\ MaxInFlight \in Nat
ASSUME NoLeaseAssumption == NoLease \notin [owner : Instances, epoch : Nat]

VARIABLES
  lease,         \* lease[p]: the JSON value under keys.lease(p), or NoLease
  ttl,           \* ttl[p]: ticks left before the key expires, 0 if it does not exist
  epochCounter,  \* epochCounter[p]: the number under keys.leaseEpoch(p)
  calls,         \* calls whose next Redis command is still to be executed
  granted        \* history: granted[p], every lease ever SET on p

vars == <<lease, ttl, epochCounter, calls, granted>>

Lease == [owner : Instances, epoch : Nat]

\* "acquire" and "force" have INCRemented and still have to SET.
SetOps == {"acquire", "force"}
Call == [op : SetOps \cup {"renew", "release"},
         instance : Instances, phone : Phones, epoch : Nat]

Init ==
  /\ lease = [p \in Phones |-> NoLease]
  /\ ttl = [p \in Phones |-> 0]
  /\ epochCounter = [p \in Phones |-> 0]
  /\ calls = {}
  /\ granted = [p \in Phones |-> {}]

Room == Cardinality(calls) < MaxInFlight

-----------------------------------------------------------------------------
(* acquireLease and forceAcquireLease *)

\* Bug: reads the counter and writes it back only when the SET is due, so
\* two calls in flight get the same epoch.
IncrEpoch_Get(i, p, op) ==
  /\ Room
  /\ epochCounter[p] < MaxEpoch
  /\ calls' = calls \cup {[op |-> op, instance |-> i, phone |-> p,
                           epoch |-> epochCounter[p] + 1]}
  /\ \/ UNCHANGED epochCounter
     \/ epochCounter' = [epochCounter EXCEPT ![p] = @ + 1]
  /\ UNCHANGED <<lease, ttl, granted>>

\* The INCR both start with: the epoch is taken before the outcome is known.
IncrEpoch(i, p, op) ==
  /\ Room
  /\ epochCounter[p] < MaxEpoch
  /\ epochCounter' = [epochCounter EXCEPT ![p] = @ + 1]
  /\ calls' = calls \cup {[op |-> op, instance |-> i, phone |-> p,
                           epoch |-> epochCounter[p] + 1]}
  /\ UNCHANGED <<lease, ttl, granted>>

\* Bug: commands of one process overtake each other (a connection pool).
IsNextSet_Pool(c) == c \in calls

\* The caller's connection has no earlier SET for this phone to execute.
IsNextSet(c) ==
  \A d \in {b \in calls : b.op \in SetOps} :
    d.instance = c.instance /\ d.phone = c.phone => c.epoch <= d.epoch

\* Bug: SET without an expiration.
WriteLease_NoTtl(c) ==
  LET new == [owner |-> c.instance, epoch |-> c.epoch]
  IN /\ lease' = [lease EXCEPT ![c.phone] = new]
     /\ ttl' = [ttl EXCEPT ![c.phone] = 0]
     /\ granted' = [granted EXCEPT ![c.phone] = @ \cup {new}]

\* SET: the key gets the new owner and a full TTL, whatever it held.
WriteLease(c) ==
  LET new == [owner |-> c.instance, epoch |-> c.epoch]
  IN /\ lease' = [lease EXCEPT ![c.phone] = new]
     /\ ttl' = [ttl EXCEPT ![c.phone] = LeaseTtl]
     /\ granted' = [granted EXCEPT ![c.phone] = @ \cup {new}]

\* acquireLease's SET NX: it wins on a missing key and else does nothing.
SetIfAbsent(c) ==
  /\ c.op = "acquire" /\ IsNextSet(c)
  /\ calls' = calls \ {c}
  /\ UNCHANGED epochCounter
  /\ \/ lease[c.phone] = NoLease /\ WriteLease(c)
     \/ lease[c.phone] # NoLease /\ UNCHANGED <<lease, ttl, granted>>

\* forceAcquireLease's SET.
SetAlways(c) ==
  /\ c.op = "force" /\ IsNextSet(c)
  /\ calls' = calls \ {c}
  /\ WriteLease(c)
  /\ UNCHANGED epochCounter

-----------------------------------------------------------------------------
(* renewLease and releaseLease: one script each, some time after the call *)

\* Any instance may renew: one that lost the lease does not know it yet.
CallRenew(i, p) ==
  /\ Room
  /\ calls' = calls \cup {[op |-> "renew", instance |-> i, phone |-> p, epoch |-> 0]}
  /\ UNCHANGED <<lease, ttl, epochCounter, granted>>

\* A caller passes an epoch it was granted at some time, perhaps long ago.
CallRelease(i, p, e) ==
  /\ Room
  /\ [owner |-> i, epoch |-> e] \in granted[p]
  /\ calls' = calls \cup {[op |-> "release", instance |-> i, phone |-> p, epoch |-> e]}
  /\ UNCHANGED <<lease, ttl, epochCounter, granted>>

\* Bug: a GET before the call and a PEXPIRE now, with no comparison here.
RenewScript_Unchecked(c) ==
  /\ c.op = "renew"
  /\ calls' = calls \ {c}
  /\ ttl' = IF lease[c.phone] # NoLease
            THEN [ttl EXCEPT ![c.phone] = LeaseTtl]
            ELSE ttl
  /\ UNCHANGED <<lease, epochCounter, granted>>

\* RENEW_SCRIPT: PEXPIRE if the owner still is the caller.
RenewScript(c) ==
  /\ c.op = "renew"
  /\ calls' = calls \ {c}
  /\ ttl' = IF lease[c.phone] # NoLease /\ lease[c.phone].owner = c.instance
            THEN [ttl EXCEPT ![c.phone] = LeaseTtl]
            ELSE ttl
  /\ UNCHANGED <<lease, epochCounter, granted>>

\* DEL of the lease key.
DeleteLease(p) ==
  /\ lease' = [lease EXCEPT ![p] = NoLease]
  /\ ttl' = [ttl EXCEPT ![p] = 0]

\* Bug: compares the owner and not the epoch.
ReleaseScript_OwnerOnly(c) ==
  /\ c.op = "release"
  /\ calls' = calls \ {c}
  /\ UNCHANGED <<epochCounter, granted>>
  /\ IF lease[c.phone] # NoLease /\ lease[c.phone].owner = c.instance
     THEN DeleteLease(c.phone)
     ELSE UNCHANGED <<lease, ttl>>

\* RELEASE_SCRIPT: DEL if owner and epoch are the caller's.
ReleaseScript(c) ==
  /\ c.op = "release"
  /\ calls' = calls \ {c}
  /\ UNCHANGED <<epochCounter, granted>>
  /\ IF lease[c.phone] = [owner |-> c.instance, epoch |-> c.epoch]
     THEN DeleteLease(c.phone)
     ELSE UNCHANGED <<lease, ttl>>

-----------------------------------------------------------------------------
(* The environment *)

\* A call never reaches Redis: the process died or the connection broke.
LoseCall(c) ==
  /\ calls' = calls \ {c}
  /\ UNCHANGED <<lease, ttl, epochCounter, granted>>

\* Time passes for one key; a key whose TTL runs out is gone.
Elapse(p) ==
  /\ ttl[p] > 0
  /\ UNCHANGED <<epochCounter, calls, granted>>
  /\ IF ttl[p] = 1
     THEN DeleteLease(p)
     ELSE ttl' = [ttl EXCEPT ![p] = @ - 1] /\ UNCHANGED lease

Invoke(i, p) ==
  \/ \E op \in SetOps : IncrEpoch(i, p, op)
  \/ CallRenew(i, p)
  \/ \E g \in granted[p] : CallRelease(i, p, g.epoch)

Execute(c) ==
  \/ SetIfAbsent(c)
  \/ SetAlways(c)
  \/ RenewScript(c)
  \/ ReleaseScript(c)
  \/ LoseCall(c)

Next ==
  \/ \E i \in Instances, p \in Phones : Invoke(i, p)
  \/ \E c \in calls : Execute(c)
  \/ \E p \in Phones : Elapse(p)

Spec == Init /\ [][Next]_vars

-----------------------------------------------------------------------------
(* Properties *)

\* The types of the variables; a key without a value has no TTL left, and one
\* with a value has some.
TypeOK ==
  /\ lease \in [Phones -> Lease \cup {NoLease}]
  /\ ttl \in [Phones -> 0..LeaseTtl]
  /\ epochCounter \in [Phones -> Nat]
  /\ calls \subseteq Call
  /\ granted \in [Phones -> SUBSET Lease]
  /\ \A p \in Phones : ttl[p] = 0 <=> lease[p] = NoLease

\* An epoch names one grant: whatever INCRs, SETs and losses interleave, no
\* two leases of a phone were ever written with the same epoch, so comparing
\* epochs tells a stale owner from the current one (keys.ts).
EpochsUnique ==
  \A p \in Phones : \A g, h \in granted[p] : g.epoch = h.epoch => g = h

\* The leases one instance writes on a phone carry growing epochs, although
\* INCR and SET are two commands: what lets a connection keep the larger of
\* two epochs handed to it (BaileysConnection.updateOptions).
WritesAboveOwn ==
  \A p \in Phones :
    lease'[p] \notin {lease[p], NoLease} =>
      \A g \in granted[p] :
        g.owner = lease'[p].owner => g.epoch < lease'[p].epoch
OwnEpochsIncrease == [][WritesAboveOwn]_vars

\* A lease disappears only because its TTL ran out or because its own holder
\* released that very grant: a release that was delayed over a re-acquisition
\* by the same instance does not take the newer lease with it.
ReleasedByHolder(p) ==
  \E c \in calls : /\ c.op = "release"
                  /\ c.phone = p
                  /\ lease[p] = [owner |-> c.instance, epoch |-> c.epoch]
EndsByHolder ==
  \A p \in Phones :
    lease[p] # NoLease /\ lease'[p] = NoLease => ttl[p] = 1 \/ ReleasedByHolder(p)
EndsOnlyByHolder == [][EndsByHolder]_vars

\* The TTL of a lease that stays is only ever extended by a renewal its owner
\* sent: an instance whose lease moved on while its renewal was in flight
\* never prolongs, or believes it holds, the lease of its successor.
ExtendsOwn ==
  \A p \in Phones :
    lease'[p] = lease[p] /\ ttl'[p] > ttl[p] =>
      \E c \in calls : /\ c.op = "renew"
                      /\ c.phone = p
                      /\ c.instance = lease[p].owner
ExtendedOnlyByOwner == [][ExtendsOwn]_vars

\* The store implements the abstract lock, reading the used epochs off the
\* history of grants.
Lock == INSTANCE LeaseLock WITH
          grant <- lease,
          used <- [p \in Phones |-> {g.epoch : g \in granted[p]}]
ImplementsLock == Lock!Spec

\* What the comments of Lease and of keys.leaseEpoch say: "The epoch strictly
\* increases across successive owners".  INCR and SET are two commands, so an
\* instance that INCRemented first may SET last and follow a larger epoch.
SuccessorEpochsIncrease ==
  [][\A p \in Phones :
       lease'[p] \notin {lease[p], NoLease} =>
         \A g \in granted[p] : g.epoch < lease'[p].epoch]_vars
==============================================================================
