----------------------------- MODULE Coordinator -----------------------------
(***************************************************************************)
(* src/cluster/coordinator.ts: which instance holds the socket of a phone. *)
(*                                                                         *)
(* The lease of a phone is the lock of LeaseLock: INCR and SET are two     *)
(* steps, a release is one.  Everything an instance does is a thread: the  *)
(* claim scan and the reconnects it starts, the renewal loop, a rebalance, *)
(* the shutdown handoff, the release after a connection is lost, and the   *)
(* requests (POST /connections, import, restart, DELETE).  Threads of one  *)
(* instance share its memory (held epochs, registered connections) and     *)
(* interleave at every await; a thread that only waits for the handler's   *)
(* per-phone slot proceeds the moment the slot is free ("enter").          *)
(*                                                                         *)
(* BaileysConnectionsHandler appears as connect, logout and discard for    *)
(* one phone; ConnectionsHandler.tla opens it up.                          *)
(***************************************************************************)
EXTENDS Naturals, FiniteSets, FiniteSetsExt

CONSTANTS Instances, Phones,
          NoLease, NoConn, Nobody,
          Requests,      \* identities of the requests clients may send
          Kinds,         \* the kinds of requests sent
          Disturbances,  \* what may go wrong
          MaxDisturbed,  \* bound: how many times something goes wrong
          Alone          \* bound: whether a request meets no failure but its own

AllKinds == {"connect", "import", "restart", "logout"}
AllDisturbances == {"crash", "shutdown", "outage", "giveup", "spawnfail", "rebuild",
                    "reuse", "unlink", "slow", "rebalance"}

Tasks == {"claim", "renew", "move", "stop", "lost"}
Threads == Requests \cup (Tasks \X Instances \X Phones)

Epochs == Nat
Lease == [owner : Instances, epoch : Epochs \ {0}]
Connection == [epoch : Epochs, st : {"opening", "live", "dead"}]
Pcs == {"paired", "set", "claimed", "sleep", "giveback", "enter", "spawning",
        "steer", "inspect", "clear", "seed", "logout", "offline", "finally", "lookup",
        "release"}
Op == [pc : Pcs, kind : Tasks \cup AllKinds, i : Instances, p : Phones, epoch : Epochs]

ASSUME KindsAssumption == Kinds \subseteq AllKinds
ASSUME DisturbancesAssumption == Disturbances \subseteq AllDisturbances
ASSUME BoundsAssumption == MaxDisturbed \in Nat /\ Alone \in BOOLEAN
ASSUME SizesAssumption ==
  IsFiniteSet(Instances) /\ IsFiniteSet(Phones) /\ IsFiniteSet(Requests)
ASSUME NamesAssumption ==
  /\ NoLease \notin Lease /\ NoConn \notin Connection /\ Nobody \notin Instances
  /\ Requests \cap (Tasks \X Instances \X Phones) = {}

VARIABLES
  \* Redis
  lease,        \* lease[p]: [owner, epoch] or NoLease
  overdue,      \* history: <<i, p>> if i's lease of p ran out while i stood on it
  auth,         \* auth[p]: "none", "unpaired" or "paired" credentials
  quarantined,  \* quarantined[p]: a strike's backoff is running
  handoff,      \* handoff[p]: the instance a rebalance named, or Nobody
  cooldown,     \* cooldown[p]: the instance that released p, or Nobody
  registry,     \* registry[i]: "gone", "live" or "draining"
  \* one instance's memory
  status,       \* "running", "announcing" and "draining" (shutdown), "down"
  reachable,    \* whether its Redis connection works
  degraded,     \* redisDegraded
  held,         \* held[i][p]: heldLeaseEpochs, 0 for no entry
  seen,         \* seen[i][p]: firstSeenUnleasedAt, "unseen", "seen" or "orphaned"
  conn,         \* conn[i][p]: the registered connection, or NoConn
  phase,        \* where the claim tick is: "idle", "scan", "connect" or "move"
  share,        \* share[i]: the fair share the claim scan computed
  todo,         \* todo[i][loop]: phones a loop still has to visit
  op,           \* op[t]: what thread t is doing
  left          \* disturbances that may still happen

redis == <<lease, overdue, auth, quarantined, handoff, cooldown, registry>>
loops == <<phase, share, todo, seen>>
health == <<status, reachable, degraded>>
vars == <<redis, health, held, conn, loops, op, left>>

Unborn == [pc |-> "unborn"]
Done == [pc |-> "done"]
Idle(t) == [pc |-> "idle", kind |-> t[1], i |-> t[2], p |-> t[3], epoch |-> 0]
Resting(t) == IF t \in Requests THEN Done ELSE Idle(t)

AtRest ==
  /\ overdue = {}
  /\ quarantined = [p \in Phones |-> FALSE]
  /\ handoff = [p \in Phones |-> Nobody]
  /\ cooldown = [p \in Phones |-> Nobody]
  /\ registry = [i \in Instances |-> "live"]
  /\ status = [i \in Instances |-> "running"]
  /\ reachable = [i \in Instances |-> TRUE]
  /\ degraded = [i \in Instances |-> FALSE]
  /\ seen = [i \in Instances |-> [p \in Phones |-> "unseen"]]
  /\ phase = [i \in Instances |-> "idle"]
  /\ share = [i \in Instances |-> 0]
  /\ todo = [i \in Instances |-> [l \in {"claim", "renew", "stop"} |-> {}]]
  /\ op = [t \in Threads |-> IF t \in Requests THEN Unborn ELSE Idle(t)]

Unowned ==
  /\ lease = [p \in Phones |-> NoLease]
  /\ held = [i \in Instances |-> [p \in Phones |-> 0]]
  /\ conn = [i \in Instances |-> [p \in Phones |-> NoConn]]

\* Nobody owns anything: every instance has just started.
Init ==
  /\ AtRest /\ Unowned
  /\ auth = [p \in Phones |-> "paired"]
  /\ left = MaxDisturbed

-----------------------------------------------------------------------------
(* Helpers *)

Active(t) == op[t].pc \notin {"unborn", "done", "idle"}
ActiveAt(i, p) == {t \in Threads : Active(t) /\ op[t].i = i /\ op[t].p = p}
Up(i) == status[i] # "down"
Draining(i) == status[i] \in {"announcing", "draining"}
Registered(i) == {p \in Phones : conn[i][p] # NoConn}
Owns(i, p) == lease[p] # NoLease /\ lease[p].owner = i
OwnedElsewhere(i, p) == lease[p] # NoLease /\ lease[p].owner # i

\* withInFlightOp: connects and logouts of one phone exclude each other.
SlotBusy(i, p) ==
  \E t \in Threads : op[t].pc \in {"spawning", "logout"} /\ op[t].i = i /\ op[t].p = p

Scanning(i) == \E p \in Phones : op[<<"claim", i, p>>].pc \in {"paired", "set"}

\* The phones the claim scan has claimed so far.
Claimed(i) == {p \in Phones : op[<<"claim", i, p>>].pc = "claimed"}

\* The claim tick has awaited all it has to before its next phase.
TickPending(i) ==
  \/ phase[i] = "scan" /\ ~Scanning(i) /\ (todo[i].claim = {} \/ Draining(i))
  \/ phase[i] = "connect" /\ \A p \in Phones : ~Active(<<"claim", i, p>>)
  \/ phase[i] = "move" /\ \A p \in Phones : ~Active(<<"move", i, p>>)

\* A thread that finds its slot free does not wait for the next reply or timer.
Settled(i) ==
  \A t \in Threads : op[t].pc = "enter" /\ op[t].i = i => SlotBusy(i, op[t].p)

\* Thread t of instance i awaits Redis (or a timer) at `pc` and now gets on.
At(t, pc) == op[t].pc = pc /\ Up(op[t].i) /\ Settled(op[t].i)
AtRedis(t, pc) == At(t, pc) /\ reachable[op[t].i]

Goto(t, pc) == op' = [op EXCEPT ![t].pc = pc]
Rest(t) == op' = [op EXCEPT ![t] = Resting(t)]

\* Something goes wrong in the given threads, or besides them all.
DisturbIn(hit, kind) ==
  /\ kind \in Disturbances /\ left > 0 /\ left' = left - 1
  /\ Alone /\ (\E r \in Requests : op[r] # Unborn) => hit \cap Requests # {}
Disturb(kind) == DisturbIn({}, kind)

\* The fences of redisAuthState.ts: a missing lease passes.
MayWriteAuth(i, p) == ~OwnedElsewhere(i, p)

Larger(a, b) == IF a > b THEN a ELSE b

\* Math.ceil(saved / live), counting at least one live instance.
FairShare ==
  LET saved == Cardinality({p \in Phones : auth[p] # "none"})
      live == Larger(Cardinality({i \in Instances : registry[i] = "live"}), 1)
  IN (saved + live - 1) \div live

\* Bug: no fallback to the lease for an epoch that was never tracked.
ReleaseHeld_NoLookup(t) ==
  /\ held' = [held EXCEPT ![op[t].i][op[t].p] = 0]
  /\ op' = [op EXCEPT ![t].pc = "release", ![t].epoch = held[op[t].i][op[t].p]]

\* releaseHeldLease up to its first await: forgets the held epoch and releases
\* that one, or looks the lease up if none is held.
ReleaseHeld(t) ==
  LET i == op[t].i
      p == op[t].p
      e == held[i][p]
  IN /\ held' = [held EXCEPT ![i][p] = 0]
     /\ op' = [op EXCEPT ![t].pc = IF e = 0 THEN "lookup" ELSE "release",
                         ![t].epoch = e]

\* abandonExplicitLease up to its first await: forgets epoch e if it is the
\* one held and releases e in any case.
AbandonLease(t, i, p, e) ==
  /\ held' = [held EXCEPT ![i][p] = IF @ = e THEN 0 ELSE @]
  /\ op' = [op EXCEPT ![t].pc = "release", ![t].epoch = e]

Abandon(t) == AbandonLease(t, op[t].i, op[t].p, op[t].epoch)

-----------------------------------------------------------------------------
(* leaseStore calls *)

\* The epochs instance i still remembers for p, or would find in the lease.
Remembered(i, p) ==
  {0, held[i][p]}
    \cup {op[t].epoch : t \in ActiveAt(i, p)}
    \cup (IF conn[i][p] = NoConn THEN {} ELSE {conn[i][p].epoch})
    \cup (IF Owns(i, p) THEN {lease[p].epoch} ELSE {})

\* INCR, executed when the SET is.  The code compares epochs only with others
\* of the same instance, for equality and for order, and LeaseStore shows that
\* those are unique and grow from SET to SET.  A number above every epoch that
\* is left to compare with stands for the new one.
NextEpoch(i, p) == Max(Remembered(i, p)) + 1

\* The SET succeeds in Redis.
Grant(i, p) ==
  /\ lease' = [lease EXCEPT ![p] = [owner |-> i, epoch |-> NextEpoch(i, p)]]
  /\ overdue' = overdue \ {<<i, p>>}

\* The SET succeeds and its reply is handled.
TakeLease(i, p) ==
  /\ Grant(i, p)
  /\ held' = [held EXCEPT ![i][p] = NextEpoch(i, p)]

\* The script of releaseLease: compare (owner, epoch) and delete.
Release(t) ==
  /\ AtRedis(t, "release")
  /\ lease' = IF lease[op[t].p] = [owner |-> op[t].i, epoch |-> op[t].epoch]
              THEN [lease EXCEPT ![op[t].p] = NoLease]
              ELSE lease
  /\ Rest(t)
  /\ UNCHANGED <<overdue, auth, quarantined, handoff, cooldown, registry,
                 health, held, conn, loops, left>>

\* releaseHeldLease for an epoch that was never tracked: reads the lease.
Lookup(t) ==
  /\ AtRedis(t, "lookup")
  /\ \/ /\ Owns(op[t].i, op[t].p)
        /\ op' = [op EXCEPT ![t].pc = "release", ![t].epoch = lease[op[t].p].epoch]
     \/ ~Owns(op[t].i, op[t].p) /\ Rest(t)
  /\ UNCHANGED <<redis, health, held, conn, loops, left>>

-----------------------------------------------------------------------------
(* The claim tick *)

\* runClaimCycle up to the loop over the candidates.
BeginScan(i) ==
  /\ status[i] = "running" /\ phase[i] = "idle" /\ Settled(i)
  /\ reachable[i] /\ ~degraded[i]
  /\ LET candidates == {p \in Phones : auth[p] # "none" /\ conn[i][p] = NoConn}
     IN /\ candidates # {}
        /\ phase' = [phase EXCEPT ![i] = "scan"]
        /\ todo' = [todo EXCEPT ![i].claim = candidates]
        /\ seen' = [seen EXCEPT ![i] =
                     [p \in Phones |-> IF p \in candidates THEN @[p] ELSE "unseen"]]
        /\ share' = [share EXCEPT ![i] = FairShare]
  /\ UNCHANGED <<redis, health, held, conn, op, left>>

\* Bug: an instance takes back what it has just released.
PassesGates_NoCooldown(i, p) ==
  \/ handoff[p] = i
  \/ /\ handoff[p] = Nobody
     /\ \/ Cardinality(Registered(i)) + Cardinality(Claimed(i)) < share[i]
        \/ seen[i][p] = "orphaned"
     /\ ~quarantined[p]

\* What lets an unleased phone through before its credentials are looked at: it
\* is handed off to this instance, or to nobody and neither the fair share
\* (unless it is orphaned), nor the instance's own cooldown, nor quarantine
\* speaks against it.
PassesGates(i, p) ==
  \/ handoff[p] = i
  \/ /\ handoff[p] = Nobody
     /\ \/ Cardinality(Registered(i)) + Cardinality(Claimed(i)) < share[i]
        \/ seen[i][p] = "orphaned"
     /\ cooldown[p] # i
     /\ ~quarantined[p]

\* One candidate: a leased phone is passed over, an unleased one is noted and
\* put through the gates.
Consider(i, p) ==
  LET t == <<"claim", i, p>>
  IN /\ phase[i] = "scan" /\ p \in todo[i].claim /\ ~Scanning(i)
     /\ status[i] = "running" /\ Settled(i) /\ reachable[i]
     /\ todo' = [todo EXCEPT ![i].claim = @ \ {p}]
     /\ seen' = [seen EXCEPT ![i][p] =
                  IF lease[p] # NoLease THEN "unseen"
                  ELSE IF @ = "unseen" THEN "seen" ELSE @]
     /\ IF lease[p] = NoLease /\ PassesGates(i, p) THEN Goto(t, "paired") ELSE UNCHANGED op
     /\ UNCHANGED <<redis, health, held, conn, phase, share, left>>

\* isRedisAuthStatePaired.
CheckPaired(t) ==
  /\ AtRedis(t, "paired")
  /\ IF auth[op[t].p] = "paired" THEN Goto(t, "set") ELSE Rest(t)
  /\ UNCHANGED <<redis, health, held, conn, loops, left>>

\* Bug: SET without NX.
ClaimSet_NoNX(t) ==
  /\ AtRedis(t, "set") /\ op[t].kind = "claim"
  /\ TakeLease(op[t].i, op[t].p)
  /\ op' = [op EXCEPT ![t].pc = "claimed", ![t].epoch = NextEpoch(op[t].i, op[t].p)]
  /\ seen' = [seen EXCEPT ![op[t].i][op[t].p] = "unseen"]
  /\ UNCHANGED <<auth, quarantined, handoff, cooldown, registry, health, conn,
                 phase, share, todo, left>>

\* acquireLease of a claim.
ClaimSet(t) ==
  LET i == op[t].i
      p == op[t].p
  IN /\ AtRedis(t, "set") /\ op[t].kind = "claim"
     /\ \/ /\ lease[p] = NoLease
           /\ TakeLease(i, p)
           /\ op' = [op EXCEPT ![t].pc = "claimed", ![t].epoch = NextEpoch(i, p)]
           /\ seen' = [seen EXCEPT ![i][p] = "unseen"]
        \/ /\ lease[p] # NoLease
           /\ Rest(t)
           /\ UNCHANGED <<lease, overdue, held, seen>>
     /\ UNCHANGED <<auth, quarantined, handoff, cooldown, registry, health, conn,
                    phase, share, todo, left>>

\* The tick's next phase: the scan is over, or cut short by the shutdown, which
\* gives the claims back; or every reconnect has settled; or the victim is moved.
NextPhase(i) ==
  /\ TickPending(i) /\ Up(i) /\ Settled(i)
  /\ phase' = [phase EXCEPT ![i] =
       IF phase[i] = "scan" /\ Claimed(i) # {} THEN "connect" ELSE "idle"]
  /\ todo' = [todo EXCEPT ![i].claim = {}]
  /\ share' = [share EXCEPT ![i] = 0]
  /\ op' = [t \in Threads |->
             IF Active(t) /\ op[t].i = i /\ op[t].pc = "claimed"
             THEN [op[t] EXCEPT !.pc = IF Draining(i) THEN "giveback" ELSE "sleep"]
             ELSE op[t]]
  /\ UNCHANGED <<redis, health, held, conn, seen, left>>

GiveBack(t) ==
  /\ At(t, "giveback")
  /\ ReleaseHeld(t)
  /\ UNCHANGED <<redis, health, conn, loops, left>>

\* Bug: reconnects under a superseded lease.
WakeClaim_NoCheck(t) ==
  /\ At(t, "sleep")
  /\ \/ Draining(op[t].i) /\ ReleaseHeld(t)
     \/ ~Draining(op[t].i) /\ Goto(t, "enter") /\ UNCHANGED held
  /\ UNCHANGED <<redis, health, conn, loops, left>>

\* A claimed phone's turn to reconnect: not while draining, and not if a
\* request has taken a newer lease meanwhile.
WakeClaim(t) ==
  /\ At(t, "sleep")
  /\ \/ Draining(op[t].i) /\ ReleaseHeld(t)
     \/ /\ ~Draining(op[t].i)
        /\ IF held[op[t].i][op[t].p] = op[t].epoch THEN Goto(t, "enter") ELSE Rest(t)
        /\ UNCHANGED held
  /\ UNCHANGED <<redis, health, conn, loops, left>>

\* runRebalanceCycle picks a victim: more connections than the fair share, a
\* peer to take one, and a paired phone.  The throttles and the load figures of
\* the registry, which are a heartbeat old, only make it optional.
StartMove(i, p) ==
  /\ phase[i] = "idle" /\ status[i] = "running" /\ Settled(i)
  /\ reachable[i] /\ ~degraded[i]
  /\ \E j \in Instances \ {i} : registry[j] = "live"
  /\ Cardinality(Registered(i)) > FairShare
  /\ conn[i][p] # NoConn /\ auth[p] = "paired"
  /\ Disturb("rebalance")
  /\ Goto(<<"move", i, p>>, "enter")
  /\ phase' = [phase EXCEPT ![i] = "move"]
  /\ UNCHANGED <<redis, health, held, conn, share, todo, seen>>

\* setReleaseCooldown and setHandoffTarget; the target was a live peer when the
\* cycle began.
Steer(t) ==
  /\ AtRedis(t, "steer")
  /\ cooldown' = [cooldown EXCEPT ![op[t].p] = op[t].i]
  /\ \E j \in Instances \ {op[t].i} : handoff' = [handoff EXCEPT ![op[t].p] = j]
  /\ ReleaseHeld(t)
  /\ UNCHANGED <<lease, overdue, auth, quarantined, registry, health, conn,
                 loops, left>>

-----------------------------------------------------------------------------
(* The renewal loop *)

Renewing(i) == todo[i].renew # {} \/ \E p \in Phones : Active(<<"renew", i, p>>)

\* runRenewCycle takes its snapshot of the registered phones, or with none to
\* renew finds out whether Redis is back.
BeginRenew(i) ==
  /\ status[i] = "running" /\ todo[i].renew = {}
  /\ Registered(i) # {} \/ (degraded[i] /\ reachable[i])
  /\ ~Renewing(i) /\ Settled(i)
  /\ \/ /\ Registered(i) # {}
        /\ todo' = [todo EXCEPT ![i].renew = Registered(i)]
        /\ UNCHANGED degraded
     \/ /\ Registered(i) = {}
        /\ degraded' = [degraded EXCEPT ![i] = FALSE]
        /\ UNCHANGED todo
  /\ UNCHANGED <<redis, status, reachable, held, conn, phase, share, seen, op, left>>

\* Bug: the lease is forgotten, the socket is not.
Fence_KeepsSocket(t, i, p) ==
  /\ held' = [held EXCEPT ![i][p] = 0]
  /\ Rest(t)

\* The lease is somebody else's: forget it and discard the socket.
Fence(t, i, p) ==
  /\ held' = [held EXCEPT ![i][p] = 0]
  /\ Goto(t, "enter")

\* renewLease for the next phone of the snapshot.
Renew(i, p) ==
  LET t == <<"renew", i, p>>
  IN /\ p \in todo[i].renew
     /\ Up(i) /\ reachable[i] /\ Settled(i)
     /\ \A q \in Phones : ~Active(<<"renew", i, q>>)
     /\ todo' = [todo EXCEPT ![i].renew = @ \ {p}]
     /\ \/ /\ Owns(i, p)
           /\ degraded' = [degraded EXCEPT ![i] = FALSE]
           /\ UNCHANGED <<held, op>>
        \/ /\ lease[p] = NoLease
           /\ Goto(t, "set")
           /\ UNCHANGED <<held, degraded>>
        \/ /\ OwnedElsewhere(i, p)
           /\ Fence(t, i, p)
           /\ UNCHANGED degraded
     /\ UNCHANGED <<redis, status, reachable, conn, phase, share, seen, left>>

\* Bug: the connection is not told of the new epoch.
RenewSet_NotPropagated(t) ==
  LET i == op[t].i
      p == op[t].p
  IN /\ AtRedis(t, "set") /\ op[t].kind = "renew"
     /\ \/ /\ lease[p] = NoLease
           /\ TakeLease(i, p)
           /\ degraded' = [degraded EXCEPT ![i] = FALSE]
           /\ Rest(t)
        \/ /\ lease[p] # NoLease
           /\ Fence(t, i, p)
           /\ UNCHANGED <<lease, overdue, degraded>>
     /\ UNCHANGED <<auth, quarantined, handoff, cooldown, registry, conn,
                    status, reachable, loops, left>>

\* acquireLease re-asserts a missing lease; the connection learns the epoch.
RenewSet(t) ==
  LET i == op[t].i
      p == op[t].p
  IN /\ AtRedis(t, "set") /\ op[t].kind = "renew"
     /\ \/ /\ lease[p] = NoLease
           /\ TakeLease(i, p)
           /\ conn' = IF conn[i][p] = NoConn THEN conn
                      ELSE [conn EXCEPT ![i][p].epoch = NextEpoch(i, p)]
           /\ degraded' = [degraded EXCEPT ![i] = FALSE]
           /\ Rest(t)
        \/ /\ lease[p] # NoLease
           /\ Fence(t, i, p)
           /\ UNCHANGED <<lease, overdue, conn, degraded>>
     /\ UNCHANGED <<auth, quarantined, handoff, cooldown, registry,
                    status, reachable, loops, left>>

\* A renewal was rejected: keep the sockets, pause the claims, end the cycle.
RenewFails(i) ==
  /\ Up(i) /\ ~reachable[i] /\ Renewing(i) /\ Settled(i)
  /\ \A p \in Phones : op[<<"renew", i, p>>].pc # "enter"
  /\ degraded' = [degraded EXCEPT ![i] = TRUE]
  /\ todo' = [todo EXCEPT ![i].renew = {}]
  /\ op' = [t \in Threads |-> IF Active(t) /\ op[t].kind = "renew" /\ op[t].i = i
                              THEN Idle(t) ELSE op[t]]
  /\ UNCHANGED <<redis, status, reachable, held, conn, phase, share, seen, left>>

-----------------------------------------------------------------------------
(* The handler: connect, logout and discard of one phone *)

ConnectKinds == {"claim", "connect", "import", "restart"}

\* Thread t waits for the slot of its phone, and the slot is free.
AtSlot(t) == op[t].pc = "enter" /\ Up(op[t].i) /\ ~SlotBusy(op[t].i, op[t].p)

\* spawnConnection registers a connection, discarding the previous one.
Spawn(t) ==
  /\ conn' = [conn EXCEPT ![op[t].i][op[t].p] = [epoch |-> op[t].epoch, st |-> "opening"]]
  /\ Goto(t, "spawning")
  /\ UNCHANGED <<held, left>>

\* A live connection gets the options, and never an older epoch.
UpdateOptions(t) ==
  conn' = [conn EXCEPT ![op[t].i][op[t].p].epoch = Larger(@, op[t].epoch)]

\* handler.connect once the slot is free: a restart whose lease was superseded
\* is vetoed; a missing connection is spawned, as is the one an import or a
\* restart replaces; any other one is reused if it answers.
EnterConnect(t) ==
  LET i == op[t].i
      p == op[t].p
      vetoed == op[t].kind = "restart" /\ held[i][p] # op[t].epoch
      fresh == conn[i][p] = NoConn \/ op[t].kind \in {"import", "restart"}
  IN /\ AtSlot(t) /\ op[t].kind \in ConnectKinds
     /\ \/ vetoed /\ Rest(t) /\ UNCHANGED <<held, conn, left>>
        \/ ~vetoed /\ fresh /\ Spawn(t)
        \/ /\ ~fresh
           /\ \/ UpdateOptions(t) /\ Rest(t) /\ UNCHANGED <<held, left>>
              \* BaileysNotConnectedError: evicted and replaced
              \/ conn[i][p].st # "dead" /\ Spawn(t)
              \/ DisturbIn({t}, "reuse") /\ UpdateOptions(t) /\ Abandon(t)
     /\ UNCHANGED <<redis, health, loops>>

\* connection.connect() is done: credentials loaded (or created), socket made.
Opened(t) ==
  LET i == op[t].i
      p == op[t].p
  IN /\ AtRedis(t, "spawning")
     /\ conn' = [conn EXCEPT ![i][p].st = "live"]
     /\ auth' = IF auth[p] = "none" /\ MayWriteAuth(i, p)
                THEN [auth EXCEPT ![p] = "unpaired"] ELSE auth
     /\ Rest(t)
     /\ UNCHANGED <<lease, overdue, quarantined, handoff, cooldown, registry,
                    health, held, loops, left>>

\* Bug: the connection that never connected stays registered.
SpawnFails_KeepsEntry(t) ==
  /\ At(t, "spawning") /\ DisturbIn({t}, "spawnfail")
  /\ Abandon(t)
  /\ UNCHANGED <<redis, health, conn, loops>>

\* connection.connect() rejects: the entry goes and the lease is abandoned.
SpawnFails(t) ==
  /\ At(t, "spawning") /\ DisturbIn({t}, "spawnfail")
  /\ conn' = [conn EXCEPT ![op[t].i][op[t].p] = NoConn]
  /\ Abandon(t)
  /\ UNCHANGED <<redis, health, loops>>

\* Bug: the connection is discarded after the release it should precede.
EnterDiscard_Later(t) ==
  /\ AtSlot(t) /\ op[t].kind \in {"renew", "move", "stop"}
  /\ CASE op[t].kind = "renew" -> Rest(t) /\ UNCHANGED held
       [] op[t].kind = "move" -> Goto(t, "steer") /\ UNCHANGED held
       [] op[t].kind = "stop" -> ReleaseHeld(t)
  /\ UNCHANGED <<redis, health, conn, loops, left>>

\* discardConnection, for the renewal loop, a rebalance or the shutdown.
EnterDiscard(t) ==
  /\ AtSlot(t) /\ op[t].kind \in {"renew", "move", "stop"}
  /\ conn' = [conn EXCEPT ![op[t].i][op[t].p] = NoConn]
  /\ CASE op[t].kind = "renew" -> Rest(t) /\ UNCHANGED held
       [] op[t].kind = "move" -> Goto(t, "steer") /\ UNCHANGED held
       [] op[t].kind = "stop" -> ReleaseHeld(t)
  /\ UNCHANGED <<redis, health, loops, left>>

\* handler.logout: takes the slot, or finds nothing connected.
EnterLogout(t) ==
  /\ AtSlot(t) /\ op[t].kind = "logout"
  /\ Goto(t, IF conn[op[t].i][op[t].p] = NoConn THEN "offline" ELSE "logout")
  /\ UNCHANGED <<redis, health, held, conn, loops, left>>

ClearAuth(t) ==
  auth' = IF MayWriteAuth(op[t].i, op[t].p) THEN [auth EXCEPT ![op[t].p] = "none"] ELSE auth

\* connection.logout() is done, or the offline logout cleared the credentials.
ClearedAuth(t) ==
  /\ AtRedis(t, "logout") \/ AtRedis(t, "offline")
  /\ ClearAuth(t)
  /\ conn' = IF op[t].pc = "logout" THEN [conn EXCEPT ![op[t].i][op[t].p] = NoConn] ELSE conn
  /\ Goto(t, "finally")
  /\ UNCHANGED <<lease, overdue, quarantined, handoff, cooldown, registry,
                 health, held, loops, left>>

-----------------------------------------------------------------------------
(* Requests *)

\* acquireExplicitLease in worker role: refused while the owner of the lease is
\* another instance in the registry.  A draining instance accepts requests.
Start(r, i, p, kind) ==
  /\ op[r] = Unborn /\ (Alone => left = MaxDisturbed)
  /\ Up(i) /\ Settled(i) /\ reachable[i]
  /\ ~(OwnedElsewhere(i, p) /\ registry[lease[p].owner] # "gone")
  /\ op' = [op EXCEPT ![r] = [pc |-> "set", kind |-> kind, i |-> i, p |-> p, epoch |-> 0]]
  /\ UNCHANGED <<redis, health, held, conn, loops, left>>

\* forceAcquireLease; what follows depends on the kind of request.
ForceSet(t) ==
  /\ AtRedis(t, "set") /\ op[t].kind \in AllKinds
  /\ TakeLease(op[t].i, op[t].p)
  /\ op' = [op EXCEPT ![t].epoch = NextEpoch(op[t].i, op[t].p),
                      ![t].pc = CASE op[t].kind = "logout" -> "enter"
                                  [] op[t].kind = "restart" -> "inspect"
                                  [] OTHER -> "clear"]
  /\ UNCHANGED <<auth, quarantined, handoff, cooldown, registry, health, conn,
                 loops, left>>

\* unwindRestartLease: nothing if superseded, the epoch to a registered
\* connection, else the lease back.
Unwind(t) ==
  LET i == op[t].i
      p == op[t].p
  IN \/ held[i][p] # op[t].epoch /\ Rest(t) /\ UNCHANGED <<held, conn>>
     \/ /\ held[i][p] = op[t].epoch /\ conn[i][p] # NoConn
        /\ UpdateOptions(t) /\ Rest(t) /\ UNCHANGED held
     \/ /\ held[i][p] = op[t].epoch /\ conn[i][p] = NoConn
        /\ Abandon(t) /\ UNCHANGED conn

\* restartWithLease reads the session; with nothing to restart it unwinds.
Inspect(t) ==
  /\ AtRedis(t, "inspect")
  /\ \/ auth[op[t].p] = "paired" /\ Goto(t, "clear") /\ UNCHANGED <<held, conn>>
     \/ auth[op[t].p] # "paired" /\ Unwind(t)
  /\ UNCHANGED <<redis, health, loops, left>>

\* What comes after clearQuarantineForExplicitIntent, which is best-effort.
AfterClear(t) == IF op[t].kind = "import" THEN "seed" ELSE "enter"

\* clearQuarantineForExplicitIntent.
Clear(t) ==
  /\ AtRedis(t, "clear")
  /\ quarantined' = [quarantined EXCEPT ![op[t].p] = FALSE]
  /\ Goto(t, AfterClear(t))
  /\ UNCHANGED <<lease, overdue, auth, handoff, cooldown, registry, health,
                 held, conn, loops, left>>

\* seedImportedSession: fenced off, the import gives its lease back.
Seed(t) ==
  /\ AtRedis(t, "seed")
  /\ \/ /\ MayWriteAuth(op[t].i, op[t].p)
        /\ auth' = [auth EXCEPT ![op[t].p] = "paired"]
        /\ Goto(t, "enter") /\ UNCHANGED held
     \/ ~MayWriteAuth(op[t].i, op[t].p) /\ Abandon(t) /\ UNCHANGED auth
  /\ UNCHANGED <<lease, overdue, quarantined, handoff, cooldown, registry,
                 health, conn, loops, left>>

\* logoutWithLease's finally block up to the release.
Finally(t) ==
  /\ AtRedis(t, "finally")
  /\ quarantined' = [quarantined EXCEPT ![op[t].p] = FALSE]
  /\ ReleaseHeld(t)
  /\ UNCHANGED <<lease, overdue, auth, handoff, cooldown, registry, health,
                 conn, loops, left>>

-----------------------------------------------------------------------------
(* Shutdown *)

\* SIGTERM.
Shutdown(i) ==
  /\ status[i] = "running" /\ Settled(i) /\ Disturb("shutdown")
  /\ status' = [status EXCEPT ![i] = "announcing"]
  /\ UNCHANGED <<redis, reachable, degraded, held, conn, loops, op>>

\* The draining heartbeat, then the snapshot of the phones to hand off.
Announce(i) ==
  /\ status[i] = "announcing" /\ Settled(i) /\ reachable[i]
  /\ status' = [status EXCEPT ![i] = "draining"]
  /\ registry' = [registry EXCEPT ![i] = "draining"]
  /\ todo' = [todo EXCEPT ![i].stop = Registered(i)]
  /\ UNCHANGED <<lease, overdue, auth, quarantined, handoff, cooldown,
                 reachable, degraded, held, conn, phase, share, seen, op, left>>

Stopping(i) == \E p \in Phones : Active(<<"stop", i, p>>)

\* The next phone of the snapshot is discarded and released.
StopNext(i, p) ==
  /\ status[i] = "draining" /\ Settled(i) /\ ~Stopping(i)
  /\ p \in todo[i].stop
  /\ todo' = [todo EXCEPT ![i].stop = @ \ {p}]
  /\ Goto(<<"stop", i, p>>, "enter")
  /\ UNCHANGED <<redis, health, held, conn, phase, share, seen, left>>

\* The process is gone, with its sockets, its memory and its threads.
Die(i) ==
  /\ status' = [status EXCEPT ![i] = "down"]
  /\ reachable' = [reachable EXCEPT ![i] = TRUE]
  /\ degraded' = [degraded EXCEPT ![i] = FALSE]
  /\ held' = [held EXCEPT ![i] = [p \in Phones |-> 0]]
  /\ seen' = [seen EXCEPT ![i] = [p \in Phones |-> "unseen"]]
  /\ conn' = [conn EXCEPT ![i] = [p \in Phones |-> NoConn]]
  /\ phase' = [phase EXCEPT ![i] = "idle"]
  /\ share' = [share EXCEPT ![i] = 0]
  /\ todo' = [todo EXCEPT ![i] = [l \in {"claim", "renew", "stop"} |-> {}]]
  /\ op' = [t \in Threads |-> IF Active(t) /\ op[t].i = i THEN Resting(t) ELSE op[t]]
  /\ overdue' = {o \in overdue : o[1] # i}
  /\ UNCHANGED <<lease, auth, quarantined, handoff, cooldown>>

\* The handoff is over: deregister and exit.  If it is not over in time the hard
\* stop of index.ts ends the process wherever the drain is.
Exit(i) ==
  /\ Draining(i) /\ Settled(i)
  /\ \/ /\ status[i] = "draining" /\ reachable[i]
        /\ todo[i].stop = {} /\ ~Stopping(i)
        /\ registry' = [registry EXCEPT ![i] = "gone"]
     \/ UNCHANGED registry
  /\ Die(i)
  /\ UNCHANGED left

-----------------------------------------------------------------------------
(* Redis away: replies are lost and commands wait for the next connection *)

Disconnect(i) ==
  /\ Up(i) /\ reachable[i] /\ Disturb("outage")
  /\ reachable' = [reachable EXCEPT ![i] = FALSE]
  /\ UNCHANGED <<redis, status, degraded, held, conn, loops, op>>

Reconnect(i) ==
  /\ ~reachable[i]
  /\ reachable' = [reachable EXCEPT ![i] = TRUE]
  /\ UNCHANGED <<redis, status, degraded, held, conn, loops, op, left>>

\* A command in flight is rejected; a SET may have been executed all the same.
\* An unfinished acquisition leaves no trace in memory, a failed seed or spawn
\* gives the lease back, a handoff without metadata goes on undirected, a restart
\* that cannot read the session unwinds, quarantine stays, and a logout whose
\* credentials stay leaves the entry of a discarded connection registered.
Rejected(t) ==
  LET i == op[t].i
      p == op[t].p
  IN /\ Active(t) /\ Up(i) /\ ~reachable[i] /\ Settled(i)
     /\ \/ /\ op[t].kind # "renew"
           /\ op[t].pc \in {"paired", "set", "release", "lookup"}
           /\ \/ UNCHANGED <<lease, overdue>>
              \/ /\ op[t].pc = "set" /\ (op[t].kind = "claim" => lease[p] = NoLease)
                 /\ Grant(i, p)
           /\ degraded' = [degraded EXCEPT ![i] = @ \/ op[t].kind = "move"]
           /\ Rest(t) /\ UNCHANGED <<held, conn>>
        \/ /\ op[t].pc \in {"seed", "spawning"}
           /\ conn' = IF op[t].pc = "spawning" THEN [conn EXCEPT ![i][p] = NoConn] ELSE conn
           /\ Abandon(t) /\ UNCHANGED <<lease, overdue, degraded>>
        \/ /\ op[t].pc \in {"steer", "finally"} /\ ReleaseHeld(t)
           /\ UNCHANGED <<lease, overdue, conn, degraded>>
        \/ /\ op[t].pc = "inspect" /\ Unwind(t)
           /\ UNCHANGED <<lease, overdue, degraded>>
        \/ /\ op[t].pc = "clear" /\ Goto(t, AfterClear(t))
           /\ UNCHANGED <<lease, overdue, held, conn, degraded>>
        \/ /\ op[t].pc \in {"logout", "offline"} /\ Goto(t, "finally")
           /\ conn' = IF op[t].pc = "logout" /\ conn[i][p] # NoConn
                      THEN [conn EXCEPT ![i][p].st = "dead"] ELSE conn
           /\ UNCHANGED <<lease, overdue, held, degraded>>
     /\ UNCHANGED <<auth, quarantined, handoff, cooldown, registry,
                    status, reachable, loops, left>>

-----------------------------------------------------------------------------
(* Connections, clocks and processes *)

\* An event of a live connection that no logout has disowned.
LiveEvent(i, p) ==
  /\ conn[i][p] # NoConn /\ conn[i][p].st = "live"
  /\ \A t \in ActiveAt(i, p) : op[t].pc # "logout"
  /\ Settled(i)

\* handleReconnecting: the eleventh failed reconnect aborts the connection and
\* records a strike; the lease is left to its TTL.
GiveUp(i, p) ==
  /\ Disturb("giveup") /\ LiveEvent(i, p)
  /\ conn' = [conn EXCEPT ![i][p] = NoConn]
  /\ quarantined' = [quarantined EXCEPT ![p] = TRUE]
  /\ UNCHANGED <<lease, overdue, auth, handoff, cooldown, registry, health,
                 held, loops, op>>

\* reconnectInBackground fails: abort, and onSpawnFailed abandons the lease
\* under the epoch of the connection.
RebuildFails(i, p) ==
  /\ Disturb("rebuild") /\ LiveEvent(i, p) /\ ~Active(<<"lost", i, p>>)
  /\ conn' = [conn EXCEPT ![i][p] = NoConn]
  /\ AbandonLease(<<"lost", i, p>>, i, p, conn[i][p].epoch)
  /\ UNCHANGED <<redis, health, loops>>

\* WhatsApp ends the older of two sockets (connectionReplaced): it yields if
\* the lease is another instance's, and else reconnects.
Replaced(i, p) ==
  /\ OwnedElsewhere(i, p) /\ reachable[i] /\ LiveEvent(i, p)
  /\ \E j \in Instances \ {i} : conn[j][p] # NoConn /\ conn[j][p].st = "live"
  /\ conn' = [conn EXCEPT ![i][p] = NoConn]
  /\ UNCHANGED <<redis, health, held, loops, op, left>>

\* The user removes the device on the phone (a loggedOut close): close() clears
\* the credentials and unregisters the connection.
Unlinked(i, p) ==
  /\ Disturb("unlink") /\ LiveEvent(i, p) /\ reachable[i]
  /\ auth' = IF MayWriteAuth(i, p) THEN [auth EXCEPT ![p] = "none"] ELSE auth
  /\ conn' = [conn EXCEPT ![i][p] = NoConn]
  /\ UNCHANGED <<lease, overdue, quarantined, handoff, cooldown, registry,
                 health, held, loops, op>>

\* The user scans the QR code.
Pair(i, p) ==
  /\ auth[p] = "unpaired" /\ MayWriteAuth(i, p) /\ reachable[i] /\ LiveEvent(i, p)
  /\ auth' = [auth EXCEPT ![p] = "paired"]
  /\ UNCHANGED <<lease, overdue, quarantined, handoff, cooldown, registry,
                 health, held, conn, loops, op, left>>

\* The owner has a connection for the phone, or is busy with it.
Attended(p) ==
  LET i == lease[p].owner
  IN Up(i) /\ (conn[i][p] # NoConn \/ ActiveAt(i, p) # {})

\* The owner's renewals arrive.  A drain stops the renewal timer, and outlasts the
\* TTL when a discard waits for its slot.  Threads without a connection count as
\* in time: all but a claim in line for its chunk are a few commands long.
Renewed(p) ==
  Attended(p) /\ status[lease[p].owner] = "running" /\ reachable[lease[p].owner]

\* The lease goes, from under its owner if that one still stands on it.
RunOut(p) ==
  /\ lease[p] # NoLease
  /\ lease' = [lease EXCEPT ![p] = NoLease]
  /\ overdue' = IF Attended(p) THEN overdue \cup {<<lease[p].owner, p>>} ELSE overdue
  /\ UNCHANGED <<auth, quarantined, handoff, cooldown, registry,
                 health, held, conn, loops, op>>

\* A lease's TTL runs out: nobody renews it, or renewals do not arrive.
Lapse(p) ==
  /\ lease[p] # NoLease /\ ~Renewed(p)
  /\ RunOut(p)
  /\ UNCHANGED left

\* The TTL runs out under an owner that is at work: a claimed phone waited too long
\* for its chunk, where nothing renews it, or the event loop was blocked.
SlowLapse(p) == RunOut(p) /\ Disturb("slow")

Heartbeat(i) ==
  /\ status[i] = "running" /\ reachable[i] /\ registry[i] # "live"
  /\ registry' = [registry EXCEPT ![i] = "live"]
  /\ UNCHANGED <<lease, overdue, auth, quarantined, handoff, cooldown,
                 health, held, conn, loops, op, left>>

RegistryExpires(i) ==
  /\ registry[i] # "gone" /\ (~Up(i) \/ ~reachable[i])
  /\ registry' = [registry EXCEPT ![i] = "gone"]
  /\ UNCHANGED <<lease, overdue, auth, quarantined, handoff, cooldown,
                 health, held, conn, loops, op, left>>

\* Backoff, handoff tombstone and cooldown end with their Redis TTLs.
Expires(p) ==
  /\ \/ /\ quarantined[p]
        /\ quarantined' = [quarantined EXCEPT ![p] = FALSE]
        /\ UNCHANGED <<handoff, cooldown>>
     \/ /\ handoff[p] # Nobody
        /\ handoff' = [handoff EXCEPT ![p] = Nobody]
        /\ UNCHANGED <<quarantined, cooldown>>
     \/ /\ cooldown[p] # Nobody
        /\ cooldown' = [cooldown EXCEPT ![p] = Nobody]
        /\ UNCHANGED <<quarantined, handoff>>
  /\ UNCHANGED <<lease, overdue, auth, registry, health, held, conn, loops,
                 op, left>>

\* unclaimedGraceMs have passed since the instance first saw p unleased.
Orphaned(i, p) ==
  /\ Up(i) /\ seen[i][p] = "seen"
  /\ seen' = [seen EXCEPT ![i][p] = "orphaned"]
  /\ UNCHANGED <<redis, health, held, conn, phase, share, todo, op, left>>

Crash(i) ==
  /\ Up(i) /\ DisturbIn({t \in Threads : Active(t) /\ op[t].i = i}, "crash")
  /\ Die(i)
  /\ UNCHANGED registry

\* A new process with the same (pinned) instance id.
Restart(i) ==
  /\ ~Up(i)
  /\ status' = [status EXCEPT ![i] = "running"]
  /\ UNCHANGED <<redis, reachable, degraded, held, conn, loops, op, left>>

-----------------------------------------------------------------------------

\* What a thread does when its reply, its timer or its slot comes.
Step(t) ==
  /\ Active(t)
  /\ \/ ClaimSet(t) \/ RenewSet(t) \/ ForceSet(t)
     \/ Release(t) \/ Lookup(t)
     \/ CheckPaired(t) \/ GiveBack(t) \/ WakeClaim(t) \/ Steer(t)
     \/ EnterConnect(t) \/ Opened(t) \/ EnterDiscard(t)
     \/ EnterLogout(t) \/ ClearedAuth(t)
     \/ Inspect(t) \/ Clear(t) \/ Seed(t) \/ Finally(t)

ClaimLoop(i) ==
  \/ BeginScan(i) \/ NextPhase(i)
  \/ \E p \in Phones : Consider(i, p)

RenewLoop(i) == BeginRenew(i) \/ RenewFails(i) \/ \E p \in Phones : Renew(i, p)

StopLoop(i) == Announce(i) \/ Exit(i) \/ \E p \in Phones : StopNext(i, p)

Environment ==
  \/ \E t \in Threads : SpawnFails(t) \/ Rejected(t)
  \/ \E p \in Phones : SlowLapse(p)
  \/ \E i \in Instances : Shutdown(i) \/ Disconnect(i) \/ Crash(i)
  \/ \E i \in Instances, p \in Phones :
       \/ StartMove(i, p)
       \/ GiveUp(i, p) \/ RebuildFails(i, p) \/ Replaced(i, p)
       \/ Unlinked(i, p) \/ Pair(i, p)
  \/ \E r \in Requests, i \in Instances, p \in Phones, k \in Kinds : Start(r, i, p, k)

Clocks ==
  \/ \E p \in Phones : Lapse(p) \/ Expires(p)
  \/ \E i \in Instances : Heartbeat(i) \/ RegistryExpires(i) \/ Restart(i) \/ Reconnect(i)
  \/ \E i \in Instances, p \in Phones : Orphaned(i, p)

Next ==
  \/ \E t \in Threads : Step(t)
  \/ \E i \in Instances : ClaimLoop(i) \/ RenewLoop(i) \/ StopLoop(i)
  \/ Environment
  \/ Clocks

Spec == Init /\ [][Next]_vars

\* The event loop of a live process handles every reply and timer that is due,
\* Redis comes back after an outage, an orchestrator restarts what exited, and
\* every TTL ends.
Fairness ==
  /\ \A t \in Threads : WF_vars(Step(t))
  /\ \A i \in Instances :
       /\ WF_vars(ClaimLoop(i)) /\ WF_vars(RenewLoop(i)) /\ WF_vars(StopLoop(i))
       /\ WF_vars(Restart(i)) /\ WF_vars(Reconnect(i))
  /\ \A p \in Phones : WF_vars(Lapse(p)) /\ WF_vars(Expires(p))
  /\ \A i \in Instances, p \in Phones : WF_vars(Orphaned(i, p))

FairSpec == Spec /\ Fairness

-----------------------------------------------------------------------------
(* Properties *)

TypeOK ==
  /\ lease \in [Phones -> Lease \cup {NoLease}]
  /\ overdue \subseteq Instances \X Phones
  /\ auth \in [Phones -> {"none", "unpaired", "paired"}]
  /\ quarantined \in [Phones -> BOOLEAN]
  /\ handoff \in [Phones -> Instances \cup {Nobody}]
  /\ cooldown \in [Phones -> Instances \cup {Nobody}]
  /\ registry \in [Instances -> {"gone", "live", "draining"}]
  /\ status \in [Instances -> {"running", "announcing", "draining", "down"}]
  /\ reachable \in [Instances -> BOOLEAN]
  /\ degraded \in [Instances -> BOOLEAN]
  /\ held \in [Instances -> [Phones -> Epochs]]
  /\ seen \in [Instances -> [Phones -> {"unseen", "seen", "orphaned"}]]
  /\ conn \in [Instances -> [Phones -> Connection \cup {NoConn}]]
  /\ phase \in [Instances -> {"idle", "scan", "connect", "move"}]
  /\ share \in [Instances -> 0..Cardinality(Phones)]
  /\ todo \in [Instances -> [{"claim", "renew", "stop"} -> SUBSET Phones]]
  /\ \A t \in Threads :
       IF Active(t) THEN op[t] \in Op /\ (op[t].pc = "release" => op[t].epoch > 0)
       ELSE op[t] \in {Unborn, Resting(t)}
  /\ left \in 0..MaxDisturbed

\* No socket without a lease: an instance that has a connection registered for
\* a phone owns the phone's lease, unless that very lease ran out under it because
\* it drained, stalled or waited in line for longer than the TTL.  No claim,
\* rebalance, shutdown, crash or lost connection, in any order, takes the lease
\* from under a socket or opens one without it; and where nothing ran out, at most
\* one instance is connected to WhatsApp as that phone.  (Requests force-acquire
\* leases and are not covered.)
SocketsLeased ==
  \A i \in Instances, p \in Phones :
    conn[i][p] # NoConn => Owns(i, p) \/ <<i, p>> \in overdue

\* Nothing is going on at instance i for phone p.
Quiet(i, p) == ActiveAt(i, p) = {} /\ todo[i].renew = {}

\* The epoch a connection stamps its webhooks with is the epoch of the lease,
\* and so is the epoch the coordinator would release with: otherwise clients
\* drop a healthy connection's events as stale, or a release does nothing.
EpochsAgree ==
  \A i \in Instances, p \in Phones :
    Quiet(i, p) /\ Owns(i, p) /\ conn[i][p] # NoConn =>
      /\ conn[i][p].epoch = lease[p].epoch
      /\ held[i][p] = lease[p].epoch

\* Whoever releases a lease has no socket left that needs it.
ReleasesOnlyUnused ==
  [][\A t \in Threads :
       op[t].pc = "release" /\ lease' # lease /\ op'[t] # op[t] =>
         conn[op[t].i][op[t].p] = NoConn]_vars

\* A restart never brings back a phone whose session a logout has deleted while
\* the restart waited for the slot: it would come up as a QR code that nobody
\* asked for.
NoResurrection ==
  [][\A t \in Requests :
       op[t].pc = "enter" /\ op'[t].pc = "spawning" /\ op[t].kind = "restart" =>
         auth[op[t].p] # "none"]_vars

\* Background claims respect a rebalance: while its tombstone stands only the
\* target claims the phone, and afterwards, while the cooldown lasts, anybody but
\* the instance that gave it away; no phone bounces back.  The tombstone and the
\* cooldown are written before the release and read before the claim's SET.  The
\* first half is between two instances: with a third, a whole tenure of another
\* instance, with its rebalance, fits between the gates of a claim and its SET.
HandoffHonoured ==
  [][\A i \in Instances, p \in Phones :
       op[<<"claim", i, p>>].pc = "set" /\ op'[<<"claim", i, p>>].pc = "claimed" =>
         handoff[p] = i \/ (handoff[p] = Nobody /\ cooldown[p] # i)]_vars

\* A paired phone is served again, whatever stopped its connection: an instance
\* that owns its lease has a live connection.
Serving(p) ==
  \E i \in Instances : Owns(i, p) /\ conn[i][p] # NoConn /\ conn[i][p].st = "live"
ServedAgain == \A p \in Phones : auth[p] = "paired" ~> (Serving(p) \/ auth[p] # "paired")

\* Self-fencing: a connection that outlives its lease gets the lease back or is
\* discarded.
SelfFences ==
  \A i \in Instances, p \in Phones :
    conn[i][p] # NoConn /\ ~Owns(i, p) ~> conn[i][p] = NoConn \/ Owns(i, p)
==============================================================================
