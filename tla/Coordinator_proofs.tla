------------------------- MODULE Coordinator_proofs -------------------------
(***************************************************************************)
(* Theorems about Coordinator, for any instances, phones and bounds.       *)
(*                                                                         *)
(* The invariants are built up in three parts.  BaseOK, the state is well  *)
(* formed, and TicksOK, the phases of the claim tick exclude each other,   *)
(* hold whatever happens.  GatesOK says what a claim that has passed its   *)
(* gates may still rely on; it gives what a rebalance asks of the claims.  *)
(* CalmOK says for each instance and phone what stands on the lease; it    *)
(* gives the theorems about sockets, epochs and releases, as long as Redis *)
(* can be reached and no request takes a lease by force (Calm); leases run *)
(* out under owners that drain, stall or wait in line.                     *)
(***************************************************************************)
EXTENDS Coordinator, FiniteSetTheorems, TLAPS

-----------------------------------------------------------------------------
(* Definitions *)

\* The places a thread of each kind can be at.
PcsOf(kind) ==
  CASE kind = "claim" -> {"paired", "set", "claimed", "sleep", "giveback", "enter",
                          "spawning", "lookup", "release"}
    [] kind = "renew" -> {"set", "enter"}
    [] kind = "move" -> {"enter", "steer", "lookup", "release"}
    [] kind = "stop" -> {"enter", "lookup", "release"}
    [] kind = "lost" -> {"release"}
    [] kind = "logout" -> {"set", "enter", "logout", "offline", "finally", "lookup",
                           "release"}
    [] OTHER -> {"set", "inspect", "clear", "seed", "enter", "spawning", "release"}

\* Where a thread that connects or releases has been granted an epoch.
Granted(o) ==
  o.pc = "release" \/ (o.kind \in ConnectKinds /\ o.pc \notin {"paired", "set", "lookup"})

\* A thread at work: of a kind that its identity allows, at a place of that kind,
\* with an epoch once it has been granted one.
Working(t, o) ==
  /\ o \in Op
  /\ IF t \in Requests THEN o.kind \in AllKinds ELSE t = <<o.kind, o.i, o.p>>
  /\ o.pc \in PcsOf(o.kind)
  /\ Granted(o) => o.epoch > 0

\* A thread with nothing to do: only a request can be unborn.
Waiting(t, o) == o = Resting(t) \/ (t \in Requests /\ o = Unborn)

ThreadOK(t) == Working(t, op[t]) \/ Waiting(t, op[t])

ThreadsOK ==
  /\ op = [t \in Threads |-> op[t]]
  /\ \A t \in Threads : ThreadOK(t)

\* Thread t goes to pc with epoch e, or comes to rest; no other thread moves.
Others(t) ==
  /\ op' = [u \in Threads |-> op'[u]]
  /\ \A u \in Threads : u # t => op'[u] = op[u]
Moves(t, pc, e) ==
  /\ Others(t)
  /\ op'[t] = [pc |-> pc, kind |-> op[t].kind, i |-> op[t].i, p |-> op[t].p, epoch |-> e]
Rests(t) == Others(t) /\ op'[t] = Resting(t)

-----------------------------------------------------------------------------
(* Threads *)

\* A thread that works is active, one that waits is not.
LEMMA WorkingOrWaiting ==
  ASSUME NEW t \in Threads, ThreadOK(t)
  PROVE  /\ Active(t) <=> Working(t, op[t])
         /\ ~ Active(t) <=> Waiting(t, op[t])
  <1>1. Working(t, op[t]) => Active(t)
    BY DEF Working, Op, Pcs, Active
  <1>2. Waiting(t, op[t]) => ~ Active(t)
    BY DEF Waiting, Resting, Unborn, Done, Idle, Active
  <1> QED BY <1>1, <1>2 DEF ThreadOK

\* A task is named by its kind, its instance and its phone, at work or not.
LEMMA TaskFields ==
  ASSUME NEW t \in Threads, ThreadOK(t), Active(t) \/ t \notin Requests
  PROVE  /\ op[t] = [pc |-> op[t].pc, kind |-> op[t].kind, i |-> op[t].i, p |-> op[t].p,
                     epoch |-> op[t].epoch]
         /\ op[t].kind \in Tasks \cup AllKinds /\ op[t].i \in Instances /\ op[t].p \in Phones
         /\ op[t].epoch \in Nat
         /\ t \in Requests => op[t].kind \in AllKinds
         /\ t \notin Requests => t = <<op[t].kind, op[t].i, op[t].p>>
  <1>1. CASE Active(t)
    BY <1>1, WorkingOrWaiting DEF Working, Op, Epochs
  <1>2. CASE ~ Active(t)
    <2>1. t \notin Requests /\ op[t] = Idle(t)
      BY <1>2, WorkingOrWaiting DEF Waiting, Resting
    <2>2. t \in Tasks \X Instances \X Phones
      BY <2>1 DEF Threads
    <2> QED BY <2>1, <2>2 DEF Idle
  <1> QED BY <1>1, <1>2

\* What an assignment to a thread's place, or to its place and epoch, does.
LEMMA GotoMoves ==
  ASSUME ThreadsOK, NEW t \in Threads, Active(t) \/ t \notin Requests, NEW pc,
         op' = [op EXCEPT ![t].pc = pc]
  PROVE  Moves(t, pc, op[t].epoch)
  <1>1. op[t] = [pc |-> op[t].pc, kind |-> op[t].kind, i |-> op[t].i, p |-> op[t].p,
                 epoch |-> op[t].epoch]
    BY TaskFields DEF ThreadsOK
  <1>2. op = [u \in Threads |-> op[u]]
    BY DEF ThreadsOK
  <1> QED BY <1>1, <1>2 DEF Moves, Others

\* The same for an assignment of both.
LEMMA GrantMoves ==
  ASSUME ThreadsOK, NEW t \in Threads, Active(t) \/ t \notin Requests, NEW pc, NEW e,
         \/ op' = [op EXCEPT ![t].pc = pc, ![t].epoch = e]
         \/ op' = [op EXCEPT ![t].epoch = e, ![t].pc = pc]
  PROVE  Moves(t, pc, e)
  <1>1. op[t] = [pc |-> op[t].pc, kind |-> op[t].kind, i |-> op[t].i, p |-> op[t].p,
                 epoch |-> op[t].epoch]
    BY TaskFields DEF ThreadsOK
  <1>2. op = [u \in Threads |-> op[u]]
    BY DEF ThreadsOK
  <1> QED BY <1>1, <1>2 DEF Moves, Others

\* A thread that comes to rest is the only one to move.
LEMMA RestRests ==
  ASSUME ThreadsOK, NEW t \in Threads, Rest(t)
  PROVE  Rests(t)
  BY DEF ThreadsOK, Rest, Rests, Others

\* A move to a place of the thread's kind, or a rest, leaves every thread sound.
LEMMA MovesSound ==
  ASSUME ThreadsOK, NEW t \in Threads, Active(t) \/ t \notin Requests,
         NEW pc \in PcsOf(op[t].kind), NEW e \in Nat, Moves(t, pc, e),
         pc = "release" \/ (op[t].kind \in ConnectKinds /\ pc \notin {"paired", "set", "lookup"})
           => e > 0
  PROVE  ThreadsOK'
  <1>1. /\ op[t].kind \in Tasks \cup AllKinds /\ op[t].i \in Instances /\ op[t].p \in Phones
        /\ t \in Requests => op[t].kind \in AllKinds
        /\ t \notin Requests => t = <<op[t].kind, op[t].i, op[t].p>>
    BY TaskFields DEF ThreadsOK
  <1>2. pc \in Pcs
    BY <1>1 DEF PcsOf, Pcs, Tasks, AllKinds
  <1>3. /\ op'[t] \in Op /\ op'[t].kind = op[t].kind /\ op'[t].i = op[t].i
        /\ op'[t].p = op[t].p /\ op'[t].pc = pc /\ op'[t].epoch = e
    BY <1>1, <1>2 DEF Moves, Op, Epochs
  <1>4. Granted(op'[t]) => op'[t].epoch > 0
    BY <1>3 DEF Granted
  <1>5. Working(t, op'[t])
    BY <1>1, <1>3, <1>4 DEF Working
  <1>6. \A u \in Threads : ThreadOK(u)'
    BY <1>5 DEF ThreadOK, ThreadsOK, Moves, Others
  <1> QED BY <1>6 DEF ThreadsOK, Moves, Others

\* So does a rest.
LEMMA RestsSound ==
  ASSUME ThreadsOK, NEW t \in Threads, Rests(t)
  PROVE  ThreadsOK'
  BY DEF ThreadsOK, ThreadOK, Waiting, Rests, Others

-----------------------------------------------------------------------------
(* Epochs *)

\* What is remembered of the rest of the system, by type.
StateTypeOK ==
  /\ lease \in [Phones -> Lease \cup {NoLease}]
  /\ overdue \subseteq Instances \X Phones
  /\ auth \in [Phones -> {"none", "unpaired", "paired"}]
  /\ quarantined \in [Phones -> BOOLEAN]
  /\ handoff \in [Phones -> Instances \cup {Nobody}]
  /\ cooldown \in [Phones -> Instances \cup {Nobody}]
  /\ registry \in [Instances -> {"gone", "live", "draining"}]
  /\ status \in [Instances -> {"running", "announcing", "draining", "down"}]
  /\ reachable \in [Instances -> BOOLEAN]
  /\ degraded \in [Instances -> BOOLEAN]
  /\ held \in [Instances -> [Phones -> Epochs]]
  /\ seen \in [Instances -> [Phones -> {"unseen", "seen", "orphaned"}]]
  /\ conn \in [Instances -> [Phones -> Connection \cup {NoConn}]]
  /\ phase \in [Instances -> {"idle", "scan", "connect", "move"}]
  /\ share \in [Instances -> 0..Cardinality(Phones)]
  /\ todo \in [Instances -> [{"claim", "renew", "stop"} -> SUBSET Phones]]
  /\ left \in 0..MaxDisturbed

\* A finite nonempty set of natural numbers has a largest member.
LEMMA FiniteHasMax ==
  ASSUME NEW S, IsFiniteSet(S), S \subseteq Nat, S # {}
  PROVE  \E x \in S : \A y \in S : x >= y
  <1> DEFINE Topped(X) == \E x \in X : \A y \in X : x >= y
             Bad == {X \in FiniteSubsetsOf(Nat) : X # {} /\ ~ Topped(X)}
  <1>1. SUFFICES ASSUME Bad # {} PROVE FALSE
    BY DEF FiniteSubsetsOf
  <1>2. PICK X \in Bad : \A Y \in Bad : ~ (<<Y, X>> \in StrictSubsetOrdering(Nat))
    <2>1. Bad \subseteq FiniteSubsetsOf(Nat)
      OBVIOUS
    <2> HIDE DEF Bad
    <2> QED BY <1>1, <2>1, FS_StrictSubsetOrderingWellFounded, WFMin
  <1>3. PICK x \in X : TRUE
    OBVIOUS
  <1> DEFINE Y == X \ {x}
  <1>4. IsFiniteSet(X) /\ X \subseteq Nat
    BY DEF FiniteSubsetsOf
  <1>5. IsFiniteSet(Y)
    BY <1>4, FS_RemoveElement
  <1>6. Y \in FiniteSubsetsOf(Nat) /\ <<Y, X>> \in StrictSubsetOrdering(Nat)
    BY <1>4, <1>5 DEF FiniteSubsetsOf, StrictSubsetOrdering
  <1>7. Y \notin Bad
    BY <1>2, <1>6
  <1>8. ~ Topped(X)
    OBVIOUS
  <1>9. Y # {}
    <2>1. PICK y \in X : ~ (x >= y)
      BY <1>8
    <2>2. x \in Nat /\ y \in Nat
      BY <1>4
    <2> QED BY <2>1, <2>2
  <1>10. PICK z \in Y : \A y \in Y : z >= y
    BY <1>6, <1>7, <1>9
  <1>11. x \in Nat /\ z \in Nat /\ \A y \in X : y \in Nat
    BY <1>4
  <1>12. CASE x >= z
    <2>1. \A y \in X : x >= y
      BY <1>10, <1>11, <1>12
    <2> QED BY <1>8, <2>1
  <1>13. CASE ~(x >= z)
    <2>1. \A y \in X : z >= y
      BY <1>10, <1>11, <1>13
    <2> QED BY <1>8, <2>1
  <1> QED BY <1>12, <1>13

\* Max of FiniteSetsExt is then that member.
LEMMA MaxIsMax ==
  ASSUME NEW S, IsFiniteSet(S), S \subseteq Nat, S # {}
  PROVE  Max(S) \in Nat /\ \A y \in S : Max(S) >= y
  BY FiniteHasMax DEF Max

\* A quotient rounded up does not exceed the dividend.
LEMMA CeilingBounded ==
  ASSUME NEW s \in Nat, NEW l \in Nat, l > 0
  PROVE  (s + l - 1) \div l \in 0..s
  <1> DEFINE q == (s + l - 1) \div l
  <1>1. q \in Int /\ q * l <= s + l - 1
    OBVIOUS
  <1>2. q >= 0
    OBVIOUS
  <1>3. ASSUME q >= s + 1 PROVE FALSE
    <2> HIDE DEF q
    <2>1. q * l >= (s + 1) * l
      BY <1>1, <1>3
    <2>2. (s + 1) * l = s * l + l
      OBVIOUS
    <2>3. s * l >= s
      OBVIOUS
    <2> QED BY <1>1, <2>1, <2>2, <2>3
  <1> QED BY <1>1, <1>2, <1>3
\* There are finitely many threads.
LEMMA ThreadsFinite == IsFiniteSet(Threads)
  <1>1. IsFiniteSet(Tasks)
    <2>1. IsFiniteSet({"claim"}) /\ IsFiniteSet({"renew"}) /\ IsFiniteSet({"move"})
          /\ IsFiniteSet({"stop"}) /\ IsFiniteSet({"lost"})
      BY FS_Singleton
    <2>2. IsFiniteSet({"claim"} \cup {"renew"}) /\ IsFiniteSet({"move"} \cup {"stop"})
      BY <2>1, FS_Union
    <2>3. IsFiniteSet(({"claim"} \cup {"renew"}) \cup ({"move"} \cup {"stop"}))
      BY <2>2, FS_Union
    <2>4. IsFiniteSet((({"claim"} \cup {"renew"}) \cup ({"move"} \cup {"stop"})) \cup {"lost"})
      BY <2>1, <2>3, FS_Union
    <2>5. (({"claim"} \cup {"renew"}) \cup ({"move"} \cup {"stop"})) \cup {"lost"} = Tasks
      BY DEF Tasks
    <2> QED BY <2>4, <2>5
  <1> DEFINE A == Tasks \X (Instances \X Phones)
             B == Tasks \X Instances \X Phones
             f == [x \in A |-> <<x[1], x[2][1], x[2][2]>>]
  <1>3. IsFiniteSet(A)
    <2>1. IsFiniteSet(Instances \X Phones)
      BY SizesAssumption, FS_Product
    <2> QED BY <1>1, <2>1, FS_Product
  <1>4. f \in Surjection(A, B)
    <2>1. f \in [A -> B]
      OBVIOUS
    <2>2. ASSUME NEW b \in B PROVE \E a \in A : f[a] = b
      <3>1. <<b[1], <<b[2], b[3]>>>> \in A
        OBVIOUS
      <3>2. f[<<b[1], <<b[2], b[3]>>>>] = b
        BY <3>1
      <3> QED BY <3>1, <3>2
    <2> QED BY <2>1, <2>2 DEF Surjection
  <1>5. IsFiniteSet(B)
    BY <1>3, <1>4, FS_Surjection
  <1> QED BY <1>5, SizesAssumption, FS_Union DEF Threads

\* The epochs an instance still remembers are finitely many natural numbers, so
\* that the next one is above them all.
LEMMA NextEpochFresh ==
  ASSUME ThreadsOK, StateTypeOK, NEW i \in Instances, NEW p \in Phones
  PROVE  /\ NextEpoch(i, p) \in Nat \ {0}
         /\ \A e \in Remembered(i, p) : e \in Nat /\ e < NextEpoch(i, p)
  <1> DEFINE W == ActiveAt(i, p)
             E == {op[t].epoch : t \in W}
             f == [t \in W |-> op[t].epoch]
             C == IF conn[i][p] = NoConn THEN {} ELSE {conn[i][p].epoch}
             L == IF Owns(i, p) THEN {lease[p].epoch} ELSE {}
  <1>1. IsFiniteSet(W)
    BY ThreadsFinite, FS_Subset DEF ActiveAt
  <1>2. f \in Surjection(W, E)
    BY DEF Surjection
  <1>3. IsFiniteSet(E)
    <2> HIDE DEF f, E, W
    <2> QED BY <1>1, <1>2, FS_Surjection
  <1>4. E \subseteq Nat
    BY TaskFields DEF ThreadsOK, ActiveAt
  <1>5. C \subseteq Nat /\ IsFiniteSet(C)
    <2>1. conn[i][p] # NoConn => conn[i][p].epoch \in Nat
      BY DEF StateTypeOK, Connection, Epochs
    <2>2. C = {} \/ C = {conn[i][p].epoch}
      OBVIOUS
    <2>3. IsFiniteSet({}) /\ IsFiniteSet({conn[i][p].epoch})
      BY FS_Singleton, FS_EmptySet
    <2> QED BY <2>1, <2>2, <2>3
  <1>6. L \subseteq Nat /\ IsFiniteSet(L)
    <2>1. Owns(i, p) => lease[p].epoch \in Nat
      BY DEF StateTypeOK, Lease, Epochs, Owns
    <2>2. L = {} \/ L = {lease[p].epoch}
      OBVIOUS
    <2>3. IsFiniteSet({}) /\ IsFiniteSet({lease[p].epoch})
      BY FS_Singleton, FS_EmptySet
    <2> QED BY <2>1, <2>2, <2>3
  <1>7. {0, held[i][p]} \subseteq Nat /\ IsFiniteSet({0, held[i][p]})
    <2>1. held[i][p] \in Nat
      BY DEF StateTypeOK, Epochs
    <2>2. {0, held[i][p]} = {0} \cup {held[i][p]}
      OBVIOUS
    <2>3. IsFiniteSet({0}) /\ IsFiniteSet({held[i][p]})
      BY FS_Singleton
    <2>4. IsFiniteSet({0} \cup {held[i][p]})
      BY <2>3, FS_Union
    <2> QED BY <2>1, <2>2, <2>4
  <1>8. Remembered(i, p) = (({0, held[i][p]} \cup E) \cup C) \cup L
    BY DEF Remembered
  <1> HIDE DEF E, C, L
  <1>9. /\ IsFiniteSet({0, held[i][p]} \cup E)
        /\ IsFiniteSet(({0, held[i][p]} \cup E) \cup C)
    <2>1. IsFiniteSet({0, held[i][p]} \cup E)
      BY <1>3, <1>7, FS_Union
    <2> QED BY <2>1, <1>5, FS_Union
  <1>10. IsFiniteSet(Remembered(i, p))
    BY <1>6, <1>8, <1>9, FS_Union
  <1>11. Remembered(i, p) \subseteq Nat /\ 0 \in Remembered(i, p)
    BY <1>4, <1>5, <1>6, <1>7, <1>8
  <1>12. Max(Remembered(i, p)) \in Nat /\ \A e \in Remembered(i, p) : Max(Remembered(i, p)) >= e
    BY <1>10, <1>11, MaxIsMax
  <1>13. NextEpoch(i, p) = Max(Remembered(i, p)) + 1
    BY DEF NextEpoch
  <1>14. NextEpoch(i, p) \in Nat \ {0}
    BY <1>12, <1>13
  <1>15. ASSUME NEW e \in Remembered(i, p) PROVE e \in Nat /\ e < NextEpoch(i, p)
    BY <1>11, <1>12, <1>13
  <1> QED BY <1>14, <1>15

-----------------------------------------------------------------------------
(* What a thread's step does to the threads *)

\* A claim passes its gates before its SET, has the lease after it and waits for
\* the tick's next phase; nothing brings it back.
InOrder(kind, from, to) ==
  kind = "claim" =>
    /\ from # "claimed"
    /\ IF from \in {"paired", "set"} THEN to \in {"set", "claimed"}
       ELSE to \notin {"paired", "set", "claimed"}

\* Thread t goes on to a place of its kind, with an epoch if it has to have one.
GoesOn(t) ==
  \E pc \in PcsOf(op[t].kind), e \in Nat :
    /\ Moves(t, pc, e)
    /\ pc = "release" \/ (op[t].kind \in ConnectKinds /\ pc \notin {"paired", "set", "lookup"})
         => e > 0
    /\ InOrder(op[t].kind, op[t].pc, pc)

\* releaseHeldLease takes its thread to the release, or to look the lease up.
LEMMA ReleaseHeldMoves ==
  ASSUME ThreadsOK, StateTypeOK, NEW t \in Threads, Active(t), ReleaseHeld(t),
         {"lookup", "release"} \subseteq PcsOf(op[t].kind),
         op[t].kind = "claim" => op[t].pc \notin {"paired", "set", "claimed"}
  PROVE  GoesOn(t)
  <1> DEFINE e == held[op[t].i][op[t].p]
  <1>1. e \in Nat
    BY TaskFields DEF ThreadsOK, StateTypeOK, Epochs
  <1>2. Moves(t, IF e = 0 THEN "lookup" ELSE "release", e)
    BY GrantMoves DEF ReleaseHeld
  <1>3. CASE e = 0
    BY <1>1, <1>2, <1>3 DEF GoesOn, InOrder
  <1>4. CASE e # 0
    BY <1>1, <1>2, <1>4 DEF GoesOn, InOrder
  <1> QED BY <1>3, <1>4

\* abandonExplicitLease takes its thread to the release.
LEMMA AbandonMoves ==
  ASSUME ThreadsOK, NEW t \in Threads, Active(t), Abandon(t), op[t].epoch > 0,
         "release" \in PcsOf(op[t].kind),
         op[t].kind = "claim" => op[t].pc \notin {"paired", "set", "claimed"}
  PROVE  GoesOn(t)
  <1>1. op[t].epoch \in Nat
    BY TaskFields DEF ThreadsOK
  <1>2. Moves(t, "release", op[t].epoch)
    BY GrantMoves DEF Abandon, AbandonLease
  <1> QED BY <1>1, <1>2 DEF GoesOn, InOrder

\* A thread goes on to its next place under the epoch it has.
LEMMA GotoGoesOn ==
  ASSUME ThreadsOK, NEW t \in Threads, Active(t), NEW pc \in PcsOf(op[t].kind), Goto(t, pc),
         pc # "release",
         (op[t].kind \in ConnectKinds /\ pc \notin {"paired", "set", "lookup"})
           => op[t].epoch > 0,
         InOrder(op[t].kind, op[t].pc, pc)
  PROVE  GoesOn(t)
  <1>1. op[t].epoch \in Nat
    BY TaskFields DEF ThreadsOK
  <1>2. Moves(t, pc, op[t].epoch)
    BY GotoMoves DEF Goto
  <1> QED BY <1>1, <1>2 DEF GoesOn

\* The whole of what a thread's own step does to the threads.
LEMMA StepThreads ==
  ASSUME ThreadsOK, StateTypeOK, NEW t \in Threads,
         Step(t) \/ SpawnFails(t) \/ Rejected(t)
  PROVE  Active(t) /\ (GoesOn(t) \/ Rests(t))
  <1> DEFINE k == op[t].kind
             i == op[t].i
             p == op[t].p
  <1>0. Active(t)
    BY DEF Step, SpawnFails, Rejected, Active, At
  <1>1. /\ k \in Tasks \cup AllKinds /\ i \in Instances /\ p \in Phones
        /\ op[t].epoch \in Nat /\ op[t].pc \in PcsOf(k)
        /\ Granted(op[t]) => op[t].epoch > 0
    BY <1>0, TaskFields, WorkingOrWaiting DEF ThreadsOK, Working
  <1>2. NextEpoch(i, p) \in Nat /\ NextEpoch(i, p) > 0
    BY <1>1, NextEpochFresh
  <1>3. CASE ClaimSet(t)
    <2>1. op[t].kind = "claim" /\ op[t].pc = "set"
      BY <1>3 DEF ClaimSet, AtRedis, At
    <2>2. Moves(t, "claimed", NextEpoch(i, p)) \/ Rests(t)
      BY <1>0, <1>3, GrantMoves, RestRests DEF ClaimSet
    <2> QED BY <1>0, <1>2, <2>1, <2>2 DEF GoesOn, InOrder, PcsOf
  <1>4. CASE RenewSet(t)
    <2>1. op[t].kind = "renew" /\ op[t].pc = "set"
      BY <1>4 DEF RenewSet, AtRedis, At
    <2>2. Goto(t, "enter") \/ Rests(t)
      BY <1>4, RestRests DEF RenewSet, Fence
    <2> QED BY <1>0, <2>1, <2>2, GotoGoesOn DEF InOrder, PcsOf, ConnectKinds
  <1>5. CASE ForceSet(t)
    <2>1. k \in AllKinds /\ k # "claim"
      BY <1>5 DEF ForceSet, AllKinds
    <2>2. \E pc \in {"enter", "inspect", "clear"} :
            /\ pc \in PcsOf(k) /\ Moves(t, pc, NextEpoch(i, p))
      <3>1. CASE k = "logout"
        BY <1>0, <1>5, <3>1, GrantMoves DEF ForceSet, PcsOf
      <3>2. CASE k = "restart"
        BY <1>0, <1>5, <3>2, GrantMoves DEF ForceSet, PcsOf
      <3>3. CASE k \in {"connect", "import"}
        BY <1>0, <1>5, <3>3, GrantMoves DEF ForceSet, PcsOf
      <3> QED BY <2>1, <3>1, <3>2, <3>3 DEF AllKinds
    <2> QED BY <1>0, <1>2, <2>1, <2>2 DEF GoesOn, InOrder
  <1>6. CASE Release(t)
    BY <1>0, <1>6, RestRests DEF Release
  <1>7. CASE Lookup(t)
    <2>1. op[t].pc = "lookup"
      BY <1>7 DEF Lookup, AtRedis, At
    <2>2. ASSUME Owns(i, p), op' = [op EXCEPT ![t].pc = "release", ![t].epoch = lease[p].epoch]
          PROVE  GoesOn(t)
      <3>1. lease[p].epoch \in Nat /\ lease[p].epoch > 0
        BY <1>1, <2>2 DEF StateTypeOK, Lease, Owns, Epochs
      <3>2. Moves(t, "release", lease[p].epoch)
        BY <1>0, <2>2, GrantMoves
      <3>3. "release" \in PcsOf(k)
        BY <1>1, <2>1 DEF PcsOf, Tasks, AllKinds
      <3> QED BY <2>1, <3>1, <3>2, <3>3 DEF GoesOn, InOrder
    <2> QED BY <1>0, <1>7, <2>2, RestRests DEF Lookup
  <1>8. CASE CheckPaired(t)
    <2>1. op[t].pc = "paired" /\ (Goto(t, "set") \/ Rests(t))
      BY <1>8, RestRests DEF CheckPaired, AtRedis, At
    <2>2. k = "claim"
      BY <1>1, <2>1 DEF PcsOf, Tasks, AllKinds
    <2> QED BY <1>0, <2>1, <2>2, GotoGoesOn DEF InOrder, PcsOf
  <1>9. CASE GiveBack(t)
    <2>1. op[t].pc = "giveback" /\ ReleaseHeld(t)
      BY <1>9 DEF GiveBack, At
    <2>2. k = "claim"
      BY <1>1, <2>1 DEF PcsOf, Tasks, AllKinds
    <2> QED BY <1>0, <2>1, <2>2, ReleaseHeldMoves DEF PcsOf
  <1>10. CASE WakeClaim(t)
    <2>1. op[t].pc = "sleep" /\ (ReleaseHeld(t) \/ Goto(t, "enter") \/ Rests(t))
      BY <1>10, RestRests DEF WakeClaim, At
    <2>2. k = "claim"
      BY <1>1, <2>1 DEF PcsOf, Tasks, AllKinds
    <2>3. op[t].epoch > 0
      BY <1>1, <2>1, <2>2 DEF Granted, ConnectKinds
    <2> QED BY <1>0, <2>1, <2>2, <2>3, ReleaseHeldMoves, GotoGoesOn DEF PcsOf, InOrder
  <1>11. CASE Steer(t)
    <2>1. op[t].pc = "steer" /\ ReleaseHeld(t)
      BY <1>11 DEF Steer, AtRedis, At
    <2>2. k = "move"
      BY <1>1, <2>1 DEF PcsOf, Tasks, AllKinds
    <2> QED BY <1>0, <2>1, <2>2, ReleaseHeldMoves DEF PcsOf
  <1>12. CASE EnterConnect(t)
    <2>1. op[t].pc = "enter" /\ k \in ConnectKinds
      BY <1>12 DEF EnterConnect, AtSlot
    <2>2. op[t].epoch > 0
      BY <1>1, <2>1 DEF Granted
    <2>3. Rests(t) \/ Goto(t, "spawning") \/ Abandon(t)
      BY <1>12, RestRests DEF EnterConnect, Spawn
    <2>4. {"spawning", "release"} \subseteq PcsOf(k)
      BY <2>1 DEF PcsOf, ConnectKinds
    <2> QED BY <1>0, <2>1, <2>2, <2>3, <2>4, GotoGoesOn, AbandonMoves DEF InOrder
  <1>13. CASE Opened(t)
    BY <1>0, <1>13, RestRests DEF Opened
  <1>14. CASE EnterDiscard(t)
    <2>1. op[t].pc = "enter" /\ k \in {"renew", "move", "stop"}
      BY <1>14 DEF EnterDiscard, AtSlot
    <2>2. CASE k = "renew"
      BY <1>0, <1>14, <2>2, RestRests DEF EnterDiscard
    <2>3. CASE k = "move"
      BY <1>0, <1>14, <2>1, <2>3, GotoGoesOn DEF EnterDiscard, InOrder, PcsOf, ConnectKinds
    <2>4. CASE k = "stop"
      BY <1>0, <1>14, <2>1, <2>4, ReleaseHeldMoves DEF EnterDiscard, PcsOf
    <2> QED BY <2>1, <2>2, <2>3, <2>4
  <1>15. CASE EnterLogout(t)
    BY <1>0, <1>15, GotoGoesOn DEF EnterLogout, InOrder, PcsOf, ConnectKinds
  <1>16. CASE ClearedAuth(t)
    <2>1. op[t].pc \in {"logout", "offline"} /\ Goto(t, "finally")
      BY <1>16 DEF ClearedAuth, AtRedis, At
    <2>2. k = "logout"
      BY <1>1, <2>1 DEF PcsOf, Tasks, AllKinds
    <2> QED BY <1>0, <2>1, <2>2, GotoGoesOn DEF InOrder, PcsOf, ConnectKinds
  <1>17. CASE Inspect(t)
    <2>1. op[t].pc = "inspect" /\ (Goto(t, "clear") \/ Rests(t) \/ Abandon(t))
      BY <1>17, RestRests DEF Inspect, Unwind, AtRedis, At
    <2>2. k \in {"connect", "import", "restart"}
      BY <1>1, <2>1 DEF PcsOf, Tasks, AllKinds
    <2>3. op[t].epoch > 0
      BY <1>1, <2>1, <2>2 DEF Granted, ConnectKinds
    <2> QED BY <1>0, <2>1, <2>2, <2>3, GotoGoesOn, AbandonMoves DEF InOrder, PcsOf
  <1>18. CASE Clear(t)
    <2>1. op[t].pc = "clear" /\ (Goto(t, "seed") \/ Goto(t, "enter"))
      BY <1>18 DEF Clear, AfterClear, AtRedis, At
    <2>2. k \in {"connect", "import", "restart"}
      BY <1>1, <2>1 DEF PcsOf, Tasks, AllKinds
    <2>3. op[t].epoch > 0
      BY <1>1, <2>1, <2>2 DEF Granted, ConnectKinds
    <2> QED BY <1>0, <2>1, <2>2, <2>3, GotoGoesOn DEF InOrder, PcsOf
  <1>19. CASE Seed(t)
    <2>1. op[t].pc = "seed" /\ (Goto(t, "enter") \/ Abandon(t))
      BY <1>19 DEF Seed, AtRedis, At
    <2>2. k \in {"connect", "import", "restart"}
      BY <1>1, <2>1 DEF PcsOf, Tasks, AllKinds
    <2>3. op[t].epoch > 0
      BY <1>1, <2>1, <2>2 DEF Granted, ConnectKinds
    <2> QED BY <1>0, <2>1, <2>2, <2>3, GotoGoesOn, AbandonMoves DEF InOrder, PcsOf
  <1>20. CASE Finally(t)
    <2>1. op[t].pc = "finally" /\ ReleaseHeld(t)
      BY <1>20 DEF Finally, AtRedis, At
    <2>2. k = "logout"
      BY <1>1, <2>1 DEF PcsOf, Tasks, AllKinds
    <2> QED BY <1>0, <2>1, <2>2, ReleaseHeldMoves DEF PcsOf
  <1>21. CASE SpawnFails(t)
    <2>1. op[t].pc = "spawning" /\ Abandon(t)
      BY <1>21 DEF SpawnFails, At
    <2>2. k \in ConnectKinds
      BY <1>1, <2>1 DEF PcsOf, Tasks, AllKinds, ConnectKinds
    <2>3. op[t].epoch > 0
      BY <1>1, <2>1, <2>2 DEF Granted
    <2> QED BY <1>0, <2>1, <2>2, <2>3, AbandonMoves DEF PcsOf, ConnectKinds
  <1>22. CASE Rejected(t)
    <2>1. \/ Rests(t)
          \/ op[t].pc \in {"seed", "spawning", "inspect"} /\ Abandon(t)
          \/ op[t].pc \in {"steer", "finally"} /\ ReleaseHeld(t)
          \/ op[t].pc = "clear" /\ (Goto(t, "seed") \/ Goto(t, "enter"))
          \/ op[t].pc \in {"logout", "offline"} /\ Goto(t, "finally")
      BY <1>22, RestRests DEF Rejected, Unwind, AfterClear
    <2>2. CASE op[t].pc \in {"seed", "spawning", "inspect"} /\ Abandon(t)
      <3>1. k \in ConnectKinds /\ "release" \in PcsOf(k)
        BY <1>1, <2>2 DEF PcsOf, Tasks, AllKinds, ConnectKinds
      <3>2. op[t].epoch > 0
        BY <1>1, <2>2, <3>1 DEF Granted
      <3> QED BY <1>0, <2>2, <3>1, <3>2, AbandonMoves
    <2>3. CASE op[t].pc \in {"steer", "finally"} /\ ReleaseHeld(t)
      <3>1. k \in {"move", "logout"}
        BY <1>1, <2>3 DEF PcsOf, Tasks, AllKinds
      <3> QED BY <1>0, <2>3, <3>1, ReleaseHeldMoves DEF PcsOf
    <2>4. CASE op[t].pc = "clear" /\ (Goto(t, "seed") \/ Goto(t, "enter"))
      <3>1. k \in {"connect", "import", "restart"}
        BY <1>1, <2>4 DEF PcsOf, Tasks, AllKinds
      <3>2. op[t].epoch > 0
        BY <1>1, <2>4, <3>1 DEF Granted, ConnectKinds
      <3> QED BY <1>0, <2>4, <3>1, <3>2, GotoGoesOn DEF InOrder, PcsOf
    <2>5. CASE op[t].pc \in {"logout", "offline"} /\ Goto(t, "finally")
      <3>1. k = "logout"
        BY <1>1, <2>5 DEF PcsOf, Tasks, AllKinds
      <3> QED BY <1>0, <2>5, <3>1, GotoGoesOn DEF InOrder, PcsOf, ConnectKinds
    <2> QED BY <1>0, <2>1, <2>2, <2>3, <2>4, <2>5
  <1> QED BY <1>3, <1>4, <1>5, <1>6, <1>7, <1>8, <1>9, <1>10, <1>11, <1>12, <1>13, <1>14,
             <1>15, <1>16, <1>17, <1>18, <1>19, <1>20, <1>21, <1>22 DEF Step

-----------------------------------------------------------------------------
(* What a thread's step does to the state *)

\* A registered connection stamps its webhooks with an epoch that was granted.
ConnGranted ==
  \A i \in Instances, p \in Phones : conn[i][p] # NoConn => conn[i][p].epoch > 0

\* A connection that is being opened is registered, and its slot is taken by the
\* thread that opens it alone.
InSlot(t, i, p) == op[t].pc \in {"spawning", "logout"} /\ op[t].i = i /\ op[t].p = p

SlotsHeld ==
  /\ \A t \in Threads : op[t].pc = "spawning" =>
       /\ conn[op[t].i][op[t].p] # NoConn
       /\ conn[op[t].i][op[t].p].st = "opening"
  /\ \A t, u \in Threads, i \in Instances, p \in Phones :
       InSlot(t, i, p) /\ InSlot(u, i, p) => t = u

BaseOK == StateTypeOK /\ ThreadsOK /\ ConnGranted /\ SlotsHeld

\* A SET that succeeds leaves a well-formed lease.
LEMMA GrantTypes ==
  ASSUME BaseOK, NEW i \in Instances, NEW p \in Phones, Grant(i, p)
  PROVE  lease' \in [Phones -> Lease \cup {NoLease}]
  <1>1. [owner |-> i, epoch |-> NextEpoch(i, p)] \in Lease
    BY NextEpochFresh DEF BaseOK, Lease, Epochs
  <1> HIDE DEF Lease
  <1> QED BY <1>1 DEF BaseOK, StateTypeOK, Grant

\* The same for a SET whose reply is handled.
LEMMA TakeLeaseTypes ==
  ASSUME BaseOK, NEW i \in Instances, NEW p \in Phones, TakeLease(i, p)
  PROVE  /\ lease' \in [Phones -> Lease \cup {NoLease}]
         /\ held' \in [Instances -> [Phones -> Epochs]]
  <1>1. NextEpoch(i, p) \in Epochs
    BY NextEpochFresh DEF BaseOK, Epochs
  <1>2. held' \in [Instances -> [Phones -> Epochs]]
    BY <1>1 DEF BaseOK, StateTypeOK, TakeLease
  <1> QED BY <1>2, GrantTypes DEF TakeLease

\* Connections are only dropped, or changed to or by something granted.
LEMMA ConnTypes ==
  ASSUME BaseOK, NEW i \in Instances, NEW p \in Phones, NEW c,
         c = NoConn \/ (c \in Connection /\ c.epoch > 0),
         conn' = [conn EXCEPT ![i][p] = c]
  PROVE  conn' \in [Instances -> [Phones -> Connection \cup {NoConn}]] /\ ConnGranted'
  <1>1. conn' \in [Instances -> [Phones -> Connection \cup {NoConn}]]
    BY DEF BaseOK, StateTypeOK
  <1>2. ConnGranted'
    BY DEF BaseOK, StateTypeOK, ConnGranted
  <1> QED BY <1>1, <1>2

\* spawnConnection.
LEMMA SpawnTypes ==
  ASSUME BaseOK, NEW t \in Threads, Active(t), op[t].epoch > 0, Spawn(t)
  PROVE  conn' \in [Instances -> [Phones -> Connection \cup {NoConn}]] /\ ConnGranted'
  <1>1. op[t].i \in Instances /\ op[t].p \in Phones /\ op[t].epoch \in Nat
    BY TaskFields DEF BaseOK, ThreadsOK
  <1>2. [epoch |-> op[t].epoch, st |-> "opening"] \in Connection
    BY <1>1 DEF Connection, Epochs
  <1> QED BY <1>1, <1>2, ConnTypes DEF Spawn

\* A registered connection's epoch is replaced by another one that was granted.
LEMMA EpochTypes ==
  ASSUME BaseOK, NEW i \in Instances, NEW p \in Phones, conn[i][p] # NoConn,
         NEW e \in Nat \ {0}, conn' = [conn EXCEPT ![i][p].epoch = e]
  PROVE  conn' \in [Instances -> [Phones -> Connection \cup {NoConn}]] /\ ConnGranted'
  <1>1. conn[i][p] \in Connection
    BY DEF BaseOK, StateTypeOK
  <1> DEFINE d == [conn[i][p] EXCEPT !.epoch = e]
  <1>2. d \in Connection /\ d.epoch = e
    BY <1>1 DEF Connection, Epochs
  <1>3. conn' = [conn EXCEPT ![i][p] = d]
    BY DEF BaseOK, StateTypeOK
  <1>4. d.epoch > 0
    BY <1>2
  <1>5. d \in Connection
    BY <1>2
  <1> HIDE DEF d
  <1> QED BY ONLY <1>3, <1>4, <1>5, ConnTypes, BaseOK, i \in Instances, p \in Phones

\* The options a live connection is given.
LEMMA OptionsTypes ==
  ASSUME BaseOK, NEW t \in Threads, Active(t), op[t].epoch > 0, UpdateOptions(t),
         conn[op[t].i][op[t].p] # NoConn
  PROVE  conn' \in [Instances -> [Phones -> Connection \cup {NoConn}]] /\ ConnGranted'
  <1> DEFINE i == op[t].i
             p == op[t].p
             e == Larger(conn[i][p].epoch, op[t].epoch)
  <1>1. i \in Instances /\ p \in Phones /\ op[t].epoch \in Nat
    BY TaskFields DEF BaseOK, ThreadsOK
  <1>2. conn[i][p].epoch \in Nat /\ conn[i][p].epoch > 0
    BY <1>1 DEF BaseOK, StateTypeOK, ConnGranted, Connection, Epochs
  <1>3. e \in Nat \ {0}
    BY <1>1, <1>2 DEF Larger
  <1>4. conn' = [conn EXCEPT ![i][p].epoch = e]
    BY <1>1 DEF UpdateOptions, BaseOK, StateTypeOK
  <1> HIDE DEF e
  <1> QED BY <1>1, <1>3, <1>4, EpochTypes

\* Forgetting a held epoch leaves the epochs well formed.
LEMMA ReleaseHeldTypes ==
  ASSUME BaseOK, NEW t \in Threads, Active(t), ReleaseHeld(t) \/ Abandon(t)
  PROVE  held' \in [Instances -> [Phones -> Epochs]]
  <1>1. op[t].i \in Instances /\ op[t].p \in Phones /\ 0 \in Epochs
    BY TaskFields DEF BaseOK, ThreadsOK, Epochs
  <1>2. CASE ReleaseHeld(t)
    BY <1>1, <1>2 DEF ReleaseHeld, BaseOK, StateTypeOK
  <1>3. CASE Abandon(t)
    BY <1>1, <1>3 DEF Abandon, AbandonLease, BaseOK, StateTypeOK
  <1> QED BY <1>2, <1>3

\* What a thread's own step does to everything but the threads.
LEMMA StepState ==
  ASSUME BaseOK, NEW t \in Threads, Step(t) \/ SpawnFails(t) \/ Rejected(t)
  PROVE  StateTypeOK' /\ ConnGranted'
  <1> DEFINE k == op[t].kind
             i == op[t].i
             p == op[t].p
             Goal == StateTypeOK' /\ ConnGranted'
             LeaseType == lease' \in [Phones -> Lease \cup {NoLease}]
             HeldType == held' \in [Instances -> [Phones -> Epochs]]
             ConnType == conn' \in [Instances -> [Phones -> Connection \cup {NoConn}]]
  <1>0. Active(t)
    BY StepThreads DEF BaseOK
  <1>1. /\ i \in Instances /\ p \in Phones /\ op[t].epoch \in Nat
        /\ op[t].pc \in PcsOf(k) /\ k \in Tasks \cup AllKinds
        /\ Granted(op[t]) => op[t].epoch > 0
    BY <1>0, TaskFields, WorkingOrWaiting DEF BaseOK, ThreadsOK, Working
  <1>2. UNCHANGED lease => LeaseType
    BY DEF BaseOK, StateTypeOK
  <1>3. UNCHANGED held => HeldType
    BY DEF BaseOK, StateTypeOK
  <1>4. UNCHANGED conn => ConnType /\ ConnGranted'
    BY DEF BaseOK, StateTypeOK, ConnGranted
  <1>5. 0 \in Epochs
    BY DEF Epochs
  <1> DEFINE Rest3 == LeaseType /\ HeldType /\ ConnType /\ ConnGranted'
             Simple ==
               /\ overdue' \subseteq Instances \X Phones
               /\ auth' \in [Phones -> {"none", "unpaired", "paired"}]
               /\ quarantined' \in [Phones -> BOOLEAN]
               /\ handoff' \in [Phones -> Instances \cup {Nobody}]
               /\ cooldown' \in [Phones -> Instances \cup {Nobody}]
               /\ registry' \in [Instances -> {"gone", "live", "draining"}]
               /\ status' \in [Instances -> {"running", "announcing", "draining", "down"}]
               /\ reachable' \in [Instances -> BOOLEAN]
               /\ degraded' \in [Instances -> BOOLEAN]
               /\ seen' \in [Instances -> [Phones -> {"unseen", "seen", "orphaned"}]]
               /\ phase' \in [Instances -> {"idle", "scan", "connect", "move"}]
               /\ share' \in [Instances -> 0..Cardinality(Phones)]
               /\ todo' \in [Instances -> [{"claim", "renew", "stop"} -> SUBSET Phones]]
               /\ left' \in 0..MaxDisturbed
  <1>6. Rest3 /\ Simple => Goal
    BY DEF StateTypeOK
  <1>7. left' = left - 1 /\ left > 0 => left' \in 0..MaxDisturbed
    BY BoundsAssumption DEF BaseOK, StateTypeOK
  <1>8. UNCHANGED left => left' \in 0..MaxDisturbed
    BY DEF BaseOK, StateTypeOK
  <1>9. Simple
    <2>1. left' \in 0..MaxDisturbed
      BY <1>7, <1>8 DEF Step, ClaimSet, RenewSet, ForceSet, Release, Lookup, CheckPaired,
         GiveBack, WakeClaim, Steer, EnterConnect, Opened, EnterDiscard, EnterLogout,
         ClearedAuth, Inspect, Clear, Seed, Finally, SpawnFails, Rejected, DisturbIn, Spawn
    <2>2. share' \in [Instances -> 0..Cardinality(Phones)]
          /\ phase' \in [Instances -> {"idle", "scan", "connect", "move"}]
          /\ todo' \in [Instances -> [{"claim", "renew", "stop"} -> SUBSET Phones]]
      BY DEF Step, ClaimSet, RenewSet, ForceSet, Release, Lookup, CheckPaired,
         GiveBack, WakeClaim, Steer, EnterConnect, Opened, EnterDiscard, EnterLogout,
         ClearedAuth, Inspect, Clear, Seed, Finally, SpawnFails, Rejected, loops,
         BaseOK, StateTypeOK
    <2>3. seen' \in [Instances -> [Phones -> {"unseen", "seen", "orphaned"}]]
      <3>1. UNCHANGED seen \/ seen' = [seen EXCEPT ![i][p] = "unseen"]
        BY DEF Step, ClaimSet, RenewSet, ForceSet, Release, Lookup, CheckPaired,
           GiveBack, WakeClaim, Steer, EnterConnect, Opened, EnterDiscard, EnterLogout,
           ClearedAuth, Inspect, Clear, Seed, Finally, SpawnFails, Rejected, loops
      <3>2. seen \in [Instances -> [Phones -> {"unseen", "seen", "orphaned"}]]
        BY DEF BaseOK, StateTypeOK
      <3> QED BY <1>1, <3>1, <3>2
    <2>4. degraded' \in [Instances -> BOOLEAN]
      BY <1>1 DEF Step, ClaimSet, RenewSet, ForceSet, Release, Lookup, CheckPaired,
         GiveBack, WakeClaim, Steer, EnterConnect, Opened, EnterDiscard, EnterLogout,
         ClearedAuth, Inspect, Clear, Seed, Finally, SpawnFails, Rejected, health,
         BaseOK, StateTypeOK
    <2>5. /\ status' \in [Instances -> {"running", "announcing", "draining", "down"}]
          /\ reachable' \in [Instances -> BOOLEAN]
          /\ registry' \in [Instances -> {"gone", "live", "draining"}]
      BY DEF Step, ClaimSet, RenewSet, ForceSet, Release, Lookup, CheckPaired,
         GiveBack, WakeClaim, Steer, EnterConnect, Opened, EnterDiscard, EnterLogout,
         ClearedAuth, Inspect, Clear, Seed, Finally, SpawnFails, Rejected, health, redis,
         BaseOK, StateTypeOK
    <2>6. /\ handoff' \in [Phones -> Instances \cup {Nobody}]
          /\ cooldown' \in [Phones -> Instances \cup {Nobody}]
      BY <1>1 DEF Step, ClaimSet, RenewSet, ForceSet, Release, Lookup, CheckPaired,
         GiveBack, WakeClaim, Steer, EnterConnect, Opened, EnterDiscard, EnterLogout,
         ClearedAuth, Inspect, Clear, Seed, Finally, SpawnFails, Rejected, redis,
         BaseOK, StateTypeOK
    <2>7. quarantined' \in [Phones -> BOOLEAN]
      BY <1>1 DEF Step, ClaimSet, RenewSet, ForceSet, Release, Lookup, CheckPaired,
         GiveBack, WakeClaim, Steer, EnterConnect, Opened, EnterDiscard, EnterLogout,
         ClearedAuth, Inspect, Clear, Seed, Finally, SpawnFails, Rejected, redis,
         BaseOK, StateTypeOK
    <2>8. auth' \in [Phones -> {"none", "unpaired", "paired"}]
      <3>1. \/ UNCHANGED auth
            \/ \E a \in {"none", "unpaired", "paired"} : auth' = [auth EXCEPT ![p] = a]
        BY DEF Step, ClaimSet, RenewSet, ForceSet, Release, Lookup, CheckPaired,
           GiveBack, WakeClaim, Steer, EnterConnect, Opened, EnterDiscard, EnterLogout,
           ClearedAuth, Inspect, Clear, Seed, Finally, SpawnFails, Rejected, redis, ClearAuth
      <3> QED BY <1>1, <3>1 DEF BaseOK, StateTypeOK
    <2>9. overdue' \subseteq Instances \X Phones
      BY DEF Step, ClaimSet, RenewSet, ForceSet, Release, Lookup, CheckPaired,
         GiveBack, WakeClaim, Steer, EnterConnect, Opened, EnterDiscard, EnterLogout,
         ClearedAuth, Inspect, Clear, Seed, Finally, SpawnFails, Rejected, redis,
         TakeLease, Grant, BaseOK, StateTypeOK
    <2> QED BY <2>1, <2>2, <2>3, <2>4, <2>5, <2>6, <2>7, <2>8, <2>9
  <1> HIDE DEF Simple
  <1>10. ASSUME ReleaseHeld(t) \/ Abandon(t) PROVE HeldType
    BY <1>0, <1>10, ReleaseHeldTypes
  <1>11. ASSUME conn' = [conn EXCEPT ![i][p] = NoConn] PROVE ConnType /\ ConnGranted'
    BY <1>1, <1>11, ConnTypes
  <1>12. ASSUME TakeLease(i, p) PROVE LeaseType /\ HeldType
    BY <1>1, <1>12, TakeLeaseTypes
  <1>13. ASSUME Fence(t, i, p) PROVE HeldType
    BY <1>1, <1>5, <1>13 DEF Fence, BaseOK, StateTypeOK
  <1> HIDE DEF LeaseType, HeldType, ConnType
  <1>14. CASE ClaimSet(t)
    BY <1>2, <1>3, <1>4, <1>6, <1>9, <1>12, <1>14 DEF ClaimSet
  <1>15. CASE RenewSet(t)
    <2>1. CASE TakeLease(i, p) /\ UNCHANGED conn
      BY <1>4, <1>6, <1>9, <1>12, <2>1
    <2>2. CASE TakeLease(i, p) /\ conn[i][p] # NoConn
               /\ conn' = [conn EXCEPT ![i][p].epoch = NextEpoch(i, p)]
      <3>1. NextEpoch(i, p) \in Nat \ {0}
        BY <1>1, NextEpochFresh DEF BaseOK
      <3>2. ConnType /\ ConnGranted'
        BY <1>1, <2>2, <3>1, EpochTypes DEF ConnType
      <3> QED BY <1>6, <1>9, <1>12, <2>2, <3>2
    <2>3. CASE Fence(t, i, p) /\ UNCHANGED <<lease, conn>>
      BY <1>2, <1>4, <1>6, <1>9, <1>13, <2>3
    <2> QED BY <1>15, <2>1, <2>2, <2>3 DEF RenewSet
  <1>16. CASE ForceSet(t)
    BY <1>4, <1>6, <1>9, <1>12, <1>16 DEF ForceSet
  <1>17. CASE Release(t)
    <2>1. LeaseType
      BY <1>1, <1>17 DEF Release, LeaseType, BaseOK, StateTypeOK
    <2> QED BY <1>3, <1>4, <1>6, <1>9, <1>17, <2>1 DEF Release
  <1>18. CASE Lookup(t) \/ CheckPaired(t)
    BY <1>2, <1>3, <1>4, <1>6, <1>9, <1>18 DEF Lookup, CheckPaired, redis
  <1>19. CASE GiveBack(t) \/ WakeClaim(t) \/ Steer(t) \/ Finally(t)
    BY <1>2, <1>3, <1>4, <1>6, <1>9, <1>10, <1>19 DEF GiveBack, WakeClaim, Steer, Finally, redis
  <1>20. CASE EnterConnect(t)
    <2>1. op[t].epoch > 0
      BY <1>1, <1>20 DEF EnterConnect, AtSlot, Granted
    <2>2. LeaseType
      BY <1>2, <1>20 DEF EnterConnect, redis
    <2>3. HeldType
      BY <1>3, <1>10, <1>20 DEF EnterConnect, Spawn
    <2>4. \/ UNCHANGED conn
          \/ Spawn(t)
          \/ UpdateOptions(t) /\ conn[i][p] # NoConn
      BY <1>20 DEF EnterConnect
    <2>5. ConnType /\ ConnGranted'
      <3>1. CASE UNCHANGED conn
        BY <1>4, <3>1
      <3>2. CASE Spawn(t)
        BY <1>0, <2>1, <3>2, SpawnTypes DEF ConnType
      <3>3. CASE UpdateOptions(t) /\ conn[i][p] # NoConn
        BY <1>0, <2>1, <3>3, OptionsTypes DEF ConnType
      <3> QED BY <2>4, <3>1, <3>2, <3>3
    <2> QED BY <1>6, <1>9, <2>2, <2>3, <2>5
  <1>21. CASE Opened(t)
    <2>1. conn[i][p] # NoConn
      BY <1>21 DEF Opened, AtRedis, At, BaseOK, SlotsHeld
    <2>2. conn[i][p] \in Connection /\ conn[i][p].epoch > 0
      BY <1>1, <2>1 DEF BaseOK, StateTypeOK, ConnGranted
    <2> DEFINE d == [conn[i][p] EXCEPT !.st = "live"]
    <2>3. d \in Connection /\ d.epoch = conn[i][p].epoch
      BY <2>2 DEF Connection
    <2>4. conn' = [conn EXCEPT ![i][p] = d]
      BY <1>1, <1>21 DEF Opened, BaseOK, StateTypeOK
    <2> HIDE DEF d
    <2>5. ConnType /\ ConnGranted'
      BY <1>1, <2>2, <2>3, <2>4, ConnTypes DEF ConnType
    <2> QED BY <1>2, <1>3, <1>6, <1>9, <1>21, <2>5 DEF Opened
  <1>22. CASE EnterDiscard(t)
    <2>1. HeldType
      BY <1>3, <1>10, <1>22 DEF EnterDiscard
    <2> QED BY <1>2, <1>6, <1>9, <1>11, <1>22, <2>1 DEF EnterDiscard, redis
  <1>23. CASE EnterLogout(t)
    BY <1>2, <1>3, <1>4, <1>6, <1>9, <1>23 DEF EnterLogout, redis
  <1>24. CASE ClearedAuth(t)
    BY <1>2, <1>3, <1>4, <1>6, <1>9, <1>11, <1>24 DEF ClearedAuth
  <1>25. CASE Inspect(t)
    <2>1. op[t].epoch > 0
      <3>1. op[t].pc = "inspect"
        BY <1>25 DEF Inspect, AtRedis, At
      <3>2. k \in ConnectKinds
        BY <1>1, <3>1 DEF PcsOf, Tasks, AllKinds, ConnectKinds
      <3> QED BY <1>1, <3>1, <3>2 DEF Granted
    <2>2. HeldType
      BY <1>3, <1>10, <1>25 DEF Inspect, Unwind
    <2>3. UNCHANGED conn \/ (UpdateOptions(t) /\ conn[i][p] # NoConn)
      BY <1>25 DEF Inspect, Unwind
    <2>4. ConnType /\ ConnGranted'
      <3>1. CASE UNCHANGED conn
        BY <1>4, <3>1
      <3>2. CASE UpdateOptions(t) /\ conn[i][p] # NoConn
        BY <1>0, <2>1, <3>2, OptionsTypes DEF ConnType
      <3> QED BY <2>3, <3>1, <3>2
    <2> QED BY <1>2, <1>6, <1>9, <1>25, <2>2, <2>4 DEF Inspect, redis
  <1>26. CASE Clear(t)
    BY <1>2, <1>3, <1>4, <1>6, <1>9, <1>26 DEF Clear
  <1>27. CASE Seed(t)
    BY <1>2, <1>3, <1>4, <1>6, <1>9, <1>10, <1>27 DEF Seed
  <1>28. CASE SpawnFails(t)
    BY <1>2, <1>6, <1>9, <1>10, <1>11, <1>28 DEF SpawnFails, redis
  <1>29. CASE Rejected(t)
    <2>1. ASSUME Grant(i, p) PROVE LeaseType
      BY <1>1, <2>1, GrantTypes DEF LeaseType
    <2>2. LeaseType
      BY <1>2, <1>29, <2>1 DEF Rejected
    <2>3. HeldType
      BY <1>3, <1>10, <1>29 DEF Rejected, Unwind
    <2>4. \/ UNCHANGED conn
          \/ conn' = [conn EXCEPT ![i][p] = NoConn]
          \/ op[t].pc = "inspect" /\ UpdateOptions(t) /\ conn[i][p] # NoConn
          \/ conn' = [conn EXCEPT ![i][p].st = "dead"] /\ conn[i][p] # NoConn
      BY <1>29 DEF Rejected, Unwind
    <2>5. ASSUME op[t].pc = "inspect", UpdateOptions(t), conn[i][p] # NoConn
          PROVE  ConnType /\ ConnGranted'
      <3>1. k \in ConnectKinds
        BY <1>1, <2>5 DEF PcsOf, Tasks, AllKinds, ConnectKinds
      <3>2. op[t].epoch > 0
        BY <1>1, <2>5, <3>1 DEF Granted
      <3> QED BY <1>0, <2>5, <3>2, OptionsTypes DEF ConnType
    <2>6. ASSUME conn' = [conn EXCEPT ![i][p].st = "dead"], conn[i][p] # NoConn
          PROVE  ConnType /\ ConnGranted'
      <3> DEFINE d == [conn[i][p] EXCEPT !.st = "dead"]
      <3>1. conn[i][p] \in Connection /\ conn[i][p].epoch > 0
        BY <1>1, <2>6 DEF BaseOK, StateTypeOK, ConnGranted
      <3>2. d \in Connection /\ d.epoch = conn[i][p].epoch
        BY <3>1 DEF Connection
      <3>3. conn' = [conn EXCEPT ![i][p] = d]
        BY <1>1, <2>6 DEF BaseOK, StateTypeOK
      <3> HIDE DEF d
      <3> QED BY <1>1, <3>1, <3>2, <3>3, ConnTypes DEF ConnType
    <2>7. ConnType /\ ConnGranted'
      BY <1>4, <1>11, <2>4, <2>5, <2>6
    <2> QED BY <1>6, <1>9, <2>2, <2>3, <2>7
  <1> QED BY <1>14, <1>15, <1>16, <1>17, <1>18, <1>19, <1>20, <1>21, <1>22, <1>23, <1>24,
             <1>25, <1>26, <1>27, <1>28, <1>29 DEF Step

-----------------------------------------------------------------------------
(* The slots *)

\* What a step of thread t does to the slots and the connections: it leaves the
\* other phones alone; it drops or replaces the connection only if the slot is
\* its own or free; it enters the slot only if the slot is free, and to open a
\* connection it has registered.
SlotEffect(t) ==
  LET i == op[t].i
      p == op[t].p
  IN /\ \A j \in Instances, q \in Phones : <<j, q>> # <<i, p>> => conn'[j][q] = conn[j][q]
     /\ \/ ~SlotBusy(i, p)
        \/ InSlot(t, i, p)
        \/ conn'[i][p] = conn[i][p]
        \/ conn'[i][p] # NoConn /\ conn'[i][p].st = conn[i][p].st
     /\ op'[t].pc \in {"spawning", "logout"} => ~SlotBusy(i, p)
     /\ op'[t].pc = "spawning" => conn'[i][p] # NoConn /\ conn'[i][p].st = "opening"

\* Every step of a thread has no other effect on slots and connections.
LEMMA SlotEffectHolds ==
  ASSUME BaseOK, NEW t \in Threads, Step(t) \/ SpawnFails(t) \/ Rejected(t)
  PROVE  SlotEffect(t)
  <1> DEFINE k == op[t].kind
             i == op[t].i
             p == op[t].p
             Elsewhere == \A j \in Instances, q \in Phones :
                            <<j, q>> # <<i, p>> => conn'[j][q] = conn[j][q]
             Here == conn'[i][p] = conn[i][p]
                     \/ (conn'[i][p] # NoConn /\ conn'[i][p].st = conn[i][p].st)
             Outside == op'[t].pc \notin {"spawning", "logout"}
  <1>0. Active(t) /\ (GoesOn(t) \/ Rests(t))
    BY StepThreads DEF BaseOK
  <1>1. /\ i \in Instances /\ p \in Phones
        /\ k \in Tasks \cup AllKinds /\ op[t].pc \in PcsOf(k)
    BY <1>0, TaskFields, WorkingOrWaiting DEF BaseOK, ThreadsOK, Working
  <1>2. conn \in [Instances -> [Phones -> Connection \cup {NoConn}]]
        /\ conn' \in [Instances -> [Phones -> Connection \cup {NoConn}]]
    BY StepState DEF BaseOK, StateTypeOK
  <1>3. ASSUME NEW pc, Goto(t, pc) PROVE op'[t].pc = pc
    <2>1. Moves(t, pc, op[t].epoch)
      BY <1>0, <1>3, GotoMoves DEF Goto, BaseOK
    <2> QED BY <2>1 DEF Moves
  <1>4. Rest(t) => Outside
    BY DEF Rest, Resting, Done, Idle, BaseOK, ThreadsOK
  <1>5. ReleaseHeld(t) \/ Abandon(t) => Outside
    <2>1. ASSUME NEW pc, NEW e, op' = [op EXCEPT ![t].pc = pc, ![t].epoch = e]
          PROVE  op'[t].pc = pc
      <3>1. Moves(t, pc, e)
        BY <1>0, <2>1, GrantMoves DEF BaseOK
      <3> QED BY <3>1 DEF Moves
    <2>2. ReleaseHeld(t) => op'[t].pc \in {"lookup", "release"}
      <3> DEFINE e == held[i][p]
      <3>1. ReleaseHeld(t) => op' = [op EXCEPT ![t].pc = IF e = 0 THEN "lookup" ELSE "release",
                                              ![t].epoch = e]
        BY DEF ReleaseHeld
      <3>2. ReleaseHeld(t) => op'[t].pc = IF e = 0 THEN "lookup" ELSE "release"
        BY <2>1, <3>1
      <3> QED BY <3>2
    <2>3. Abandon(t) => op'[t].pc = "release"
      BY <2>1 DEF Abandon, AbandonLease
    <2> QED BY <2>2, <2>3
  <1>6. UNCHANGED conn => Elsewhere /\ Here
    OBVIOUS
  <1>7. \A c : conn' = [conn EXCEPT ![i][p] = c] => Elsewhere /\ conn'[i][p] = c
    BY <1>1, <1>2
  <1>8. ASSUME NEW e \in Nat, conn' = [conn EXCEPT ![i][p].epoch = e], conn[i][p] # NoConn
        PROVE  Elsewhere /\ Here
    <2>1. Elsewhere
      BY <1>1, <1>2, <1>8
    <2>2. conn[i][p] \in Connection
      BY <1>1, <1>2, <1>8
    <2>3. conn'[i][p] = [conn[i][p] EXCEPT !.epoch = e]
      BY <1>1, <1>2, <1>8
    <2>4. conn'[i][p] \in Connection /\ conn'[i][p].st = conn[i][p].st
      BY <2>2, <2>3 DEF Connection, Epochs
    <2> QED BY <2>1, <2>4, NamesAssumption
  <1>9. op[t].epoch \in Nat /\ NextEpoch(i, p) \in Nat
    BY <1>0, <1>1, TaskFields, NextEpochFresh DEF BaseOK, ThreadsOK
  <1>10. ASSUME UpdateOptions(t), conn[i][p] # NoConn PROVE Elsewhere /\ Here
    <2>1. conn[i][p].epoch \in Nat
      BY <1>1, <1>2, <1>10 DEF Connection, Epochs
    <2>2. Larger(conn[i][p].epoch, op[t].epoch) \in Nat
      BY <1>9, <2>1 DEF Larger
    <2>3. conn' = [conn EXCEPT ![i][p].epoch = Larger(conn[i][p].epoch, op[t].epoch)]
      BY <1>1, <1>2, <1>10 DEF UpdateOptions
    <2> QED BY <1>8, <1>10, <2>2, <2>3
  <1> HIDE DEF Elsewhere, Here, Outside
  <1>11. Elsewhere /\ Here /\ Outside => SlotEffect(t)
    BY DEF SlotEffect, Elsewhere, Here, Outside
  <1>12. Elsewhere /\ (~SlotBusy(i, p) \/ InSlot(t, i, p)) /\ Outside => SlotEffect(t)
    BY DEF SlotEffect, Elsewhere, Outside
  <1>13. ASSUME UNCHANGED conn, Outside PROVE SlotEffect(t)
    BY <1>6, <1>11, <1>13
  <1>14. ASSUME NEW pc, Goto(t, pc), pc \notin {"spawning", "logout"} PROVE Outside
    BY <1>3, <1>14 DEF Outside
  <1>15. CASE ClaimSet(t) \/ ForceSet(t)
    <2>1. ASSUME NEW pc, Moves(t, pc, NextEpoch(i, p)), pc \notin {"spawning", "logout"}
          PROVE  Outside
      BY <2>1 DEF Moves, Outside
    <2>2. CASE ClaimSet(t)
      <3>1. Rest(t) \/ Moves(t, "claimed", NextEpoch(i, p))
        BY <1>0, <2>2, GrantMoves DEF ClaimSet, BaseOK
      <3>2. Outside
        BY <1>4, <2>1, <3>1
      <3> QED BY <1>13, <2>2, <3>2 DEF ClaimSet
    <2>3. CASE ForceSet(t)
      <3> DEFINE pc == CASE k = "logout" -> "enter"
                         [] k = "restart" -> "inspect"
                         [] OTHER -> "clear"
      <3>1. Moves(t, pc, NextEpoch(i, p))
        BY <1>0, <2>3, GrantMoves DEF ForceSet, BaseOK
      <3>2. pc \notin {"spawning", "logout"}
        OBVIOUS
      <3> HIDE DEF pc
      <3>3. Outside
        BY <2>1, <3>1, <3>2
      <3> QED BY <1>13, <2>3, <3>3 DEF ForceSet
    <2> QED BY <1>15, <2>2, <2>3
  <1>16. CASE RenewSet(t)
    <2>1. Outside
      BY <1>4, <1>14, <1>16 DEF RenewSet, Fence
    <2>2. Elsewhere /\ Here
      BY <1>6, <1>8, <1>9, <1>16 DEF RenewSet
    <2> QED BY <1>11, <2>1, <2>2
  <1>17. CASE Release(t) \/ Lookup(t) \/ CheckPaired(t) \/ GiveBack(t) \/ WakeClaim(t)
              \/ Steer(t) \/ Clear(t) \/ Seed(t) \/ Finally(t)
    <2>1. UNCHANGED conn
      BY <1>17 DEF Release, Lookup, CheckPaired, GiveBack, WakeClaim, Steer, Clear, Seed, Finally
    <2>2. Outside
      <3>1. CASE Release(t) \/ GiveBack(t) \/ Steer(t) \/ Finally(t)
        BY <1>4, <1>5, <3>1 DEF Release, GiveBack, Steer, Finally
      <3>2. CASE CheckPaired(t) \/ WakeClaim(t)
        BY <1>4, <1>5, <1>14, <3>2 DEF CheckPaired, WakeClaim
      <3>3. CASE Clear(t)
        BY <1>14, <3>3 DEF Clear, AfterClear
      <3>4. CASE Seed(t)
        BY <1>5, <1>14, <3>4 DEF Seed
      <3>5. CASE Lookup(t)
        <4>1. \/ op' = [op EXCEPT ![t].pc = "release", ![t].epoch = lease[p].epoch]
              \/ Rest(t)
          BY <3>5 DEF Lookup
        <4>2. ASSUME op' = [op EXCEPT ![t].pc = "release", ![t].epoch = lease[p].epoch]
              PROVE  op'[t].pc = "release"
          <5>1. Moves(t, "release", lease[p].epoch)
            BY <1>0, <4>2, GrantMoves DEF BaseOK
          <5> QED BY <5>1 DEF Moves
        <4> QED BY <1>4, <4>1, <4>2 DEF Outside
      <3> QED BY <1>17, <3>1, <3>2, <3>3, <3>4, <3>5
    <2> QED BY <1>13, <2>1, <2>2
  <1>18. CASE EnterConnect(t)
    <2>1. ~SlotBusy(i, p)
      BY <1>18 DEF EnterConnect, AtSlot
    <2>2. ASSUME Spawn(t) PROVE SlotEffect(t)
      <3>1. op'[t].pc = "spawning"
        BY <1>3, <2>2 DEF Spawn
      <3>2. Elsewhere /\ conn'[i][p] = [epoch |-> op[t].epoch, st |-> "opening"]
        BY <1>7, <2>2 DEF Spawn
      <3>3. [epoch |-> op[t].epoch, st |-> "opening"] \in Connection
        BY <1>9 DEF Connection, Epochs
      <3>4. conn'[i][p] # NoConn /\ conn'[i][p].st = "opening"
        BY <3>2, <3>3, NamesAssumption
      <3> QED BY <2>1, <3>1, <3>2, <3>4 DEF SlotEffect, Elsewhere
    <2>3. ASSUME Rest(t), UNCHANGED conn PROVE SlotEffect(t)
      BY <1>4, <1>13, <2>3
    <2>4. ASSUME UpdateOptions(t), conn[i][p] # NoConn, Rest(t) \/ Abandon(t)
          PROVE  SlotEffect(t)
      BY <1>4, <1>5, <1>10, <1>11, <2>4
    <2> QED BY <1>18, <2>2, <2>3, <2>4 DEF EnterConnect
  <1>19. CASE Opened(t)
    <2>1. InSlot(t, i, p) /\ Outside
      BY <1>4, <1>19 DEF Opened, AtRedis, At, InSlot
    <2>2. Elsewhere
      BY <1>1, <1>2, <1>19 DEF Opened, Elsewhere
    <2> QED BY <1>12, <2>1, <2>2
  <1>20. CASE EnterDiscard(t)
    <2>1. ~SlotBusy(i, p) /\ conn' = [conn EXCEPT ![i][p] = NoConn]
      BY <1>20 DEF EnterDiscard, AtSlot
    <2>2. Outside
      BY <1>4, <1>5, <1>14, <1>20 DEF EnterDiscard
    <2> QED BY <1>7, <1>12, <2>1, <2>2
  <1>21. CASE EnterLogout(t)
    <2>1. ~SlotBusy(i, p) /\ UNCHANGED conn
      BY <1>21 DEF EnterLogout, AtSlot
    <2>2. op'[t].pc \in {"offline", "logout"}
      BY <1>3, <1>21 DEF EnterLogout
    <2>3. Elsewhere
      BY <1>6, <2>1
    <2> QED BY <2>1, <2>2, <2>3 DEF SlotEffect, Elsewhere
  <1>22. CASE ClearedAuth(t)
    <2>1. Outside
      BY <1>14, <1>22 DEF ClearedAuth
    <2>2. CASE op[t].pc = "logout"
      <3>1. InSlot(t, i, p) /\ Elsewhere
        BY <1>7, <1>22, <2>2 DEF ClearedAuth, InSlot
      <3> QED BY <1>12, <2>1, <3>1
    <2>3. CASE op[t].pc # "logout"
      BY <1>13, <1>22, <2>1, <2>3 DEF ClearedAuth
    <2> QED BY <2>2, <2>3
  <1>23. CASE Inspect(t)
    <2>1. \/ UNCHANGED conn
          \/ UpdateOptions(t) /\ conn[i][p] # NoConn
      BY <1>23 DEF Inspect, Unwind
    <2>2. Outside
      BY <1>4, <1>5, <1>14, <1>23 DEF Inspect, Unwind
    <2> QED BY <1>6, <1>10, <1>11, <2>1, <2>2
  <1>24. CASE SpawnFails(t)
    <2>1. InSlot(t, i, p) /\ conn' = [conn EXCEPT ![i][p] = NoConn] /\ Outside
      BY <1>5, <1>24 DEF SpawnFails, At, InSlot
    <2> QED BY <1>7, <1>12, <2>1
  <1>25. CASE Rejected(t)
    <2>1. Outside
      BY <1>4, <1>5, <1>14, <1>25 DEF Rejected, Unwind, AfterClear
    <2>2. CASE op[t].pc \in {"spawning", "logout"}
      <3>1. InSlot(t, i, p)
        BY <2>2 DEF InSlot
      <3>2. \/ UNCHANGED conn
            \/ conn' = [conn EXCEPT ![i][p] = NoConn]
            \/ conn' = [conn EXCEPT ![i][p].st = "dead"]
        BY <1>25, <2>2 DEF Rejected
      <3>3. conn' = [conn EXCEPT ![i][p].st = "dead"] => Elsewhere
        BY <1>1, <1>2 DEF Elsewhere
      <3> QED BY <1>6, <1>7, <1>12, <2>1, <3>1, <3>2, <3>3
    <2>3. CASE op[t].pc \notin {"spawning", "logout"}
      <3>1. UNCHANGED conn \/ (UpdateOptions(t) /\ conn[i][p] # NoConn)
        BY <1>25, <2>3 DEF Rejected, Unwind
      <3> QED BY <1>6, <1>10, <1>11, <2>1, <3>1
    <2> QED BY <2>2, <2>3
  <1> QED BY <1>15, <1>16, <1>17, <1>18, <1>19, <1>20, <1>21, <1>22, <1>23, <1>24, <1>25
          DEF Step

\* A thread's step keeps every part of BaseOK.
LEMMA StepBase ==
  ASSUME BaseOK, NEW t \in Threads, Step(t) \/ SpawnFails(t) \/ Rejected(t)
  PROVE  BaseOK'
  <1> DEFINE i == op[t].i
             p == op[t].p
  <1>1. Active(t) /\ (GoesOn(t) \/ Rests(t))
    BY StepThreads DEF BaseOK
  <1>2. ThreadsOK'
    <2>1. CASE Rests(t)
      BY <2>1, RestsSound DEF BaseOK
    <2>2. CASE GoesOn(t)
      BY <1>1, <2>2, MovesSound DEF GoesOn, BaseOK
    <2> QED BY <1>1, <2>1, <2>2
  <1>3. StateTypeOK' /\ ConnGranted'
    BY StepState
  <1>4. SlotEffect(t)
    BY SlotEffectHolds
  <1>5. /\ i \in Instances /\ p \in Phones
        /\ \A u \in Threads : u # t => op'[u] = op[u]
        /\ op'[t].pc \in {"spawning", "logout"} => op'[t].i = i /\ op'[t].p = p
    <2>1. i \in Instances /\ p \in Phones
      BY <1>1, TaskFields DEF BaseOK, ThreadsOK
    <2>2. GoesOn(t) => op'[t].i = i /\ op'[t].p = p
      BY DEF GoesOn, Moves
    <2>3. Rests(t) => op'[t].pc \notin {"spawning", "logout"}
      BY DEF Rests, Resting, Done, Idle
    <2>4. \A u \in Threads : u # t => op'[u] = op[u]
      BY <1>1 DEF GoesOn, Moves, Rests, Others
    <2> QED BY <1>1, <2>1, <2>2, <2>3, <2>4
  <1>6. ASSUME NEW u \in Threads, op'[u].pc = "spawning"
        PROVE  /\ conn'[op'[u].i][op'[u].p] # NoConn
               /\ conn'[op'[u].i][op'[u].p].st = "opening"
    <2>1. CASE u = t
      BY <1>4, <1>5, <1>6, <2>1 DEF SlotEffect
    <2>2. CASE u # t
      <3>1. op'[u] = op[u] /\ op[u].pc = "spawning"
        BY <1>5, <1>6, <2>2
      <3>2. conn[op[u].i][op[u].p] # NoConn /\ conn[op[u].i][op[u].p].st = "opening"
        BY <3>1 DEF BaseOK, SlotsHeld
      <3>3. op[u].i \in Instances /\ op[u].p \in Phones
        BY <3>1, TaskFields DEF BaseOK, ThreadsOK, Active
      <3>4. CASE op[u].i = i /\ op[u].p = p
        <4>1. SlotBusy(i, p) /\ InSlot(u, i, p)
          BY <3>1, <3>4 DEF SlotBusy, InSlot
        <4>2. ~ InSlot(t, i, p)
          BY <1>5, <2>2, <4>1 DEF BaseOK, SlotsHeld
        <4> QED BY <1>4, <3>1, <3>2, <3>4, <4>1, <4>2 DEF SlotEffect
      <3>5. CASE ~ (op[u].i = i /\ op[u].p = p)
        BY <1>4, <3>1, <3>2, <3>3, <3>5 DEF SlotEffect
      <3> QED BY <3>4, <3>5
    <2> QED BY <2>1, <2>2
  <1>7. ASSUME NEW u \in Threads, NEW v \in Threads, NEW j \in Instances, NEW q \in Phones,
               InSlot(u, j, q)', InSlot(v, j, q)'
        PROVE  u = v
    <2>1. \A w \in Threads : w # t => (InSlot(w, j, q)' <=> InSlot(w, j, q))
      BY <1>5 DEF InSlot
    <2>2. InSlot(t, j, q)' => j = i /\ q = p /\ \A w \in Threads : ~ InSlot(w, i, p)
      <3>1. InSlot(t, j, q)' => j = i /\ q = p /\ ~SlotBusy(i, p)
        BY <1>4, <1>5 DEF InSlot, SlotEffect
      <3> QED BY <3>1 DEF SlotBusy, InSlot
    <2> QED BY <1>7, <2>1, <2>2 DEF BaseOK, SlotsHeld
  <1>8. SlotsHeld'
    BY <1>6, <1>7 DEF SlotsHeld
  <1> QED BY <1>2, <1>3, <1>8 DEF BaseOK

-----------------------------------------------------------------------------
(* The loops, the environment and the clocks keep BaseOK *)

\* The fair share never exceeds the number of phones.
LEMMA FairShareBounded ==
  ASSUME BaseOK
  PROVE  FairShare \in 0..Cardinality(Phones)
  <1> DEFINE S == {p \in Phones : auth[p] # "none"}
             s == Cardinality(S)
             l == Larger(Cardinality({i \in Instances : registry[i] = "live"}), 1)
  <1>1. s \in Nat /\ s <= Cardinality(Phones) /\ Cardinality(Phones) \in Nat
    <2>1. S \subseteq Phones
      OBVIOUS
    <2> HIDE DEF S
    <2> QED BY <2>1, SizesAssumption, FS_Subset, FS_CardinalityType
  <1>2. l \in Nat /\ l > 0
    <2> DEFINE L == {i \in Instances : registry[i] = "live"}
    <2>1. Cardinality(L) \in Nat
      <3>1. L \subseteq Instances
        OBVIOUS
      <3> HIDE DEF L
      <3> QED BY <3>1, SizesAssumption, FS_Subset, FS_CardinalityType
    <2> HIDE DEF L
    <2>2. l = Larger(Cardinality(L), 1)
      BY DEF L
    <2> QED BY <2>1, <2>2 DEF Larger
  <1>3. FairShare = (s + l - 1) \div l
    BY DEF FairShare
  <1> HIDE DEF s, l
  <1>4. FairShare \in 0..s
    BY <1>1, <1>2, <1>3, CeilingBounded
  <1> QED BY <1>1, <1>4

\* A step that lets nobody into a slot and keeps the connections being opened.
LEMMA SlotsKept ==
  ASSUME BaseOK, StateTypeOK', ThreadsOK', ConnGranted',
         \A u \in Threads : op'[u].pc \in {"spawning", "logout"} => op'[u] = op[u],
         \A u \in Threads : op'[u].pc = "spawning" =>
           conn'[op[u].i][op[u].p] = conn[op[u].i][op[u].p]
  PROVE  BaseOK'
  BY DEF BaseOK, SlotsHeld, InSlot

\* A step that moves no thread and changes no connection.
LEMMA ThreadsStill ==
  ASSUME BaseOK, StateTypeOK', UNCHANGED <<op, conn>>
  PROVE  BaseOK'
  <1>1. ThreadsOK'
    BY DEF BaseOK, ThreadsOK, ThreadOK
  <1>2. ConnGranted'
    BY DEF BaseOK, ConnGranted
  <1> QED BY <1>1, <1>2, SlotsKept

\* A live connection goes.
LEMMA ConnGoes ==
  ASSUME BaseOK, StateTypeOK', ThreadsOK', NEW i \in Instances, NEW p \in Phones,
         LiveEvent(i, p), conn' = [conn EXCEPT ![i][p] = NoConn],
         \A u \in Threads : op'[u].pc \in {"spawning", "logout"} => op'[u] = op[u]
  PROVE  BaseOK'
  <1>1. ConnGranted'
    BY DEF BaseOK, StateTypeOK, ConnGranted
  <1>2. ASSUME NEW u \in Threads, op'[u].pc = "spawning"
        PROVE  conn'[op[u].i][op[u].p] = conn[op[u].i][op[u].p]
    <2>1. op[u].pc = "spawning"
      BY <1>2
    <2>2. op[u].i \in Instances /\ op[u].p \in Phones
      BY <2>1, TaskFields DEF BaseOK, ThreadsOK, Active
    <2>3. conn[op[u].i][op[u].p].st = "opening" /\ conn[i][p].st = "live"
      BY <2>1 DEF BaseOK, SlotsHeld, LiveEvent
    <2> QED BY <2>2, <2>3 DEF BaseOK, StateTypeOK
  <1> QED BY <1>1, <1>2, SlotsKept

\* One thread of a loop sets off.
LEMMA ThreadStarts ==
  ASSUME BaseOK, StateTypeOK', UNCHANGED conn, NEW t \in Threads, t \notin Requests,
         NEW pc \in PcsOf(op[t].kind), Goto(t, pc), pc \notin {"release", "spawning", "logout"},
         op[t].kind \notin ConnectKinds \/ pc = "paired"
  PROVE  BaseOK' /\ Moves(t, pc, op[t].epoch)
  <1>1. Moves(t, pc, op[t].epoch)
    BY GotoMoves DEF Goto, BaseOK
  <1>2. op[t].epoch \in Nat
    BY TaskFields DEF BaseOK, ThreadsOK
  <1>3. ThreadsOK'
    BY <1>1, <1>2, MovesSound DEF BaseOK
  <1>4. ConnGranted'
    BY DEF BaseOK, ConnGranted
  <1>5. \A u \in Threads : op'[u].pc \in {"spawning", "logout"} => op'[u] = op[u]
    BY <1>1 DEF Moves, Others
  <1> QED BY <1>1, <1>3, <1>4, <1>5, SlotsKept

\* The task of a kind, an instance and a phone.
LEMMA TaskIs ==
  ASSUME BaseOK, NEW k \in Tasks, NEW i \in Instances, NEW p \in Phones
  PROVE  /\ <<k, i, p>> \in Threads /\ <<k, i, p>> \notin Requests
         /\ op[<<k, i, p>>].kind = k /\ op[<<k, i, p>>].i = i /\ op[<<k, i, p>>].p = p
         /\ op[<<k, i, p>>].epoch \in Nat
  <1>1. <<k, i, p>> \in Tasks \X Instances \X Phones
    OBVIOUS
  <1>2. <<k, i, p>> \in Threads /\ <<k, i, p>> \notin Requests
    BY <1>1, NamesAssumption DEF Threads
  <1>3. ThreadOK(<<k, i, p>>)
    BY <1>2 DEF BaseOK, ThreadsOK
  <1>4. <<k, i, p>> = <<op[<<k, i, p>>].kind, op[<<k, i, p>>].i, op[<<k, i, p>>].p>>
        /\ op[<<k, i, p>>].epoch \in Nat
    BY <1>2, <1>3, TaskFields
  <1> QED BY <1>2, <1>4

\* An instance's list is replaced by another list of phones.
LEMMA TodoTypes ==
  ASSUME BaseOK, NEW i \in Instances, NEW S \in SUBSET Phones,
         \/ todo' = [todo EXCEPT ![i].claim = S]
         \/ todo' = [todo EXCEPT ![i].renew = S]
         \/ todo' = [todo EXCEPT ![i].stop = S]
  PROVE  todo' \in [Instances -> [{"claim", "renew", "stop"} -> SUBSET Phones]]
  <1> DEFINE T == [{"claim", "renew", "stop"} -> SUBSET Phones]
             c == [todo[i] EXCEPT !.claim = S]
             r == [todo[i] EXCEPT !.renew = S]
             s == [todo[i] EXCEPT !.stop = S]
  <1>1. todo \in [Instances -> T]
    BY DEF BaseOK, StateTypeOK
  <1>2. c \in T /\ r \in T /\ s \in T
    BY <1>1
  <1>3. todo' = [todo EXCEPT ![i] = c] \/ todo' = [todo EXCEPT ![i] = r]
          \/ todo' = [todo EXCEPT ![i] = s]
    BY <1>1
  <1> HIDE DEF T, c, r, s
  <1>4. todo' \in [Instances -> T]
    BY <1>1, <1>2, <1>3
  <1> QED BY <1>4 DEF T

\* The scan is over: every claim that has a lease goes on, at once.
LEMMA NextPhaseBase ==
  ASSUME BaseOK, NEW i \in Instances, NextPhase(i)
  PROVE  BaseOK'
  <1>1. StateTypeOK'
    <2>1. todo' \in [Instances -> [{"claim", "renew", "stop"} -> SUBSET Phones]]
      <3>1. {} \in SUBSET Phones /\ todo' = [todo EXCEPT ![i].claim = {}]
        BY DEF NextPhase
      <3> QED BY <3>1, TodoTypes
    <2>2. share' \in [Instances -> 0..Cardinality(Phones)]
      <3>1. 0 \in 0..Cardinality(Phones)
        BY SizesAssumption, FS_CardinalityType
      <3> QED BY <3>1 DEF NextPhase, BaseOK, StateTypeOK
    <2> QED BY <2>1, <2>2 DEF NextPhase, redis, health, BaseOK, StateTypeOK
  <1>2. ASSUME NEW t \in Threads
        PROVE  \/ op'[t] = op[t]
               \/ Working(t, op'[t]) /\ op'[t].pc \in {"giveback", "sleep"}
    <2>1. CASE Active(t) /\ op[t].i = i /\ op[t].pc = "claimed"
      <3>1. Working(t, op[t])
        BY <2>1, WorkingOrWaiting DEF BaseOK, ThreadsOK
      <3>2. op[t].kind = "claim"
        BY <2>1, <3>1 DEF Working, Op, PcsOf, Tasks, AllKinds
      <3> DEFINE c == IF Draining(i) THEN "giveback" ELSE "sleep"
      <3>3. op'[t] = [op[t] EXCEPT !.pc = c]
        BY <2>1 DEF NextPhase
      <3>4. c \in {"giveback", "sleep"} /\ c \in Pcs
        BY DEF Pcs
      <3> HIDE DEF c
      <3>5. op'[t] \in Op /\ op'[t].kind = op[t].kind /\ op'[t].i = op[t].i
            /\ op'[t].p = op[t].p /\ op'[t].pc = c /\ op'[t].epoch = op[t].epoch
        BY <3>1, <3>3, <3>4 DEF Working, Op
      <3>6. op[t].epoch > 0
        BY <2>1, <3>1, <3>2 DEF Working, Granted, ConnectKinds
      <3> QED BY <3>1, <3>2, <3>4, <3>5, <3>6 DEF Working, PcsOf
    <2>2. CASE ~ (Active(t) /\ op[t].i = i /\ op[t].pc = "claimed")
      BY <2>2 DEF NextPhase
    <2> QED BY <2>1, <2>2
  <1>3. ThreadsOK'
    <2>1. op' = [t \in Threads |-> op'[t]]
      BY DEF NextPhase
    <2> QED BY <1>2, <2>1 DEF BaseOK, ThreadsOK, ThreadOK
  <1>4. ConnGranted' /\ UNCHANGED conn
    BY DEF NextPhase, BaseOK, ConnGranted
  <1> QED BY <1>1, <1>2, <1>3, <1>4, SlotsKept

\* A renewal cycle is abandoned.
LEMMA RenewFailsBase ==
  ASSUME BaseOK, NEW i \in Instances, RenewFails(i)
  PROVE  BaseOK'
  <1>1. StateTypeOK'
    <2>1. todo' \in [Instances -> [{"claim", "renew", "stop"} -> SUBSET Phones]]
      <3>1. {} \in SUBSET Phones /\ todo' = [todo EXCEPT ![i].renew = {}]
        BY DEF RenewFails
      <3> QED BY <3>1, TodoTypes
    <2>2. degraded' \in [Instances -> BOOLEAN]
      BY DEF RenewFails, BaseOK, StateTypeOK
    <2> QED BY <2>1, <2>2 DEF RenewFails, redis, BaseOK, StateTypeOK
  <1>2. ASSUME NEW t \in Threads
        PROVE  op'[t] = op[t] \/ (t \notin Requests /\ op'[t] = Idle(t))
    <2>1. CASE Active(t) /\ op[t].kind = "renew" /\ op[t].i = i
      <3>1. Working(t, op[t])
        BY <2>1, WorkingOrWaiting DEF BaseOK, ThreadsOK
      <3>2. t \notin Requests
        BY <2>1, <3>1 DEF Working, AllKinds
      <3> QED BY <2>1, <3>2 DEF RenewFails
    <2>2. CASE ~ (Active(t) /\ op[t].kind = "renew" /\ op[t].i = i)
      BY <2>2 DEF RenewFails
    <2> QED BY <2>1, <2>2
  <1>3. ThreadsOK'
    <2>1. op' = [t \in Threads |-> op'[t]]
      BY DEF RenewFails
    <2>2. \A t \in Threads : ThreadOK(t)'
      BY <1>2 DEF BaseOK, ThreadsOK, ThreadOK, Waiting, Resting
    <2> QED BY <2>1, <2>2 DEF ThreadsOK
  <1>4. ConnGranted' /\ UNCHANGED conn
    BY DEF RenewFails, BaseOK, ConnGranted
  <1>5. \A t \in Threads : op'[t].pc \in {"spawning", "logout"} => op'[t] = op[t]
    <2>1. \A t \in Threads : Idle(t).pc = "idle"
      BY DEF Idle
    <2> QED BY <1>2, <2>1
  <1> QED BY <1>1, <1>3, <1>4, <1>5, SlotsKept

\* A process is gone.
LEMMA DieBase ==
  ASSUME BaseOK, NEW i \in Instances, Die(i),
         registry' \in [Instances -> {"gone", "live", "draining"}], left' \in 0..MaxDisturbed
  PROVE  BaseOK'
  <1>1. StateTypeOK'
    <2>1. 0 \in 0..Cardinality(Phones) /\ 0 \in Epochs
      BY SizesAssumption, FS_CardinalityType DEF Epochs
    <2>2. /\ [l \in {"claim", "renew", "stop"} |-> {}] \in [{"claim", "renew", "stop"} -> SUBSET Phones]
          /\ [p \in Phones |-> 0] \in [Phones -> Epochs]
          /\ [p \in Phones |-> "unseen"] \in [Phones -> {"unseen", "seen", "orphaned"}]
          /\ [p \in Phones |-> NoConn] \in [Phones -> Connection \cup {NoConn}]
      BY <2>1
    <2>3. /\ todo' \in [Instances -> [{"claim", "renew", "stop"} -> SUBSET Phones]]
          /\ held' \in [Instances -> [Phones -> Epochs]]
          /\ seen' \in [Instances -> [Phones -> {"unseen", "seen", "orphaned"}]]
          /\ conn' \in [Instances -> [Phones -> Connection \cup {NoConn}]]
      BY <2>2 DEF Die, BaseOK, StateTypeOK
    <2>4. /\ status' \in [Instances -> {"running", "announcing", "draining", "down"}]
          /\ reachable' \in [Instances -> BOOLEAN]
          /\ degraded' \in [Instances -> BOOLEAN]
          /\ phase' \in [Instances -> {"idle", "scan", "connect", "move"}]
          /\ share' \in [Instances -> 0..Cardinality(Phones)]
      BY <2>1 DEF Die, BaseOK, StateTypeOK
    <2>5. overdue' \subseteq Instances \X Phones
      BY DEF Die, BaseOK, StateTypeOK
    <2> QED BY <2>3, <2>4, <2>5 DEF Die, BaseOK, StateTypeOK
  <1>2. \A t \in Threads :
          (op'[t] = op[t] /\ (Active(t) => op[t].i # i)) \/ op'[t] = Resting(t)
    BY DEF Die
  <1>3. ThreadsOK'
    <2>1. op' = [t \in Threads |-> op'[t]]
      BY DEF Die
    <2>2. \A t \in Threads : ThreadOK(t)'
      BY <1>2 DEF BaseOK, ThreadsOK, ThreadOK, Waiting
    <2> QED BY <2>1, <2>2 DEF ThreadsOK
  <1>4. \A j \in Instances, p \in Phones :
          conn'[j][p] = IF j = i THEN NoConn ELSE conn[j][p]
    BY DEF Die, BaseOK, StateTypeOK
  <1>5. ConnGranted'
    BY <1>4 DEF BaseOK, ConnGranted
  <1>6. \A t \in Threads : op'[t].pc \in {"spawning", "logout"} => op'[t] = op[t] /\ op[t].i # i
    <2>1. \A t \in Threads : Resting(t).pc \notin {"spawning", "logout"}
      BY DEF Resting, Done, Idle
    <2> QED BY <1>2, <2>1 DEF Active
  <1>7. \A t \in Threads : op'[t].pc = "spawning" => op[t].i \in Instances /\ op[t].p \in Phones
    BY <1>6, TaskFields DEF BaseOK, ThreadsOK, Active
  <1> QED BY <1>1, <1>3, <1>4, <1>5, <1>6, <1>7, SlotsKept

\* Every step of an instance's loops keeps the state well formed.
LEMMA LoopsBase ==
  ASSUME BaseOK, NEW i \in Instances, ClaimLoop(i) \/ RenewLoop(i) \/ StopLoop(i)
  PROVE  BaseOK'
  <1>1. CASE BeginScan(i)
    <2>1. FairShare \in 0..Cardinality(Phones)
      BY FairShareBounded
    <2> DEFINE candidates == {p \in Phones : auth[p] # "none" /\ conn[i][p] = NoConn}
    <2>2. todo' \in [Instances -> [{"claim", "renew", "stop"} -> SUBSET Phones]]
      <3>1. candidates \in SUBSET Phones /\ todo' = [todo EXCEPT ![i].claim = candidates]
        BY <1>1 DEF BeginScan
      <3> HIDE DEF candidates
      <3> QED BY <3>1, TodoTypes
    <2>3. seen' \in [Instances -> [Phones -> {"unseen", "seen", "orphaned"}]]
      <3> DEFINE s == [p \in Phones |-> IF p \in candidates THEN seen[i][p] ELSE "unseen"]
      <3>1. s \in [Phones -> {"unseen", "seen", "orphaned"}]
        BY DEF BaseOK, StateTypeOK
      <3>2. seen' = [seen EXCEPT ![i] = s]
        BY <1>1 DEF BeginScan, BaseOK, StateTypeOK
      <3> HIDE DEF s
      <3> QED BY <3>1, <3>2 DEF BaseOK, StateTypeOK
    <2>4. share' \in [Instances -> 0..Cardinality(Phones)]
          /\ phase' \in [Instances -> {"idle", "scan", "connect", "move"}]
      BY <1>1, <2>1 DEF BeginScan, BaseOK, StateTypeOK
    <2>5. StateTypeOK'
      BY <1>1, <2>2, <2>3, <2>4 DEF BeginScan, redis, health, BaseOK, StateTypeOK
    <2> QED BY <1>1, <2>5, ThreadsStill DEF BeginScan
  <1>2. ASSUME NEW p \in Phones, Consider(i, p) PROVE BaseOK'
    <2>1. StateTypeOK'
      <3>1. todo' \in [Instances -> [{"claim", "renew", "stop"} -> SUBSET Phones]]
        <4>1. todo[i].claim \ {p} \in SUBSET Phones
          BY DEF BaseOK, StateTypeOK
        <4>2. todo' = [todo EXCEPT ![i].claim = todo[i].claim \ {p}]
          BY <1>2 DEF Consider, BaseOK, StateTypeOK
        <4> QED BY <4>1, <4>2, TodoTypes
      <3>2. seen' \in [Instances -> [Phones -> {"unseen", "seen", "orphaned"}]]
        <4>1. PICK s \in {"unseen", "seen", "orphaned"} : seen' = [seen EXCEPT ![i][p] = s]
          <5> DEFINE s == IF lease[p] # NoLease THEN "unseen"
                          ELSE IF seen[i][p] = "unseen" THEN "seen" ELSE seen[i][p]
          <5>1. s \in {"unseen", "seen", "orphaned"}
            BY DEF BaseOK, StateTypeOK
          <5>2. seen' = [seen EXCEPT ![i][p] = s]
            BY <1>2 DEF Consider, BaseOK, StateTypeOK
          <5> QED BY <5>1, <5>2
        <4>2. seen \in [Instances -> [Phones -> {"unseen", "seen", "orphaned"}]]
          BY DEF BaseOK, StateTypeOK
        <4> QED BY <4>1, <4>2
      <3> QED BY <1>2, <3>1, <3>2 DEF Consider, redis, health, BaseOK, StateTypeOK
    <2>2. CASE UNCHANGED op
      BY <1>2, <2>1, <2>2, ThreadsStill DEF Consider
    <2>3. CASE Goto(<<"claim", i, p>>, "paired")
      <3>1. "claim" \in Tasks /\ "paired" \in PcsOf("claim")
        BY DEF Tasks, PcsOf
      <3> QED BY <1>2, <2>1, <2>3, <3>1, TaskIs, ThreadStarts DEF Consider
    <2> QED BY <1>2, <2>2, <2>3 DEF Consider
  <1>3. CASE NextPhase(i)
    BY <1>3, NextPhaseBase
  <1>4. CASE BeginRenew(i)
    <2>1. todo' \in [Instances -> [{"claim", "renew", "stop"} -> SUBSET Phones]]
      <3>1. Registered(i) \in SUBSET Phones
        BY DEF Registered
      <3>2. UNCHANGED todo \/ todo' = [todo EXCEPT ![i].renew = Registered(i)]
        BY <1>4 DEF BeginRenew
      <3>3. UNCHANGED todo => todo' \in [Instances -> [{"claim", "renew", "stop"} -> SUBSET Phones]]
        BY DEF BaseOK, StateTypeOK
      <3> QED BY <3>1, <3>2, <3>3, TodoTypes
    <2>2. degraded' \in [Instances -> BOOLEAN]
      BY <1>4 DEF BeginRenew, BaseOK, StateTypeOK
    <2>3. StateTypeOK'
      BY <1>4, <2>1, <2>2 DEF BeginRenew, redis, BaseOK, StateTypeOK
    <2> QED BY <1>4, <2>3, ThreadsStill DEF BeginRenew
  <1>5. CASE RenewFails(i)
    BY <1>5, RenewFailsBase
  <1>6. ASSUME NEW p \in Phones, Renew(i, p) PROVE BaseOK'
    <2> DEFINE t == <<"renew", i, p>>
    <2>1. StateTypeOK'
      <3>1. todo' \in [Instances -> [{"claim", "renew", "stop"} -> SUBSET Phones]]
        <4>1. todo[i].renew \ {p} \in SUBSET Phones
          BY DEF BaseOK, StateTypeOK
        <4>2. todo' = [todo EXCEPT ![i].renew = todo[i].renew \ {p}]
          BY <1>6 DEF Renew, BaseOK, StateTypeOK
        <4> QED BY <4>1, <4>2, TodoTypes
      <3>2. held' \in [Instances -> [Phones -> Epochs]]
        <4>1. UNCHANGED held \/ held' = [held EXCEPT ![i][p] = 0]
          BY <1>6 DEF Renew, Fence
        <4>2. 0 \in Epochs
          BY DEF Epochs
        <4>3. held \in [Instances -> [Phones -> Epochs]]
          BY DEF BaseOK, StateTypeOK
        <4> QED BY <4>1, <4>2, <4>3
      <3>3. degraded' \in [Instances -> BOOLEAN]
        BY <1>6 DEF Renew, BaseOK, StateTypeOK
      <3> QED BY <1>6, <3>1, <3>2, <3>3 DEF Renew, redis, BaseOK, StateTypeOK
    <2>2. "renew" \in Tasks /\ {"set", "enter"} \subseteq PcsOf("renew")
          /\ "renew" \notin ConnectKinds
      BY DEF Tasks, PcsOf, ConnectKinds
    <2>3. UNCHANGED conn /\ (UNCHANGED op \/ Goto(t, "set") \/ Goto(t, "enter"))
      BY <1>6 DEF Renew, Fence
    <2>4. CASE UNCHANGED op
      BY <2>1, <2>3, <2>4, ThreadsStill
    <2>5. CASE Goto(t, "set")
      BY <2>1, <2>2, <2>3, <2>5, TaskIs, ThreadStarts
    <2>6. CASE Goto(t, "enter")
      BY <2>1, <2>2, <2>3, <2>6, TaskIs, ThreadStarts
    <2> QED BY <2>3, <2>4, <2>5, <2>6
  <1>7. CASE Announce(i)
    <2>1. StateTypeOK'
      BY <1>7 DEF Announce, Registered, BaseOK, StateTypeOK
    <2> QED BY <1>7, <2>1, ThreadsStill DEF Announce
  <1>8. CASE Exit(i)
    <2>1. registry' \in [Instances -> {"gone", "live", "draining"}] /\ left' \in 0..MaxDisturbed
      BY <1>8 DEF Exit, BaseOK, StateTypeOK
    <2> QED BY <1>8, <2>1, DieBase DEF Exit
  <1>9. ASSUME NEW p \in Phones, StopNext(i, p) PROVE BaseOK'
    <2>1. StateTypeOK'
      BY <1>9 DEF StopNext, redis, health, BaseOK, StateTypeOK
    <2>2. "stop" \in Tasks /\ "enter" \in PcsOf("stop") /\ "stop" \notin ConnectKinds
      BY DEF Tasks, PcsOf, ConnectKinds
    <2> QED BY <1>9, <2>1, <2>2, TaskIs, ThreadStarts DEF StopNext
  <1> QED BY <1>1, <1>2, <1>3, <1>4, <1>5, <1>6, <1>7, <1>8, <1>9
          DEF ClaimLoop, RenewLoop, StopLoop

\* What goes wrong once is one disturbance fewer.
LEMMA DisturbTypes ==
  ASSUME BaseOK, NEW hit, NEW kind, DisturbIn(hit, kind)
  PROVE  left' \in 0..MaxDisturbed
  BY BoundsAssumption DEF DisturbIn, BaseOK, StateTypeOK

\* A lease that runs out leaves the state well formed.
LEMMA RunOutBase ==
  ASSUME BaseOK, NEW p \in Phones, RunOut(p), left' \in 0..MaxDisturbed
  PROVE  BaseOK'
  <1>1. overdue' \subseteq Instances \X Phones
    <2>1. lease[p].owner \in Instances
      BY DEF RunOut, Lease, BaseOK, StateTypeOK
    <2> QED BY <2>1 DEF RunOut, BaseOK, StateTypeOK
  <1>2. StateTypeOK'
    BY <1>1 DEF RunOut, health, loops, BaseOK, StateTypeOK
  <1> QED BY <1>2, ThreadsStill DEF RunOut

\* So does a request that starts.
LEMMA RequestStarts ==
  ASSUME BaseOK, NEW r \in Requests, NEW i \in Instances, NEW p \in Phones, NEW k \in Kinds,
         Start(r, i, p, k)
  PROVE  BaseOK'
  <1>1. StateTypeOK'
    BY DEF Start, redis, health, loops, BaseOK, StateTypeOK
  <1> DEFINE o == [pc |-> "set", kind |-> k, i |-> i, p |-> p, epoch |-> 0]
  <1>2. r \in Threads
    BY DEF Threads
  <1>3. k \in AllKinds
    BY KindsAssumption
  <1>4. Working(r, o)
    <2>1. o \in Op
      BY <1>3 DEF Op, Pcs, Epochs
    <2>2. k # "claim"
      BY <1>3 DEF AllKinds
    <2>3. "set" \in PcsOf(k)
      BY <1>3 DEF PcsOf, AllKinds
    <2>4. ~ Granted(o)
      BY DEF Granted
    <2> QED BY <1>3, <2>1, <2>3, <2>4 DEF Working
  <1>5. op' = [op EXCEPT ![r] = o]
    BY DEF Start
  <1>6. o.pc = "set"
    OBVIOUS
  <1> HIDE DEF o
  <1>7. op' = [t \in Threads |-> op'[t]] /\ \A t \in Threads : op'[t] = IF t = r THEN o ELSE op[t]
    BY <1>2, <1>5 DEF BaseOK, ThreadsOK
  <1>8. ThreadsOK'
    BY <1>4, <1>7 DEF BaseOK, ThreadsOK, ThreadOK
  <1>9. ConnGranted' /\ UNCHANGED conn
    BY DEF Start, BaseOK, ConnGranted
  <1>10. \A t \in Threads : op'[t].pc \in {"spawning", "logout"} => op'[t] = op[t]
    BY <1>6, <1>7
  <1> QED BY <1>1, <1>8, <1>9, <1>10, SlotsKept

\* So does whatever goes wrong, and what clients and users do.
LEMMA EnvironmentBase ==
  ASSUME BaseOK, Environment
  PROVE  BaseOK'
  <1>1. ASSUME NEW t \in Threads, SpawnFails(t) \/ Rejected(t) PROVE BaseOK'
    BY <1>1, StepBase
  <1>2. ASSUME NEW p \in Phones, SlowLapse(p) PROVE BaseOK'
    <2>1. left' \in 0..MaxDisturbed
      BY <1>2, DisturbTypes DEF SlowLapse, Disturb
    <2> QED BY <1>2, <2>1, RunOutBase DEF SlowLapse
  <1>3. ASSUME NEW i \in Instances, Shutdown(i) PROVE BaseOK'
    <2>1. StateTypeOK'
      BY <1>3, DisturbTypes DEF Shutdown, Disturb, redis, loops, BaseOK, StateTypeOK
    <2> QED BY <1>3, <2>1, ThreadsStill DEF Shutdown
  <1>4. ASSUME NEW i \in Instances, Disconnect(i) PROVE BaseOK'
    <2>1. StateTypeOK'
      BY <1>4, DisturbTypes DEF Disconnect, Disturb, redis, loops, BaseOK, StateTypeOK
    <2> QED BY <1>4, <2>1, ThreadsStill DEF Disconnect
  <1>5. ASSUME NEW i \in Instances, Crash(i) PROVE BaseOK'
    <2>1. registry' \in [Instances -> {"gone", "live", "draining"}] /\ left' \in 0..MaxDisturbed
      BY <1>5, DisturbTypes DEF Crash, BaseOK, StateTypeOK
    <2> QED BY <1>5, <2>1, DieBase DEF Crash
  <1>6. ASSUME NEW i \in Instances, NEW p \in Phones, StartMove(i, p) PROVE BaseOK'
    <2>1. StateTypeOK'
      BY <1>6, DisturbTypes DEF StartMove, Disturb, redis, health, BaseOK, StateTypeOK
    <2>2. "move" \in Tasks /\ "enter" \in PcsOf("move") /\ "move" \notin ConnectKinds
      BY DEF Tasks, PcsOf, ConnectKinds
    <2> QED BY <1>6, <2>1, <2>2, TaskIs, ThreadStarts DEF StartMove
  <1>7. ASSUME NEW i \in Instances, NEW p \in Phones,
               GiveUp(i, p) \/ Replaced(i, p) \/ Unlinked(i, p)
        PROVE  BaseOK'
    <2>1. LiveEvent(i, p) /\ conn' = [conn EXCEPT ![i][p] = NoConn] /\ UNCHANGED op
      BY <1>7 DEF GiveUp, Replaced, Unlinked
    <2>2. conn' \in [Instances -> [Phones -> Connection \cup {NoConn}]]
      BY <2>1 DEF BaseOK, StateTypeOK
    <2>3. left' \in 0..MaxDisturbed
      BY <1>7, DisturbTypes DEF GiveUp, Replaced, Unlinked, Disturb, BaseOK, StateTypeOK
    <2>4. auth' \in [Phones -> {"none", "unpaired", "paired"}]
          /\ quarantined' \in [Phones -> BOOLEAN]
      BY <1>7 DEF GiveUp, Replaced, Unlinked, redis, BaseOK, StateTypeOK
    <2>5. StateTypeOK'
      BY <1>7, <2>2, <2>3, <2>4
         DEF GiveUp, Replaced, Unlinked, redis, health, loops, BaseOK, StateTypeOK
    <2>6. ThreadsOK'
      BY <2>1 DEF BaseOK, ThreadsOK, ThreadOK
    <2> QED BY <2>1, <2>5, <2>6, ConnGoes
  <1>8. ASSUME NEW i \in Instances, NEW p \in Phones, Pair(i, p) PROVE BaseOK'
    <2>1. StateTypeOK'
      BY <1>8 DEF Pair, health, loops, BaseOK, StateTypeOK
    <2> QED BY <1>8, <2>1, ThreadsStill DEF Pair
  <1>9. ASSUME NEW i \in Instances, NEW p \in Phones, RebuildFails(i, p) PROVE BaseOK'
    <2> DEFINE t == <<"lost", i, p>>
               e == conn[i][p].epoch
    <2>1. /\ t \in Threads /\ t \notin Requests /\ op[t].kind = "lost"
          /\ "release" \in PcsOf("lost")
      BY TaskIs DEF Tasks, PcsOf
    <2>2. LiveEvent(i, p) /\ conn[i][p] # NoConn /\ conn' = [conn EXCEPT ![i][p] = NoConn]
      BY <1>9 DEF RebuildFails, LiveEvent
    <2>3. e \in Nat /\ e > 0
      BY <2>2 DEF BaseOK, StateTypeOK, ConnGranted, Connection, Epochs
    <2>4. Moves(t, "release", e)
      <3>1. op' = [op EXCEPT ![t].pc = "release", ![t].epoch = e]
        BY <1>9 DEF RebuildFails, AbandonLease
      <3> HIDE DEF t
      <3> QED BY <2>1, <3>1, GrantMoves DEF BaseOK
    <2>5. ThreadsOK'
      BY <2>1, <2>3, <2>4, MovesSound DEF BaseOK
    <2>6. held' \in [Instances -> [Phones -> Epochs]]
      <3>1. 0 \in Epochs
        BY DEF Epochs
      <3>2. held' = [held EXCEPT ![i][p] = IF held[i][p] = e THEN 0 ELSE held[i][p]]
        BY <1>9 DEF RebuildFails, AbandonLease, BaseOK, StateTypeOK
      <3>3. held \in [Instances -> [Phones -> Epochs]]
        BY DEF BaseOK, StateTypeOK
      <3> QED BY <3>1, <3>2, <3>3
    <2>7. conn' \in [Instances -> [Phones -> Connection \cup {NoConn}]]
      BY <2>2 DEF BaseOK, StateTypeOK
    <2>8. left' \in 0..MaxDisturbed
      BY <1>9, DisturbTypes DEF RebuildFails, Disturb
    <2>9. StateTypeOK'
      BY <1>9, <2>6, <2>7, <2>8 DEF RebuildFails, redis, health, loops, BaseOK, StateTypeOK
    <2>10. \A u \in Threads : op'[u].pc \in {"spawning", "logout"} => op'[u] = op[u]
      BY <2>4 DEF Moves, Others
    <2> QED BY <2>2, <2>5, <2>9, <2>10, ConnGoes
  <1>10. ASSUME NEW r \in Requests, NEW i \in Instances, NEW p \in Phones, NEW k \in Kinds,
                Start(r, i, p, k)
         PROVE  BaseOK'
    BY <1>10, RequestStarts
  <1> QED BY <1>1, <1>2, <1>3, <1>4, <1>5, <1>6, <1>7, <1>8, <1>9, <1>10 DEF Environment

\* So do the clocks.
LEMMA ClocksBase ==
  ASSUME BaseOK, Clocks
  PROVE  BaseOK'
  <1>1. ASSUME NEW p \in Phones, Lapse(p) PROVE BaseOK'
    <2>1. left' \in 0..MaxDisturbed
      BY <1>1 DEF Lapse, BaseOK, StateTypeOK
    <2> QED BY <1>1, <2>1, RunOutBase DEF Lapse
  <1>2. ASSUME NEW p \in Phones, Expires(p) PROVE BaseOK'
    <2>1. StateTypeOK'
      BY <1>2 DEF Expires, health, loops, BaseOK, StateTypeOK
    <2> QED BY <1>2, <2>1, ThreadsStill DEF Expires
  <1>3. ASSUME NEW i \in Instances, Heartbeat(i) \/ RegistryExpires(i) PROVE BaseOK'
    <2>1. StateTypeOK'
      BY <1>3 DEF Heartbeat, RegistryExpires, health, loops, BaseOK, StateTypeOK
    <2> QED BY <1>3, <2>1, ThreadsStill DEF Heartbeat, RegistryExpires
  <1>4. ASSUME NEW i \in Instances, Restart(i) \/ Reconnect(i) PROVE BaseOK'
    <2>1. StateTypeOK'
      BY <1>4 DEF Restart, Reconnect, redis, loops, BaseOK, StateTypeOK
    <2> QED BY <1>4, <2>1, ThreadsStill DEF Restart, Reconnect
  <1>5. ASSUME NEW i \in Instances, NEW p \in Phones, Orphaned(i, p) PROVE BaseOK'
    <2>1. StateTypeOK'
      BY <1>5 DEF Orphaned, redis, health, BaseOK, StateTypeOK
    <2> QED BY <1>5, <2>1, ThreadsStill DEF Orphaned
  <1> QED BY <1>1, <1>2, <1>3, <1>4, <1>5 DEF Clocks

\* The state is well formed when the instances start.
LEMMA InitBase == Init => BaseOK
  <1> SUFFICES ASSUME Init PROVE BaseOK
    OBVIOUS
  <1> USE DEF Init, AtRest, Unowned
  <1>1. 0 \in 0..Cardinality(Phones) /\ 0 \in Epochs
    BY SizesAssumption, FS_CardinalityType DEF Epochs
  <1>2. /\ lease \in [Phones -> Lease \cup {NoLease}]
        /\ overdue \subseteq Instances \X Phones
        /\ auth \in [Phones -> {"none", "unpaired", "paired"}]
        /\ quarantined \in [Phones -> BOOLEAN]
        /\ handoff \in [Phones -> Instances \cup {Nobody}]
        /\ cooldown \in [Phones -> Instances \cup {Nobody}]
        /\ registry \in [Instances -> {"gone", "live", "draining"}]
    OBVIOUS
  <1>3. /\ status \in [Instances -> {"running", "announcing", "draining", "down"}]
        /\ reachable \in [Instances -> BOOLEAN]
        /\ degraded \in [Instances -> BOOLEAN]
        /\ held \in [Instances -> [Phones -> Epochs]]
        /\ seen \in [Instances -> [Phones -> {"unseen", "seen", "orphaned"}]]
        /\ conn \in [Instances -> [Phones -> Connection \cup {NoConn}]]
    BY <1>1
  <1>4. /\ phase \in [Instances -> {"idle", "scan", "connect", "move"}]
        /\ share \in [Instances -> 0..Cardinality(Phones)]
        /\ todo \in [Instances -> [{"claim", "renew", "stop"} -> SUBSET Phones]]
        /\ left \in 0..MaxDisturbed
    BY <1>1, BoundsAssumption
  <1>5. StateTypeOK
    BY <1>2, <1>3, <1>4 DEF StateTypeOK
  <1>6. ThreadsOK
    BY DEF ThreadsOK, ThreadOK, Waiting, Resting
  <1>7. ConnGranted
    BY DEF ConnGranted
  <1>8. \A t \in Threads : op[t].pc \notin {"spawning", "logout"}
    BY DEF Unborn, Idle
  <1> QED BY <1>5, <1>6, <1>7, <1>8 DEF BaseOK, SlotsHeld, InSlot

\* It stays well formed.
LEMMA NextBase ==
  ASSUME BaseOK, [Next]_vars
  PROVE  BaseOK'
  <1>1. CASE UNCHANGED vars
    <2>1. StateTypeOK' /\ UNCHANGED <<op, conn>>
      BY <1>1 DEF vars, redis, health, loops, BaseOK, StateTypeOK
    <2> QED BY <2>1, ThreadsStill
  <1>2. CASE Next
    BY <1>2, StepBase, LoopsBase, EnvironmentBase, ClocksBase DEF Next
  <1> QED BY <1>1, <1>2

\* A well-formed state is the type invariant of the specification.
LEMMA BaseTypeOK == BaseOK => TypeOK
  <1> SUFFICES ASSUME BaseOK PROVE TypeOK
    OBVIOUS
  <1>1. ASSUME NEW t \in Threads
        PROVE  IF Active(t) THEN op[t] \in Op /\ (op[t].pc = "release" => op[t].epoch > 0)
               ELSE op[t] \in {Unborn, Resting(t)}
    <2>1. CASE Active(t)
      BY <2>1, WorkingOrWaiting DEF BaseOK, ThreadsOK, Working, Granted
    <2>2. CASE ~ Active(t)
      BY <2>2, WorkingOrWaiting DEF BaseOK, ThreadsOK, Waiting
    <2> QED BY <2>1, <2>2
  <1> QED BY <1>1 DEF BaseOK, StateTypeOK, TypeOK

\* What the coordinator keeps in Redis and in memory stays well formed, and
\* whoever is about to release a lease knows the epoch to release: for any
\* number of instances, phones and requests, and whatever goes wrong.
THEOREM CoordinatorTypeCorrect == Spec => []TypeOK
  <1>1. BaseOK /\ [Next]_vars => BaseOK'
    BY NextBase
  <1>2. Spec => []BaseOK
    BY <1>1, InitBase, PTL DEF Spec
  <1> QED BY <1>2, BaseTypeOK, PTL

-----------------------------------------------------------------------------
(* The claim tick *)

ClaimAt(i, p) == op[<<"claim", i, p>>].pc
MoveAt(i, p) == op[<<"move", i, p>>].pc

\* The tick has one phase at a time: candidates are looked at and claimed in the
\* scan, reconnected once it is over, and a rebalance runs with no claim about.
\* A candidate that is still to be looked at has not been claimed.
TickOK(i, p) ==
  /\ phase[i] \in {"idle", "move"} => ClaimAt(i, p) = "idle"
  /\ phase[i] # "move" => MoveAt(i, p) = "idle"
  /\ phase[i] = "scan" => ClaimAt(i, p) \in {"idle", "paired", "set", "claimed"}
  /\ phase[i] = "connect" => ClaimAt(i, p) \notin {"paired", "set", "claimed"}
  /\ p \in todo[i].claim => phase[i] = "scan" /\ ClaimAt(i, p) = "idle"

TicksOK == \A i \in Instances, p \in Phones : TickOK(i, p)

\* A task is idle exactly when it is not active.
LEMMA TaskIdle ==
  ASSUME BaseOK, NEW k \in Tasks, NEW i \in Instances, NEW p \in Phones
  PROVE  op[<<k, i, p>>].pc = "idle" <=> ~ Active(<<k, i, p>>)
  <1> DEFINE t == <<k, i, p>>
  <1>1. t \in Threads /\ t \notin Requests
    BY TaskIs
  <1> HIDE DEF t
  <1>2. ~ Active(t) => op[t] = Idle(t)
    BY <1>1, WorkingOrWaiting DEF BaseOK, ThreadsOK, Waiting, Resting
  <1>3. Idle(t).pc = "idle"
    BY DEF Idle
  <1>4. op[t].pc = "idle" <=> ~ Active(t)
    BY <1>2, <1>3 DEF Active
  <1> QED BY <1>4 DEF t

\* A step that is not about the tick's phase, its list and its claims keeps it in order.
LEMMA TickStill ==
  ASSUME NEW i \in Instances, NEW p \in Phones, TickOK(i, p),
         phase'[i] = phase[i], todo'[i].claim \subseteq todo[i].claim,
         ClaimAt(i, p)' = ClaimAt(i, p), MoveAt(i, p)' = MoveAt(i, p)
  PROVE  TickOK(i, p)'
  BY DEF TickOK

\* A thread's own step takes a claim on in order, or to rest.
LEMMA StepTicks ==
  ASSUME BaseOK, TicksOK, NEW t \in Threads, Step(t) \/ SpawnFails(t) \/ Rejected(t)
  PROVE  TicksOK'
  <1>1. Active(t) /\ (GoesOn(t) \/ Rests(t))
    BY StepThreads DEF BaseOK
  <1>2. UNCHANGED <<phase, todo>>
    BY DEF Step, ClaimSet, RenewSet, ForceSet, Release, Lookup, CheckPaired,
       GiveBack, WakeClaim, Steer, EnterConnect, Opened, EnterDiscard, EnterLogout,
       ClearedAuth, Inspect, Clear, Seed, Finally, SpawnFails, Rejected, loops
  <1>3. ASSUME NEW i \in Instances, NEW p \in Phones PROVE TickOK(i, p)'
    <2>1. TickOK(i, p)
      BY DEF TicksOK
    <2> DEFINE c == <<"claim", i, p>>
               m == <<"move", i, p>>
    <2>2. /\ c \in Threads /\ m \in Threads /\ c # m
          /\ c \notin Requests /\ m \notin Requests /\ op[c].kind = "claim"
      BY TaskIs DEF Tasks
    <2>3. (op[c].pc = "idle" <=> ~Active(c)) /\ (op[m].pc = "idle" <=> ~Active(m))
      BY TaskIdle DEF Tasks
    <2>4. \A u \in Threads : u # t => op'[u] = op[u]
      BY <1>1 DEF GoesOn, Moves, Rests, Others
    <2>5. ClaimAt(i, p) = op[c].pc /\ MoveAt(i, p) = op[m].pc
          /\ ClaimAt(i, p)' = op'[c].pc /\ MoveAt(i, p)' = op'[m].pc
      BY DEF ClaimAt, MoveAt
    <2> HIDE DEF c, m
    <2>6. CASE t # c /\ t # m
      BY <1>2, <2>1, <2>2, <2>4, <2>5, <2>6, TickStill
    <2>7. CASE t = c
      <3>1. op[c].pc # "idle"
        BY <1>1, <2>3, <2>7
      <3>2. CASE Rests(t)
        <4>1. op'[c].pc = "idle"
          BY <2>2, <2>7, <3>2 DEF Rests, Resting, Idle
        <4> QED BY <1>2, <2>1, <2>2, <2>4, <2>5, <2>7, <3>1, <4>1 DEF TickOK
      <3>3. CASE GoesOn(t)
        <4>1. PICK pc \in PcsOf(op[t].kind), e \in Nat :
                Moves(t, pc, e) /\ InOrder(op[t].kind, op[t].pc, pc)
          BY <3>3 DEF GoesOn
        <4>2. op'[c].pc = pc /\ InOrder("claim", op[c].pc, pc)
          BY <2>2, <2>7, <4>1 DEF Moves
        <4>3. MoveAt(i, p)' = MoveAt(i, p)
          BY <2>2, <2>4, <2>5, <2>7
        <4> QED BY <1>2, <2>1, <2>5, <3>1, <4>2, <4>3 DEF TickOK, InOrder
      <3> QED BY <1>1, <3>2, <3>3
    <2>8. CASE t = m
      <3>1. op[m].pc # "idle" /\ op'[c].pc = op[c].pc
        BY <1>1, <2>2, <2>3, <2>4, <2>8
      <3> QED BY <1>2, <2>1, <2>5, <3>1 DEF TickOK
    <2> QED BY <2>6, <2>7, <2>8
  <1> QED BY <1>3 DEF TicksOK

\* The tick of a process that goes goes with it.
LEMMA DieTicks ==
  ASSUME BaseOK, TicksOK, NEW i \in Instances, Die(i)
  PROVE  TicksOK'
  <1>1. \A j \in Instances : phase'[j] = IF j = i THEN "idle" ELSE phase[j]
    BY DEF Die, BaseOK, StateTypeOK
  <1>2. /\ todo'[i].claim = {}
        /\ \A j \in Instances : j # i => todo'[j] = todo[j]
    BY DEF Die, BaseOK, StateTypeOK
  <1>3. ASSUME NEW k \in Tasks, NEW j \in Instances, NEW p \in Phones
        PROVE  op'[<<k, j, p>>].pc = IF j = i THEN "idle" ELSE op[<<k, j, p>>].pc
    <2> DEFINE t == <<k, j, p>>
    <2>1. t \in Threads /\ t \notin Requests /\ op[t].i = j
      BY TaskIs
    <2>2. op[t].pc = "idle" <=> ~ Active(t)
      BY TaskIdle
    <2> HIDE DEF t
    <2>3. Resting(t).pc = "idle"
      BY <2>1 DEF Resting, Idle
    <2>4. op'[t] = IF Active(t) /\ op[t].i = i THEN Resting(t) ELSE op[t]
      BY <2>1 DEF Die
    <2>5. op'[t].pc = IF j = i THEN "idle" ELSE op[t].pc
      BY <2>1, <2>2, <2>3, <2>4
    <2> QED BY <2>5 DEF t
  <1>4. ASSUME NEW j \in Instances, NEW p \in Phones PROVE TickOK(j, p)'
    <2>1. /\ ClaimAt(j, p)' = IF j = i THEN "idle" ELSE ClaimAt(j, p)
          /\ MoveAt(j, p)' = IF j = i THEN "idle" ELSE MoveAt(j, p)
      BY <1>3 DEF ClaimAt, MoveAt, Tasks
    <2>2. TickOK(j, p)
      BY DEF TicksOK
    <2>3. CASE j = i
      BY <1>1, <1>2, <2>1, <2>3 DEF TickOK
    <2>4. CASE j # i
      BY <1>1, <1>2, <2>1, <2>2, <2>4, TickStill
    <2> QED BY <2>3, <2>4
  <1> QED BY <1>4 DEF TicksOK

\* Nothing happens to the tick.
LEMMA TicksStill ==
  ASSUME TicksOK, UNCHANGED phase, \A i \in Instances : todo'[i].claim \subseteq todo[i].claim,
         \A i \in Instances, p \in Phones :
           ClaimAt(i, p)' = ClaimAt(i, p) /\ MoveAt(i, p)' = MoveAt(i, p)
  PROVE  TicksOK'
  BY TickStill DEF TicksOK

\* A task of another loop sets off without disturbing the tick.
LEMMA OtherStarts ==
  ASSUME BaseOK, NEW t \in Threads, Others(t), NEW i \in Instances, NEW p \in Phones,
         t # <<"claim", i, p>>, t # <<"move", i, p>>
  PROVE  ClaimAt(i, p)' = ClaimAt(i, p) /\ MoveAt(i, p)' = MoveAt(i, p)
  <1>1. <<"claim", i, p>> \in Threads /\ <<"move", i, p>> \in Threads
    BY TaskIs DEF Tasks
  <1> QED BY <1>1 DEF Others, ClaimAt, MoveAt

\* The other lists of an instance do not matter to the claim tick.
LEMMA OtherLists ==
  ASSUME BaseOK, NEW i \in Instances, NEW S,
         todo' = [todo EXCEPT ![i].renew = S] \/ todo' = [todo EXCEPT ![i].stop = S]
  PROVE  \A j \in Instances : todo'[j].claim = todo[j].claim
  <1> DEFINE T == [{"claim", "renew", "stop"} -> SUBSET Phones]
  <1>1. todo \in [Instances -> T]
    BY DEF BaseOK, StateTypeOK
  <1>2. todo'[i] = [todo[i] EXCEPT !.renew = S] \/ todo'[i] = [todo[i] EXCEPT !.stop = S]
    BY <1>1
  <1>3. \A j \in Instances : j # i => todo'[j] = todo[j]
    BY <1>1
  <1>4. todo'[i].claim = todo[i].claim
    BY <1>1, <1>2
  <1> QED BY <1>3, <1>4

\* The tick goes from phase to phase in order.
LEMMA NextPhaseTicks ==
  ASSUME BaseOK, TicksOK, NEW i \in Instances, NextPhase(i)
  PROVE  TicksOK'
  <1>1. ASSUME NEW k \in Tasks, NEW j \in Instances, NEW p \in Phones
        PROVE  \/ op'[<<k, j, p>>] = op[<<k, j, p>>]
                    /\ ~ (k = "claim" /\ j = i /\ op[<<k, j, p>>].pc = "claimed")
               \/ /\ k = "claim" /\ j = i /\ op[<<k, j, p>>].pc = "claimed"
                  /\ op'[<<k, j, p>>].pc \in {"giveback", "sleep"}
    <2> DEFINE t == <<k, j, p>>
    <2>1. t \in Threads /\ op[t].kind = k /\ op[t].i = j /\ t \notin Requests
      BY TaskIs
    <2> HIDE DEF t
    <2>2. CASE Active(t) /\ op[t].i = i /\ op[t].pc = "claimed"
      <3>1. Working(t, op[t])
        BY <2>1, <2>2, WorkingOrWaiting DEF BaseOK, ThreadsOK
      <3>2. k = "claim" /\ j = i
        BY <2>1, <2>2, <3>1 DEF Working, PcsOf, Tasks
      <3>3. op'[t] = [op[t] EXCEPT !.pc = IF Draining(i) THEN "giveback" ELSE "sleep"]
        BY <2>1, <2>2 DEF NextPhase
      <3>4. op'[t].pc \in {"giveback", "sleep"}
        BY <3>1, <3>3 DEF Working, Op
      <3> QED BY <2>2, <3>2, <3>4 DEF t
    <2>3. CASE ~ (Active(t) /\ op[t].i = i /\ op[t].pc = "claimed")
      BY <2>1, <2>3 DEF NextPhase, Active, t
    <2> QED BY <2>2, <2>3
  <1>2. phase' = [phase EXCEPT ![i] = IF phase[i] = "scan" /\ Claimed(i) # {}
                                     THEN "connect" ELSE "idle"]
    BY DEF NextPhase
  <1>3. todo'[i].claim = {} /\ \A j \in Instances : j # i => todo'[j] = todo[j]
    BY DEF NextPhase, BaseOK, StateTypeOK
  <1>4. ASSUME NEW j \in Instances, NEW p \in Phones, j # i PROVE TickOK(j, p)'
    <2>1. ClaimAt(j, p)' = ClaimAt(j, p) /\ MoveAt(j, p)' = MoveAt(j, p)
      BY <1>1, <1>4 DEF ClaimAt, MoveAt, Tasks
    <2> QED BY <1>2, <1>3, <1>4, <2>1, TickStill DEF TicksOK, BaseOK, StateTypeOK
  <1>5. ASSUME NEW p \in Phones PROVE TickOK(i, p)'
    <2>1. /\ MoveAt(i, p)' = MoveAt(i, p)
          /\ \/ ClaimAt(i, p)' = ClaimAt(i, p) /\ ClaimAt(i, p) # "claimed"
             \/ ClaimAt(i, p) = "claimed" /\ ClaimAt(i, p)' \in {"giveback", "sleep"}
      BY <1>1 DEF ClaimAt, MoveAt, Tasks
    <2>2. phase'[i] = IF phase[i] = "scan" /\ Claimed(i) # {} THEN "connect" ELSE "idle"
      BY <1>2 DEF BaseOK, StateTypeOK
    <2>3. TickOK(i, p)
      BY DEF TicksOK
    <2>4. /\ ClaimAt(i, p) = "idle" <=> ~Active(<<"claim", i, p>>)
          /\ MoveAt(i, p) = "idle" <=> ~Active(<<"move", i, p>>)
      BY TaskIdle DEF ClaimAt, MoveAt, Tasks
    <2>5. CASE phase[i] = "scan"
      <3>1. ClaimAt(i, p) \notin {"paired", "set"}
        BY <2>5 DEF NextPhase, TickPending, Scanning, ClaimAt
      <3>2. Claimed(i) = {} => ClaimAt(i, p) # "claimed"
        BY DEF Claimed, ClaimAt
      <3> QED BY <1>3, <2>1, <2>2, <2>3, <2>5, <3>1, <3>2 DEF TickOK
    <2>6. CASE phase[i] = "connect"
      <3>1. ClaimAt(i, p) = "idle"
        BY <2>4, <2>6 DEF NextPhase, TickPending
      <3> QED BY <1>3, <2>1, <2>2, <2>3, <2>6, <3>1 DEF TickOK
    <2>7. CASE phase[i] = "move"
      <3>1. MoveAt(i, p) = "idle"
        BY <2>4, <2>7 DEF NextPhase, TickPending
      <3> QED BY <1>3, <2>1, <2>2, <2>3, <2>7, <3>1 DEF TickOK
    <2> QED BY <2>5, <2>6, <2>7 DEF NextPhase, TickPending
  <1> QED BY <1>4, <1>5 DEF TicksOK

\* Every step of an instance's loops keeps the ticks in order.
LEMMA LoopsTicks ==
  ASSUME BaseOK, TicksOK, NEW i \in Instances, ClaimLoop(i) \/ RenewLoop(i) \/ StopLoop(i)
  PROVE  TicksOK'
  <1>1. CASE BeginScan(i)
    <2>1. UNCHANGED op /\ phase[i] = "idle"
      BY <1>1 DEF BeginScan
    <2>2. \A j \in Instances : phase'[j] = IF j = i THEN "scan" ELSE phase[j]
      BY <1>1 DEF BeginScan, BaseOK, StateTypeOK
    <2>3. \A j \in Instances : j # i => todo'[j] = todo[j]
      BY <1>1 DEF BeginScan, BaseOK, StateTypeOK
    <2>4. ASSUME NEW j \in Instances, NEW p \in Phones PROVE TickOK(j, p)'
      <3>1. TickOK(j, p) /\ ClaimAt(j, p)' = ClaimAt(j, p) /\ MoveAt(j, p)' = MoveAt(j, p)
        BY <2>1 DEF TicksOK, ClaimAt, MoveAt
      <3>2. CASE j = i
        BY <2>1, <2>2, <3>1, <3>2 DEF TickOK
      <3>3. CASE j # i
        BY <2>2, <2>3, <3>1, <3>3, TickStill
      <3> QED BY <3>2, <3>3
    <2> QED BY <2>4 DEF TicksOK
  <1>2. ASSUME NEW p \in Phones, Consider(i, p) PROVE TicksOK'
    <2> DEFINE t == <<"claim", i, p>>
    <2>1. UNCHANGED phase /\ phase[i] = "scan" /\ p \in todo[i].claim
      BY <1>2 DEF Consider
    <2>2. /\ todo'[i].claim = todo[i].claim \ {p}
          /\ \A j \in Instances : j # i => todo'[j] = todo[j]
      BY <1>2 DEF Consider, BaseOK, StateTypeOK
    <2>3. UNCHANGED op \/ Moves(t, "paired", op[t].epoch)
      <3>1. t \in Threads /\ t \notin Requests
        BY TaskIs DEF Tasks
      <3>2. UNCHANGED op \/ Goto(t, "paired")
        BY <1>2 DEF Consider
      <3> HIDE DEF t
      <3> QED BY <3>1, <3>2, GotoMoves DEF Goto, BaseOK
    <2>4. CASE UNCHANGED op
      BY <2>1, <2>2, <2>4, TicksStill DEF ClaimAt, MoveAt
    <2>5. CASE Moves(t, "paired", op[t].epoch)
      <3>1. t \in Threads
        BY TaskIs DEF Tasks
      <3>2. ASSUME NEW j \in Instances, NEW q \in Phones, <<j, q>> # <<i, p>>
            PROVE  TickOK(j, q)'
        <4>1. t # <<"claim", j, q>> /\ t # <<"move", j, q>>
          BY <3>2
        <4>2. ClaimAt(j, q)' = ClaimAt(j, q) /\ MoveAt(j, q)' = MoveAt(j, q)
          <5> HIDE DEF t
          <5> QED BY <2>5, <3>1, <4>1, OtherStarts DEF Moves
        <4> QED BY <2>1, <2>2, <4>2, TickStill DEF TicksOK
      <3>3. TickOK(i, p)'
        <4>1. ClaimAt(i, p)' = "paired"
          BY <2>5 DEF Moves, ClaimAt
        <4>2. MoveAt(i, p)' = MoveAt(i, p)
          <5>1. <<"move", i, p>> \in Threads
            BY TaskIs DEF Tasks
          <5> QED BY <2>5, <5>1 DEF Moves, Others, MoveAt
        <4>3. TickOK(i, p)
          BY DEF TicksOK
        <4> QED BY <2>1, <2>2, <4>1, <4>2, <4>3 DEF TickOK
      <3> QED BY <3>2, <3>3 DEF TicksOK
    <2> QED BY <2>3, <2>4, <2>5
  <1>3. CASE NextPhase(i)
    BY <1>3, NextPhaseTicks
  <1>4. CASE BeginRenew(i) \/ Announce(i)
    <2>1. UNCHANGED <<op, phase>>
      BY <1>4 DEF BeginRenew, Announce
    <2>2. \A j \in Instances : todo'[j].claim = todo[j].claim
      BY <1>4, OtherLists DEF BeginRenew, Announce
    <2> QED BY <2>1, <2>2, TicksStill DEF ClaimAt, MoveAt
  <1>5. CASE RenewFails(i)
    <2>1. UNCHANGED phase
      BY <1>5 DEF RenewFails
    <2>2. \A j \in Instances : todo'[j].claim = todo[j].claim
      BY <1>5 DEF RenewFails, BaseOK, StateTypeOK
    <2>3. ASSUME NEW j \in Instances, NEW p \in Phones
          PROVE  op'[<<"claim", j, p>>] = op[<<"claim", j, p>>]
                 /\ op'[<<"move", j, p>>] = op[<<"move", j, p>>]
      <3>1. /\ <<"claim", j, p>> \in Threads /\ <<"move", j, p>> \in Threads
            /\ op[<<"claim", j, p>>].kind # "renew" /\ op[<<"move", j, p>>].kind # "renew"
        BY TaskIs DEF Tasks
      <3> QED BY <1>5, <3>1 DEF RenewFails
    <2> QED BY <2>1, <2>2, <2>3, TicksStill DEF ClaimAt, MoveAt
  <1>6. ASSUME NEW p \in Phones, Renew(i, p) \/ StopNext(i, p) PROVE TicksOK'
    <2>1. UNCHANGED phase
      BY <1>6 DEF Renew, StopNext
    <2>2. \A j \in Instances : todo'[j].claim = todo[j].claim
      <3>1. \/ todo' = [todo EXCEPT ![i].renew = todo[i].renew \ {p}]
            \/ todo' = [todo EXCEPT ![i].stop = todo[i].stop \ {p}]
        BY <1>6 DEF Renew, StopNext, BaseOK, StateTypeOK
      <3> QED BY <3>1, OtherLists
    <2>3. \E k \in {"renew", "stop"} : UNCHANGED op \/ \E pc : Goto(<<k, i, p>>, pc)
      BY <1>6 DEF Renew, StopNext, Fence
    <2>4. PICK k \in {"renew", "stop"} : UNCHANGED op \/ \E pc : Goto(<<k, i, p>>, pc)
      BY <2>3
    <2>5. ASSUME NEW j \in Instances, NEW q \in Phones
          PROVE  op'[<<"claim", j, q>>] = op[<<"claim", j, q>>]
                 /\ op'[<<"move", j, q>>] = op[<<"move", j, q>>]
      <3>1. <<"claim", j, q>> # <<k, i, p>> /\ <<"move", j, q>> # <<k, i, p>>
        OBVIOUS
      <3>2. <<"claim", j, q>> \in Threads /\ <<"move", j, q>> \in Threads
        BY TaskIs DEF Tasks
      <3> QED BY <2>4, <3>1, <3>2 DEF Goto, BaseOK, ThreadsOK
    <2> QED BY <2>1, <2>2, <2>5, TicksStill DEF ClaimAt, MoveAt
  <1>7. CASE Exit(i)
    BY <1>7, DieTicks DEF Exit
  <1> QED BY <1>1, <1>2, <1>3, <1>4, <1>5, <1>6, <1>7 DEF ClaimLoop, RenewLoop, StopLoop

\* So does everything that happens to the instances.
LEMMA EnvironmentTicks ==
  ASSUME BaseOK, TicksOK, Environment \/ Clocks
  PROVE  TicksOK'
  <1>1. ASSUME NEW t \in Threads, SpawnFails(t) \/ Rejected(t) PROVE TicksOK'
    BY <1>1, StepTicks
  <1>2. ASSUME NEW i \in Instances, Crash(i) PROVE TicksOK'
    BY <1>2, DieTicks DEF Crash
  <1>3. ASSUME NEW i \in Instances, NEW p \in Phones, StartMove(i, p) PROVE TicksOK'
    <2> DEFINE t == <<"move", i, p>>
    <2>1. phase[i] = "idle" /\ UNCHANGED todo
      BY <1>3 DEF StartMove
    <2>2. \A j \in Instances : phase'[j] = IF j = i THEN "move" ELSE phase[j]
      BY <1>3 DEF StartMove, BaseOK, StateTypeOK
    <2>3. /\ \A j \in Instances, q \in Phones : ClaimAt(j, q)' = ClaimAt(j, q)
          /\ \A j \in Instances, q \in Phones : j # i => MoveAt(j, q)' = MoveAt(j, q)
      <3>1. \A j \in Instances, q \in Phones : <<"claim", j, q>> # t
        OBVIOUS
      <3>2. \A j \in Instances, q \in Phones : j # i => <<"move", j, q>> # t
        OBVIOUS
      <3>3. Goto(t, "enter")
        BY <1>3 DEF StartMove
      <3> HIDE DEF t
      <3> QED BY <3>1, <3>2, <3>3 DEF Goto, ClaimAt, MoveAt
    <2> QED BY <2>1, <2>2, <2>3 DEF TicksOK, TickOK
  <1>4. ASSUME NEW i \in Instances, NEW p \in Phones, RebuildFails(i, p) PROVE TicksOK'
    <2> DEFINE t == <<"lost", i, p>>
    <2>1. UNCHANGED <<phase, todo>>
      BY <1>4 DEF RebuildFails, loops
    <2>2. \A j \in Instances, q \in Phones : <<"claim", j, q>> # t /\ <<"move", j, q>> # t
      OBVIOUS
    <2>3. \E pc, e : op' = [op EXCEPT ![t].pc = pc, ![t].epoch = e]
      BY <1>4 DEF RebuildFails, AbandonLease
    <2> HIDE DEF t
    <2>4. \A j \in Instances, q \in Phones :
            op'[<<"claim", j, q>>] = op[<<"claim", j, q>>]
              /\ op'[<<"move", j, q>>] = op[<<"move", j, q>>]
      <3>1. \A j \in Instances, q \in Phones :
              <<"claim", j, q>> \in Threads /\ <<"move", j, q>> \in Threads
        BY TaskIs DEF Tasks
      <3> QED BY <2>2, <2>3, <3>1 DEF BaseOK, ThreadsOK
    <2> QED BY <2>1, <2>4, TicksStill DEF ClaimAt, MoveAt
  <1>5. ASSUME NEW r \in Requests, NEW i \in Instances, NEW p \in Phones, NEW k \in Kinds,
               Start(r, i, p, k)
        PROVE  TicksOK'
    <2>1. UNCHANGED <<phase, todo>>
      BY <1>5 DEF Start, loops
    <2>2. \A j \in Instances, q \in Phones : <<"claim", j, q>> # r /\ <<"move", j, q>> # r
      BY TaskIs DEF Tasks
    <2>3. \E o : op' = [op EXCEPT ![r] = o]
      BY <1>5 DEF Start
    <2>4. \A j \in Instances, q \in Phones :
            op'[<<"claim", j, q>>] = op[<<"claim", j, q>>]
              /\ op'[<<"move", j, q>>] = op[<<"move", j, q>>]
      <3>1. \A j \in Instances, q \in Phones :
              <<"claim", j, q>> \in Threads /\ <<"move", j, q>> \in Threads
        BY TaskIs DEF Tasks
      <3> QED BY <2>2, <2>3, <3>1 DEF BaseOK, ThreadsOK
    <2> QED BY <2>1, <2>4, TicksStill DEF ClaimAt, MoveAt
  <1>6. ASSUME UNCHANGED <<op, phase, todo>> PROVE TicksOK'
    BY <1>6, TicksStill DEF ClaimAt, MoveAt
  <1>7. CASE Clocks
    BY <1>6, <1>7 DEF Clocks, Lapse, RunOut, Expires, Heartbeat, RegistryExpires, Restart, Reconnect,
       Orphaned, loops
  <1>8. CASE Environment
    BY <1>1, <1>2, <1>3, <1>4, <1>5, <1>6, <1>8 DEF Environment, SlowLapse, RunOut, Shutdown, Disconnect,
       GiveUp, Replaced, Unlinked, Pair, loops
  <1> QED BY <1>7, <1>8

\* The ticks stay in order.
LEMMA NextTicks ==
  ASSUME BaseOK, TicksOK, [Next]_vars
  PROVE  TicksOK'
  <1>1. CASE UNCHANGED vars
    BY <1>1, TicksStill DEF vars, loops, ClaimAt, MoveAt
  <1>2. CASE Next
    BY <1>2, StepTicks, LoopsTicks, EnvironmentTicks DEF Next
  <1> QED BY <1>1, <1>2

\* They are in order at first.
LEMMA InitTicks == Init => TicksOK
  <1> SUFFICES ASSUME Init, NEW i \in Instances, NEW p \in Phones PROVE TickOK(i, p)
    BY DEF TicksOK
  <1>1. \A k \in Tasks : <<k, i, p>> \in Threads /\ <<k, i, p>> \notin Requests
    BY InitBase, TaskIs
  <1>2. \A k \in Tasks : op[<<k, i, p>>].pc = "idle"
    BY <1>1 DEF Init, AtRest, Idle
  <1>3. phase[i] = "idle" /\ todo[i].claim = {}
    BY DEF Init, AtRest
  <1> QED BY <1>2, <1>3 DEF TickOK, ClaimAt, MoveAt, Tasks

-----------------------------------------------------------------------------
(* Rebalances *)

\* A claim between its gates and its SET.
AtGates(i, p) == ClaimAt(i, p) \in {"paired", "set"}

\* A phone that instance i is about to claim is not one that i has given away and
\* that is still cooling down.  A tombstone never names the instance that is
\* cooling down.
NotTakenBack ==
  /\ \A i \in Instances, p \in Phones : AtGates(i, p) => cooldown[p] # i
  /\ \A p \in Phones : cooldown[p] # Nobody => handoff[p] # cooldown[p]

\* With two instances, it is not one that a tombstone promises to the other.
NotPromised ==
  \A i \in Instances, p \in Phones : AtGates(i, p) => handoff[p] \in {i, Nobody}

\* There are at most two instances.
TwoInstances == \E a, b : Instances = {a, b}

GatesOK == NotTakenBack /\ (TwoInstances => NotPromised)

\* A step that writes no tombstone and no cooldown, and brings no claim to its gates,
\* keeps what the gates have seen.
LEMMA GatesStill ==
  ASSUME GatesOK, UNCHANGED <<handoff, cooldown>>,
         \A i \in Instances, p \in Phones : AtGates(i, p)' => AtGates(i, p)
  PROVE  GatesOK'
  BY DEF GatesOK, NotTakenBack, NotPromised

\* Only Consider brings a claim to the gates.
LEMMA StepGates ==
  ASSUME BaseOK, NEW t \in Threads, Step(t) \/ SpawnFails(t) \/ Rejected(t),
         NEW i \in Instances, NEW p \in Phones, AtGates(i, p)'
  PROVE  AtGates(i, p)
  <1> DEFINE c == <<"claim", i, p>>
  <1>1. Active(t) /\ (GoesOn(t) \/ Rests(t))
    BY StepThreads DEF BaseOK
  <1>2. c \in Threads /\ c \notin Requests /\ op[c].kind = "claim"
    BY TaskIs DEF Tasks
  <1>3. op'[c].pc \in {"paired", "set"}
    BY DEF AtGates, ClaimAt
  <1> HIDE DEF c
  <1>4. CASE t # c
    <2>1. op'[c] = op[c]
      BY <1>1, <1>2, <1>4 DEF GoesOn, Moves, Rests, Others
    <2> QED BY <1>3, <2>1 DEF AtGates, ClaimAt, c
  <1>5. CASE t = c
    <2>1. GoesOn(t)
      BY <1>1, <1>2, <1>3, <1>5 DEF Rests, Resting, Idle
    <2>2. PICK pc \in PcsOf(op[t].kind), e \in Nat :
            Moves(t, pc, e) /\ InOrder(op[t].kind, op[t].pc, pc)
      BY <2>1 DEF GoesOn
    <2>3. op[c].pc \in {"paired", "set"}
      BY <1>2, <1>3, <1>5, <2>2 DEF Moves, InOrder
    <2> QED BY <2>3 DEF AtGates, ClaimAt, c
  <1> QED BY <1>4, <1>5

\* setReleaseCooldown and setHandoffTarget.
LEMMA SteerGates ==
  ASSUME BaseOK, TicksOK, GatesOK, NEW t \in Threads, Steer(t)
  PROVE  GatesOK'
  <1> DEFINE m == op[t].i
             q == op[t].p
  <1>1. op[t].pc = "steer" /\ Active(t)
    BY DEF Steer, AtRedis, At, Active
  <1>2. m \in Instances /\ q \in Phones /\ t = <<"move", m, q>>
    <2>1. Working(t, op[t])
      BY <1>1, WorkingOrWaiting DEF BaseOK, ThreadsOK
    <2>2. op[t].kind = "move"
      BY <1>1, <2>1 DEF Working, Op, PcsOf, Tasks, AllKinds
    <2> QED BY <2>1, <2>2 DEF Working, Op, AllKinds
  <1>3. ~ AtGates(m, q)
    <2>1. MoveAt(m, q) = "steer"
      BY <1>1, <1>2 DEF MoveAt
    <2>2. ClaimAt(m, q) = "idle"
      BY <1>2, <2>1 DEF TicksOK, TickOK
    <2> QED BY <2>2 DEF AtGates
  <1>4. \A i \in Instances, p \in Phones : AtGates(i, p)' => AtGates(i, p)
    <2>1. Step(t)
      BY <1>1 DEF Step
    <2> QED BY <2>1, StepGates
  <1>5. /\ cooldown' = [cooldown EXCEPT ![q] = m]
        /\ \E j \in Instances \ {m} : handoff' = [handoff EXCEPT ![q] = j]
    BY DEF Steer
  <1>6. PICK j \in Instances \ {m} : handoff' = [handoff EXCEPT ![q] = j]
    BY <1>5
  <1>7. /\ \A p \in Phones : cooldown'[p] = IF p = q THEN m ELSE cooldown[p]
        /\ \A p \in Phones : handoff'[p] = IF p = q THEN j ELSE handoff[p]
    BY <1>5, <1>6 DEF BaseOK, StateTypeOK
  <1>8. NotTakenBack'
    BY <1>2, <1>3, <1>4, <1>6, <1>7 DEF GatesOK, NotTakenBack
  <1>9. ASSUME TwoInstances PROVE NotPromised'
    <2>1. PICK a, b : Instances = {a, b}
      BY <1>9 DEF TwoInstances
    <2>2. ASSUME NEW i \in Instances, NEW p \in Phones, AtGates(i, p)'
          PROVE  handoff'[p] \in {i, Nobody}
      <3>1. AtGates(i, p) /\ (p = q => i # m)
        BY <1>3, <1>4, <2>2
      <3>2. p = q => i = j
        BY <1>2, <1>6, <2>1, <3>1
      <3> QED BY <1>7, <1>9, <3>1, <3>2 DEF GatesOK, NotPromised
    <2> QED BY <2>2 DEF NotPromised
  <1> QED BY <1>8, <1>9 DEF GatesOK, TwoInstances

\* The gates themselves.
LEMMA ConsiderGates ==
  ASSUME BaseOK, GatesOK, NEW i \in Instances, NEW p \in Phones, Consider(i, p)
  PROVE  GatesOK'
  <1> DEFINE t == <<"claim", i, p>>
  <1>1. UNCHANGED <<handoff, cooldown>>
    BY DEF Consider, redis
  <1>2. UNCHANGED op \/ (PassesGates(i, p) /\ Goto(t, "paired"))
    BY DEF Consider
  <1>3. CASE UNCHANGED op
    BY <1>1, <1>3, GatesStill DEF AtGates, ClaimAt
  <1>4. CASE PassesGates(i, p) /\ Goto(t, "paired")
    <2>1. ASSUME NEW j \in Instances, NEW q \in Phones, <<j, q>> # <<i, p>>
          PROVE  AtGates(j, q)' = AtGates(j, q)
      <3>1. <<"claim", j, q>> # t
        BY <2>1
      <3>2. <<"claim", j, q>> \in Threads
        BY TaskIs DEF Tasks
      <3> HIDE DEF t
      <3> QED BY <1>4, <3>1, <3>2 DEF Goto, AtGates, ClaimAt, BaseOK, ThreadsOK
    <2>2. cooldown[p] # i /\ handoff[p] \in {i, Nobody}
      BY <1>4, NamesAssumption DEF PassesGates, GatesOK, NotTakenBack
    <2>3. NotTakenBack'
      BY <1>1, <2>1, <2>2 DEF GatesOK, NotTakenBack
    <2>4. ASSUME TwoInstances PROVE NotPromised'
      BY <1>1, <2>1, <2>2, <2>4 DEF GatesOK, NotPromised
    <2> QED BY <2>3, <2>4 DEF GatesOK, TwoInstances
  <1> QED BY <1>2, <1>3, <1>4

\* Whatever else happens brings no claim to the gates.
LEMMA OtherGates ==
  ASSUME BaseOK, NEW i \in Instances, NEW p \in Phones, AtGates(i, p)',
         \/ UNCHANGED op
         \/ \E j \in Instances : NextPhase(j) \/ RenewFails(j) \/ Die(j)
         \/ \E k \in Tasks \ {"claim"}, j \in Instances, q \in Phones :
              \E o : op' = [op EXCEPT ![<<k, j, q>>] = o]
         \/ \E r \in Requests : \E o : op' = [op EXCEPT ![r] = o]
  PROVE  AtGates(i, p)
  <1> DEFINE c == <<"claim", i, p>>
  <1>1. /\ c \in Threads /\ c \notin Requests
        /\ \A k \in Tasks \ {"claim"}, j \in Instances, q \in Phones : <<k, j, q>> # c
    BY TaskIs DEF Tasks
  <1>2. op'[c].pc \in {"paired", "set"}
    BY DEF AtGates, ClaimAt
  <1>3. op[c].pc = "claimed" => op[c] \in Op
    BY <1>1, WorkingOrWaiting DEF BaseOK, ThreadsOK, Working, Active
  <1> HIDE DEF c
  <1>4. ASSUME op'[c] = op[c] PROVE AtGates(i, p)
    BY <1>2, <1>4 DEF AtGates, ClaimAt, c
  <1>5. ASSUME NEW j \in Instances, NextPhase(j) PROVE op'[c] = op[c]
    <2>1. CASE Active(c) /\ op[c].i = j /\ op[c].pc = "claimed"
      <3>1. op'[c] = [op[c] EXCEPT !.pc = IF Draining(j) THEN "giveback" ELSE "sleep"]
        BY <1>1, <1>5, <2>1 DEF NextPhase
      <3>2. op'[c].pc \in {"giveback", "sleep"}
        BY <1>3, <2>1, <3>1 DEF Op
      <3> QED BY <1>2, <3>2
    <2>2. CASE ~ (Active(c) /\ op[c].i = j /\ op[c].pc = "claimed")
      BY <1>1, <1>5, <2>2 DEF NextPhase
    <2> QED BY <2>1, <2>2
  <1>6. ASSUME NEW j \in Instances, RenewFails(j) \/ Die(j) PROVE op'[c] = op[c]
    <2>1. Resting(c).pc = "idle" /\ Idle(c).pc = "idle"
      BY <1>1 DEF Resting, Idle
    <2> QED BY <1>1, <1>2, <1>6, <2>1 DEF RenewFails, Die
  <1>7. ASSUME NEW t, t # c, NEW o, op' = [op EXCEPT ![t] = o] PROVE op'[c] = op[c]
    BY <1>1, <1>7 DEF BaseOK, ThreadsOK
  <1> QED BY <1>1, <1>4, <1>5, <1>6, <1>7

\* What the gates have seen stays true until the SET.
LEMMA NextGates ==
  ASSUME BaseOK, TicksOK, GatesOK, [Next]_vars
  PROVE  GatesOK'
  <1>1. ASSUME NEW t \in Threads, Step(t) \/ SpawnFails(t) \/ Rejected(t) PROVE GatesOK'
    <2>1. CASE Steer(t)
      BY <2>1, SteerGates
    <2>2. CASE ~ Steer(t)
      <3>1. UNCHANGED <<handoff, cooldown>>
        BY <1>1, <2>2 DEF Step, ClaimSet, RenewSet, ForceSet, Release, Lookup, CheckPaired,
           GiveBack, WakeClaim, EnterConnect, Opened, EnterDiscard, EnterLogout,
           ClearedAuth, Inspect, Clear, Seed, Finally, SpawnFails, Rejected, redis
      <3> QED BY <1>1, <3>1, StepGates, GatesStill
    <2> QED BY <2>1, <2>2
  <1>2. ASSUME NEW i \in Instances, NEW p \in Phones, Consider(i, p) PROVE GatesOK'
    BY <1>2, ConsiderGates
  <1>3. ASSUME UNCHANGED <<handoff, cooldown>>,
               \/ UNCHANGED op
               \/ \E j \in Instances : NextPhase(j) \/ RenewFails(j) \/ Die(j)
               \/ \E k \in Tasks \ {"claim"}, j \in Instances, q \in Phones :
                    \E o : op' = [op EXCEPT ![<<k, j, q>>] = o]
               \/ \E r \in Requests : \E o : op' = [op EXCEPT ![r] = o]
        PROVE  GatesOK'
    BY <1>3, OtherGates, GatesStill
  <1>4. ASSUME NEW i \in Instances, ClaimLoop(i) \/ RenewLoop(i) \/ StopLoop(i) PROVE GatesOK'
    <2>1. CASE BeginScan(i) \/ BeginRenew(i) \/ Announce(i)
      BY <1>3, <2>1 DEF BeginScan, BeginRenew, Announce, redis
    <2>2. CASE NextPhase(i) \/ RenewFails(i)
      BY <1>3, <2>2 DEF NextPhase, RenewFails, redis
    <2>3. CASE Exit(i)
      BY <1>3, <2>3 DEF Exit, Die
    <2>4. ASSUME NEW p \in Phones, Renew(i, p) PROVE GatesOK'
      <3>1. UNCHANGED <<handoff, cooldown>>
        BY <2>4 DEF Renew, redis
      <3>2. UNCHANGED op \/ \E o : op' = [op EXCEPT ![<<"renew", i, p>>] = o]
        BY <2>4 DEF Renew, Fence, Goto
      <3> QED BY <1>3, <3>1, <3>2 DEF Tasks
    <2>5. ASSUME NEW p \in Phones, StopNext(i, p) PROVE GatesOK'
      <3>1. UNCHANGED <<handoff, cooldown>>
        BY <2>5 DEF StopNext, redis
      <3>2. \E o : op' = [op EXCEPT ![<<"stop", i, p>>] = o]
        BY <2>5 DEF StopNext, Goto
      <3> QED BY <1>3, <3>1, <3>2 DEF Tasks
    <2> QED BY <1>2, <1>4, <2>1, <2>2, <2>3, <2>4, <2>5 DEF ClaimLoop, RenewLoop, StopLoop
  <1>5. CASE Environment
    <2>1. ASSUME NEW i \in Instances, NEW p \in Phones, StartMove(i, p) PROVE GatesOK'
      <3>1. UNCHANGED <<handoff, cooldown>>
        BY <2>1 DEF StartMove, redis
      <3>2. \E o : op' = [op EXCEPT ![<<"move", i, p>>] = o]
        BY <2>1 DEF StartMove, Goto
      <3> QED BY <1>3, <3>1, <3>2 DEF Tasks
    <2>2. ASSUME NEW i \in Instances, NEW p \in Phones, RebuildFails(i, p) PROVE GatesOK'
      <3>1. UNCHANGED <<handoff, cooldown>>
        BY <2>2 DEF RebuildFails, redis
      <3>2. \E o : op' = [op EXCEPT ![<<"lost", i, p>>] = o]
        BY <2>2 DEF RebuildFails, AbandonLease
      <3> QED BY <1>3, <3>1, <3>2 DEF Tasks
    <2>3. ASSUME NEW r \in Requests, NEW i \in Instances, NEW p \in Phones, NEW k \in Kinds,
                 Start(r, i, p, k)
          PROVE  GatesOK'
      BY <1>3, <2>3 DEF Start, redis
    <2>4. ASSUME NEW i \in Instances, Crash(i) PROVE GatesOK'
      BY <1>3, <2>4 DEF Crash, Die
    <2> QED BY <1>1, <1>3, <1>5, <2>1, <2>2, <2>3, <2>4 DEF Environment, SlowLapse, RunOut, Shutdown,
            Disconnect, GiveUp, Replaced, Unlinked, Pair, redis
  <1>6. CASE Clocks
    <2>1. ASSUME NEW p \in Phones, Expires(p) PROVE GatesOK'
      <3>1. /\ \A q \in Phones : cooldown'[q] \in {cooldown[q], Nobody}
            /\ \A q \in Phones : handoff'[q] \in {handoff[q], Nobody}
        BY <2>1 DEF Expires, BaseOK, StateTypeOK
      <3>2. \A i \in Instances, q \in Phones : AtGates(i, q)' = AtGates(i, q)
        BY <2>1 DEF Expires, AtGates, ClaimAt
      <3>3. NotTakenBack'
        BY <3>1, <3>2, NamesAssumption DEF GatesOK, NotTakenBack
      <3>4. TwoInstances => NotPromised'
        BY <3>1, <3>2 DEF GatesOK, NotPromised
      <3> QED BY <3>3, <3>4 DEF GatesOK, TwoInstances
    <2> QED BY <1>3, <1>6, <2>1 DEF Clocks, Lapse, RunOut, Heartbeat, RegistryExpires, Restart, Reconnect,
            Orphaned, redis
  <1>7. CASE UNCHANGED vars
    BY <1>3, <1>7 DEF vars, redis
  <1> QED BY <1>1, <1>4, <1>5, <1>6, <1>7 DEF Next

\* At first no claim is at its gates.
LEMMA InitGates == Init => GatesOK
  <1> SUFFICES ASSUME Init PROVE GatesOK
    OBVIOUS
  <1>1. \A p \in Phones : cooldown[p] = Nobody /\ handoff[p] = Nobody
    BY DEF Init, AtRest
  <1> QED BY <1>1, NamesAssumption DEF GatesOK, NotTakenBack, NotPromised

\* A background claim never takes back what the same instance has just given
\* away in a rebalance: with the cooldown standing, its SET is not even tried.
\* This holds for any number of instances, and although the gates are read some
\* replies before the SET.
NeverTakesBack ==
  [][\A i \in Instances, p \in Phones :
       op[<<"claim", i, p>>].pc = "set" /\ op'[<<"claim", i, p>>].pc = "claimed" =>
         cooldown[p] # i]_vars

\* NeverTakesBack holds of every behaviour: the cooldown is written before the
\* release, by the only instance it names, while none of its claims is about.
THEOREM CooldownRespected == Spec => NeverTakesBack
  <1> DEFINE A == \A i \in Instances, p \in Phones :
                    op[<<"claim", i, p>>].pc = "set" /\ op'[<<"claim", i, p>>].pc = "claimed" =>
                      cooldown[p] # i
  <1>1. BaseOK /\ TicksOK /\ GatesOK /\ [Next]_vars => BaseOK' /\ TicksOK' /\ GatesOK'
    BY NextBase, NextTicks, NextGates
  <1>2. Init => BaseOK /\ TicksOK /\ GatesOK
    BY InitBase, InitTicks, InitGates
  <1>3. GatesOK => A
    BY DEF GatesOK, NotTakenBack, AtGates, ClaimAt
  <1>4. [Next]_vars /\ GatesOK => [A]_vars
    BY <1>3
  <1> QED BY <1>1, <1>2, <1>4, PTL DEF Spec, NeverTakesBack

\* The whole of what a rebalance asks of the background claims, between two
\* instances: neither claims what the tombstone promises to the other, nor takes
\* back what it has given away, whatever requests, outages and crashes there are.
\* With a third instance a claim can be overtaken between its gates and its SET
\* by another instance's whole tenure and rebalance, and only the first half
\* stands, which is CooldownRespected.
THEOREM RebalanceRespected ==
  ASSUME TwoInstances
  PROVE  Spec => HandoffHonoured
  <1> DEFINE A == \A i \in Instances, p \in Phones :
                    op[<<"claim", i, p>>].pc = "set" /\ op'[<<"claim", i, p>>].pc = "claimed" =>
                      handoff[p] = i \/ (handoff[p] = Nobody /\ cooldown[p] # i)
  <1>1. BaseOK /\ TicksOK /\ GatesOK /\ [Next]_vars => BaseOK' /\ TicksOK' /\ GatesOK'
    BY NextBase, NextTicks, NextGates
  <1>2. Init => BaseOK /\ TicksOK /\ GatesOK
    BY InitBase, InitTicks, InitGates
  <1>3. GatesOK => A
    BY DEF GatesOK, NotTakenBack, NotPromised, AtGates, ClaimAt
  <1>4. [Next]_vars /\ GatesOK => [A]_vars
    BY <1>3
  <1> QED BY <1>1, <1>2, <1>4, PTL DEF Spec, HandoffHonoured

-----------------------------------------------------------------------------
(* Sockets and leases, as long as Redis stays and nobody asks by request *)

\* No request force-acquires a lease, and Redis does not go away.  Leases run out
\* at any time, under owners that are gone, draining, stalled or waiting in line.
Calm == Requests = {} /\ "outage" \notin Disturbances

RenewAt(i, p) == op[<<"renew", i, p>>].pc
StopAt(i, p) == op[<<"stop", i, p>>].pc
LostAt(i, p) == op[<<"lost", i, p>>].pc
ClaimEpoch(i, p) == op[<<"claim", i, p>>].epoch
LostEpoch(i, p) == op[<<"lost", i, p>>].epoch

\* Instance i has the lease of p under epoch e.
Holds(i, p, e) == Owns(i, p) /\ lease[p].epoch = e

\* Where a claim is between its SET and the connection it makes.
Leased == {"claimed", "sleep", "giveback", "enter", "spawning"}

Resigned(i, p) == conn[i][p] = NoConn /\ ClaimAt(i, p) \notin Leased

\* A process that is gone has nothing on its phones.
Gone(i, p) ==
  ~Up(i) => /\ conn[i][p] = NoConn
            /\ \A k \in Tasks : op[<<k, i, p>>].pc = "idle"
            /\ p \notin todo[i].claim /\ p \notin todo[i].stop

\* The lease of p ran out under instance i and has not come back to it.
Overdue(i, p) == ~Owns(i, p) /\ <<i, p>> \in overdue

\* A connection, and a claim that is to make one, stand on the lease or on one
\* that ran out.  A renewal may have taken the lease back under a newer epoch
\* meanwhile: a connection has learnt it, and a claim will see that it is stale.
Founded(i, p) ==
  /\ conn[i][p] # NoConn => Holds(i, p, conn[i][p].epoch) \/ Overdue(i, p)
  /\ ClaimAt(i, p) \in Leased =>
       \/ Holds(i, p, ClaimEpoch(i, p)) \/ Overdue(i, p)
       \/ Owns(i, p) /\ held[i][p] # ClaimEpoch(i, p)

\* A claim is only about when nothing is connected, until it registers its own.
Single(i, p) ==
  /\ ClaimAt(i, p) \notin {"idle", "spawning"} => conn[i][p] = NoConn
  /\ p \in todo[i].claim => conn[i][p] = NoConn

\* The shutdown hands off phones that no claim will connect, and those who
\* release have let go.
LetGo(i, p) ==
  /\ p \in todo[i].stop \/ StopAt(i, p) # "idle" =>
       Draining(i) /\ ClaimAt(i, p) \in {"idle", "spawning", "release", "lookup"}
  /\ StopAt(i, p) \in {"lookup", "release"} => Resigned(i, p)
  /\ MoveAt(i, p) \in {"steer", "lookup", "release"} => Resigned(i, p)
  /\ LostAt(i, p) = "release" /\ Holds(i, p, LostEpoch(i, p)) => Resigned(i, p)

\* The epoch the instance remembers is its connection's, unless a renewal is about
\* to discard the connection.
Tracked(i, p) ==
  /\ conn[i][p] # NoConn => held[i][p] = conn[i][p].epoch \/ RenewAt(i, p) = "enter"
  /\ ClaimAt(i, p) = "enter" => held[i][p] = ClaimEpoch(i, p)

PairOK(i, p) == Gone(i, p) /\ Founded(i, p) /\ Single(i, p) /\ LetGo(i, p) /\ Tracked(i, p)

CalmOK ==
  /\ BaseOK /\ TicksOK
  /\ \A i \in Instances : reachable[i]
  /\ \A i \in Instances, p \in Phones : PairOK(i, p)

\* Nothing that concerns instance i and phone p changes, except that lists get
\* shorter; the lease only from one that is not i's to another, and it is not
\* forgotten that it ran out.
Same(i, p) ==
  /\ status'[i] = status[i]
  /\ conn'[i][p] = conn[i][p]
  /\ held'[i][p] = held[i][p]
  /\ \A k \in Tasks : op'[<<k, i, p>>] = op[<<k, i, p>>]
  /\ p \in todo'[i].claim => p \in todo[i].claim
  /\ p \in todo'[i].stop => p \in todo[i].stop
LeaseSame(i, p) ==
  /\ lease'[p] = lease[p] \/ (~Owns(i, p) /\ ~Owns(i, p)')
  /\ Overdue(i, p) => Overdue(i, p)'

\* A pair that a step is not about stays as it was.
LEMMA PairStill ==
  ASSUME NEW i \in Instances, NEW p \in Phones, PairOK(i, p), Same(i, p), LeaseSame(i, p)
  PROVE  PairOK(i, p)'
  <1>1. \A k \in Tasks : op'[<<k, i, p>>] = op[<<k, i, p>>]
    BY DEF Same
  <1>2. /\ ClaimAt(i, p)' = ClaimAt(i, p) /\ ClaimEpoch(i, p)' = ClaimEpoch(i, p)
        /\ RenewAt(i, p)' = RenewAt(i, p) /\ MoveAt(i, p)' = MoveAt(i, p)
        /\ StopAt(i, p)' = StopAt(i, p)
        /\ LostAt(i, p)' = LostAt(i, p) /\ LostEpoch(i, p)' = LostEpoch(i, p)
    BY <1>1 DEF ClaimAt, ClaimEpoch, RenewAt, MoveAt, StopAt, LostAt, LostEpoch, Tasks
  <1>3. /\ \A e : Holds(i, p, e)' <=> Holds(i, p, e)
        /\ (Owns(i, p)' <=> Owns(i, p)) /\ (Overdue(i, p) => Overdue(i, p)')
    BY DEF LeaseSame, Holds, Owns
  <1>4. conn'[i][p] = conn[i][p] /\ held'[i][p] = held[i][p]
    BY DEF Same
  <1>5. (Up(i)' <=> Up(i)) /\ (Draining(i)' <=> Draining(i))
    BY DEF Same, Up, Draining
  <1>6. Resigned(i, p)' <=> Resigned(i, p)
    BY <1>2, <1>4 DEF Resigned
  <1>7. Gone(i, p)'
    BY <1>1, <1>4, <1>5 DEF PairOK, Gone, Same
  <1>8. Founded(i, p)'
    BY <1>2, <1>3, <1>4 DEF PairOK, Founded
  <1>9. Single(i, p)'
    BY <1>2, <1>4 DEF PairOK, Single, Same
  <1>10. LetGo(i, p)'
    BY <1>2, <1>3, <1>5, <1>6 DEF PairOK, LetGo, Same
  <1>11. Tracked(i, p)'
    BY <1>2, <1>4 DEF PairOK, Tracked
  <1> QED BY <1>7, <1>8, <1>9, <1>10, <1>11 DEF PairOK

\* A step at instance i about phone p is none of the others' business.
LeaseMoves(i, p) ==
  /\ \A j \in Instances, q \in Phones :
       <<j, q>> # <<i, p>> /\ <<j, q>> \in overdue => <<j, q>> \in overdue'
  /\ \A q \in Phones : q # p => lease'[q] = lease[q]
  /\ \/ lease'[p] = lease[p]
     \/ lease[p] = NoLease /\ Owns(i, p)'
     \/ Owns(i, p) /\ lease'[p] = NoLease
ActsAt(i, p) ==
  /\ \A j \in Instances, q \in Phones : <<j, q>> # <<i, p>> => Same(j, q)
  /\ LeaseMoves(i, p)

\* A step at one pair is to be checked at that pair alone.
LEMMA PairsElsewhere ==
  ASSUME CalmOK, NEW i \in Instances, NEW p \in Phones, ActsAt(i, p), PairOK(i, p)'
  PROVE  \A j \in Instances, q \in Phones : PairOK(j, q)'
  <1> SUFFICES ASSUME NEW j \in Instances, NEW q \in Phones, <<j, q>> # <<i, p>>
               PROVE  PairOK(j, q)'
    OBVIOUS
  <1>1. Same(j, q)
    BY DEF ActsAt
  <1>2. LeaseSame(j, q)
    BY DEF ActsAt, LeaseMoves, LeaseSame, Owns, Overdue
  <1> QED BY <1>1, <1>2, PairStill DEF CalmOK

\* In calm, every thread is a task of an instance, and only a claim takes a slot.
LEMMA CalmThreads ==
  ASSUME Calm, BaseOK, NEW t \in Threads
  PROVE  /\ t \notin Requests
         /\ op[t].kind \in Tasks /\ op[t].i \in Instances /\ op[t].p \in Phones
         /\ t = <<op[t].kind, op[t].i, op[t].p>>
         /\ Active(t) => op[t].pc \in PcsOf(op[t].kind)
         /\ op[t].epoch \in Nat
  <1>1. t \notin Requests /\ t \in Tasks \X Instances \X Phones
    BY DEF Calm, Threads
  <1>2. t = <<op[t].kind, op[t].i, op[t].p>>
        /\ op[t].i \in Instances /\ op[t].p \in Phones /\ op[t].epoch \in Nat
    BY <1>1, TaskFields DEF BaseOK, ThreadsOK
  <1>3. op[t].kind \in Tasks
    BY <1>1, <1>2
  <1>4. Active(t) => op[t].pc \in PcsOf(op[t].kind)
    BY WorkingOrWaiting DEF BaseOK, ThreadsOK, Working
  <1> QED BY <1>1, <1>2, <1>3, <1>4

\* The slot of a phone is taken exactly while its claim opens the connection.
LEMMA SlotIsClaims ==
  ASSUME Calm, BaseOK, NEW i \in Instances, NEW p \in Phones
  PROVE  SlotBusy(i, p) <=> ClaimAt(i, p) = "spawning"
  <1>1. ASSUME NEW t \in Threads, op[t].pc \in {"spawning", "logout"}, op[t].i = i, op[t].p = p
        PROVE  t = <<"claim", i, p>> /\ op[t].pc = "spawning"
    <2>1. op[t].pc \in PcsOf(op[t].kind) /\ op[t].kind \in Tasks
      BY <1>1, CalmThreads DEF Active
    <2>2. op[t].kind = "claim" /\ op[t].pc = "spawning"
      BY <1>1, <2>1 DEF PcsOf, Tasks
    <2> QED BY <1>1, <2>2, CalmThreads
  <1>2. <<"claim", i, p>> \in Threads /\ op[<<"claim", i, p>>].i = i /\ op[<<"claim", i, p>>].p = p
    BY TaskIs DEF Tasks
  <1> QED BY <1>1, <1>2 DEF SlotBusy, ClaimAt

\* A claim at the slot enters before its instance does anything else.
LEMMA NoClaimWaits ==
  ASSUME Calm, BaseOK, NEW i \in Instances, NEW p \in Phones, Settled(i)
  PROVE  ClaimAt(i, p) # "enter"
  <1>1. <<"claim", i, p>> \in Threads /\ op[<<"claim", i, p>>].i = i /\ op[<<"claim", i, p>>].p = p
    BY TaskIs DEF Tasks
  <1> QED BY <1>1, SlotIsClaims DEF Settled, ClaimAt

\* It is the turn of the task of kind k at instance i for phone p: the process is
\* up and stays so, its lists stay, and its other tasks for p wait.
Turn(k, i, p) ==
  /\ op[<<k, i, p>>].pc \in PcsOf(k)
  /\ Up(i) /\ status' = status /\ todo' = todo
  /\ \A l \in Tasks \ {k} : op'[<<l, i, p>>] = op[<<l, i, p>>]

\* A step of a task in calm: whose turn it is, and that it leaves every other pair
\* of instance and phone alone, but for the lease.
LEMMA CalmTurn ==
  ASSUME Calm, CalmOK, NEW k \in Tasks, NEW i \in Instances, NEW p \in Phones,
         Step(<<k, i, p>>) \/ SpawnFails(<<k, i, p>>)
  PROVE  /\ Turn(k, i, p)
         /\ LeaseMoves(i, p) => ActsAt(i, p)
  <1> DEFINE t == <<k, i, p>>
  <1>1. t \in Threads /\ op[t].kind = k /\ op[t].i = i /\ op[t].p = p
    BY TaskIs DEF CalmOK
  <1>2. Step(t) \/ SpawnFails(t)
    OBVIOUS
  <1> HIDE DEF t
  <1>3. Active(t) /\ (GoesOn(t) \/ Rests(t))
    BY <1>1, <1>2, StepThreads DEF CalmOK, BaseOK
  <1>4. op[t].pc \in PcsOf(k)
    BY <1>1, <1>3, CalmThreads DEF CalmOK
  <1>5. \A u \in Threads : u # t => op'[u] = op[u]
    BY <1>3 DEF GoesOn, Moves, Rests, Others
  <1>6. UNCHANGED <<status, todo>> /\ Up(i)
    BY <1>1, <1>2, <1>4 DEF Step, ClaimSet, RenewSet, ForceSet, Release, Lookup, CheckPaired,
       GiveBack, WakeClaim, Steer, EnterConnect, Opened, EnterDiscard, EnterLogout,
       ClearedAuth, Inspect, Clear, Seed, Finally, SpawnFails, loops, health, At, AtRedis,
       AtSlot
  <1>7. \A j \in Instances, q \in Phones : <<j, q>> # <<i, p>> => conn'[j][q] = conn[j][q]
    BY <1>1, <1>2, SlotEffectHolds DEF CalmOK, SlotEffect
  <1>8. held' = held \/ \E e : held' = [held EXCEPT ![i][p] = e]
    <2>1. k \notin AllKinds
      BY DEF Tasks, AllKinds
    <2>2. ReleaseHeld(t) \/ Abandon(t) => \E e : held' = [held EXCEPT ![i][p] = e]
      BY <1>1 DEF ReleaseHeld, Abandon, AbandonLease
    <2>3. CASE ClaimSet(t) \/ RenewSet(t) \/ ForceSet(t)
      BY <1>1, <2>1, <2>3 DEF ClaimSet, RenewSet, ForceSet, TakeLease, Fence
    <2>4. CASE GiveBack(t) \/ WakeClaim(t) \/ Steer(t) \/ Finally(t) \/ SpawnFails(t) \/ Seed(t)
      BY <2>2, <2>4 DEF GiveBack, WakeClaim, Steer, Finally, SpawnFails, Seed
    <2>5. CASE EnterConnect(t) \/ EnterDiscard(t)
      BY <2>2, <2>5 DEF EnterConnect, EnterDiscard, Spawn
    <2>6. CASE Inspect(t)
      BY <2>2, <2>6 DEF Inspect, Unwind
    <2>7. CASE Release(t) \/ Lookup(t) \/ CheckPaired(t) \/ Opened(t) \/ EnterLogout(t)
               \/ ClearedAuth(t) \/ Clear(t)
      BY <2>7 DEF Release, Lookup, CheckPaired, Opened, EnterLogout, ClearedAuth, Clear
    <2> QED BY <1>2, <2>3, <2>4, <2>5, <2>6, <2>7 DEF Step
  <1>9. \A j \in Instances, q \in Phones : <<j, q>> # <<i, p>> => held'[j][q] = held[j][q]
    BY <1>8 DEF CalmOK, BaseOK, StateTypeOK
  <1>10. ASSUME NEW l \in Tasks, NEW j \in Instances, NEW q \in Phones, <<l, j, q>> # <<k, i, p>>
         PROVE  op'[<<l, j, q>>] = op[<<l, j, q>>]
    <2>1. <<l, j, q>> \in Threads
      BY TaskIs DEF CalmOK
    <2> QED BY <1>5, <1>10, <2>1 DEF t
  <1>11. Turn(k, i, p)
    BY <1>4, <1>6, <1>10 DEF Turn, t
  <1>12. ASSUME NEW j \in Instances, NEW q \in Phones, <<j, q>> # <<i, p>> PROVE Same(j, q)
    BY <1>6, <1>7, <1>9, <1>10, <1>12 DEF Same
  <1> QED BY <1>11, <1>12 DEF ActsAt

\* Where the tasks of a pair are, after the turn of one of them.
LEMMA TurnMoves ==
  ASSUME NEW k \in Tasks, NEW i, NEW p, Turn(k, i, p)
  PROVE  /\ (Up(i)' <=> Up(i)) /\ (Draining(i)' <=> Draining(i)) /\ Gone(i, p)'
         /\ k # "claim" => /\ ClaimAt(i, p)' = ClaimAt(i, p)
                           /\ ClaimEpoch(i, p)' = ClaimEpoch(i, p)
         /\ k # "renew" => RenewAt(i, p)' = RenewAt(i, p)
         /\ k # "move" => MoveAt(i, p)' = MoveAt(i, p)
         /\ k # "stop" => StopAt(i, p)' = StopAt(i, p)
         /\ k # "lost" => LostAt(i, p)' = LostAt(i, p) /\ LostEpoch(i, p)' = LostEpoch(i, p)
  <1>1. \A l \in Tasks \ {k} : op'[<<l, i, p>>] = op[<<l, i, p>>]
    BY DEF Turn
  <1>2. (Up(i)' <=> Up(i)) /\ (Draining(i)' <=> Draining(i)) /\ Gone(i, p)'
    BY DEF Turn, Up, Draining, Gone
  <1> QED BY <1>1, <1>2 DEF ClaimAt, ClaimEpoch, RenewAt, MoveAt, StopAt, LostAt, LostEpoch, Tasks

\* What instance i stands on for phone p stays: the lease, or that it ran out.
SameFooting(i, p) ==
  /\ \A e : Holds(i, p, e)' <=> Holds(i, p, e)
  /\ (Owns(i, p)' <=> Owns(i, p)) /\ (Overdue(i, p)' <=> Overdue(i, p))

\* A step that leaves the lease alone.
LEMMA StayLeased ==
  ASSUME NEW i \in Instances, NEW p \in Phones, UNCHANGED <<lease, overdue>>
  PROVE  LeaseMoves(i, p) /\ SameFooting(i, p)
  BY DEF LeaseMoves, SameFooting, Holds, Owns, Overdue

\* A claim that has its lease has it under an epoch that no memory lacks.
LEMMA ClaimGranted ==
  ASSUME BaseOK, NEW i \in Instances, NEW p \in Phones, ClaimAt(i, p) \in Leased
  PROVE  ClaimEpoch(i, p) \in Nat \ {0} /\ ClaimEpoch(i, p) \in Remembered(i, p)
  <1> DEFINE t == <<"claim", i, p>>
  <1>1. t \in Threads /\ t \notin Requests /\ op[t].i = i /\ op[t].p = p /\ op[t].kind = "claim"
    BY TaskIs DEF Tasks
  <1>2. op[t].pc \in Leased
    BY DEF ClaimAt
  <1> HIDE DEF t
  <1>3. Active(t)
    BY <1>2 DEF Active, Leased
  <1>4. Working(t, op[t]) /\ op[t].epoch \in Nat
    BY <1>1, <1>3, WorkingOrWaiting, TaskFields DEF BaseOK, ThreadsOK
  <1>5. op[t].epoch \in Nat \ {0}
    BY <1>1, <1>2, <1>4 DEF Working, Granted, ConnectKinds, Leased
  <1>6. op[t].epoch \in Remembered(i, p)
    BY <1>1, <1>3 DEF Remembered, ActiveAt
  <1> QED BY <1>5, <1>6 DEF t, ClaimEpoch

\* Whoever releases the lease of its instance has nothing connected and nothing
\* to connect.
LEMMA ReleaseResigned ==
  ASSUME Calm, CalmOK, NEW k \in Tasks, NEW i \in Instances, NEW p \in Phones,
         op[<<k, i, p>>].pc = "release", Holds(i, p, op[<<k, i, p>>].epoch)
  PROVE  Resigned(i, p)
  <1> DEFINE t == <<k, i, p>>
  <1>1. t \in Threads /\ op[t].kind = k
    BY TaskIs DEF CalmOK
  <1>2. op[t].pc = "release"
    OBVIOUS
  <1> HIDE DEF t
  <1>3. "release" \in PcsOf(k)
    BY <1>1, <1>2, CalmThreads DEF CalmOK, Active
  <1>4. k \in {"claim", "move", "stop", "lost"}
    BY <1>3 DEF PcsOf, Tasks
  <1>5. LetGo(i, p) /\ Single(i, p)
    BY DEF CalmOK, PairOK
  <1> QED BY <1>2, <1>4, <1>5 DEF t, LetGo, Single, Resigned, Leased, ClaimAt, MoveAt, StopAt, LostAt, LostEpoch

\* The release script: it deletes a lease nothing stands on, or nothing.
LEMMA CalmRelease ==
  ASSUME Calm, CalmOK, NEW k \in Tasks, NEW i \in Instances, NEW p \in Phones,
         Turn(k, i, p), Release(<<k, i, p>>)
  PROVE  LeaseMoves(i, p) /\ PairOK(i, p)'
  <1> DEFINE t == <<k, i, p>>
  <1>1. t \in Threads /\ t \notin Requests /\ op[t].kind = k /\ op[t].i = i /\ op[t].p = p
    BY TaskIs DEF CalmOK
  <1>2. /\ lease' = IF lease[p] = [owner |-> i, epoch |-> op[t].epoch]
                    THEN [lease EXCEPT ![p] = NoLease] ELSE lease
        /\ conn' = conn /\ held' = held /\ overdue' = overdue /\ op[t].pc = "release"
    BY <1>1 DEF Release, AtRedis, At
  <1>3. op'[t].pc = "idle"
    BY <1>1 DEF Release, Rest, Resting, Idle, CalmOK, BaseOK, ThreadsOK
  <1>4. lease' = lease
        \/ /\ lease'[p] = NoLease /\ Holds(i, p, op[t].epoch) /\ Resigned(i, p)
           /\ \A q \in Phones : q # p => lease'[q] = lease[q]
    <2>1. CASE lease[p] = [owner |-> i, epoch |-> op[t].epoch]
      <3>1. Holds(i, p, op[t].epoch)
        <4>1. lease[p] \in Lease \cup {NoLease}
          BY DEF CalmOK, BaseOK, StateTypeOK
        <4>2. op[t].epoch \in Nat \ {0}
          <5>1. Working(t, op[t]) /\ op[t].epoch \in Nat
            BY <1>1, <1>2, WorkingOrWaiting, TaskFields DEF CalmOK, BaseOK, ThreadsOK, Active
          <5> QED BY <1>2, <5>1 DEF Working, Granted
        <4>3. [owner |-> i, epoch |-> op[t].epoch] \in Lease
          BY <4>2 DEF Lease, Epochs
        <4> QED BY <2>1, <4>3, NamesAssumption DEF Holds, Owns
      <3>2. Resigned(i, p)
        BY <1>2, <3>1, ReleaseResigned
      <3> QED BY <1>2, <2>1, <3>1, <3>2 DEF CalmOK, BaseOK, StateTypeOK
    <2> QED BY <1>2, <2>1
  <1>5. LeaseMoves(i, p)
    BY <1>2, <1>4 DEF LeaseMoves, Holds
  <1>6. PairOK(i, p)
    BY DEF CalmOK
  <1>7. \A e : Holds(i, p, e)' => Holds(i, p, e) /\ lease' = lease
    BY <1>4 DEF Holds, Owns
  <1>8. /\ (k = "claim" => ClaimAt(i, p) = "release" /\ ClaimAt(i, p)' = "idle")
        /\ (k = "renew" => RenewAt(i, p) = "release" /\ RenewAt(i, p)' = "idle")
        /\ (k = "move" => MoveAt(i, p)' = "idle")
        /\ (k = "stop" => StopAt(i, p)' = "idle" /\ StopAt(i, p) = "release")
        /\ (k = "lost" => LostAt(i, p)' = "idle")
    BY <1>2, <1>3 DEF ClaimAt, RenewAt, MoveAt, StopAt, LostAt
  <1> HIDE DEF t
  <1>9. /\ (Up(i)' <=> Up(i)) /\ (Draining(i)' <=> Draining(i)) /\ Gone(i, p)' /\ todo' = todo
        /\ k # "renew"
    <2>1. k # "renew"
      <3>1. "release" \in PcsOf(k)
        BY <1>2 DEF Turn, t
      <3> QED BY <3>1 DEF PcsOf
    <2> QED BY <2>1, TurnMoves DEF Turn
  <1>10. /\ k # "claim" => ClaimAt(i, p)' = ClaimAt(i, p) /\ ClaimEpoch(i, p)' = ClaimEpoch(i, p)
         /\ RenewAt(i, p)' = RenewAt(i, p)
         /\ k # "move" => MoveAt(i, p)' = MoveAt(i, p)
         /\ k # "stop" => StopAt(i, p)' = StopAt(i, p)
         /\ k # "lost" => LostAt(i, p)' = LostAt(i, p) /\ LostEpoch(i, p)' = LostEpoch(i, p)
    BY <1>9, TurnMoves
  <1>11. Resigned(i, p) => Resigned(i, p)'
    BY <1>2, <1>8, <1>10 DEF Resigned, Leased
  <1>12. Founded(i, p)'
    <2>1. CASE lease' = lease
      <3>1. SameFooting(i, p)
        BY <1>2, <2>1, StayLeased
      <3> QED BY <1>2, <1>6, <1>8, <1>10, <3>1 DEF PairOK, Founded, SameFooting, Leased
    <2>2. CASE Resigned(i, p)
      BY <1>11, <2>2 DEF Founded, Resigned
    <2> QED BY <1>4, <2>1, <2>2
  <1>13. Single(i, p)'
    BY <1>2, <1>6, <1>8, <1>9, <1>10 DEF PairOK, Single
  <1>14. LetGo(i, p)'
    BY <1>6, <1>7, <1>8, <1>9, <1>10, <1>11 DEF PairOK, LetGo
  <1>15. Tracked(i, p)'
    BY <1>2, <1>6, <1>8, <1>10 DEF PairOK, Tracked
  <1> QED BY <1>5, <1>9, <1>12, <1>13, <1>14, <1>15 DEF PairOK

\* A claim on its way to the connection, as long as it changes no lease: with
\* nothing connected it moves on, gives its lease back, or connects under it.
ClaimGoes(i, p) ==
  LET from == ClaimAt(i, p)
      to == ClaimAt(i, p)'
      kept == conn'[i][p] = conn[i][p] /\ held'[i][p] = held[i][p]
      same == ClaimEpoch(i, p)' = ClaimEpoch(i, p)
  IN \/ kept /\ from \in {"paired", "set", "sleep", "enter", "lookup"} /\ to = "idle"
     \/ kept /\ from = "paired" /\ to = "set"
     \/ kept /\ from = "lookup" /\ to = "release"
     \/ kept /\ same /\ from = "sleep" /\ to = "enter" /\ held[i][p] = ClaimEpoch(i, p)
     \/ conn'[i][p] = conn[i][p] /\ from \in {"sleep", "giveback"} /\ to \in {"lookup", "release"}
     \/ /\ from = "enter" /\ to = "spawning" /\ same /\ held'[i][p] = held[i][p]
        /\ conn'[i][p] # NoConn /\ conn'[i][p].epoch = ClaimEpoch(i, p)
     \/ /\ from = "spawning" /\ to = "idle" /\ held'[i][p] = held[i][p]
        /\ conn[i][p] # NoConn => conn'[i][p] # NoConn /\ conn'[i][p].epoch = conn[i][p].epoch
        /\ conn[i][p] = NoConn => conn'[i][p] = NoConn
     \/ conn'[i][p] = NoConn /\ from = "spawning" /\ to = "release"

\* Such a claim keeps its pair in order.
LEMMA ClaimPair ==
  ASSUME Calm, CalmOK, NEW i \in Instances, NEW p \in Phones,
         Turn("claim", i, p), UNCHANGED <<lease, overdue>>, ClaimGoes(i, p)
  PROVE  LeaseMoves(i, p) /\ PairOK(i, p)'
  <1>1. PairOK(i, p) /\ "claim" \in Tasks
    BY DEF CalmOK, Tasks
  <1>2. /\ (Up(i)' <=> Up(i)) /\ (Draining(i)' <=> Draining(i)) /\ Gone(i, p)' /\ todo' = todo
        /\ RenewAt(i, p)' = RenewAt(i, p) /\ MoveAt(i, p)' = MoveAt(i, p)
        /\ StopAt(i, p)' = StopAt(i, p)
        /\ LostAt(i, p)' = LostAt(i, p) /\ LostEpoch(i, p)' = LostEpoch(i, p)
    BY <1>1, TurnMoves DEF Turn
  <1>3. LeaseMoves(i, p) /\ SameFooting(i, p)
    BY StayLeased
  <1>4. Founded(i, p)'
    BY <1>1, <1>3 DEF ClaimGoes, PairOK, Founded, SameFooting, Single, Tracked, Leased
  <1>5. Single(i, p)'
    <2>1. p \in todo[i].claim => ClaimAt(i, p) = "idle"
      BY DEF CalmOK, TicksOK, TickOK
    <2> QED BY <1>1, <1>2, <2>1 DEF ClaimGoes, PairOK, Single
  <1>6. Resigned(i, p) => Resigned(i, p)'
    BY DEF ClaimGoes, Resigned, Leased
  <1>7. LetGo(i, p)'
    BY <1>1, <1>2, <1>3, <1>6 DEF ClaimGoes, PairOK, LetGo, SameFooting
  <1>8. Tracked(i, p)'
    BY <1>1, <1>2 DEF ClaimGoes, PairOK, Tracked, Single
  <1> QED BY <1>2, <1>3, <1>4, <1>5, <1>7, <1>8 DEF PairOK

\* The claim's SET.
LEMMA ClaimSetPair ==
  ASSUME Calm, CalmOK, NEW k \in Tasks, NEW i \in Instances, NEW p \in Phones,
         Turn(k, i, p), ClaimSet(<<k, i, p>>)
  PROVE  LeaseMoves(i, p) /\ PairOK(i, p)'
  <1> DEFINE t == <<k, i, p>>
             e == NextEpoch(i, p)
  <1>1. t \in Threads /\ t \notin Requests /\ op[t].kind = k /\ op[t].i = i /\ op[t].p = p
    BY TaskIs DEF CalmOK
  <1>2. k = "claim" /\ op[t].pc = "set" /\ conn' = conn
    BY <1>1 DEF ClaimSet, AtRedis, At
  <1>3. CASE lease[p] # NoLease
    <2>1. UNCHANGED <<lease, overdue, held>> /\ Rest(t)
      BY <1>1, <1>3 DEF ClaimSet
    <2>2. op'[t].pc = "idle"
      BY <1>1, <2>1 DEF Rest, Resting, Idle, CalmOK, BaseOK, ThreadsOK
    <2>3. ClaimGoes(i, p)
      BY <1>2, <2>1, <2>2 DEF ClaimGoes, ClaimAt
    <2> QED BY <1>2, <2>1, <2>3, ClaimPair
  <1>4. CASE lease[p] = NoLease
    <2>1. /\ TakeLease(i, p)
          /\ op' = [op EXCEPT ![t].pc = "claimed", ![t].epoch = e]
      BY <1>1, <1>4 DEF ClaimSet
    <2>2. op'[t].pc = "claimed" /\ op'[t].epoch = e
      <3>1. Active(t)
        BY <1>2 DEF Active
      <3> HIDE DEF t, e
      <3>2. ThreadsOK
        BY DEF CalmOK, BaseOK
      <3>3. Moves(t, "claimed", e)
        BY <1>1, <2>1, <3>1, <3>2, GrantMoves
      <3> QED BY <3>3 DEF Moves
    <2>3. /\ held'[i][p] = e /\ lease'[p] = [owner |-> i, epoch |-> e]
          /\ \A q \in Phones : q # p => lease'[q] = lease[q]
          /\ overdue' = overdue \ {<<i, p>>}
      BY <2>1 DEF TakeLease, Grant, CalmOK, BaseOK, StateTypeOK
    <2>4. \A f : Holds(i, p, f)' <=> f = e
      <3>1. lease'[p] # NoLease
        <4>1. e \in Nat \ {0}
          BY NextEpochFresh DEF CalmOK, BaseOK
        <4>2. [owner |-> i, epoch |-> e] \in Lease
          BY <4>1 DEF Lease, Epochs
        <4> QED BY <2>3, <4>2, NamesAssumption
      <3> QED BY <2>3, <3>1 DEF Holds, Owns
    <2>5. PairOK(i, p)
      BY DEF CalmOK
    <2>6. ClaimAt(i, p) = "set" /\ ClaimAt(i, p)' = "claimed" /\ ClaimEpoch(i, p)' = e
      BY <1>2, <2>2 DEF ClaimAt, ClaimEpoch
    <2>7. /\ (Up(i)' <=> Up(i)) /\ (Draining(i)' <=> Draining(i)) /\ Gone(i, p)' /\ todo' = todo
          /\ RenewAt(i, p)' = RenewAt(i, p) /\ MoveAt(i, p)' = MoveAt(i, p)
          /\ StopAt(i, p)' = StopAt(i, p)
          /\ LostAt(i, p)' = LostAt(i, p) /\ LostEpoch(i, p)' = LostEpoch(i, p)
      BY <1>2, TurnMoves DEF Turn
    <2>8. LostAt(i, p) = "release" => LostEpoch(i, p) # e
      <3> DEFINE u == <<"lost", i, p>>
      <3>1. u \in Threads /\ op[u].i = i /\ op[u].p = p
        BY TaskIs DEF Tasks, CalmOK
      <3>2. op[u].pc = "release" => op[u].epoch \in Remembered(i, p)
        BY <3>1 DEF Remembered, ActiveAt, Active
      <3>3. op[u].pc = "release" => op[u].epoch # e
        BY <3>2, NextEpochFresh DEF CalmOK, BaseOK
      <3> QED BY <3>3 DEF LostAt, LostEpoch
    <2>9. MoveAt(i, p) = "idle"
      BY <2>6 DEF CalmOK, TicksOK, TickOK
    <2> HIDE DEF t, e
    <2>10. LeaseMoves(i, p)
      <3>1. Owns(i, p)'
        BY <2>4 DEF Holds
      <3> QED BY <1>4, <2>3, <3>1 DEF LeaseMoves
    <2>11. conn'[i][p] = NoConn
      BY <1>2, <2>5, <2>6 DEF PairOK, Single
    <2>12. Founded(i, p)' /\ Single(i, p)' /\ Tracked(i, p)'
      BY <2>4, <2>6, <2>11 DEF Founded, Single, Tracked
    <2>13. LetGo(i, p)'
      BY <2>4, <2>5, <2>6, <2>7, <2>8, <2>9 DEF PairOK, LetGo
    <2> QED BY <2>7, <2>10, <2>12, <2>13 DEF PairOK
  <1> QED BY <1>3, <1>4

\* The SET of a renewal.
LEMMA RenewSetPair ==
  ASSUME Calm, CalmOK, NEW k \in Tasks, NEW i \in Instances, NEW p \in Phones,
         Turn(k, i, p), RenewSet(<<k, i, p>>)
  PROVE  LeaseMoves(i, p) /\ PairOK(i, p)'
  <1> DEFINE t == <<k, i, p>>
             e == NextEpoch(i, p)
  <1>1. t \in Threads /\ t \notin Requests /\ op[t].kind = k /\ op[t].i = i /\ op[t].p = p
    BY TaskIs DEF CalmOK
  <1>2. k = "renew" /\ op[t].pc = "set" /\ Settled(i)
    BY <1>1 DEF RenewSet, AtRedis, At
  <1>3. PairOK(i, p)
    BY DEF CalmOK
  <1>4. /\ (Up(i)' <=> Up(i)) /\ (Draining(i)' <=> Draining(i)) /\ Gone(i, p)' /\ todo' = todo
        /\ ClaimAt(i, p)' = ClaimAt(i, p) /\ ClaimEpoch(i, p)' = ClaimEpoch(i, p)
        /\ MoveAt(i, p)' = MoveAt(i, p) /\ StopAt(i, p)' = StopAt(i, p)
        /\ LostAt(i, p)' = LostAt(i, p) /\ LostEpoch(i, p)' = LostEpoch(i, p)
    BY <1>2, TurnMoves DEF Turn
  <1>5. CASE lease[p] = NoLease
    <2>1. BaseOK /\ e \in Nat \ {0} /\ \A f \in Remembered(i, p) : f # e
      BY NextEpochFresh DEF CalmOK, BaseOK
    <2>2. /\ TakeLease(i, p)
          /\ conn' = IF conn[i][p] = NoConn THEN conn ELSE [conn EXCEPT ![i][p].epoch = e]
      BY <1>1, <1>5 DEF RenewSet
    <2>3. /\ lease'[p] = [owner |-> i, epoch |-> e] /\ held'[i][p] = e
          /\ \A q \in Phones : q # p => lease'[q] = lease[q]
          /\ overdue' = overdue \ {<<i, p>>}
      BY <2>2 DEF TakeLease, Grant, CalmOK, BaseOK, StateTypeOK
    <2>4. IF conn[i][p] = NoConn THEN conn'[i][p] = NoConn
          ELSE conn'[i][p] # NoConn /\ conn'[i][p].epoch = e
      <3> HIDE DEF t, e
      <3>1. CASE conn[i][p] = NoConn
        BY <2>2, <3>1
      <3>2. CASE conn[i][p] # NoConn
        <4>1. conn[i][p] \in Connection
          BY <2>1, <3>2 DEF BaseOK, StateTypeOK
        <4>2. conn'[i][p] = [conn[i][p] EXCEPT !.epoch = e]
          BY <2>1, <2>2, <3>2 DEF BaseOK, StateTypeOK
        <4>3. conn'[i][p] \in Connection /\ conn'[i][p].epoch = e
          BY <2>1, <4>1, <4>2 DEF Connection, Epochs
        <4> QED BY <3>2, <4>3, NamesAssumption
      <3> QED BY <3>1, <3>2
    <2>5. Owns(i, p)' /\ \A f : Holds(i, p, f)' <=> f = e
      <3>1. [owner |-> i, epoch |-> e] \in Lease
        BY <2>1 DEF Lease, Epochs
      <3> QED BY <2>3, <3>1, NamesAssumption DEF Holds, Owns
    <2>6. LostAt(i, p) = "release" => LostEpoch(i, p) # e
      <3> DEFINE u == <<"lost", i, p>>
      <3>1. u \in Threads /\ op[u].i = i /\ op[u].p = p
        BY TaskIs DEF Tasks, CalmOK
      <3>2. op[u].pc = "release" => op[u].epoch \in Remembered(i, p)
        BY <3>1 DEF Remembered, ActiveAt, Active
      <3>3. op[u].pc = "release" => op[u].epoch # e
        BY <2>1, <3>2
      <3> QED BY <3>3 DEF LostAt, LostEpoch
    <2> HIDE DEF t, e
    <2>7. LeaseMoves(i, p)
      BY <1>5, <2>3, <2>5 DEF LeaseMoves
    <2>8. ClaimAt(i, p) \in Leased => ClaimEpoch(i, p) # e
      BY <2>1, ClaimGranted
    <2>9. Founded(i, p)'
      BY <1>4, <2>3, <2>4, <2>5, <2>8 DEF Founded
    <2>10. ClaimAt(i, p) # "enter"
      BY <1>2, <2>1, NoClaimWaits
    <2>11. Resigned(i, p)' <=> Resigned(i, p)
      BY <1>4, <2>4 DEF Resigned
    <2>12. Single(i, p)' /\ Tracked(i, p)'
      BY <1>3, <1>4, <2>3, <2>4, <2>10 DEF PairOK, Single, Tracked
    <2>13. LetGo(i, p)'
      BY <1>3, <1>4, <2>5, <2>6, <2>11 DEF PairOK, LetGo
    <2> QED BY <1>4, <2>7, <2>9, <2>12, <2>13 DEF PairOK
  <1>6. CASE lease[p] # NoLease
    <2>1. Fence(t, i, p) /\ UNCHANGED <<lease, overdue, conn>>
      BY <1>1, <1>6 DEF RenewSet
    <2>2. RenewAt(i, p)' = "enter"
      <3>1. Goto(t, "enter") /\ Active(t)
        BY <1>2, <2>1 DEF Fence, Active
      <3> HIDE DEF t
      <3>2. ThreadsOK
        BY DEF CalmOK, BaseOK
      <3>3. Moves(t, "enter", op[t].epoch)
        BY <1>1, <3>1, <3>2, GotoMoves DEF Goto
      <3>4. op'[t].pc = "enter"
        BY <3>3 DEF Moves
      <3> QED BY <1>2, <3>4 DEF t, RenewAt
    <2>3. ClaimAt(i, p) # "enter"
      BY <1>2, NoClaimWaits DEF CalmOK
    <2>4. LeaseMoves(i, p) /\ SameFooting(i, p)
      BY <2>1, StayLeased
    <2> HIDE DEF t, e
    <2>8. ClaimAt(i, p) \in Leased => held'[i][p] # ClaimEpoch(i, p)
      <3>1. held'[i][p] = 0
        BY <2>1 DEF Fence, CalmOK, BaseOK, StateTypeOK
      <3> QED BY <3>1, ClaimGranted DEF CalmOK
    <2>5. Resigned(i, p)' <=> Resigned(i, p)
      BY <1>4, <2>1 DEF Resigned
    <2>6. Founded(i, p)' /\ Single(i, p)' /\ Tracked(i, p)'
      BY <1>3, <1>4, <2>1, <2>2, <2>3, <2>4, <2>8
         DEF PairOK, Founded, SameFooting, Single, Tracked
    <2>7. LetGo(i, p)'
      BY <1>3, <1>4, <2>4, <2>5 DEF PairOK, LetGo, SameFooting
    <2> QED BY <1>4, <2>4, <2>6, <2>7 DEF PairOK
  <1> QED BY <1>5, <1>6

\* Where a thread is after each way of moving on.
LEMMA GotoAt ==
  ASSUME BaseOK, NEW t \in Threads, Active(t) \/ t \notin Requests, NEW pc, Goto(t, pc)
  PROVE  op'[t].pc = pc /\ op'[t].epoch = op[t].epoch /\ Others(t)
  <1>1. ThreadsOK
    BY DEF BaseOK
  <1>2. Moves(t, pc, op[t].epoch)
    BY <1>1, GotoMoves DEF Goto
  <1> QED BY <1>2 DEF Moves

\* The same for a thread that comes to rest.
LEMMA RestAt ==
  ASSUME BaseOK, NEW t \in Threads, t \notin Requests, Rest(t)
  PROVE  op'[t].pc = "idle"
  BY DEF BaseOK, ThreadsOK, Rest, Resting, Idle

\* The same for releaseHeldLease.
LEMMA ReleaseHeldAt ==
  ASSUME BaseOK, NEW t \in Threads, Active(t), ReleaseHeld(t)
  PROVE  /\ op'[t].pc \in {"lookup", "release"}
         /\ held'[op[t].i][op[t].p] = 0
  <1>1. ThreadsOK /\ op[t].i \in Instances /\ op[t].p \in Phones
    BY TaskFields DEF BaseOK, ThreadsOK
  <1> DEFINE e == held[op[t].i][op[t].p]
  <1>2. Moves(t, IF e = 0 THEN "lookup" ELSE "release", e)
    BY <1>1, GrantMoves DEF ReleaseHeld
  <1>3. op'[t].pc \in {"lookup", "release"}
    BY <1>2 DEF Moves
  <1>4. held' = [held EXCEPT ![op[t].i][op[t].p] = 0]
    BY DEF ReleaseHeld
  <1>5. held'[op[t].i][op[t].p] = 0
    BY <1>1, <1>4 DEF BaseOK, StateTypeOK
  <1> QED BY <1>3, <1>5

\* The same for abandonExplicitLease.
LEMMA AbandonAt ==
  ASSUME BaseOK, NEW t \in Threads, Active(t), Abandon(t)
  PROVE  op'[t].pc = "release"
  <1>1. ThreadsOK
    BY DEF BaseOK
  <1>2. Moves(t, "release", op[t].epoch)
    BY <1>1, GrantMoves DEF Abandon, AbandonLease
  <1> QED BY <1>2 DEF Moves

\* releaseHeldLease looks up an epoch that was never tracked.
LEMMA LookupAt ==
  ASSUME BaseOK, NEW t \in Threads, t \notin Requests, Lookup(t)
  PROVE  op'[t].pc \in {"release", "idle"}
  <1>1. CASE Rest(t)
    BY <1>1, RestAt
  <1>2. CASE ~ Rest(t)
    <2>1. Active(t) /\ ThreadsOK
      BY DEF Lookup, AtRedis, At, Active, BaseOK
    <2>2. \E e : op' = [op EXCEPT ![t].pc = "release", ![t].epoch = e]
      BY <1>2 DEF Lookup
    <2>3. PICK e : op' = [op EXCEPT ![t].pc = "release", ![t].epoch = e]
      BY <2>2
    <2>4. Moves(t, "release", e)
      BY <2>1, <2>3, GrantMoves
    <2> QED BY <2>4 DEF Moves
  <1> QED BY <1>1, <1>2

\* A claim goes about its connection as stated.
LEMMA ClaimSteps ==
  ASSUME Calm, CalmOK, NEW i \in Instances, NEW p \in Phones, NEW t, t = <<"claim", i, p>>,
         \/ Lookup(t) \/ CheckPaired(t) \/ GiveBack(t) \/ WakeClaim(t)
         \/ EnterConnect(t) \/ Opened(t) \/ SpawnFails(t)
  PROVE  UNCHANGED <<lease, overdue>> /\ ClaimGoes(i, p)
  <1>1. /\ t \in Threads /\ t \notin Requests
        /\ op[t].kind = "claim" /\ op[t].i = i /\ op[t].p = p
    BY TaskIs DEF CalmOK, Tasks
  <1>2. BaseOK /\ PairOK(i, p)
    BY DEF CalmOK
  <1>3. /\ ClaimAt(i, p) = op[t].pc /\ ClaimAt(i, p)' = op'[t].pc
        /\ ClaimEpoch(i, p) = op[t].epoch /\ ClaimEpoch(i, p)' = op'[t].epoch
    BY DEF ClaimAt, ClaimEpoch
  <1>4. UNCHANGED <<lease, overdue>>
    BY DEF Lookup, CheckPaired, GiveBack, WakeClaim, EnterConnect, Opened, SpawnFails, redis

  <1>5. CASE Lookup(t)
    <2>1. op[t].pc = "lookup" /\ conn' = conn /\ held' = held
      BY <1>5 DEF Lookup, AtRedis, At
    <2> QED BY <1>1, <1>2, <1>3, <1>4, <1>5, <2>1, LookupAt DEF ClaimGoes
  <1>6. CASE CheckPaired(t)
    <2>1. op[t].pc = "paired" /\ conn' = conn /\ held' = held
      BY <1>6 DEF CheckPaired, AtRedis, At
    <2>2. Goto(t, "set") \/ Rest(t)
      BY <1>6 DEF CheckPaired
    <2>3. op'[t].pc \in {"set", "idle"}
      BY <1>1, <1>2, <2>2, GotoAt, RestAt
    <2> QED BY <1>3, <1>4, <2>1, <2>3 DEF ClaimGoes
  <1>7. CASE GiveBack(t)
    <2>1. op[t].pc = "giveback" /\ conn' = conn /\ ReleaseHeld(t) /\ Active(t)
      BY <1>7 DEF GiveBack, At, Active
    <2>2. op'[t].pc \in {"lookup", "release"}
      BY <1>1, <1>2, <2>1, ReleaseHeldAt
    <2> QED BY <1>3, <1>4, <2>1, <2>2 DEF ClaimGoes
  <1>8. CASE WakeClaim(t)
    <2>1. op[t].pc = "sleep" /\ conn' = conn /\ Active(t)
      BY <1>8 DEF WakeClaim, At, Active
    <2>2. CASE ReleaseHeld(t)
      <3>1. op'[t].pc \in {"lookup", "release"}
        BY <1>1, <1>2, <2>1, <2>2, ReleaseHeldAt
      <3> QED BY <1>3, <1>4, <2>1, <3>1 DEF ClaimGoes
    <2>3. CASE Goto(t, "enter") /\ held' = held /\ held[i][p] = op[t].epoch
      <3>1. op'[t].pc = "enter" /\ op'[t].epoch = op[t].epoch
        BY <1>1, <1>2, <2>3, GotoAt
      <3> QED BY <1>3, <1>4, <2>1, <2>3, <3>1 DEF ClaimGoes
    <2>4. CASE Rest(t) /\ held' = held
      <3>1. op'[t].pc = "idle"
        BY <1>1, <1>2, <2>4, RestAt
      <3> QED BY <1>3, <1>4, <2>1, <2>4, <3>1 DEF ClaimGoes
    <2> QED BY <1>1, <1>8, <2>2, <2>3, <2>4 DEF WakeClaim
  <1>9. CASE EnterConnect(t)
    <2>1. op[t].pc = "enter" /\ Active(t)
      BY <1>9 DEF EnterConnect, AtSlot, Active
    <2>2. conn[i][p] = NoConn
      BY <1>2, <1>3, <2>1 DEF PairOK, Single
    <2>3. Spawn(t)
      BY <1>1, <1>9, <2>2 DEF EnterConnect
    <2>4. op'[t].pc = "spawning" /\ op'[t].epoch = op[t].epoch /\ held' = held
      BY <1>1, <1>2, <2>1, <2>3, GotoAt DEF Spawn
    <2>5. conn'[i][p] = [epoch |-> op[t].epoch, st |-> "opening"]
      BY <1>1, <1>2, <2>3 DEF Spawn, BaseOK, StateTypeOK
    <2>6. conn'[i][p] # NoConn /\ conn'[i][p].epoch = op[t].epoch
      <3>1. op[t].epoch \in Nat
        BY <1>1, <1>2, CalmThreads
      <3>2. conn'[i][p] \in Connection
        BY <2>5, <3>1 DEF Connection, Epochs
      <3> QED BY <2>5, <3>2, NamesAssumption
    <2> QED BY <1>3, <1>4, <2>1, <2>4, <2>6 DEF ClaimGoes
  <1>10. CASE Opened(t)
    <2>1. op[t].pc = "spawning" /\ held' = held /\ Rest(t)
      BY <1>10 DEF Opened, AtRedis, At
    <2>2. op'[t].pc = "idle"
      BY <1>1, <1>2, <2>1, RestAt
    <2>3. conn[i][p] # NoConn
      BY <1>1, <1>2, <2>1 DEF BaseOK, SlotsHeld
    <2>4. conn[i][p] \in Connection
      BY <1>2, <2>3 DEF BaseOK, StateTypeOK
    <2>5. conn'[i][p] = [conn[i][p] EXCEPT !.st = "live"]
      BY <1>1, <1>2, <1>10 DEF Opened, BaseOK, StateTypeOK
    <2>6. conn'[i][p] \in Connection /\ conn'[i][p].epoch = conn[i][p].epoch
      BY <2>4, <2>5 DEF Connection
    <2>7. conn'[i][p] # NoConn
      BY <2>6, NamesAssumption
    <2> QED BY <1>3, <1>4, <2>1, <2>2, <2>3, <2>6, <2>7 DEF ClaimGoes
  <1>11. CASE SpawnFails(t)
    <2>1. op[t].pc = "spawning" /\ Active(t) /\ Abandon(t)
      BY <1>11 DEF SpawnFails, At, Active
    <2>2. op'[t].pc = "release"
      BY <1>1, <1>2, <2>1, AbandonAt
    <2>3. conn'[i][p] = NoConn
      BY <1>1, <1>2, <1>11 DEF SpawnFails, BaseOK, StateTypeOK
    <2> QED BY <1>3, <1>4, <2>1, <2>2, <2>3 DEF ClaimGoes
  <1> QED BY <1>5, <1>6, <1>7, <1>8, <1>9, <1>10, <1>11

\* discardConnection, once the slot is free: what is connected goes, and unless a
\* renewal asked for it, no claim is about.
LEMMA DiscardPair ==
  ASSUME Calm, CalmOK, NEW k \in Tasks, NEW i \in Instances, NEW p \in Phones,
         Turn(k, i, p), EnterDiscard(<<k, i, p>>)
  PROVE  LeaseMoves(i, p) /\ PairOK(i, p)'
  <1> DEFINE t == <<k, i, p>>
  <1>1. t \in Threads /\ t \notin Requests /\ op[t].kind = k /\ op[t].i = i /\ op[t].p = p
    BY TaskIs DEF CalmOK
  <1>2. EnterDiscard(t)
    OBVIOUS
  <1>3. BaseOK /\ PairOK(i, p) /\ TickOK(i, p)
    BY DEF CalmOK, TicksOK
  <1>4. /\ k \in {"renew", "move", "stop"} /\ UNCHANGED <<lease, overdue>> /\ op[t].pc = "enter"
        /\ Active(t) /\ ~ SlotBusy(i, p)
    BY <1>1, <1>2 DEF EnterDiscard, AtSlot, redis, Active
  <1>5. conn'[i][p] = NoConn
    BY <1>1, <1>2, <1>3 DEF EnterDiscard, BaseOK, StateTypeOK
  <1>6. /\ (Up(i)' <=> Up(i)) /\ (Draining(i)' <=> Draining(i)) /\ Gone(i, p)' /\ todo' = todo
        /\ ClaimAt(i, p)' = ClaimAt(i, p) /\ ClaimEpoch(i, p)' = ClaimEpoch(i, p)
        /\ LostAt(i, p)' = LostAt(i, p) /\ LostEpoch(i, p)' = LostEpoch(i, p)
        /\ k # "move" => MoveAt(i, p)' = MoveAt(i, p)
        /\ k # "stop" => StopAt(i, p)' = StopAt(i, p)
    BY <1>4, TurnMoves DEF Turn
  <1>7. LeaseMoves(i, p) /\ SameFooting(i, p)
    BY <1>4, StayLeased
  <1>8. ClaimAt(i, p) # "spawning"
    BY <1>3, <1>4, SlotIsClaims
  <1>9. /\ k = "move" => MoveAt(i, p) = "enter" /\ ClaimAt(i, p) = "idle"
        /\ k = "stop" => StopAt(i, p) = "enter" /\ ClaimAt(i, p) \notin Leased
    BY <1>3, <1>4, <1>8 DEF MoveAt, StopAt, TickOK, PairOK, LetGo, Leased
  <1>15. ClaimAt(i, p) \in Leased => held' = held
    <2>1. k \in {"renew", "move"} => held' = held
      BY <1>1, <1>2 DEF EnterDiscard
    <2> QED BY <1>4, <1>9, <2>1
  <1>10. Founded(i, p)' /\ Single(i, p)'
    BY <1>3, <1>5, <1>6, <1>7, <1>15 DEF PairOK, Founded, SameFooting, Single
  <1>11. k # "renew" => Resigned(i, p)'
    BY <1>4, <1>5, <1>6, <1>9 DEF Resigned, Leased
  <1>12. Resigned(i, p) => Resigned(i, p)'
    BY <1>5, <1>6 DEF Resigned
  <1>13. LetGo(i, p)'
    BY <1>3, <1>4, <1>6, <1>7, <1>9, <1>11, <1>12
       DEF PairOK, LetGo, SameFooting
  <1>14. Tracked(i, p)'
    BY <1>3, <1>5, <1>6, <1>15 DEF PairOK, Tracked, Leased
  <1> QED BY <1>6, <1>7, <1>10, <1>13, <1>14 DEF PairOK

\* What a rebalance or the shutdown does after its discard, until it releases.
LEMMA HandoffPair ==
  ASSUME Calm, CalmOK, NEW k \in {"move", "stop"}, NEW i \in Instances, NEW p \in Phones,
         Turn(k, i, p), Steer(<<k, i, p>>) \/ Lookup(<<k, i, p>>)
  PROVE  LeaseMoves(i, p) /\ PairOK(i, p)'
  <1> DEFINE t == <<k, i, p>>
  <1>1. t \in Threads /\ t \notin Requests /\ op[t].kind = k /\ op[t].i = i /\ op[t].p = p
    BY TaskIs DEF CalmOK, Tasks
  <1>2. Steer(t) \/ Lookup(t)
    OBVIOUS
  <1>3. BaseOK /\ PairOK(i, p) /\ k \in Tasks
    BY DEF CalmOK, Tasks
  <1>4. op[t].pc \in {"steer", "lookup"} /\ Active(t)
        /\ UNCHANGED <<conn, lease, overdue>>
    BY <1>2 DEF Steer, Lookup, AtRedis, At, Active, redis
  <1>5. k = "stop" => op[t].pc = "lookup"
    <2>1. op[t].pc \in PcsOf(k)
      BY DEF Turn
    <2> QED BY <1>4, <2>1 DEF PcsOf
  <1>6. Resigned(i, p)
    BY <1>3, <1>4, <1>5 DEF PairOK, LetGo, MoveAt, StopAt
  <1>7. /\ (Up(i)' <=> Up(i)) /\ (Draining(i)' <=> Draining(i)) /\ Gone(i, p)' /\ todo' = todo
        /\ ClaimAt(i, p)' = ClaimAt(i, p)
        /\ k # "move" => MoveAt(i, p)' = MoveAt(i, p)
        /\ k # "stop" => StopAt(i, p)' = StopAt(i, p)
    BY <1>3, TurnMoves DEF Turn
  <1>8. Resigned(i, p)'
    BY <1>4, <1>6, <1>7 DEF Resigned
  <1>9. LeaseMoves(i, p)
    BY <1>4, StayLeased
  <1>10. Founded(i, p)' /\ Tracked(i, p)'
    BY <1>8 DEF Founded, Tracked, Resigned, Leased
  <1>11. Single(i, p)'
    BY <1>8 DEF Single, Resigned
  <1>12. LetGo(i, p)'
    <2>1. k = "stop" => StopAt(i, p) # "idle"
      BY <1>4 DEF StopAt
    <2> QED BY <1>3, <1>7, <1>8, <2>1 DEF PairOK, LetGo
  <1> QED BY <1>7, <1>9, <1>10, <1>11, <1>12 DEF PairOK

\* Every step of a task.
LEMMA StepCalm ==
  ASSUME Calm, CalmOK, NEW t \in Threads, Step(t) \/ SpawnFails(t)
  PROVE  \A i \in Instances, p \in Phones : PairOK(i, p)'
  <1>1. PICK k \in Tasks, i \in Instances, p \in Phones : t = <<k, i, p>>
    BY DEF Calm, Threads
  <1>2. Turn(k, i, p) /\ (LeaseMoves(i, p) => ActsAt(i, p))
    BY <1>1, CalmTurn
  <1>3. /\ op[t].kind = k /\ op[t].pc \in PcsOf(k) /\ Active(t)
        /\ op[t].i = i /\ op[t].p = p
    <2>1. Active(t)
      BY StepThreads DEF CalmOK, BaseOK
    <2> QED BY <1>1, <1>2, <2>1, TaskIs DEF Turn, CalmOK
  <1>4. LeaseMoves(i, p) /\ PairOK(i, p)'
    <2>1. CASE ClaimSet(t)
      BY <1>1, <1>2, <2>1, ClaimSetPair
    <2>2. CASE RenewSet(t)
      BY <1>1, <1>2, <2>2, RenewSetPair
    <2>3. CASE Release(t)
      BY <1>1, <1>2, <2>3, CalmRelease
    <2>4. CASE EnterDiscard(t)
      BY <1>1, <1>2, <2>4, DiscardPair
    <2>5. CASE Steer(t)
      <3>1. k = "move"
        BY <1>3, <2>5 DEF Steer, AtRedis, At, PcsOf, Tasks
      <3> QED BY <1>1, <1>2, <2>5, <3>1, HandoffPair
    <2>6. CASE \/ Lookup(t) \/ CheckPaired(t) \/ GiveBack(t) \/ WakeClaim(t)
               \/ EnterConnect(t) \/ Opened(t) \/ SpawnFails(t)
      <3>1. CASE k = "claim"
        <4>1. UNCHANGED <<lease, overdue>> /\ ClaimGoes(i, p)
          BY <1>1, <2>6, <3>1, ClaimSteps
        <4> QED BY <1>2, <3>1, <4>1, ClaimPair
      <3>2. CASE k # "claim"
        <4>1. Lookup(t) /\ k \in {"move", "stop"}
          BY <1>3, <2>6, <3>2 DEF Lookup, CheckPaired, GiveBack, WakeClaim, EnterConnect,
             Opened, SpawnFails, AtRedis, At, AtSlot, PcsOf, Tasks, ConnectKinds
        <4> QED BY <1>1, <1>2, <4>1, HandoffPair
      <3> QED BY <3>1, <3>2
    <2>7. ~ (ForceSet(t) \/ EnterLogout(t) \/ ClearedAuth(t) \/ Inspect(t) \/ Clear(t)
             \/ Seed(t) \/ Finally(t))
      BY <1>3 DEF ForceSet, EnterLogout, ClearedAuth, Inspect, Clear, Seed, Finally,
         AtRedis, At, AtSlot, PcsOf, Tasks, AllKinds
    <2> QED BY <2>1, <2>2, <2>3, <2>4, <2>5, <2>6, <2>7 DEF Step
  <1> QED BY <1>2, <1>4, PairsElsewhere

\* Nothing happens that a pair is about, but lists may get shorter.
LEMMA PairsStill ==
  ASSUME CalmOK, UNCHANGED <<lease, overdue, status, conn, held, op>>,
         \A i \in Instances : todo'[i].claim \subseteq todo[i].claim
                              /\ todo'[i].stop \subseteq todo[i].stop
  PROVE  \A i \in Instances, p \in Phones : PairOK(i, p)'
  <1> SUFFICES ASSUME NEW i \in Instances, NEW p \in Phones PROVE PairOK(i, p)'
    OBVIOUS
  <1>1. Same(i, p) /\ LeaseSame(i, p) /\ PairOK(i, p)
    BY DEF Same, LeaseSame, CalmOK, Overdue, Owns
  <1> QED BY <1>1, PairStill

\* An instance makes its lists, starts, or begins or announces its shutdown.
LEMMA PairLists ==
  ASSUME CalmOK, UNCHANGED <<lease, overdue, conn, held, op>>, NEW i \in Instances, NEW p \in Phones,
         Up(i) => Up(i)',
         p \in todo'[i].claim => Up(i)' /\ conn[i][p] = NoConn,
         p \in todo'[i].stop \/ StopAt(i, p) # "idle" =>
           Up(i)' /\ Draining(i)' /\ ClaimAt(i, p) \in {"idle", "spawning", "release", "lookup"}
  PROVE  PairOK(i, p)'
  <1>1. PairOK(i, p)
    BY DEF CalmOK
  <1>2. /\ ClaimAt(i, p)' = ClaimAt(i, p) /\ ClaimEpoch(i, p)' = ClaimEpoch(i, p)
        /\ RenewAt(i, p)' = RenewAt(i, p) /\ MoveAt(i, p)' = MoveAt(i, p)
        /\ StopAt(i, p)' = StopAt(i, p)
        /\ LostAt(i, p)' = LostAt(i, p) /\ LostEpoch(i, p)' = LostEpoch(i, p)
    BY DEF ClaimAt, ClaimEpoch, RenewAt, MoveAt, StopAt, LostAt, LostEpoch
  <1>3. SameFooting(i, p)
    BY StayLeased
  <1>4. Gone(i, p)'
    BY <1>1 DEF PairOK, Gone
  <1>5. Founded(i, p)' /\ Tracked(i, p)'
    BY <1>1, <1>2, <1>3 DEF PairOK, Founded, SameFooting, Tracked
  <1>6. Single(i, p)'
    BY <1>1, <1>2 DEF PairOK, Single
  <1>7. Resigned(i, p)' <=> Resigned(i, p)
    BY <1>2 DEF Resigned
  <1>8. LetGo(i, p)'
    BY <1>1, <1>2, <1>3, <1>7 DEF PairOK, LetGo, SameFooting
  <1> QED BY <1>4, <1>5, <1>6, <1>8 DEF PairOK

\* One task of a pair sets off, or moves on, while the instance's lists get shorter.
Sets(k, i, p) ==
  /\ Others(<<k, i, p>>) /\ UNCHANGED <<lease, overdue, status>>
  /\ \A j \in Instances, q \in Phones : <<j, q>> # <<i, p>> =>
       conn'[j][q] = conn[j][q] /\ held'[j][q] = held[j][q]
  /\ \A j \in Instances : todo'[j].claim \subseteq todo[j].claim
                          /\ todo'[j].stop \subseteq todo[j].stop

\* Such a step is about its pair alone, and about no other task of the pair.
LEMMA SetsActs ==
  ASSUME CalmOK, NEW k \in Tasks, NEW i \in Instances, NEW p \in Phones, Sets(k, i, p)
  PROVE  /\ ActsAt(i, p)
         /\ \A l \in Tasks \ {k} : op'[<<l, i, p>>] = op[<<l, i, p>>]
  <1> DEFINE t == <<k, i, p>>
  <1>1. Others(t)
    BY DEF Sets
  <1>2. \A u \in Threads : u # t => op'[u] = op[u]
    BY <1>1 DEF Others
  <1>3. ASSUME NEW l \in Tasks, NEW j \in Instances, NEW q \in Phones, <<l, j, q>> # t
        PROVE  op'[<<l, j, q>>] = op[<<l, j, q>>]
    <2>1. <<l, j, q>> \in Threads
      BY TaskIs DEF CalmOK
    <2> QED BY <1>2, <1>3, <2>1
  <1>4. ASSUME NEW j \in Instances, NEW q \in Phones, <<j, q>> # <<i, p>> PROVE Same(j, q)
    BY <1>3, <1>4 DEF Sets, Same
  <1>5. LeaseMoves(i, p)
    BY DEF Sets, LeaseMoves
  <1> QED BY <1>3, <1>4, <1>5 DEF ActsAt

\* The facts about the other tasks of the pair, in the names the pair uses.
LEMMA SetsMoves ==
  ASSUME NEW k \in Tasks, NEW i, NEW p, UNCHANGED <<lease, overdue, status>>,
         \A l \in Tasks \ {k} : op'[<<l, i, p>>] = op[<<l, i, p>>]
  PROVE  /\ (Up(i)' <=> Up(i)) /\ (Draining(i)' <=> Draining(i))
         /\ SameFooting(i, p)
         /\ k # "claim" => /\ ClaimAt(i, p)' = ClaimAt(i, p)
                           /\ ClaimEpoch(i, p)' = ClaimEpoch(i, p)
         /\ k # "renew" => RenewAt(i, p)' = RenewAt(i, p)
         /\ k # "move" => MoveAt(i, p)' = MoveAt(i, p)
         /\ k # "stop" => StopAt(i, p)' = StopAt(i, p)
         /\ k # "lost" => LostAt(i, p)' = LostAt(i, p) /\ LostEpoch(i, p)' = LostEpoch(i, p)
  BY DEF Up, Draining, SameFooting, Holds, Owns, Overdue, ClaimAt, ClaimEpoch, RenewAt,
     MoveAt, StopAt, LostAt, LostEpoch, Tasks

\* A task of loop l takes phone p off its list.
LEMMA ListShrinks ==
  ASSUME BaseOK, NEW i \in Instances, NEW p,
         \/ todo' = todo
         \/ todo' = [todo EXCEPT ![i].claim = @ \ {p}]
         \/ todo' = [todo EXCEPT ![i].renew = @ \ {p}]
         \/ todo' = [todo EXCEPT ![i].stop = @ \ {p}]
  PROVE  \A j \in Instances : todo'[j].claim \subseteq todo[j].claim
                              /\ todo'[j].stop \subseteq todo[j].stop
  <1> DEFINE T == [{"claim", "renew", "stop"} -> SUBSET Phones]
  <1>1. todo \in [Instances -> T]
    BY DEF BaseOK, StateTypeOK
  <1>2. /\ \A j \in Instances : j # i => todo'[j] = todo[j]
        /\ \/ todo'[i] = todo[i]
           \/ todo'[i] = [todo[i] EXCEPT !.claim = todo[i].claim \ {p}]
           \/ todo'[i] = [todo[i] EXCEPT !.renew = todo[i].renew \ {p}]
           \/ todo'[i] = [todo[i] EXCEPT !.stop = todo[i].stop \ {p}]
    BY <1>1
  <1>3. todo'[i].claim \subseteq todo[i].claim /\ todo'[i].stop \subseteq todo[i].stop
    BY <1>1, <1>2
  <1> QED BY <1>2, <1>3

\* A candidate passes the gates, or is passed over.
LEMMA ConsiderCalm ==
  ASSUME Calm, CalmOK, NEW i \in Instances, NEW p \in Phones, Consider(i, p)
  PROVE  \A j \in Instances, q \in Phones : PairOK(j, q)'
  <1> DEFINE t == <<"claim", i, p>>
  <1>1. t \in Threads /\ t \notin Requests /\ "claim" \in Tasks
    BY TaskIs DEF CalmOK, Tasks
  <1>2. BaseOK /\ PairOK(i, p) /\ TickOK(i, p)
    BY DEF CalmOK, TicksOK
  <1>3. UNCHANGED <<lease, overdue, status, conn, held>>
    BY DEF Consider, redis, health
  <1>4. \A j \in Instances : todo'[j].claim \subseteq todo[j].claim
                             /\ todo'[j].stop \subseteq todo[j].stop
    BY <1>2, ListShrinks DEF Consider
  <1>5. UNCHANGED op \/ Goto(t, "paired")
    BY DEF Consider
  <1>6. CASE UNCHANGED op
    BY <1>3, <1>4, <1>6, PairsStill
  <1>7. CASE Goto(t, "paired")
    <2>1. Others(t) /\ op'[t].pc = "paired"
      <3> HIDE DEF t
      <3> QED BY <1>1, <1>2, <1>7, GotoAt
    <2>2. Sets("claim", i, p)
      BY <1>3, <1>4, <2>1 DEF Sets
    <2>3. ActsAt(i, p) /\ \A l \in Tasks \ {"claim"} : op'[<<l, i, p>>] = op[<<l, i, p>>]
      BY <1>1, <2>2, SetsActs
    <2>4. /\ (Up(i)' <=> Up(i)) /\ (Draining(i)' <=> Draining(i))
          /\ SameFooting(i, p)
          /\ RenewAt(i, p)' = RenewAt(i, p) /\ MoveAt(i, p)' = MoveAt(i, p)
          /\ StopAt(i, p)' = StopAt(i, p)
          /\ LostAt(i, p)' = LostAt(i, p) /\ LostEpoch(i, p)' = LostEpoch(i, p)
      BY <1>1, <1>3, <2>3, SetsMoves
    <2>5. ClaimAt(i, p)' = "paired" /\ ClaimAt(i, p) = "idle" /\ p \in todo[i].claim
          /\ status[i] = "running" /\ conn[i][p] = NoConn
      BY <1>2, <2>1 DEF ClaimAt, Consider, TickOK, PairOK, Single
    <2> HIDE DEF t
    <2>6. Gone(i, p)' /\ Founded(i, p)' /\ Single(i, p)' /\ Tracked(i, p)'
      BY <1>3, <2>4, <2>5 DEF Gone, Up, Founded, Single, Tracked, Leased
    <2>7. Resigned(i, p)'
      BY <1>3, <2>5 DEF Resigned, Leased
    <2>8. LetGo(i, p)'
      BY <1>2, <1>4, <2>4, <2>5, <2>7 DEF PairOK, LetGo, SameFooting, Draining
    <2>9. PairOK(i, p)'
      BY <2>6, <2>8 DEF PairOK
    <2> QED BY <2>3, <2>9, PairsElsewhere
  <1> QED BY <1>5, <1>6, <1>7

\* A renewal finds the lease, or goes for it, or fences the instance off.
LEMMA RenewCalm ==
  ASSUME Calm, CalmOK, NEW i \in Instances, NEW p \in Phones, Renew(i, p)
  PROVE  \A j \in Instances, q \in Phones : PairOK(j, q)'
  <1> DEFINE t == <<"renew", i, p>>
  <1>1. t \in Threads /\ t \notin Requests /\ "renew" \in Tasks
    BY TaskIs DEF CalmOK, Tasks
  <1>2. BaseOK /\ PairOK(i, p)
    BY DEF CalmOK
  <1>3. UNCHANGED <<lease, overdue, status, conn>> /\ Up(i) /\ Settled(i)
    BY DEF Renew, redis
  <1>4. \A j \in Instances : todo'[j].claim \subseteq todo[j].claim
                             /\ todo'[j].stop \subseteq todo[j].stop
    BY <1>2, ListShrinks DEF Renew
  <1>5. \/ UNCHANGED <<held, op>>
        \/ Goto(t, "set") /\ held' = held
        \/ Goto(t, "enter") /\ held' = [held EXCEPT ![i][p] = 0]
    BY DEF Renew, Fence
  <1>6. CASE UNCHANGED <<held, op>>
    BY <1>3, <1>4, <1>6, PairsStill
  <1>7. CASE ~ UNCHANGED <<held, op>>
    <2>1. \/ Others(t) /\ op'[t].pc = "set" /\ held' = held
          \/ Others(t) /\ op'[t].pc = "enter" /\ held' = [held EXCEPT ![i][p] = 0]
      <3> HIDE DEF t
      <3> QED BY <1>1, <1>2, <1>5, <1>7, GotoAt
    <2>2. \A j \in Instances, q \in Phones : <<j, q>> # <<i, p>> => held'[j][q] = held[j][q]
      BY <1>2, <2>1 DEF BaseOK, StateTypeOK
    <2>3. Sets("renew", i, p)
      BY <1>3, <1>4, <2>1, <2>2 DEF Sets
    <2>4. ActsAt(i, p) /\ \A l \in Tasks \ {"renew"} : op'[<<l, i, p>>] = op[<<l, i, p>>]
      BY <1>1, <2>3, SetsActs
    <2>5. /\ (Up(i)' <=> Up(i)) /\ (Draining(i)' <=> Draining(i))
          /\ SameFooting(i, p)
          /\ ClaimAt(i, p)' = ClaimAt(i, p) /\ ClaimEpoch(i, p)' = ClaimEpoch(i, p)
          /\ MoveAt(i, p)' = MoveAt(i, p) /\ StopAt(i, p)' = StopAt(i, p)
          /\ LostAt(i, p)' = LostAt(i, p) /\ LostEpoch(i, p)' = LostEpoch(i, p)
      BY <1>1, <1>3, <2>4, SetsMoves
    <2>6. ClaimAt(i, p) # "enter"
      BY <1>2, <1>3, NoClaimWaits
    <2>7. RenewAt(i, p)' = "enter" \/ held' = held
      BY <2>1 DEF RenewAt
    <2>8. conn[i][p] # NoConn /\ held' = held =>
            held[i][p] = conn[i][p].epoch \/ RenewAt(i, p)' = "enter"
      <3>1. RenewAt(i, p) # "enter"
        <4>1. ~ Active(t)
          BY DEF Renew
        <4> QED BY <4>1 DEF Active, RenewAt
      <3> QED BY <1>2, <3>1 DEF PairOK, Tracked
    <2> HIDE DEF t
    <2>13. ClaimAt(i, p) \in Leased => held' = held \/ held'[i][p] # ClaimEpoch(i, p)
      <3>1. held' = held \/ held'[i][p] = 0
        BY <1>2, <2>1 DEF BaseOK, StateTypeOK
      <3> QED BY <1>2, <3>1, ClaimGranted
    <2>9. Gone(i, p)' /\ Founded(i, p)' /\ Single(i, p)'
      BY <1>2, <1>3, <1>4, <2>5, <2>13 DEF PairOK, Gone, Founded, SameFooting, Single
    <2>10. Tracked(i, p)'
      BY <1>3, <2>5, <2>6, <2>7, <2>8 DEF Tracked
    <2>11. Resigned(i, p)' <=> Resigned(i, p)
      BY <1>3, <2>5 DEF Resigned
    <2>12. LetGo(i, p)'
      BY <1>2, <1>4, <2>5, <2>11 DEF PairOK, LetGo, SameFooting
    <2> QED BY <2>4, <2>9, <2>10, <2>12, PairsElsewhere DEF PairOK
  <1> QED BY <1>6, <1>7

\* A task that waits for the slot: the shutdown's for a phone of its snapshot, or
\* a rebalance's for its victim.
LEMMA WaiterCalm ==
  ASSUME Calm, CalmOK, NEW k \in {"stop", "move"}, NEW i \in Instances, NEW p \in Phones,
         Sets(k, i, p), UNCHANGED <<conn, held>>, op'[<<k, i, p>>].pc = "enter", Up(i),
         k = "stop" => p \in todo[i].stop
  PROVE  \A j \in Instances, q \in Phones : PairOK(j, q)'
  <1>1. BaseOK /\ PairOK(i, p) /\ k \in Tasks
    BY DEF CalmOK, Tasks
  <1>2. ActsAt(i, p) /\ \A l \in Tasks \ {k} : op'[<<l, i, p>>] = op[<<l, i, p>>]
    BY <1>1, SetsActs
  <1>3. /\ UNCHANGED <<lease, overdue, status>>
        /\ \A j \in Instances : todo'[j].claim \subseteq todo[j].claim
                                /\ todo'[j].stop \subseteq todo[j].stop
    BY DEF Sets
  <1>4. /\ (Up(i)' <=> Up(i)) /\ (Draining(i)' <=> Draining(i))
        /\ SameFooting(i, p)
        /\ ClaimAt(i, p)' = ClaimAt(i, p) /\ ClaimEpoch(i, p)' = ClaimEpoch(i, p)
        /\ RenewAt(i, p)' = RenewAt(i, p)
        /\ k # "move" => MoveAt(i, p)' = MoveAt(i, p)
        /\ k # "stop" => StopAt(i, p)' = StopAt(i, p)
        /\ LostAt(i, p)' = LostAt(i, p) /\ LostEpoch(i, p)' = LostEpoch(i, p)
    BY <1>1, <1>2, <1>3, SetsMoves
  <1>5. (k = "move" => MoveAt(i, p)' = "enter") /\ (k = "stop" => StopAt(i, p)' = "enter")
    BY DEF MoveAt, StopAt
  <1>6. Gone(i, p)' /\ Founded(i, p)' /\ Single(i, p)' /\ Tracked(i, p)'
    BY <1>1, <1>3, <1>4 DEF PairOK, Gone, Founded, SameFooting, Single, Tracked
  <1>7. Resigned(i, p)' <=> Resigned(i, p)
    BY <1>4 DEF Resigned
  <1>8. LetGo(i, p)'
    BY <1>1, <1>3, <1>4, <1>5, <1>7 DEF PairOK, LetGo, SameFooting
  <1>9. PairOK(i, p)'
    BY <1>6, <1>8 DEF PairOK
  <1> QED BY <1>2, <1>9, PairsElsewhere

\* The shutdown comes to the next phone of its snapshot.
LEMMA StopNextCalm ==
  ASSUME Calm, CalmOK, NEW i \in Instances, NEW p \in Phones, StopNext(i, p)
  PROVE  \A j \in Instances, q \in Phones : PairOK(j, q)'
  <1> DEFINE t == <<"stop", i, p>>
  <1>1. t \in Threads /\ t \notin Requests /\ BaseOK
    BY TaskIs DEF CalmOK, Tasks
  <1>2. UNCHANGED <<lease, overdue, status, conn, held>> /\ Up(i) /\ Goto(t, "enter")
    BY DEF StopNext, redis, health, Up
  <1>3. \A j \in Instances : todo'[j].claim \subseteq todo[j].claim
                             /\ todo'[j].stop \subseteq todo[j].stop
    BY <1>1, ListShrinks DEF StopNext
  <1>4. Others(t) /\ op'[t].pc = "enter"
    <2> HIDE DEF t
    <2> QED BY <1>1, <1>2, GotoAt
  <1>5. Sets("stop", i, p)
    BY <1>2, <1>3, <1>4 DEF Sets
  <1>6. p \in todo[i].stop
    BY DEF StopNext
  <1> QED BY <1>2, <1>4, <1>5, <1>6, WaiterCalm

\* The claims that have a lease go on together: in the scan, or given up with it.
LEMMA NextPhaseCalm ==
  ASSUME Calm, CalmOK, NEW i \in Instances, NextPhase(i)
  PROVE  \A j \in Instances, q \in Phones : PairOK(j, q)'
  <1>1. BaseOK /\ UNCHANGED <<lease, overdue, status, conn, held>> /\ Up(i)
    BY DEF CalmOK, NextPhase, redis, health
  <1>2. ASSUME NEW k \in Tasks, NEW j \in Instances, NEW p \in Phones
        PROVE  \/ op'[<<k, j, p>>] = op[<<k, j, p>>]
               \/ /\ k = "claim" /\ j = i /\ op[<<k, j, p>>].pc = "claimed"
                  /\ op'[<<k, j, p>>].pc \in {"giveback", "sleep"}
                  /\ op'[<<k, j, p>>].epoch = op[<<k, j, p>>].epoch
    <2> DEFINE t == <<k, j, p>>
    <2>1. t \in Threads /\ op[t].kind = k /\ op[t].i = j /\ t \notin Requests
      BY <1>1, TaskIs
    <2> HIDE DEF t
    <2>2. CASE Active(t) /\ op[t].i = i /\ op[t].pc = "claimed"
      <3>1. Working(t, op[t])
        BY <1>1, <2>1, <2>2, WorkingOrWaiting DEF BaseOK, ThreadsOK
      <3>2. k = "claim" /\ j = i
        BY <2>1, <2>2, <3>1 DEF Working, PcsOf, Tasks
      <3>3. op'[t] = [op[t] EXCEPT !.pc = IF Draining(i) THEN "giveback" ELSE "sleep"]
        BY <2>1, <2>2 DEF NextPhase
      <3>4. op'[t].pc \in {"giveback", "sleep"} /\ op'[t].epoch = op[t].epoch
        BY <3>1, <3>3 DEF Working, Op
      <3> QED BY <2>2, <3>2, <3>4 DEF t
    <2>3. CASE ~ (Active(t) /\ op[t].i = i /\ op[t].pc = "claimed")
      BY <2>1, <2>3 DEF NextPhase, t
    <2> QED BY <2>2, <2>3
  <1>3. /\ todo'[i].claim = {} /\ todo'[i].stop = todo[i].stop
        /\ \A j \in Instances : j # i => todo'[j] = todo[j]
    <2> DEFINE T == [{"claim", "renew", "stop"} -> SUBSET Phones]
    <2>1. todo \in [Instances -> T]
      BY <1>1 DEF BaseOK, StateTypeOK
    <2>2. todo'[i] = [todo[i] EXCEPT !.claim = {}]
          /\ \A j \in Instances : j # i => todo'[j] = todo[j]
      BY <2>1 DEF NextPhase
    <2>3. todo'[i].claim = {} /\ todo'[i].stop = todo[i].stop
      BY <2>1, <2>2
    <2> QED BY <2>2, <2>3
  <1>4. ASSUME NEW j \in Instances, NEW p \in Phones PROVE PairOK(j, p)'
    <2>1. PairOK(j, p)
      BY DEF CalmOK
    <2>2. CASE \A k \in Tasks : op'[<<k, j, p>>] = op[<<k, j, p>>]
      <3>1. Same(j, p) /\ LeaseSame(j, p)
        BY <1>1, <1>3, <2>2 DEF Same, LeaseSame, Overdue, Owns
      <3> QED BY <2>1, <3>1, PairStill
    <2>3. CASE ~ \A k \in Tasks : op'[<<k, j, p>>] = op[<<k, j, p>>]
      <3>1. /\ j = i /\ ClaimAt(i, p) = "claimed" /\ ClaimAt(i, p)' \in {"giveback", "sleep"}
            /\ ClaimEpoch(i, p)' = ClaimEpoch(i, p)
            /\ \A k \in Tasks \ {"claim"} : op'[<<k, i, p>>] = op[<<k, i, p>>]
        BY <1>2, <2>3 DEF ClaimAt, ClaimEpoch, Tasks
      <3>2. /\ (Up(i)' <=> Up(i)) /\ (Draining(i)' <=> Draining(i))
            /\ SameFooting(i, p)
            /\ RenewAt(i, p)' = RenewAt(i, p) /\ MoveAt(i, p)' = MoveAt(i, p)
            /\ StopAt(i, p)' = StopAt(i, p)
            /\ LostAt(i, p)' = LostAt(i, p) /\ LostEpoch(i, p)' = LostEpoch(i, p)
        <4>1. "claim" \in Tasks
          BY DEF Tasks
        <4> QED BY <1>1, <3>1, <4>1, SetsMoves
      <3>3. Gone(i, p)' /\ Founded(i, p)' /\ Single(i, p)' /\ Tracked(i, p)'
        BY <1>1, <1>3, <2>1, <3>1, <3>2
           DEF PairOK, Gone, Founded, SameFooting, Single, Tracked, Leased
      <3>4. ~ Resigned(i, p)
        BY <3>1 DEF Resigned, Leased
      <3>5. LetGo(i, p)'
        BY <1>1, <1>3, <2>1, <3>1, <3>2, <3>4 DEF PairOK, LetGo, SameFooting
      <3> QED BY <3>1, <3>3, <3>5 DEF PairOK
    <2> QED BY <2>2, <2>3
  <1> QED BY <1>4

\* A process that goes takes everything it has with it, but its leases.
LEMMA DieCalm ==
  ASSUME Calm, CalmOK, NEW i \in Instances, Die(i)
  PROVE  \A j \in Instances, q \in Phones : PairOK(j, q)'
  <1>1. BaseOK /\ lease' = lease /\ overdue' = {o \in overdue : o[1] # i}
    BY DEF CalmOK, Die
  <1>2. ASSUME NEW k \in Tasks, NEW j \in Instances, NEW p \in Phones
        PROVE  IF j = i THEN op'[<<k, j, p>>].pc = "idle"
               ELSE op'[<<k, j, p>>] = op[<<k, j, p>>]
    <2> DEFINE t == <<k, j, p>>
    <2>1. t \in Threads /\ t \notin Requests /\ op[t].i = j
      BY <1>1, TaskIs
    <2>2. op[t].pc = "idle" <=> ~ Active(t)
      BY <1>1, TaskIdle
    <2> HIDE DEF t
    <2>3. Resting(t).pc = "idle"
      BY <2>1 DEF Resting, Idle
    <2>4. op'[t] = IF Active(t) /\ op[t].i = i THEN Resting(t) ELSE op[t]
      BY <2>1 DEF Die
    <2>5. IF j = i THEN op'[t].pc = "idle" ELSE op'[t] = op[t]
      BY <2>1, <2>2, <2>3, <2>4
    <2> QED BY <2>5 DEF t
  <1>3. ASSUME NEW j \in Instances, NEW p \in Phones, j # i PROVE PairOK(j, p)'
    <2>1. /\ status'[j] = status[j] /\ conn'[j] = conn[j] /\ held'[j] = held[j]
          /\ todo'[j] = todo[j]
      BY <1>1, <1>3 DEF Die, BaseOK, StateTypeOK
    <2>2. Same(j, p) /\ LeaseSame(j, p) /\ PairOK(j, p)
      BY <1>1, <1>2, <1>3, <2>1 DEF Same, LeaseSame, CalmOK, Overdue, Owns
    <2> QED BY <2>2, PairStill
  <1>4. ASSUME NEW p \in Phones PROVE PairOK(i, p)'
    <2>1. conn'[i][p] = NoConn /\ todo'[i].claim = {} /\ todo'[i].stop = {}
      BY <1>1 DEF Die, BaseOK, StateTypeOK
    <2>2. \A k \in Tasks : op'[<<k, i, p>>].pc = "idle"
      BY <1>2
    <2>3. ClaimAt(i, p)' = "idle" /\ StopAt(i, p)' = "idle" /\ MoveAt(i, p)' = "idle"
          /\ LostAt(i, p)' = "idle"
      BY <2>2 DEF ClaimAt, StopAt, MoveAt, LostAt, Tasks
    <2>4. Gone(i, p)' /\ Founded(i, p)' /\ Single(i, p)' /\ LetGo(i, p)' /\ Tracked(i, p)'
      BY <2>1, <2>2, <2>3 DEF Gone, Founded, Single, LetGo, Tracked, Leased
    <2> QED BY <2>4 DEF PairOK
  <1> QED BY <1>3, <1>4

\* Every step of an instance's loops.
LEMMA LoopsCalm ==
  ASSUME Calm, CalmOK, NEW i \in Instances, ClaimLoop(i) \/ RenewLoop(i) \/ StopLoop(i)
  PROVE  \A j \in Instances, q \in Phones : PairOK(j, q)'
  <1>1. BaseOK /\ reachable[i]
    BY DEF CalmOK
  <1>2. CASE BeginScan(i)
    <2> DEFINE S == {p \in Phones : auth[p] # "none" /\ conn[i][p] = NoConn}
    <2>1. UNCHANGED <<lease, overdue, status, conn, held, op>> /\ status[i] = "running"
          /\ todo' = [todo EXCEPT ![i].claim = S]
      BY <1>2 DEF BeginScan, redis, health
    <2>2. /\ todo'[i].claim = S /\ todo'[i].stop = todo[i].stop
          /\ \A j \in Instances : j # i => todo'[j] = todo[j]
      <3> DEFINE T == [{"claim", "renew", "stop"} -> SUBSET Phones]
      <3>1. todo \in [Instances -> T]
        BY <1>1 DEF BaseOK, StateTypeOK
      <3> HIDE DEF S
      <3>2. todo'[i] = [todo[i] EXCEPT !.claim = S]
            /\ \A j \in Instances : j # i => todo'[j] = todo[j]
        BY <2>1, <3>1
      <3>3. todo'[i].claim = S /\ todo'[i].stop = todo[i].stop
        BY <3>1, <3>2
      <3> QED BY <3>2, <3>3
    <2>3. ASSUME NEW j \in Instances, NEW p \in Phones PROVE PairOK(j, p)'
      <3>1. PairOK(j, p)
        BY DEF CalmOK
      <3>2. CASE j # i
        <4>1. Same(j, p) /\ LeaseSame(j, p)
          BY <2>1, <2>2, <3>2 DEF Same, LeaseSame, Overdue, Owns
        <4> QED BY <3>1, <4>1, PairStill
      <3>3. CASE j = i
        <4>1. /\ Up(i) => Up(i)'
              /\ p \in todo'[i].claim => Up(i)' /\ conn[i][p] = NoConn
              /\ p \in todo'[i].stop \/ StopAt(i, p) # "idle" =>
                   Up(i)' /\ Draining(i)' /\ ClaimAt(i, p) \in {"idle", "spawning", "release", "lookup"}
          BY <2>1, <2>2, <3>1, <3>3 DEF Up, Draining, PairOK, LetGo
        <4> QED BY <2>1, <3>3, <4>1, PairLists
      <3> QED BY <3>2, <3>3
    <2> QED BY <2>3
  <1>3. CASE NextPhase(i)
    BY <1>3, NextPhaseCalm
  <1>4. ASSUME NEW p \in Phones, Consider(i, p)
        PROVE  \A j \in Instances, q \in Phones : PairOK(j, q)'
    BY <1>4, ConsiderCalm
  <1>5. CASE BeginRenew(i)
    <2>1. UNCHANGED <<lease, overdue, status, conn, held, op>>
      BY <1>5 DEF BeginRenew, redis
    <2>2. \A j \in Instances : todo'[j].claim \subseteq todo[j].claim
                               /\ todo'[j].stop \subseteq todo[j].stop
      <3> DEFINE T == [{"claim", "renew", "stop"} -> SUBSET Phones]
      <3>1. todo \in [Instances -> T]
        BY <1>1 DEF BaseOK, StateTypeOK
      <3>2. todo' = todo \/ todo'[i] = [todo[i] EXCEPT !.renew = Registered(i)]
        BY <1>5, <3>1 DEF BeginRenew
      <3>3. \A j \in Instances : j # i => todo'[j] = todo[j]
        BY <1>5, <3>1 DEF BeginRenew
      <3>4. todo'[i].claim = todo[i].claim /\ todo'[i].stop = todo[i].stop
        BY <3>1, <3>2
      <3> QED BY <3>3, <3>4
    <2> QED BY <2>1, <2>2, PairsStill
  <1>6. ~ RenewFails(i)
    BY <1>1 DEF RenewFails
  <1>7. ASSUME NEW p \in Phones, Renew(i, p)
        PROVE  \A j \in Instances, q \in Phones : PairOK(j, q)'
    BY <1>7, RenewCalm
  <1>8. CASE Announce(i)
    <2>1. UNCHANGED <<lease, overdue, conn, held, op>> /\ todo' = [todo EXCEPT ![i].stop = Registered(i)]
      BY <1>8 DEF Announce
    <2>2. /\ status'[i] = "draining" /\ \A j \in Instances : j # i => status'[j] = status[j]
          /\ todo'[i].claim = todo[i].claim /\ todo'[i].stop = Registered(i)
          /\ \A j \in Instances : j # i => todo'[j] = todo[j]
      <3> DEFINE T == [{"claim", "renew", "stop"} -> SUBSET Phones]
                 R == Registered(i)
      <3>1. todo \in [Instances -> T]
        BY <1>1 DEF BaseOK, StateTypeOK
      <3> HIDE DEF R
      <3>2. todo'[i] = [todo[i] EXCEPT !.stop = R]
            /\ \A j \in Instances : j # i => todo'[j] = todo[j]
        BY <2>1, <3>1 DEF R
      <3>3. todo'[i].claim = todo[i].claim /\ todo'[i].stop = R
        BY <3>1, <3>2
      <3>4. status'[i] = "draining" /\ \A j \in Instances : j # i => status'[j] = status[j]
        BY <1>1, <1>8 DEF Announce, BaseOK, StateTypeOK
      <3> QED BY <3>2, <3>3, <3>4 DEF R
    <2>3. ASSUME NEW j \in Instances, NEW p \in Phones PROVE PairOK(j, p)'
      <3>1. PairOK(j, p)
        BY DEF CalmOK
      <3>2. CASE j # i
        <4>1. Same(j, p) /\ LeaseSame(j, p)
          BY <2>1, <2>2, <3>2 DEF Same, LeaseSame, Overdue, Owns
        <4> QED BY <3>1, <4>1, PairStill
      <3>3. CASE j = i
        <4>1. Up(i)' /\ Draining(i)'
          BY <2>2 DEF Up, Draining
        <4>2. p \in todo'[i].claim => conn[i][p] = NoConn
          BY <2>2, <3>1, <3>3 DEF PairOK, Single
        <4>3. p \in todo'[i].stop \/ StopAt(i, p) # "idle" =>
                ClaimAt(i, p) \in {"idle", "spawning", "release", "lookup"}
          BY <2>2, <3>1, <3>3 DEF PairOK, Single, LetGo, Registered
        <4> QED BY <2>1, <3>3, <4>1, <4>2, <4>3, PairLists
      <3> QED BY <3>2, <3>3
    <2> QED BY <2>3
  <1>9. CASE Exit(i)
    BY <1>9, DieCalm DEF Exit
  <1>10. ASSUME NEW p \in Phones, StopNext(i, p)
         PROVE  \A j \in Instances, q \in Phones : PairOK(j, q)'
    BY <1>10, StopNextCalm
  <1> QED BY <1>2, <1>3, <1>4, <1>5, <1>6, <1>7, <1>8, <1>9, <1>10
          DEF ClaimLoop, RenewLoop, StopLoop

\* A live connection goes, and nothing else but what its loss sets off: no claim is
\* about.
LEMMA DropCalm ==
  ASSUME Calm, CalmOK, NEW i \in Instances, NEW p \in Phones,
         LiveEvent(i, p), conn' = [conn EXCEPT ![i][p] = NoConn], Up(i), Sets("lost", i, p)
  PROVE  \A j \in Instances, q \in Phones : PairOK(j, q)'
  <1>1. BaseOK /\ PairOK(i, p) /\ "lost" \in Tasks
    BY DEF CalmOK, Tasks
  <1>2. ActsAt(i, p) /\ \A l \in Tasks \ {"lost"} : op'[<<l, i, p>>] = op[<<l, i, p>>]
    BY <1>1, SetsActs
  <1>3. /\ UNCHANGED <<lease, overdue, status>>
        /\ \A j \in Instances : todo'[j].claim \subseteq todo[j].claim
                                /\ todo'[j].stop \subseteq todo[j].stop
    BY DEF Sets
  <1>4. /\ (Up(i)' <=> Up(i)) /\ (Draining(i)' <=> Draining(i))
        /\ ClaimAt(i, p)' = ClaimAt(i, p)
        /\ MoveAt(i, p)' = MoveAt(i, p) /\ StopAt(i, p)' = StopAt(i, p)
    BY <1>1, <1>2, <1>3, SetsMoves
  <1>5. ClaimAt(i, p) = "idle"
    <2>1. ClaimAt(i, p) # "spawning"
      <3>1. <<"claim", i, p>> \in Threads /\ op[<<"claim", i, p>>].i = i
            /\ op[<<"claim", i, p>>].p = p
        BY <1>1, TaskIs DEF Tasks
      <3> QED BY <1>1, <3>1 DEF BaseOK, SlotsHeld, LiveEvent, ClaimAt
    <2> QED BY <1>1, <2>1 DEF LiveEvent, PairOK, Single
  <1>6. conn'[i][p] = NoConn
    BY <1>1 DEF BaseOK, StateTypeOK
  <1>7. Resigned(i, p)'
    BY <1>4, <1>5, <1>6 DEF Resigned, Leased
  <1>8. Gone(i, p)' /\ Founded(i, p)' /\ Single(i, p)' /\ Tracked(i, p)'
    BY <1>4, <1>5, <1>6 DEF Gone, Founded, Single, Tracked, Leased
  <1>9. LetGo(i, p)'
    BY <1>1, <1>3, <1>4, <1>7 DEF PairOK, LetGo
  <1> QED BY <1>2, <1>8, <1>9, PairsElsewhere DEF PairOK

\* A connection that is registered belongs to a process that is up.
LEMMA ConnUp ==
  ASSUME CalmOK, NEW i \in Instances, NEW p \in Phones, conn[i][p] # NoConn
  PROVE  Up(i)
  BY DEF CalmOK, PairOK, Gone

\* A lease runs out: whoever stands on it is noted, and keeps what it has.
LEMMA RunOutCalm ==
  ASSUME Calm, CalmOK, NEW p \in Phones, RunOut(p)
  PROVE  \A j \in Instances, q \in Phones : PairOK(j, q)'
  <1>0. PICK i \in Instances : i = lease[p].owner
    BY DEF CalmOK, BaseOK, StateTypeOK, RunOut, Lease
  <1>1. BaseOK /\ Owns(i, p) /\ PairOK(i, p)
    BY <1>0 DEF CalmOK, RunOut, Owns
  <1>2. /\ UNCHANGED <<conn, held, op, status, todo>> /\ lease' = [lease EXCEPT ![p] = NoLease]
        /\ overdue \subseteq overdue'
    BY DEF RunOut, health, loops
  <1>3. /\ \A q \in Phones : q # p => lease'[q] = lease[q]
        /\ lease'[p] = NoLease /\ ~ Owns(i, p)' /\ \A e : ~ Holds(i, p, e)'
    BY <1>1, <1>2 DEF BaseOK, StateTypeOK, Owns, Holds
  <1>4. ActsAt(i, p)
    BY <1>1, <1>2, <1>3 DEF ActsAt, Same, LeaseMoves
  <1>5. conn[i][p] # NoConn \/ ClaimAt(i, p) \in Leased => Overdue(i, p)'
    <2>1. SUFFICES ASSUME conn[i][p] # NoConn \/ ClaimAt(i, p) \in Leased
                   PROVE  Attended(p)
      BY <1>0, <1>3 DEF RunOut, Overdue
    <2>2. ClaimAt(i, p) \in Leased => ActiveAt(i, p) # {}
      <3> DEFINE t == <<"claim", i, p>>
      <3>1. t \in Threads /\ op[t].i = i /\ op[t].p = p
        BY <1>1, TaskIs DEF Tasks
      <3>2. ClaimAt(i, p) \in Leased => Active(t)
        BY DEF ClaimAt, Leased, Active
      <3> QED BY <3>1, <3>2 DEF ActiveAt
    <2>3. Up(i)
      BY <1>1, <2>1 DEF PairOK, Gone, Leased, ClaimAt, Tasks
    <2> QED BY <1>0, <2>1, <2>2, <2>3 DEF Attended
  <1>6. /\ ClaimAt(i, p)' = ClaimAt(i, p) /\ ClaimEpoch(i, p)' = ClaimEpoch(i, p)
        /\ RenewAt(i, p)' = RenewAt(i, p) /\ MoveAt(i, p)' = MoveAt(i, p)
        /\ StopAt(i, p)' = StopAt(i, p)
        /\ LostAt(i, p)' = LostAt(i, p) /\ LostEpoch(i, p)' = LostEpoch(i, p)
        /\ (Up(i)' <=> Up(i)) /\ (Draining(i)' <=> Draining(i))
    BY <1>2 DEF ClaimAt, ClaimEpoch, RenewAt, MoveAt, StopAt, LostAt, LostEpoch, Up, Draining
  <1>7. Gone(i, p)' /\ Single(i, p)' /\ Tracked(i, p)'
    BY <1>1, <1>2, <1>6 DEF PairOK, Gone, Single, Tracked
  <1>8. Founded(i, p)'
    BY <1>2, <1>5, <1>6 DEF Founded
  <1>9. Resigned(i, p)' <=> Resigned(i, p)
    BY <1>2, <1>6 DEF Resigned
  <1>10. LetGo(i, p)'
    BY <1>1, <1>2, <1>3, <1>6, <1>9 DEF PairOK, LetGo
  <1> QED BY <1>4, <1>7, <1>8, <1>10, PairsElsewhere DEF PairOK

\* What goes wrong, and what users do.
LEMMA EnvironmentCalm ==
  ASSUME Calm, CalmOK, Environment
  PROVE  \A j \in Instances, q \in Phones : PairOK(j, q)'
  <1> DEFINE Goal == \A j \in Instances, q \in Phones : PairOK(j, q)'
  <1>1. BaseOK /\ \A i \in Instances : reachable[i]
    BY DEF CalmOK
  <1>2. ASSUME NEW t \in Threads, SpawnFails(t) PROVE Goal
    BY <1>2, StepCalm
  <1>3. ASSUME NEW t \in Threads, Rejected(t) PROVE Goal
    <2>1. op[t].i \in Instances
      BY <1>1, CalmThreads
    <2> QED BY <1>1, <1>3, <2>1 DEF Rejected
  <1>4. ASSUME NEW p \in Phones, SlowLapse(p) PROVE Goal
    BY <1>4, RunOutCalm DEF SlowLapse
  <1>5. \A i \in Instances : ~ Disconnect(i)
    BY DEF Disconnect, Disturb, DisturbIn, Calm
  <1>6. ASSUME NEW i \in Instances, Shutdown(i) PROVE Goal
    <2>1. UNCHANGED <<lease, overdue, conn, held, op, todo>> /\ status[i] = "running"
          /\ status' = [status EXCEPT ![i] = "announcing"]
      BY <1>6 DEF Shutdown, redis, loops
    <2>2. status'[i] = "announcing" /\ \A j \in Instances : j # i => status'[j] = status[j]
      BY <1>1, <2>1 DEF BaseOK, StateTypeOK
    <2>3. ASSUME NEW j \in Instances, NEW p \in Phones PROVE PairOK(j, p)'
      <3>1. PairOK(j, p)
        BY DEF CalmOK
      <3>2. CASE j # i
        <4>1. Same(j, p) /\ LeaseSame(j, p)
          BY <2>1, <2>2, <3>2 DEF Same, LeaseSame, Overdue, Owns
        <4> QED BY <3>1, <4>1, PairStill
      <3>3. CASE j = i
        <4>1. Up(i)' /\ Draining(i)'
          BY <2>2 DEF Up, Draining
        <4>2. p \in todo'[i].claim => conn[i][p] = NoConn
          BY <2>1, <3>1, <3>3 DEF PairOK, Single
        <4>3. ~ (p \in todo'[i].stop \/ StopAt(i, p) # "idle")
          BY <2>1, <3>1, <3>3 DEF PairOK, LetGo, Draining
        <4> QED BY <2>1, <3>3, <4>1, <4>2, <4>3, PairLists
      <3> QED BY <3>2, <3>3
    <2> QED BY <2>3
  <1>7. ASSUME NEW i \in Instances, Crash(i) PROVE Goal
    BY <1>7, DieCalm DEF Crash
  <1>8. ASSUME NEW i \in Instances, NEW p \in Phones, StartMove(i, p) PROVE Goal
    <2> DEFINE t == <<"move", i, p>>
    <2>1. t \in Threads /\ t \notin Requests
      BY <1>1, TaskIs DEF Tasks
    <2>2. UNCHANGED <<lease, overdue, status, conn, held, todo>> /\ Up(i) /\ Goto(t, "enter")
      BY <1>8 DEF StartMove, redis, health, Up
    <2>3. Others(t) /\ op'[t].pc = "enter"
      <3> HIDE DEF t
      <3> QED BY <1>1, <2>1, <2>2, GotoAt
    <2>4. Sets("move", i, p)
      BY <2>2, <2>3 DEF Sets
    <2> QED BY <2>2, <2>3, <2>4, WaiterCalm
  <1>9. ASSUME NEW i \in Instances, NEW p \in Phones,
               GiveUp(i, p) \/ Replaced(i, p) \/ Unlinked(i, p)
        PROVE  Goal
    <2>1. LiveEvent(i, p) /\ conn' = [conn EXCEPT ![i][p] = NoConn]
          /\ UNCHANGED <<op, lease, overdue, status, held, todo>>
      BY <1>9 DEF GiveUp, Replaced, Unlinked, health, loops, redis
    <2>2. Up(i)
      BY <2>1, ConnUp DEF LiveEvent
    <2>3. Sets("lost", i, p)
      <3>1. \A j \in Instances, q \in Phones : <<j, q>> # <<i, p>> => conn'[j][q] = conn[j][q]
        BY <1>1, <2>1 DEF BaseOK, StateTypeOK
      <3>2. Others(<<"lost", i, p>>)
        BY <1>1, <2>1 DEF BaseOK, ThreadsOK, Others
      <3> QED BY <2>1, <3>1, <3>2 DEF Sets
    <2> QED BY <2>1, <2>2, <2>3, DropCalm
  <1>10. ASSUME NEW i \in Instances, NEW p \in Phones, RebuildFails(i, p) PROVE Goal
    <2> DEFINE t == <<"lost", i, p>>
               e == conn[i][p].epoch
    <2>1. t \in Threads /\ t \notin Requests
      BY <1>1, TaskIs DEF Tasks
    <2>2. LiveEvent(i, p) /\ conn' = [conn EXCEPT ![i][p] = NoConn]
          /\ UNCHANGED <<lease, overdue, status, todo>>
      BY <1>10 DEF RebuildFails, health, loops, redis
    <2>3. Up(i)
      BY <2>2, ConnUp DEF LiveEvent
    <2>4. Others(t)
      <3>1. op' = [op EXCEPT ![t].pc = "release", ![t].epoch = e]
        BY <1>10 DEF RebuildFails, AbandonLease
      <3>2. ThreadsOK
        BY <1>1 DEF BaseOK
      <3> HIDE DEF t, e
      <3>3. Moves(t, "release", e)
        BY <2>1, <3>1, <3>2, GrantMoves
      <3> QED BY <3>3 DEF Moves
    <2>5. Sets("lost", i, p)
      <3>1. \A j \in Instances, q \in Phones : <<j, q>> # <<i, p>> => conn'[j][q] = conn[j][q]
        BY <1>1, <2>2 DEF BaseOK, StateTypeOK
      <3>2. \A j \in Instances, q \in Phones : <<j, q>> # <<i, p>> => held'[j][q] = held[j][q]
        BY <1>1, <1>10 DEF RebuildFails, AbandonLease, BaseOK, StateTypeOK
      <3> QED BY <2>2, <2>4, <3>1, <3>2 DEF Sets
    <2> QED BY <2>2, <2>3, <2>5, DropCalm
  <1>11. ASSUME NEW i \in Instances, NEW p \in Phones, Pair(i, p) PROVE Goal
    <2>1. UNCHANGED <<lease, overdue, status, conn, held, op, todo>>
      BY <1>11 DEF Pair, health, loops
    <2> QED BY <2>1, PairsStill
  <1>12. ASSUME NEW r \in Requests PROVE FALSE
    BY <1>12 DEF Calm
  <1> QED BY <1>2, <1>3, <1>4, <1>5, <1>6, <1>7, <1>8, <1>9, <1>10, <1>11, <1>12
          DEF Environment

\* The clocks.
LEMMA ClocksCalm ==
  ASSUME Calm, CalmOK, Clocks
  PROVE  \A j \in Instances, q \in Phones : PairOK(j, q)'
  <1> DEFINE Goal == \A j \in Instances, q \in Phones : PairOK(j, q)'
  <1>1. BaseOK
    BY DEF CalmOK
  <1>2. ASSUME NEW p \in Phones, Lapse(p) PROVE Goal
    BY <1>2, RunOutCalm DEF Lapse
  <1>3. ASSUME NEW p \in Phones, Expires(p) PROVE Goal
    <2>1. UNCHANGED <<lease, overdue, status, conn, held, op, todo>>
      BY <1>3 DEF Expires, health, loops
    <2> QED BY <2>1, PairsStill
  <1>4. ASSUME NEW i \in Instances, Heartbeat(i) \/ RegistryExpires(i) \/ Reconnect(i) PROVE Goal
    <2>1. UNCHANGED <<lease, overdue, status, conn, held, op, todo>>
      BY <1>4 DEF Heartbeat, RegistryExpires, Reconnect, redis, health, loops
    <2> QED BY <2>1, PairsStill
  <1>5. ASSUME NEW i \in Instances, NEW p \in Phones, Orphaned(i, p) PROVE Goal
    <2>1. UNCHANGED <<lease, overdue, status, conn, held, op, todo>>
      BY <1>5 DEF Orphaned, redis, health
    <2> QED BY <2>1, PairsStill
  <1>6. ASSUME NEW i \in Instances, Restart(i) PROVE Goal
    <2>1. UNCHANGED <<lease, overdue, conn, held, op, todo>> /\ ~ Up(i)
          /\ status' = [status EXCEPT ![i] = "running"]
      BY <1>6 DEF Restart, redis, loops
    <2>2. status'[i] = "running" /\ \A j \in Instances : j # i => status'[j] = status[j]
      BY <1>1, <2>1 DEF BaseOK, StateTypeOK
    <2>3. ASSUME NEW j \in Instances, NEW p \in Phones PROVE PairOK(j, p)'
      <3>1. PairOK(j, p)
        BY DEF CalmOK
      <3>2. CASE j # i
        <4>1. Same(j, p) /\ LeaseSame(j, p)
          BY <2>1, <2>2, <3>2 DEF Same, LeaseSame, Overdue, Owns
        <4> QED BY <3>1, <4>1, PairStill
      <3>3. CASE j = i
        <4>1. Up(i)'
          BY <2>2 DEF Up
        <4>2. /\ p \notin todo'[i].claim /\ p \notin todo'[i].stop
              /\ StopAt(i, p) = "idle"
          BY <2>1, <3>1, <3>3 DEF PairOK, Gone, StopAt, Tasks
        <4> QED BY <2>1, <3>3, <4>1, <4>2, PairLists
      <3> QED BY <3>2, <3>3
    <2> QED BY <2>3
  <1> QED BY <1>2, <1>3, <1>4, <1>5, <1>6 DEF Clocks

\* Redis stays reachable.
LEMMA NextReachable ==
  ASSUME Calm, CalmOK, Next
  PROVE  \A i \in Instances : reachable'[i]
  <1>1. BaseOK /\ \A i \in Instances : reachable[i]
    BY DEF CalmOK
  <1>2. reachable' = reachable \/ \E i \in Instances : reachable' = [reachable EXCEPT ![i] = TRUE]
    <2>1. ASSUME NEW t \in Threads, Step(t) \/ SpawnFails(t) \/ Rejected(t)
          PROVE  reachable' = reachable
      BY <2>1 DEF Step, ClaimSet, RenewSet, ForceSet, Release, Lookup, CheckPaired,
         GiveBack, WakeClaim, Steer, EnterConnect, Opened, EnterDiscard, EnterLogout,
         ClearedAuth, Inspect, Clear, Seed, Finally, SpawnFails, Rejected, health
    <2>2. ASSUME NEW i \in Instances, ClaimLoop(i) \/ RenewLoop(i) \/ StopLoop(i)
          PROVE  reachable' = reachable \/ reachable' = [reachable EXCEPT ![i] = TRUE]
      BY <2>2 DEF ClaimLoop, BeginScan, NextPhase, Consider, RenewLoop, BeginRenew,
         RenewFails, Renew, StopLoop, Announce, Exit, StopNext, Die, health
    <2>3. CASE Environment
      <3>1. \A i \in Instances : ~ Disconnect(i)
        BY DEF Disconnect, Disturb, DisturbIn, Calm
      <3>2. ASSUME NEW i \in Instances, Crash(i) PROVE reachable' = [reachable EXCEPT ![i] = TRUE]
        BY <3>2 DEF Crash, Die
      <3>3. ASSUME NEW p \in Phones, SlowLapse(p) PROVE reachable' = reachable
        BY <3>3 DEF SlowLapse, RunOut, health
      <3>4. ASSUME NEW i \in Instances, Shutdown(i) PROVE reachable' = reachable
        BY <3>4 DEF Shutdown
      <3>5. ASSUME NEW i \in Instances, NEW p \in Phones,
                   \/ StartMove(i, p) \/ GiveUp(i, p) \/ RebuildFails(i, p) \/ Replaced(i, p)
                   \/ Unlinked(i, p) \/ Pair(i, p)
            PROVE  reachable' = reachable
        BY <3>5 DEF StartMove, GiveUp, RebuildFails, Replaced, Unlinked, Pair, health
      <3>6. \A r \in Requests : FALSE
        BY DEF Calm
      <3> QED BY <2>1, <2>3, <3>1, <3>2, <3>3, <3>4, <3>5, <3>6 DEF Environment
    <2>4. CASE Clocks
      BY <2>4 DEF Clocks, Lapse, RunOut, Expires, Heartbeat, RegistryExpires, Restart, Reconnect,
         Orphaned, health
    <2> QED BY <2>1, <2>2, <2>3, <2>4 DEF Next
  <1> QED BY <1>1, <1>2 DEF BaseOK, StateTypeOK

\* Every pair stays in order.
LEMMA NextCalm ==
  ASSUME Calm, CalmOK, [Next]_vars
  PROVE  CalmOK'
  <1>1. BaseOK' /\ TicksOK'
    BY NextBase, NextTicks DEF CalmOK
  <1>2. CASE Next
    <2>1. \A i \in Instances, p \in Phones : PairOK(i, p)'
      BY <1>2, StepCalm, LoopsCalm, EnvironmentCalm, ClocksCalm DEF Next
    <2> QED BY <1>1, <1>2, <2>1, NextReachable DEF CalmOK
  <1>3. CASE UNCHANGED vars
    <2>1. UNCHANGED <<lease, overdue, status, conn, held, op, todo, reachable>>
      BY <1>3 DEF vars, redis, health, loops
    <2>2. \A i \in Instances, p \in Phones : PairOK(i, p)'
      BY <2>1, PairsStill
    <2> QED BY <1>1, <2>1, <2>2 DEF CalmOK
  <1> QED BY <1>2, <1>3

\* When the instances start, every pair is in order.
LEMMA InitCalm ==
  ASSUME Calm, Init
  PROVE  CalmOK
  <1>1. BaseOK /\ TicksOK
    BY InitBase, InitTicks
  <1>2. ASSUME NEW i \in Instances, NEW p \in Phones PROVE PairOK(i, p)
    <2>1. conn[i][p] = NoConn /\ Up(i) /\ todo[i].claim = {} /\ todo[i].stop = {}
      BY DEF Init, AtRest, Unowned, Up
    <2>2. ASSUME NEW k \in Tasks PROVE op[<<k, i, p>>].pc = "idle"
      <3>1. <<k, i, p>> \in Threads /\ <<k, i, p>> \notin Requests
        BY <1>1, TaskIs
      <3> DEFINE t == <<k, i, p>>
      <3> HIDE DEF t
      <3>2. t \in Threads /\ t \notin Requests => op[t].pc = "idle"
        BY DEF Init, AtRest, Idle
      <3> QED BY <3>1, <3>2 DEF t
    <2>3. ClaimAt(i, p) = "idle" /\ StopAt(i, p) = "idle" /\ MoveAt(i, p) = "idle"
          /\ LostAt(i, p) = "idle"
      BY <2>2 DEF ClaimAt, StopAt, MoveAt, LostAt, Tasks
    <2> QED BY <2>1, <2>3 DEF PairOK, Gone, Founded, Single, LetGo, Tracked, Leased
  <1>3. \A i \in Instances : reachable[i]
    BY DEF Init, AtRest
  <1> QED BY <1>1, <1>2, <1>3 DEF CalmOK

\* So it is in every state of a calm run.
LEMMA CalmInvariant ==
  ASSUME Calm
  PROVE  Spec => []CalmOK
  <1>1. Init => CalmOK
    BY InitCalm
  <1>2. CalmOK /\ [Next]_vars => CalmOK'
    BY NextCalm
  <1> QED BY <1>1, <1>2, PTL DEF Spec

\* No socket without a lease, unless that very lease ran out under it, however many
\* instances and phones there are and however claims, rebalances, shutdowns, crashes,
\* restarts, lost connections and leases that run out interleave: what the code relies
\* on is that requests leave the leases alone and that Redis can be reached.
THEOREM SocketsHaveLeases ==
  ASSUME Calm
  PROVE  Spec => []SocketsLeased
  <1>1. CalmOK => SocketsLeased
    BY DEF CalmOK, PairOK, Founded, Holds, Overdue, SocketsLeased
  <1> QED BY <1>1, CalmInvariant, PTL

\* The lease, the connection and the instance's memory agree on the epoch whenever
\* nothing is in flight for the phone: webhooks are stamped with the lease's epoch,
\* and a release would hit the lease.
THEOREM EpochsInAgreement ==
  ASSUME Calm
  PROVE  Spec => []EpochsAgree
  <1>1. ASSUME CalmOK, NEW i \in Instances, NEW p \in Phones,
               Quiet(i, p), Owns(i, p), conn[i][p] # NoConn
        PROVE  conn[i][p].epoch = lease[p].epoch /\ held[i][p] = lease[p].epoch
    <2>1. PairOK(i, p) /\ BaseOK
      BY <1>1 DEF CalmOK
    <2>2. lease[p].epoch = conn[i][p].epoch
      BY <1>1, <2>1 DEF PairOK, Founded, Holds, Overdue
    <2>3. RenewAt(i, p) # "enter"
      <3>1. <<"renew", i, p>> \in Threads /\ op[<<"renew", i, p>>].i = i
            /\ op[<<"renew", i, p>>].p = p
        BY <2>1, TaskIs DEF Tasks
      <3>2. ~ Active(<<"renew", i, p>>)
        BY <1>1, <3>1 DEF Quiet, ActiveAt
      <3> QED BY <3>2 DEF Active, RenewAt
    <2> QED BY <1>1, <2>1, <2>2, <2>3 DEF PairOK, Tracked
  <1>2. CalmOK => EpochsAgree
    BY <1>1 DEF EpochsAgree
  <1> QED BY <1>2, CalmInvariant, PTL

\* The lease changes under a thread at its release only when that thread's own
\* script deletes it.
LEMMA OwnRelease ==
  ASSUME Calm, CalmOK, Next, NEW t \in Threads,
         op[t].pc = "release", lease' # lease, op'[t] # op[t]
  PROVE  Release(t)
  <1>1. BaseOK
    BY DEF CalmOK
  <1>2. Active(t) /\ t \notin Requests
    BY <1>1, CalmThreads DEF Active
  <1>3. ASSUME NEW u \in Threads, Step(u) \/ SpawnFails(u)
        PROVE  Release(t)
    <2>1. GoesOn(u) \/ Rests(u)
      BY <1>1, <1>3, StepThreads DEF BaseOK
    <2>2. u = t
      BY <2>1 DEF GoesOn, Moves, Rests, Others
    <2> QED BY <1>3, <2>2 DEF Step, ClaimSet, RenewSet, ForceSet, Lookup, CheckPaired,
         GiveBack, WakeClaim, Steer, EnterConnect, Opened, EnterDiscard, EnterLogout,
         ClearedAuth, Inspect, Clear, Seed, Finally, SpawnFails, AtRedis, At, AtSlot, redis
  <1>4. ASSUME NEW i \in Instances, ClaimLoop(i) \/ RenewLoop(i) \/ StopLoop(i)
        PROVE  lease' = lease
    BY <1>4 DEF ClaimLoop, BeginScan, NextPhase, Consider, RenewLoop, BeginRenew,
       RenewFails, Renew, StopLoop, Announce, Exit, StopNext, Die, redis
  <1>5. ASSUME NEW u \in Threads, Rejected(u) PROVE FALSE
    <2>1. op[u].i \in Instances
      BY <1>1, CalmThreads
    <2> QED BY <1>5, <2>1 DEF Rejected, CalmOK
  <1>6. ASSUME Environment, ~ \E u \in Threads : SpawnFails(u) \/ Rejected(u)
        PROVE  lease' = lease \/ op' = op
    <2>1. \A p \in Phones : SlowLapse(p) => op' = op
      BY DEF SlowLapse, RunOut
    <2>2. \A r \in Requests : FALSE
      BY DEF Calm
    <2> QED BY <1>6, <2>1, <2>2 DEF Environment, Shutdown, Disconnect, Crash, Die, StartMove,
         GiveUp, RebuildFails, Replaced, Unlinked, Pair, redis
  <1>7. CASE Clocks
    <2>1. ASSUME NEW p \in Phones, Lapse(p) PROVE op' = op
      BY <2>1 DEF Lapse, RunOut
    <2>2. ASSUME ~ \E p \in Phones : Lapse(p) PROVE lease' = lease
      BY <1>7, <2>2 DEF Clocks, Expires, Heartbeat, RegistryExpires, Restart, Reconnect,
         Orphaned, redis
    <2> QED BY <2>1, <2>2
  <1> QED BY <1>3, <1>4, <1>5, <1>6, <1>7 DEF Next

\* Whoever releases a lease, be it a claim given up, a rebalance, a shutdown or the
\* loss of a connection, has no socket left that needs it.
THEOREM ReleasesAreUnused ==
  ASSUME Calm
  PROVE  Spec => ReleasesOnlyUnused
  <1> DEFINE A == \A t \in Threads :
                    op[t].pc = "release" /\ lease' # lease /\ op'[t] # op[t] =>
                      conn[op[t].i][op[t].p] = NoConn
  <1>1. ASSUME CalmOK, Next, NEW t \in Threads,
               op[t].pc = "release", lease' # lease, op'[t] # op[t]
        PROVE  conn[op[t].i][op[t].p] = NoConn
    <2>1. Release(t)
      BY <1>1, OwnRelease
    <2>2. PICK k \in Tasks, i \in Instances, p \in Phones : t = <<k, i, p>>
      BY DEF Calm, Threads
    <2>3. op[t].kind = k /\ op[t].i = i /\ op[t].p = p
      BY <1>1, <2>2, TaskIs DEF CalmOK
    <2>4. lease[p] = [owner |-> i, epoch |-> op[t].epoch]
      BY <1>1, <2>1, <2>3 DEF Release
    <2>5. Holds(i, p, op[t].epoch)
      <3>1. op[t].epoch \in Nat \ {0}
        <4>1. Working(t, op[t]) /\ op[t].epoch \in Nat
          <5>1. ThreadOK(t) /\ Active(t)
            BY <1>1 DEF CalmOK, BaseOK, ThreadsOK, Active
          <5> QED BY <5>1, WorkingOrWaiting, TaskFields
        <4> QED BY <1>1, <4>1 DEF Working, Granted
      <3>2. [owner |-> i, epoch |-> op[t].epoch] \in Lease
        BY <3>1 DEF Lease, Epochs
      <3> QED BY <2>4, <3>2, NamesAssumption DEF Holds, Owns
    <2>6. Resigned(i, p)
      BY <1>1, <2>2, <2>5, ReleaseResigned
    <2> QED BY <2>3, <2>6 DEF Resigned
  <1>2. CalmOK /\ [Next]_vars => [A]_vars
    BY <1>1
  <1> QED BY <1>2, CalmInvariant, PTL DEF Spec, ReleasesOnlyUnused

=============================================================================
