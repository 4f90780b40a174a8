--------------------------- MODULE AuthState_proofs ---------------------------
(***************************************************************************)
(* Theorems about AuthState for any instances, imports, candidates and     *)
(* bounds.                                                                 *)
(***************************************************************************)
EXTENDS AuthState, TLAPS

Lease == [owner : Workers, epoch : Nat]
Socket == [st : {"none", "up", "down"}, mem : Creds, epoch : Nat,
           opened : BOOLEAN, foreign : BOOLEAN]
Spawning == [pc : {"idle", "seed", "replace", "load"}, epoch : Nat,
             import : Imports \cup {Absent}]
Advancing == [pc : {"idle", "cursor", "creds", "swap"}, cursor : Cursor \cup {Absent},
              creds : Creds \cup {Absent}, tries : Nat]

AuthTypeOK ==
  /\ lease \in Lease \cup {Absent}
  /\ epochs \in Nat
  /\ creds \in Creds \cup {Absent}
  /\ cursor \in Cursor \cup {Absent}
  /\ sock \in [Workers -> Socket]
  /\ spawn \in [Workers -> Spawning]
  /\ advance \in [Workers -> Advancing]
  /\ seeded \subseteq Imports

\* What a thread has read before it goes on.
HasRead ==
  \A i \in Workers :
    /\ spawn[i].pc = "seed" => spawn[i].import \in Imports
    /\ advance[i].pc \in {"creds", "swap"} => advance[i].cursor \in Cursor
    /\ advance[i].pc = "swap" => advance[i].creds \in Creds

\* No epoch is in use that was not granted, so the next one is new to everyone.
EpochsGranted ==
  /\ lease # Absent => lease.epoch <= epochs
  /\ \A i \in Workers : sock[i].epoch <= epochs /\ spawn[i].epoch <= epochs

\* OwnerStateStands is not inductive: a later grant could bring an epoch back.
AuthIInv ==
  /\ AuthTypeOK
  /\ HasRead
  /\ EpochsGranted
  /\ OwnerStateStands

-----------------------------------------------------------------------------

LEMMA FreshTyped == FreshCreds \in Creds /\ \A s \in Imports, n \in Nat : <<s, n>> \in Sessions \X Nat
  BY DEF FreshCreds, Creds, Sessions

\* What a fenced write of instance i does to the sockets: it marks the others,
\* when no other instance owns the lease.
LEMMA WritesSocks ==
  ASSUME NEW i \in Workers, NEW socks \in [Workers -> Socket]
  PROVE  /\ Writes(socks, i) \in [Workers -> Socket]
         /\ Writes(socks, i)[i] = socks[i]
         /\ \A j \in Workers :
              /\ Writes(socks, i)[j].st = socks[j].st
              /\ Writes(socks, i)[j].epoch = socks[j].epoch
              /\ (lease # Absent /\ lease.owner = j)
                   => Writes(socks, i)[j].foreign = socks[j].foreign
         /\ MayWrite(i) => Writes(socks, i) = Touched(socks, i)
  <1>1. Touched(socks, i) \in [Workers -> Socket]
    BY DEF Touched, Socket
  <1>2. CASE MayWrite(i)
    <2>1. Writes(socks, i) = Touched(socks, i)
      BY <1>2 DEF Writes
    <2>2. ASSUME NEW j \in Workers
          PROVE  /\ Touched(socks, i)[j].st = socks[j].st
                 /\ Touched(socks, i)[j].epoch = socks[j].epoch
      BY DEF Touched, Socket
    <2>3. ASSUME NEW j \in Workers, lease # Absent, lease.owner = j
          PROVE  Touched(socks, i)[j] = socks[j]
      BY <1>2, <2>3 DEF Touched, MayWrite
    <2>4. Touched(socks, i)[i] = socks[i]
      BY DEF Touched
    <2> QED BY <1>1, <2>1, <2>2, <2>3, <2>4
  <1>3. CASE ~MayWrite(i)
    BY <1>3 DEF Writes
  <1> QED BY <1>2, <1>3

LEMMA InitAuthIInv == AuthInit => AuthIInv
  <1> SUFFICES ASSUME AuthInit PROVE AuthIInv
    OBVIOUS
  <1>1. PICK i \in Workers :
          /\ lease = [owner |-> i, epoch |-> 1]
          /\ sock = [j \in Workers |-> IF j = i THEN NewSock(FreshCreds, 1) ELSE NoSock]
    BY DEF AuthInit
  <1>2. AuthTypeOK
    <2>1. NewSock(FreshCreds, 1) \in Socket /\ NoSock \in Socket
      BY FreshTyped DEF NewSock, NoSock, Socket
    <2>2. sock \in [Workers -> Socket]
      BY <1>1, <2>1
    <2>3. NoSpawn \in Spawning /\ NoAdvance \in Advancing
      BY DEF NoSpawn, NoAdvance, Spawning, Advancing
    <2> QED BY <1>1, <2>2, <2>3 DEF AuthInit, AuthTypeOK, Lease
  <1>3. HasRead
    BY DEF AuthInit, HasRead, NoSpawn, NoAdvance
  <1>4. EpochsGranted
    BY <1>1 DEF AuthInit, EpochsGranted, NewSock, NoSock, NoSpawn
  <1>5. OwnerStateStands
    BY <1>1 DEF OwnerStateStands, NewSock, NoSock
  <1> QED BY <1>2, <1>3, <1>4, <1>5 DEF AuthIInv

-----------------------------------------------------------------------------
(* One lemma per action, or per group of actions that change the same state *)

\* A write through the fence, by an instance that changed its own socket without
\* opening one.
LEMMA FencedWrite ==
  ASSUME AuthIInv, NEW i \in Workers, NEW own \in Socket, own.epoch <= epochs,
         own.st = "up" => /\ sock[i].st = "up" /\ own.epoch = sock[i].epoch
                          /\ own.foreign = sock[i].foreign,
         sock' = Writes([sock EXCEPT ![i] = own], i),
         UNCHANGED <<lease, epochs, spawn>>
  PROVE  sock' \in [Workers -> Socket] /\ EpochsGranted' /\ OwnerStateStands'
  <1> DEFINE socks == [sock EXCEPT ![i] = own]
  <1>1. socks \in [Workers -> Socket] /\ socks[i] = own
        /\ \A j \in Workers \ {i} : socks[j] = sock[j]
    BY DEF AuthIInv, AuthTypeOK
  <1> HIDE DEF socks
  <1>2. sock' = Writes(socks, i)
    BY DEF socks
  <1>3. EpochsGranted'
    BY <1>1, <1>2, WritesSocks DEF AuthIInv, EpochsGranted
  <1>4. OwnerStateStands'
    BY <1>1, <1>2, WritesSocks DEF AuthIInv, OwnerStateStands
  <1> QED BY <1>1, <1>2, <1>3, <1>4, WritesSocks

LEMMA SaveCredsPreserves ==
  ASSUME AuthIInv, NEW i \in Workers, SaveCreds(i)
  PROVE  AuthIInv'
  <1> USE DEF AuthIInv
  <1> DEFINE mem == [sock[i].mem EXCEPT !.saves = @ + 1]
             own == [sock[i] EXCEPT !.mem = mem]
  <1>1. mem \in Creds
    BY DEF AuthTypeOK, Socket, Creds
  <1>2. own \in Socket /\ own.st = sock[i].st /\ own.epoch = sock[i].epoch
        /\ own.foreign = sock[i].foreign
    BY <1>1 DEF AuthTypeOK, Socket
  <1>3. [sock EXCEPT ![i].mem = mem] = [sock EXCEPT ![i] = own]
    BY DEF AuthTypeOK
  <1>4. sock' = Writes([sock EXCEPT ![i] = own], i)
    BY <1>3 DEF SaveCreds
  <1> HIDE DEF mem, own
  <1>5. sock' \in [Workers -> Socket] /\ EpochsGranted' /\ OwnerStateStands'
    BY <1>2, <1>4, FencedWrite DEF SaveCreds, EpochsGranted
  <1>6. AuthTypeOK'
    BY <1>1, <1>5 DEF AuthTypeOK, SaveCreds, mem
  <1>7. HasRead'
    BY DEF HasRead, SaveCreds
  <1> QED BY <1>5, <1>6, <1>7

LEMMA FirstOpensPreserves ==
  ASSUME AuthIInv, NEW i \in Workers, FirstOpens(i)
  PROVE  AuthIInv'
  <1> USE DEF AuthIInv
  <1> DEFINE own == [sock[i] EXCEPT !.opened = TRUE]
  <1>1. own \in Socket /\ own.st = sock[i].st /\ own.epoch = sock[i].epoch
        /\ own.foreign = sock[i].foreign
    BY DEF AuthTypeOK, Socket
  <1>2. sock' = Writes([sock EXCEPT ![i] = own], i)
    BY DEF AuthTypeOK, FirstOpens
  <1> HIDE DEF own
  <1>3. sock' \in [Workers -> Socket] /\ EpochsGranted' /\ OwnerStateStands'
    BY <1>1, <1>2, FencedWrite DEF FirstOpens, EpochsGranted
  <1>4. AuthTypeOK' /\ HasRead'
    BY <1>3 DEF AuthTypeOK, HasRead, FirstOpens
  <1> QED BY <1>3, <1>4

LEMMA LoggedOutPreserves ==
  ASSUME AuthIInv, NEW i \in Workers, LoggedOut(i)
  PROVE  AuthIInv'
  <1> USE DEF AuthIInv
  <1>1. NoSock \in Socket /\ NoSock.st = "none" /\ NoSock.epoch = 0
    BY FreshTyped DEF NoSock, NewSock, Socket
  <1>2. NoSock.epoch <= epochs
    BY <1>1 DEF AuthTypeOK
  <1>3. sock' \in [Workers -> Socket] /\ EpochsGranted' /\ OwnerStateStands'
    BY <1>1, <1>2, FencedWrite DEF LoggedOut
  <1>4. AuthTypeOK' /\ HasRead'
    BY <1>3 DEF AuthTypeOK, HasRead, LoggedOut
  <1> QED BY <1>3, <1>4

\* The socket of one instance goes, or goes down.
LEMMA ClosingPreserves ==
  ASSUME AuthIInv, NEW i \in Workers, Closes(i) \/ SelfFence(i) \/ Replace(i)
  PROVE  AuthIInv'
  <1> USE DEF AuthIInv
  <1>1. NoSock \in Socket /\ NoSock.st = "none" /\ NoSock.epoch = 0
    BY FreshTyped DEF NoSock, NewSock, Socket
  <1>2. CASE Closes(i)
    <2>1. [NoAdvance EXCEPT !.pc = "cursor"] \in Advancing
      BY DEF NoAdvance, Advancing
    <2>2. AuthTypeOK'
      BY <1>2, <2>1 DEF AuthTypeOK, Closes, Socket
    <2>3. HasRead'
      BY <1>2 DEF AuthTypeOK, HasRead, Closes, NoAdvance
    <2>4. EpochsGranted' /\ OwnerStateStands'
      BY <1>2 DEF AuthTypeOK, Socket, EpochsGranted, OwnerStateStands, Closes
    <2> QED BY <2>2, <2>3, <2>4
  <1>3. CASE SelfFence(i)
    BY <1>1, <1>3 DEF AuthTypeOK, HasRead, EpochsGranted, OwnerStateStands, SelfFence
  <1>4. CASE Replace(i)
    <2>1. AuthTypeOK'
      BY <1>1, <1>4 DEF AuthTypeOK, Replace, Spawning
    <2>2. HasRead' /\ EpochsGranted' /\ OwnerStateStands'
      BY <1>1, <1>4 DEF AuthTypeOK, Spawning, HasRead, EpochsGranted, OwnerStateStands, Replace
    <2> QED BY <2>1, <2>2
  <1> QED BY <1>2, <1>3, <1>4

\* A socket that opens has just read the credentials.
LEMMA OpeningPreserves ==
  ASSUME AuthIInv, NEW i \in Workers, Redial(i) \/ Load(i)
  PROVE  AuthIInv'
  <1> USE DEF AuthIInv
  <1>1. Loaded \in Creds
    BY FreshTyped DEF Loaded, AuthTypeOK
  <1>2. CASE Redial(i)
    <2> DEFINE epoch == IF lease # Absent /\ lease.owner = i THEN lease.epoch ELSE sock[i].epoch
               own == [sock[i] EXCEPT !.st = "up", !.mem = Loaded, !.foreign = FALSE,
                                      !.epoch = epoch]
    <2>1. epoch \in Nat
      BY DEF AuthTypeOK, Socket, Lease
    <2>2. sock' = [sock EXCEPT ![i] = own]
      BY <1>2 DEF Redial, AuthTypeOK
    <2> HIDE DEF epoch
    <2>3. own \in Socket
      BY <1>1, <2>1 DEF AuthTypeOK, Socket
    <2> HIDE DEF own
    <2>4. AuthTypeOK'
      <3>1. UNCHANGED <<lease, epochs, creds, cursor, spawn, advance, seeded>>
        BY <1>2 DEF Redial
      <3>2. sock' \in [Workers -> Socket]
        BY <2>2, <2>3 DEF AuthTypeOK
      <3> QED BY <3>1, <3>2 DEF AuthTypeOK
    <2>5. sock'[i].foreign = FALSE /\ sock'[i].epoch <= epochs
      BY <1>2 DEF AuthTypeOK, Redial, Socket, EpochsGranted
    <2>6. HasRead' /\ EpochsGranted' /\ OwnerStateStands'
      BY <1>2, <2>5 DEF AuthTypeOK, HasRead, EpochsGranted, OwnerStateStands, Redial
    <2> QED BY <2>4, <2>6
  <1>3. CASE Load(i)
    <2>1. NewSock(Loaded, spawn[i].epoch) \in Socket
          /\ ~NewSock(Loaded, spawn[i].epoch).foreign
          /\ NewSock(Loaded, spawn[i].epoch).epoch <= epochs
      BY <1>1 DEF NewSock, AuthTypeOK, Socket, Spawning, EpochsGranted
    <2>2. NoSpawn \in Spawning /\ NoSpawn.pc = "idle" /\ NoSpawn.epoch = 0
      BY DEF NoSpawn, Spawning
    <2>3. AuthTypeOK'
      BY <1>3, <2>1, <2>2 DEF AuthTypeOK, Load
    <2>4. HasRead' /\ EpochsGranted' /\ OwnerStateStands'
      BY <1>3, <2>1, <2>2 DEF AuthTypeOK, HasRead, EpochsGranted, OwnerStateStands, Load
    <2> QED BY <2>3, <2>4
  <1> QED BY <1>2, <1>3

\* The search for a candidate changes what others loaded only in its last step.
LEMMA AdvancingPreserves ==
  ASSUME AuthIInv, NEW i \in Workers,
         ReadCursor(i) \/ ReadCreds(i) \/ SwapCandidate(i) \/ SearchFails(i)
  PROVE  AuthIInv'
  <1> USE DEF AuthIInv
  <1>1. NoAdvance \in Advancing /\ NoAdvance.pc = "idle"
    BY DEF NoAdvance, Advancing
  <1>2. CASE ReadCursor(i) \/ ReadCreds(i) \/ SearchFails(i)
    <2>1. PICK own \in Advancing :
            /\ advance' = [advance EXCEPT ![i] = own]
            /\ own.pc \in {"creds", "swap"} => own.cursor \in Cursor
            /\ own.pc = "swap" => own.creds \in Creds
      <3>1. CASE StopAdvancing(i)
        BY <1>1, <3>1 DEF StopAdvancing
      <3>2. CASE ReadCursor(i) /\ ~StopAdvancing(i)
        <4> DEFINE read == [advance[i] EXCEPT !.pc = "creds", !.cursor = cursor]
        <4>1. read \in Advancing /\ read.pc = "creds" /\ read.cursor \in Cursor
          BY <3>2 DEF AuthTypeOK, Advancing, ReadCursor
        <4>2. advance' = [advance EXCEPT ![i] = read]
          BY <3>2 DEF AuthTypeOK, ReadCursor
        <4> HIDE DEF read
        <4> QED BY <4>1, <4>2
      <3>3. CASE ReadCreds(i) /\ ~StopAdvancing(i)
        <4> DEFINE read == [advance[i] EXCEPT !.pc = "swap", !.creds = creds]
        <4>1. read \in Advancing /\ read.cursor \in Cursor /\ read.creds \in Creds
          BY <3>3 DEF AuthTypeOK, HasRead, Advancing, ReadCreds
        <4>2. advance' = [advance EXCEPT ![i] = read]
          BY <3>3 DEF AuthTypeOK, ReadCreds
        <4> HIDE DEF read
        <4> QED BY <4>1, <4>2
      <3> QED BY <1>2, <3>1, <3>2, <3>3 DEF SearchFails
    <2>2. UNCHANGED <<epochs, lease, creds, cursor, sock, spawn, seeded>>
      BY <1>2 DEF ReadCursor, ReadCreds, SearchFails
    <2>3. AuthTypeOK'
      BY <2>1, <2>2 DEF AuthTypeOK
    <2>4. HasRead'
      BY <2>1, <2>2 DEF AuthTypeOK, HasRead
    <2>5. EpochsGranted' /\ OwnerStateStands'
      BY <2>2 DEF EpochsGranted, OwnerStateStands
    <2> QED BY <2>3, <2>4, <2>5
  <1>3. CASE SwapCandidate(i)
    <2>1. CASE sock' = sock /\ creds' = creds /\ cursor' = cursor
      <3>1. AuthTypeOK' /\ HasRead'
        <4> DEFINE again == [NoAdvance EXCEPT !.pc = "cursor", !.tries = advance[i].tries + 1]
        <4>1. advance[i].tries + 1 \in Nat
          BY DEF AuthTypeOK, Advancing
        <4>2. again \in Advancing /\ again.pc = "cursor"
          BY <4>1 DEF NoAdvance, Advancing
        <4> QED BY <1>1, <1>3, <2>1, <4>2 DEF AuthTypeOK, HasRead, StopAdvancing, SwapCandidate
      <3>2. EpochsGranted' /\ OwnerStateStands'
        BY <1>3, <2>1 DEF EpochsGranted, OwnerStateStands, SwapCandidate
      <3> QED BY <3>1, <3>2
    <2>2. CASE MayWrite(i) /\ creds = advance[i].creds /\ sock' = Touched(sock, i)
      <3> DEFINE next == [advance[i].cursor EXCEPT !.index = @ + 1]
      <3>1. next \in Cursor /\ creds \in Creds
        BY <1>3, <2>2 DEF AuthTypeOK, HasRead, Cursor, SwapCandidate
      <3>2. [creds EXCEPT !.noise = <<next.session, next.index>>] \in Creds
        BY <3>1 DEF Creds, Cursor, Sessions
      <3>3. sock' = Writes([sock EXCEPT ![i] = sock[i]], i) /\ sock[i] \in Socket
        BY <2>2 DEF Writes, AuthTypeOK
      <3>4. sock' \in [Workers -> Socket] /\ EpochsGranted' /\ OwnerStateStands'
        BY <1>3, <3>3, FencedWrite DEF SwapCandidate, EpochsGranted
      <3>5. AuthTypeOK' /\ HasRead'
        BY <1>1, <1>3, <2>2, <3>1, <3>2, <3>4
        DEF AuthTypeOK, HasRead, StopAdvancing, SwapCandidate
      <3> QED BY <3>4, <3>5
    <2> QED BY <1>3, <2>1, <2>2 DEF SwapCandidate
  <1> QED BY <1>2, <1>3

\* The epoch granted is above every epoch in use.
LEMMA GrantPreserves ==
  ASSUME AuthIInv, NEW i \in Workers, Grant(i), UNCHANGED <<creds, cursor, sock, advance, seeded>>,
         NEW own \in Spawning, own.epoch <= epochs + 1, own.pc = "seed" => own.import \in Imports,
         spawn' = [spawn EXCEPT ![i] = own]
  PROVE  AuthIInv'
  <1> USE DEF AuthIInv
  <1>1. AuthTypeOK'
    BY DEF AuthTypeOK, Grant, Lease
  <1>2. HasRead'
    BY DEF AuthTypeOK, HasRead
  <1>3. EpochsGranted'
    BY DEF AuthTypeOK, Socket, Spawning, EpochsGranted, Grant
  <1>4. OwnerStateStands'
    BY DEF AuthTypeOK, Socket, EpochsGranted, OwnerStateStands, Grant
  <1> QED BY <1>1, <1>2, <1>3, <1>4

LEMMA GrantingPreserves ==
  ASSUME AuthIInv, NEW i \in Workers,
         Claim(i) \/ Reassert(i) \/ \E s \in Imports : TakeForImport(i, s)
  PROVE  AuthIInv'
  <1>1. spawn[i] \in Spawning /\ spawn[i].epoch <= epochs /\ epochs \in Nat
        /\ (spawn[i].pc = "seed" => spawn[i].import \in Imports)
        /\ spawn = [spawn EXCEPT ![i] = spawn[i]]
    BY DEF AuthIInv, AuthTypeOK, EpochsGranted, HasRead
  <1>2. CASE Claim(i)
    <2> DEFINE own == [pc |-> "replace", epoch |-> epochs + 1, import |-> Absent]
    <2>1. own \in Spawning /\ own.epoch <= epochs + 1 /\ own.pc # "seed"
      BY <1>1 DEF Spawning
    <2>2. spawn' = [spawn EXCEPT ![i] = own]
      BY <1>2 DEF Claim
    <2> HIDE DEF own
    <2> QED BY <1>2, <2>1, <2>2, GrantPreserves DEF Claim
  <1>3. CASE Reassert(i)
    <2>1. spawn' = [spawn EXCEPT ![i] = spawn[i]] /\ Grant(i)
          /\ UNCHANGED <<creds, cursor, sock, advance, seeded>>
      BY <1>1, <1>3 DEF Reassert
    <2>2. spawn[i].epoch <= epochs + 1
      BY <1>1 DEF Spawning
    <2> QED BY <1>1, <2>1, <2>2, GrantPreserves
  <1>4. ASSUME NEW s \in Imports, TakeForImport(i, s)
        PROVE  AuthIInv'
    <2> DEFINE own == [pc |-> "seed", epoch |-> epochs + 1, import |-> s]
    <2>1. own \in Spawning /\ own.epoch <= epochs + 1 /\ own.import \in Imports
      BY <1>1 DEF Spawning
    <2>2. spawn' = [spawn EXCEPT ![i] = own]
      BY <1>4 DEF TakeForImport
    <2> HIDE DEF own
    <2> QED BY <1>4, <2>1, <2>2, GrantPreserves DEF TakeForImport
  <1> QED BY <1>2, <1>3, <1>4

LEMMA SeedPreserves ==
  ASSUME AuthIInv, NEW i \in Workers, Seed(i)
  PROVE  AuthIInv'
  <1> USE DEF AuthIInv
  <1>1. NoSpawn \in Spawning /\ NoSpawn.pc = "idle" /\ NoSpawn.epoch = 0
    BY DEF NoSpawn, Spawning
  <1>2. CASE ~MayWrite(i)
    <2>1. AuthTypeOK'
      BY <1>1, <1>2 DEF AuthTypeOK, Seed
    <2>2. HasRead' /\ EpochsGranted' /\ OwnerStateStands'
      BY <1>1, <1>2 DEF AuthTypeOK, HasRead, EpochsGranted, OwnerStateStands, Seed
    <2> QED BY <2>1, <2>2
  <1>3. CASE MayWrite(i)
    <2>1. spawn[i].import \in Imports
      BY DEF Seed, HasRead
    <2>2. [session |-> spawn[i].import, noise |-> <<spawn[i].import, 0>>, saves |-> 0] \in Creds
          /\ [session |-> spawn[i].import, index |-> 0] \in Cursor
      BY <2>1 DEF Creds, Cursor, Sessions
    <2>3. Touched(sock, i) \in [Workers -> Socket]
          /\ \A j \in Workers : /\ Touched(sock, i)[j].st = sock[j].st
                                /\ Touched(sock, i)[j].epoch = sock[j].epoch
                                /\ (lease # Absent /\ lease.owner = j)
                                     => Touched(sock, i)[j].foreign = sock[j].foreign
      BY <1>3, WritesSocks DEF AuthTypeOK
    <2>4. spawn' = [spawn EXCEPT ![i].pc = "replace"] /\ sock' = Touched(sock, i)
          /\ UNCHANGED <<lease, epochs, advance>>
      BY <1>3 DEF Seed
    <2>5. AuthTypeOK'
      BY <1>3, <2>1, <2>2, <2>3, <2>4 DEF AuthTypeOK, Seed, Spawning
    <2>6. HasRead'
      BY <2>4 DEF AuthTypeOK, Spawning, HasRead
    <2>7. EpochsGranted'
      BY <2>3, <2>4 DEF AuthTypeOK, Spawning, EpochsGranted
    <2>8. OwnerStateStands'
      BY <2>3, <2>4 DEF OwnerStateStands
    <2> QED BY <2>5, <2>6, <2>7, <2>8
  <1> QED BY <1>2, <1>3

LEMMA LapsePreserves == AuthIInv /\ Lapse => AuthIInv'
  BY DEF AuthIInv, AuthTypeOK, HasRead, EpochsGranted, OwnerStateStands, Lapse

-----------------------------------------------------------------------------

LEMMA NextAuthIInv == AuthIInv /\ [AuthNext]_authVars => AuthIInv'
  <1> SUFFICES ASSUME AuthIInv, [AuthNext]_authVars PROVE AuthIInv'
    OBVIOUS
  <1>1. CASE UNCHANGED authVars
    BY <1>1 DEF authVars, AuthIInv, AuthTypeOK, HasRead, EpochsGranted, OwnerStateStands
  <1>2. CASE AuthNext
    BY <1>2, SaveCredsPreserves, FirstOpensPreserves, LoggedOutPreserves, ClosingPreserves,
       OpeningPreserves, AdvancingPreserves, GrantingPreserves, SeedPreserves, LapsePreserves
    DEF AuthNext
  <1> QED BY <1>1, <1>2

\* The inductive invariant holds of every behaviour: what the steps of an import
\* and of a search have read, and that every epoch in use was granted.
THEOREM AuthInvariant == AuthSpec => []AuthIInv
  <1> QED BY InitAuthIInv, NextAuthIInv, PTL DEF AuthSpec

\* Types of the auth hash, the lease, the sockets and the steps under way.
THEOREM AuthTypeCorrect == AuthSpec => []AuthTypeOK
  <1>1. AuthIInv => AuthTypeOK
    BY DEF AuthIInv
  <1> QED BY <1>1, AuthInvariant, PTL

\* The fence: whatever instances, imports and grants there are, nothing changes
\* what the socket of the lease's owner resumed from.
THEOREM OwnerStateIsKept == AuthSpec => []OwnerStateStands
  <1>1. AuthIInv => OwnerStateStands
    BY DEF AuthIInv
  <1> QED BY <1>1, AuthInvariant, PTL
===============================================================================
