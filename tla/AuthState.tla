------------------------------ MODULE AuthState ------------------------------
(***************************************************************************)
(* The auth state of one phone in Redis: who may write it, how an imported *)
(* session is seeded, and how its Noise candidates are tried.              *)
(*                                                                         *)
(* Every write of the hash is a script that does nothing when the lease    *)
(* belongs to another instance.  A socket keeps its own copy of the        *)
(* credentials and saves it whole, so what it saves is what it loaded plus *)
(* what it did since.                                                      *)
(*                                                                         *)
(* Credentials are reduced to the session they belong to, the Noise key    *)
(* they carry (a candidate of some import, by index) and a count of the    *)
(* changes saved in them, which also stands for the Signal keys: both are  *)
(* written through the same script.  The metadata field is left out.       *)
(***************************************************************************)
EXTENDS Integers

CONSTANTS
  Workers,     \* the instances of the cluster
  Imports,     \* the sessions clients import
  Pairing,     \* the session of a socket that shows a QR code
  Absent,      \* a key or a field that does not exist, or no import
  Candidates,  \* number of Noise candidates of an import
  Attempts,    \* attempts of advanceImportCandidate
  MaxEpoch,    \* bound on the leases granted
  MaxSaves     \* bound on the changes saved by one socket

ASSUME SessionsAssumption == Pairing \notin Imports /\ Absent \notin Imports \cup Workers
ASSUME CandidatesAssumption == Candidates \in Nat \ {0}

VARIABLES
  lease,    \* the lease key
  epochs,   \* leases granted so far
  creds,    \* field creds of the auth hash
  cursor,   \* field import-candidates
  sock,     \* the connection of each instance
  spawn,    \* an import or a connect under way on each instance
  advance,  \* advanceImportCandidate on each instance
  seeded    \* imports already written

authVars == <<lease, epochs, creds, cursor, sock, spawn, advance, seeded>>

Sessions == Imports \cup {Pairing}
Creds == [session: Sessions, noise: Sessions \X Nat, saves: Nat]
Cursor == [session: Imports, index: Nat]

\* initAuthCreds
FreshCreds == [session |-> Pairing, noise |-> <<Pairing, 0>>, saves |-> 0]

NewSock(mem, epoch) ==
  [st |-> "up", mem |-> mem, epoch |-> epoch, opened |-> FALSE, foreign |-> FALSE]
NoSock == [NewSock(FreshCreds, 0) EXCEPT !.st = "none"]
NoSpawn == [pc |-> "idle", epoch |-> 0, import |-> Absent]
NoAdvance == [pc |-> "idle", cursor |-> Absent, creds |-> Absent, tries |-> 0]

AuthInit ==
  \E i \in Workers :
    /\ lease = [owner |-> i, epoch |-> 1]
    /\ epochs = 1
    /\ creds = Absent /\ cursor = Absent
    /\ sock = [j \in Workers |->
         IF j = i THEN NewSock(FreshCreds, 1) ELSE NoSock]
    /\ spawn = [j \in Workers |-> NoSpawn]
    /\ advance = [j \in Workers |-> NoAdvance]
    /\ seeded = {}

-----------------------------------------------------------------------------
(* The fence *)

\* WRITE_IF_OWNER and CLEAR_IF_OWNER: a missing lease does not block.
MayWrite_Always(i) == TRUE
MayWrite(i) == lease # Absent => lease.owner = i

\* Remembers in every other socket that instance i changed what it had loaded.
Touched(socks, i) ==
  [j \in Workers |-> IF j # i /\ socks[j].st # "none"
                       THEN [socks[j] EXCEPT !.foreign = TRUE] ELSE socks[j]]
\* Set by a write the fence lets through.
Writes(socks, i) == IF MayWrite(i) THEN Touched(socks, i) ELSE socks

Grant(i) ==
  /\ epochs < MaxEpoch
  /\ epochs' = epochs + 1
  /\ lease' = [owner |-> i, epoch |-> epochs + 1]

-----------------------------------------------------------------------------
(* Sockets *)

\* creds.update and the Signal keys: saved whole, unless the fence rejects it;
\* the copy in memory has moved on either way.
SaveCreds(i) ==
  /\ sock[i].st = "up" /\ sock[i].mem.saves < MaxSaves
  /\ LET mem == [sock[i].mem EXCEPT !.saves = @ + 1]
     IN  /\ sock' = Writes([sock EXCEPT ![i].mem = mem], i)
         /\ creds' = IF MayWrite(i) THEN mem ELSE creds
  /\ UNCHANGED <<lease, epochs, cursor, spawn, advance, seeded>>

\* First open: clearImportCandidates, whose failure is only logged.
FirstOpens(i) ==
  /\ sock[i].st = "up" /\ ~sock[i].opened
  /\ sock' = Writes([sock EXCEPT ![i].opened = TRUE], i)
  /\ cursor' \in (IF MayWrite(i) THEN {Absent, cursor} ELSE {cursor})
  /\ UNCHANGED <<lease, epochs, creds, spawn, advance, seeded>>

\* A socket that closes before its first open tries the next candidate first,
\* unless it was replaced (connectionReplaced).  One search runs on an instance at
\* a time.
Closes(i) ==
  /\ sock[i].st = "up"
  /\ sock' = [sock EXCEPT ![i].st = "down"]
  /\ \/ UNCHANGED advance
     \/ /\ ~sock[i].opened /\ advance[i].pc = "idle"
        /\ advance' = [advance EXCEPT ![i] = [NoAdvance EXCEPT !.pc = "cursor"]]
  /\ UNCHANGED <<lease, epochs, creds, cursor, spawn, seeded>>

Loaded == IF creds = Absent THEN FreshCreds ELSE creds

\* connect() again: the credentials are read afresh.
Redial(i) ==
  /\ sock[i].st = "down" /\ advance[i].pc = "idle"
  /\ sock' = [sock EXCEPT ![i].st = "up", ![i].mem = Loaded, ![i].foreign = FALSE,
                          ![i].epoch = IF lease # Absent /\ lease.owner = i THEN lease.epoch ELSE @]
  /\ UNCHANGED <<lease, epochs, creds, cursor, spawn, advance, seeded>>

\* A remote loggedOut: the auth state goes, and the connection.
LoggedOut(i) ==
  /\ sock[i].st = "up"
  /\ sock' = Writes([sock EXCEPT ![i] = NoSock], i)
  /\ creds' = IF MayWrite(i) THEN Absent ELSE creds
  /\ cursor' = IF MayWrite(i) THEN Absent ELSE cursor
  /\ UNCHANGED <<lease, epochs, spawn, advance, seeded>>

\* The renewal cycle discards the socket of a lost lease.
SelfFence(i) ==
  /\ sock[i].st # "none"
  /\ lease # Absent /\ lease.owner # i
  /\ sock' = [sock EXCEPT ![i] = NoSock]
  /\ UNCHANGED <<lease, epochs, creds, cursor, spawn, advance, seeded>>

-----------------------------------------------------------------------------
(* advanceImportCandidate *)

StopAdvancing(i) == advance' = [advance EXCEPT ![i] = NoAdvance]

ReadCursor(i) ==
  /\ advance[i].pc = "cursor"
  /\ IF cursor = Absent \/ cursor.index + 1 >= Candidates
     THEN StopAdvancing(i)
     ELSE advance' = [advance EXCEPT ![i].pc = "creds", ![i].cursor = cursor]
  /\ UNCHANGED <<lease, epochs, creds, cursor, sock, spawn, seeded>>

ReadCreds(i) ==
  /\ advance[i].pc = "creds"
  /\ IF creds = Absent
     THEN StopAdvancing(i)
     ELSE advance' = [advance EXCEPT ![i].pc = "swap", ![i].creds = creds]
  /\ UNCHANGED <<lease, epochs, creds, cursor, sock, spawn, seeded>>

\* ADVANCE_CANDIDATE_CAS: 0 fenced off, 2 changed (read both again), 1 written.
SwapCandidate(i) ==
  /\ advance[i].pc = "swap"
  /\ LET a == advance[i]
         next == [a.cursor EXCEPT !.index = @ + 1]
     IN  \/ /\ ~MayWrite(i)
            /\ StopAdvancing(i)
            /\ UNCHANGED <<creds, cursor, sock>>
         \/ /\ MayWrite(i) /\ creds # a.creds
            /\ advance' = [advance EXCEPT ![i] =
                 IF a.tries + 1 < Attempts
                 THEN [NoAdvance EXCEPT !.pc = "cursor", !.tries = a.tries + 1]
                 ELSE NoAdvance]
            /\ UNCHANGED <<creds, cursor, sock>>
         \/ /\ MayWrite(i) /\ creds = a.creds
            /\ creds' = [creds EXCEPT !.noise = <<next.session, next.index>>]
            /\ cursor' = next
            /\ sock' = Touched(sock, i)
            /\ StopAdvancing(i)
  /\ UNCHANGED <<lease, epochs, spawn, seeded>>

\* A command of the search is rejected: the reconnect goes on without it.
SearchFails(i) ==
  /\ advance[i].pc # "idle"
  /\ StopAdvancing(i)
  /\ UNCHANGED <<lease, epochs, creds, cursor, sock, spawn, seeded>>

-----------------------------------------------------------------------------
(* importSessionWithLease, and a claim that connects what is stored *)

\* acquireExplicitLease, for an import.
TakeForImport(i, s) ==
  /\ s \in Imports \ seeded
  /\ spawn[i].pc = "idle"
  /\ Grant(i)
  /\ spawn' = [spawn EXCEPT ![i] = [pc |-> "seed", epoch |-> epochs + 1, import |-> s]]
  /\ UNCHANGED <<creds, cursor, sock, advance, seeded>>

\* seedImportedSession: credentials and cursor in one fenced write.  Fenced off,
\* the import gives up.
Seed(i) ==
  /\ spawn[i].pc = "seed"
  /\ LET s == spawn[i].import
     IN  IF MayWrite(i)
         THEN /\ creds' = [session |-> s, noise |-> <<s, 0>>, saves |-> 0]
              /\ cursor' = [session |-> s, index |-> 0]
              /\ seeded' = seeded \cup {s}
              /\ sock' = Touched(sock, i)
              /\ spawn' = [spawn EXCEPT ![i].pc = "replace"]
         ELSE /\ spawn' = [spawn EXCEPT ![i] = NoSpawn]
              /\ UNCHANGED <<creds, cursor, seeded, sock>>
  /\ UNCHANGED <<lease, epochs, advance>>

\* A claim takes a lease nobody holds.
Claim(i) ==
  /\ lease = Absent
  /\ spawn[i].pc = "idle" /\ sock[i].st = "none"
  /\ Grant(i)
  /\ spawn' = [spawn EXCEPT ![i] = [pc |-> "replace", epoch |-> epochs + 1, import |-> Absent]]
  /\ UNCHANGED <<creds, cursor, sock, advance, seeded>>

\* handler.connect with forceRestart: the old socket is discarded first; its
\* search for a candidate is not stopped.
Replace(i) ==
  /\ spawn[i].pc = "replace"
  /\ sock' = [sock EXCEPT ![i] = NoSock]
  /\ spawn' = [spawn EXCEPT ![i].pc = "load"]
  /\ UNCHANGED <<lease, epochs, creds, cursor, advance, seeded>>

\* useRedisAuthState on the new connection.
Load(i) ==
  /\ spawn[i].pc = "load"
  /\ sock' = [sock EXCEPT ![i] = NewSock(Loaded, spawn[i].epoch)]
  /\ spawn' = [spawn EXCEPT ![i] = NoSpawn]
  /\ UNCHANGED <<lease, epochs, creds, cursor, advance, seeded>>

-----------------------------------------------------------------------------
(* The lease *)

Lapse ==
  /\ lease # Absent
  /\ lease' = Absent
  /\ UNCHANGED <<epochs, creds, cursor, sock, spawn, advance, seeded>>

\* The renewal cycle takes back a lease that was found missing.
Reassert(i) ==
  /\ lease = Absent /\ sock[i].st # "none"
  /\ Grant(i)
  /\ UNCHANGED <<creds, cursor, sock, spawn, advance, seeded>>

AuthNext ==
  \/ \E i \in Workers :
       \/ SaveCreds(i) \/ FirstOpens(i) \/ Closes(i) \/ Redial(i) \/ LoggedOut(i) \/ SelfFence(i)
       \/ ReadCursor(i) \/ ReadCreds(i) \/ SwapCandidate(i) \/ SearchFails(i)
       \/ Seed(i) \/ Claim(i) \/ Replace(i) \/ Load(i) \/ Reassert(i)
       \/ \E s \in Imports : TakeForImport(i, s)
  \/ Lapse

AuthSpec == AuthInit /\ [][AuthNext]_authVars

-----------------------------------------------------------------------------
(* Properties *)

\* While an instance keeps the lease under which its socket loaded the session,
\* no other instance changes what that socket resumed from: neither the socket of
\* an earlier owner, nor its clear, nor its search for a candidate gets in
\* between, which would regress the Signal ratchet.
OwnerStateStands ==
  \A i \in Workers :
    (/\ sock[i].st = "up" /\ lease # Absent
     /\ lease.owner = i /\ lease.epoch = sock[i].epoch)
      => ~sock[i].foreign

\* The comment at importSessionWithLease: the live socket is replaced "so the
\* seeded import creds are loaded on a fresh connection instead of ignored".
ImportLoaded ==
  [][\A i \in Workers :
       (/\ spawn[i].pc = "load" /\ spawn'[i].pc = "idle" /\ spawn[i].import # Absent
        /\ lease = [owner |-> i, epoch |-> spawn[i].epoch])
         => sock'[i].mem.session = spawn[i].import]_authVars
=============================================================================
