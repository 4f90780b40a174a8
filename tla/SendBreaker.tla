----------------------------- MODULE SendBreaker -----------------------------
(***************************************************************************)
(* The send circuit breaker of one BaileysConnection.                      *)
(*                                                                         *)
(* A send is given a deadline, but nothing can cancel it: a send that was  *)
(* given up on stays parked in the keystore mutex of the socket it was     *)
(* started on and settles later, perhaps after that socket was replaced.   *)
(* The breaker counts the deadlines missed in a row and, once Threshold is *)
(* reached, refuses every send, so that nothing but a late settlement, the *)
(* release of the mutex or a new socket can ever close it again.           *)
(*                                                                         *)
(* The keystore mutex is the library's; only its four events reach the     *)
(* code, through handleTxEvent.  Events under other keys and events of a   *)
(* replaced socket change nothing and are left out, and so are the         *)
(* timestamps read by the health endpoint.  Two events of the mutex are    *)
(* never given the same millisecond.  A discarded connection has no sends  *)
(* to refuse, so its bookkeeping stops with it and is left out.            *)
(***************************************************************************)
EXTENDS Integers, FiniteSets

CONSTANTS
  Sends,          \* the calls of relayWithTimeout
  Threshold,      \* SEND_STALL_THRESHOLD
  MaxInFlight,    \* MAX_IN_FLIGHT_SENDS
  MaxSockets,     \* bound on the sockets this connection goes through
  MaxBackground,  \* bound on the transactions that are not sends
  Free,           \* the mutex has no holder
  Background      \* the mutex is held by something that is not a send

ASSUME SendsAssumption == IsFiniteSet(Sends) /\ Free \notin Sends /\ Background \notin Sends
\* With a threshold of one, a send rejected after its mutex was released would
\* open the breaker with nothing left to close it.
ASSUME ThresholdAssumption == Threshold \in Nat /\ Threshold > 1
ASSUME FreeAssumption == Free # Background
ASSUME SocketsAssumption == MaxSockets \in Nat

VARIABLES
  breaker,     \* _consecutiveSendTimeouts and whether wedgedTxKey is set
  inFlight,    \* inFlightSends
  generation,  \* socketGeneration
  handshaking, \* the socket has not emitted open yet
  lastTx,      \* the later of txTimeoutAt and txReleasedAt for the key of our sends
  holder,      \* who holds the keystore mutex of the live socket
  send,        \* the sends, in any generation
  background   \* transactions that were not sends so far

breakerVars == <<breaker, inFlight, generation, handshaking, lastTx, holder, send, background>>

Stages == {"new", "waiting", "holding", "leaving", "expired", "settled"}

Cleared == [timeouts |-> 0, wedged |-> FALSE]

\* Every variable has its type; the count of sends in flight never goes below zero.
BreakerTypeOK ==
  /\ breaker \in [timeouts: Nat, wedged: BOOLEAN]
  /\ inFlight \in Nat
  /\ generation \in Nat
  /\ handshaking \in BOOLEAN
  /\ lastTx \in {"none", "timeout", "released"}
  /\ holder \in Sends \cup {Free, Background}
  /\ send \in [Sends -> [stage: Stages, born: Nat, late: BOOLEAN]]
  /\ background \in Nat

BreakerInit ==
  /\ breaker = Cleared
  /\ inFlight = 0
  /\ generation = 1
  /\ handshaking = FALSE
  /\ lastTx = "none"
  /\ holder = Free
  /\ send = [s \in Sends |-> [stage |-> "new", born |-> 0, late |-> FALSE]]
  /\ background = 0

-----------------------------------------------------------------------------
(* Helpers *)

Unsettled(s) == send[s].stage \notin {"new", "settled"}

\* isCurrentGeneration
IsCurrent(s) == send[s].born = generation

Move(s, stage) == [send EXCEPT ![s].stage = stage]

\* releaseInFlight: a send gives back its slot only to the socket it came from.
ReleaseInFlight_AnySocket(s) == inFlight - 1
ReleaseInFlight(s) ==
  IF IsCurrent(s) THEN inFlight - 1 ELSE inFlight

\* noteMutexWedge: arm the release-based recovery, unless the release already
\* went by while the rejection was travelling up the send path.
NoteMutexWedge_AlwaysArms(b) == [b EXCEPT !.wedged = TRUE]
NoteMutexWedge(b) ==
  IF lastTx = "released" THEN Cleared ELSE [b EXCEPT !.wedged = TRUE]

CountTimeout(b) == [b EXCEPT !.timeouts = @ + 1]

\* recordLateSettle of an ordinary failure: one slot, not the whole streak.
OneFewer(b) ==
  IF b.timeouts <= 1 THEN Cleared ELSE [b EXCEPT !.timeouts = @ - 1]

-----------------------------------------------------------------------------
(* A send, from assertCanSend to its settlement *)

\* assertCanSend, then the send starts: it prepares its media and queues for
\* the mutex.
Relay(s) ==
  /\ send[s].stage = "new"
  /\ inFlight < MaxInFlight
  /\ breaker.timeouts < Threshold
  /\ send' = [send EXCEPT ![s] = [stage |-> "waiting", born |-> generation, late |-> FALSE]]
  /\ inFlight' = inFlight + 1
  /\ UNCHANGED <<breaker, generation, handshaking, lastTx, holder, background>>

\* The deadline of withTimeout: the caller is answered, the send goes on.
Deadline(s) ==
  /\ Unsettled(s)
  /\ ~send[s].late
  /\ send' = [send EXCEPT ![s].late = TRUE]
  /\ breaker' = IF IsCurrent(s) THEN CountTimeout(breaker) ELSE breaker
  /\ UNCHANGED <<inFlight, generation, handshaking, lastTx, holder, background>>

\* The mutex of the live socket lets the send in.
Acquire(s) ==
  /\ send[s].stage = "waiting" /\ IsCurrent(s)
  /\ holder = Free
  /\ holder' = s
  /\ send' = Move(s, "holding")
  /\ UNCHANGED <<breaker, inFlight, generation, handshaking, lastTx, background>>

\* handleTxEvent, released: recorded, and it closes the breaker if it was armed.
Released ==
  /\ holder' = Free
  /\ lastTx' = "released"
  /\ breaker' = IF breaker.wedged THEN Cleared ELSE breaker

LeaveMutex(s) ==
  /\ holder = s
  /\ Released
  /\ send' = Move(s, "leaving")
  /\ UNCHANGED <<inFlight, generation, handshaking, background>>

\* handleTxEvent, timeout: the mutex gave up on the send, whose rejection now
\* travels up the send path.
AcquireTimesOut(s) ==
  /\ send[s].stage = "waiting" /\ IsCurrent(s)
  /\ holder # Free
  /\ lastTx' = "timeout"
  /\ send' = Move(s, "expired")
  /\ UNCHANGED <<breaker, inFlight, generation, handshaking, holder, background>>

Settle(s) ==
  /\ send' = Move(s, "settled")
  /\ inFlight' = ReleaseInFlight(s)
  /\ UNCHANGED <<generation, handshaking, lastTx, holder, background>>

\* The send succeeds, in time or late: recordSendSuccess closes the breaker.
Succeeds(s) ==
  /\ send[s].stage = "leaving"
  /\ IsCurrent(s)
  /\ Settle(s)
  /\ breaker' = Cleared

\* The send fails for a reason of its own, before or after the mutex.
Fails(s) ==
  /\ send[s].stage \in {"waiting", "leaving"}
  /\ IsCurrent(s)
  /\ Settle(s)
  /\ breaker' = IF send[s].late THEN OneFewer(breaker) ELSE breaker

\* The rejection of the mutex arrives.  In time it counts as a timeout; late it
\* leaves the count alone, since it reports a wedge and not its end.
Rejected(s) ==
  /\ send[s].stage = "expired"
  /\ IsCurrent(s)
  /\ Settle(s)
  /\ breaker' = IF send[s].late THEN NoteMutexWedge(breaker)
                ELSE CountTimeout(NoteMutexWedge(breaker))

\* A send of a replaced socket settles, however it does: the breaker of the
\* live one is left alone.
SettlesStale(s) ==
  /\ Unsettled(s)
  /\ ~IsCurrent(s)
  /\ Settle(s)
  /\ UNCHANGED breaker

-----------------------------------------------------------------------------
(* The rest of the socket *)

BackgroundTakes ==
  /\ holder = Free
  /\ background < MaxBackground
  /\ holder' = Background
  /\ background' = background + 1
  /\ UNCHANGED <<breaker, inFlight, generation, handshaking, lastTx, send>>

BackgroundReleases ==
  /\ holder = Background
  /\ Released
  /\ UNCHANGED <<inFlight, generation, handshaking, send, background>>

\* connect: a new socket, with a keystore and a mutex of its own.
NewSocket ==
  /\ generation < MaxSockets
  /\ generation' = generation + 1
  /\ handshaking' = TRUE
  /\ breaker' = Cleared
  /\ inFlight' = 0
  /\ lastTx' = "none"
  /\ holder' = Free
  /\ UNCHANGED <<send, background>>

\* connection.update {open}
SocketOpens ==
  /\ handshaking
  /\ handshaking' = FALSE
  /\ breaker' = Cleared
  /\ UNCHANGED <<inFlight, generation, lastTx, holder, send, background>>

SendNext(s) ==
  \/ Relay(s) \/ Deadline(s)
  \/ Acquire(s) \/ LeaveMutex(s) \/ AcquireTimesOut(s)
  \/ Succeeds(s) \/ Fails(s) \/ Rejected(s) \/ SettlesStale(s)

BreakerNext ==
  \/ \E s \in Sends : SendNext(s)
  \/ BackgroundTakes \/ BackgroundReleases
  \/ NewSocket \/ SocketOpens

BreakerSpec == BreakerInit /\ [][BreakerNext]_breakerVars

-----------------------------------------------------------------------------
(* Properties *)

\* The cap on sends in flight is exact: the counter is the number of sends of
\* the live socket that have not settled, however many were given up on, and
\* whatever the sends of earlier sockets do when they settle late.
InFlightExact ==
  inFlight = Cardinality({s \in Sends : IsCurrent(s) /\ Unsettled(s)})

\* An open breaker can still be closed.  It refuses every send, so something
\* must be left that reports back: a send that was given up on and has not
\* settled, or a mutex that is held and whose release is being waited for.
\* Otherwise the connection answers 503 for as long as its socket lives.
BreakerBacked ==
  breaker.timeouts >= Threshold =>
    \/ \E s \in Sends : IsCurrent(s) /\ Unsettled(s) /\ send[s].late
    \/ breaker.wedged /\ holder # Free
=============================================================================
