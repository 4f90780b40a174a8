--------------------------- MODULE SendStall_proofs ---------------------------
(***************************************************************************)
(* Theorems about the two halves of send-stall detection: SendBreaker, for *)
(* any sends, threshold above one, cap and bounds; and SendStall, for any  *)
(* connections, instances and bounds.  They share no variable.             *)
(***************************************************************************)
EXTENDS SendBreaker, SendStall, FiniteSetTheorems, TLAPS

-----------------------------------------------------------------------------
(* SendBreaker *)

\* The sends of the live socket that have not settled, and those given up on.
Live == {s \in Sends : IsCurrent(s) /\ Unsettled(s)}
GivenUp == {s \in Live : send[s].late}

Counted == inFlight = Cardinality(Live)

\* Sends are born of sockets there have been; the mutex of the live socket is
\* held by a send of that socket.
BornBefore == \A s \in Sends : send[s].born <= generation
HolderHolds == holder \in Sends => IsCurrent(holder) /\ send[holder].stage = "holding"

\* The last event of the mutex tells whether it is held, once a send was refused
\* by it.
TimeoutHeld == lastTx = "timeout" => holder # Free
ExpiredHeard == \A s \in Sends : (IsCurrent(s) /\ send[s].stage = "expired") => lastTx # "none"
WedgedHeld == breaker.wedged => lastTx = "timeout"

\* An unarmed breaker has at most one miss that no late send stands for: that of
\* a send rejected after its mutex was released.
MissesBacked == ~breaker.wedged => breaker.timeouts <= Cardinality(GivenUp) + 1

\* BreakerBacked is not inductive: it says nothing of a breaker still closed.
BreakerIInv ==
  /\ BreakerTypeOK
  /\ Counted
  /\ BornBefore
  /\ HolderHolds
  /\ TimeoutHeld
  /\ ExpiredHeard
  /\ WedgedHeld
  /\ MissesBacked

-----------------------------------------------------------------------------

LEMMA LiveFinite ==
  /\ IsFiniteSet(Live) /\ IsFiniteSet(GivenUp)
  /\ Cardinality(Live) \in Nat /\ Cardinality(GivenUp) \in Nat
  <1>1. Live \in SUBSET Sends /\ GivenUp \in SUBSET Sends
    BY DEF Live, GivenUp
  <1>2. IsFiniteSet(Live) /\ IsFiniteSet(GivenUp)
    BY <1>1, FS_Subset, SendsAssumption
  <1> QED BY <1>2, FS_CardinalityType

LEMMA InitBreakerIInv == BreakerInit => BreakerIInv
  <1> SUFFICES ASSUME BreakerInit PROVE BreakerIInv
    OBVIOUS
  <1>1. BreakerTypeOK
    BY DEF BreakerInit, BreakerTypeOK, Cleared, Stages
  <1>2. Live = {} /\ GivenUp = {}
    BY DEF BreakerInit, Live, GivenUp, Unsettled
  <1>3. Counted
    BY <1>2, FS_EmptySet DEF BreakerInit, Counted
  <1>4. MissesBacked
    BY <1>2, FS_EmptySet DEF BreakerInit, MissesBacked, Cleared
  <1>5. BornBefore /\ HolderHolds /\ TimeoutHeld /\ ExpiredHeard /\ WedgedHeld
    BY FreeAssumption, SendsAssumption
    DEF BreakerInit, BornBefore, HolderHolds, TimeoutHeld, ExpiredHeard, WedgedHeld, Cleared
  <1> QED BY <1>1, <1>3, <1>4, <1>5 DEF BreakerIInv

\* A step that changes only the stage of one unsettled send, to another one.
LEMMA MovedLive ==
  ASSUME BreakerTypeOK, NEW s \in Sends, Unsettled(s), UNCHANGED generation,
         NEW stage \in Stages \ {"new", "settled"}, send' = Move(s, stage)
  PROVE  Live' = Live /\ GivenUp' = GivenUp
  BY DEF BreakerTypeOK, Live, GivenUp, Unsettled, IsCurrent, Move

\* A live send settles: it leaves both sets, and its slot is free again.
LEMMA SettledLive ==
  ASSUME BreakerTypeOK, Counted, NEW s \in Sends, IsCurrent(s), Unsettled(s), Settle(s)
  PROVE  /\ Live' = Live \ {s} /\ GivenUp' = GivenUp \ {s}
         /\ Counted' /\ inFlight' \in Nat
  <1>1. Live' = Live \ {s} /\ GivenUp' = GivenUp \ {s}
    BY DEF BreakerTypeOK, Live, GivenUp, Unsettled, IsCurrent, Move, Settle
  <1>2. s \in Live
    BY DEF Live
  <1>3. Cardinality(Live \ {s}) = Cardinality(Live) - 1
    BY <1>2, LiveFinite, FS_RemoveElement
  <1>4. Cardinality(Live \ {s}) \in Nat
    BY LiveFinite, FS_RemoveElement, FS_CardinalityType
  <1>5. inFlight' = inFlight - 1
    BY DEF Settle, ReleaseInFlight
  <1> QED BY <1>1, <1>3, <1>4, <1>5 DEF Counted

-----------------------------------------------------------------------------

LEMMA RelayPreserves ==
  ASSUME BreakerIInv, NEW s \in Sends, Relay(s)
  PROVE  BreakerIInv'
  <1> USE DEF BreakerIInv
  <1>1. BreakerTypeOK'
    BY DEF BreakerTypeOK, Relay, Stages
  <1>2. Live' = Live \cup {s} /\ GivenUp' = GivenUp /\ s \notin Live
    BY DEF BreakerTypeOK, Relay, Live, GivenUp, Unsettled, IsCurrent
  <1>3. Cardinality(Live') = Cardinality(Live) + 1
    BY <1>2, LiveFinite, FS_AddElement
  <1>4. Counted'
    BY <1>3 DEF Counted, Relay
  <1>5. MissesBacked'
    BY <1>2 DEF MissesBacked, Relay
  <1>6. BornBefore'
    BY DEF BreakerTypeOK, BornBefore, Relay
  <1>7. HolderHolds'
    BY DEF BreakerTypeOK, HolderHolds, Relay, IsCurrent
  <1>8. TimeoutHeld' /\ ExpiredHeard' /\ WedgedHeld'
    BY DEF BreakerTypeOK, TimeoutHeld, ExpiredHeard, WedgedHeld, Relay, IsCurrent
  <1> QED BY <1>1, <1>4, <1>5, <1>6, <1>7, <1>8

LEMMA DeadlinePreserves ==
  ASSUME BreakerIInv, NEW s \in Sends, Deadline(s)
  PROVE  BreakerIInv'
  <1> USE DEF BreakerIInv
  <1>1. BreakerTypeOK'
    <2>1. send' \in [Sends -> [stage: Stages, born: Nat, late: BOOLEAN]]
      BY DEF BreakerTypeOK, Deadline
    <2>2. breaker' \in [timeouts: Nat, wedged: BOOLEAN]
      BY DEF BreakerTypeOK, Deadline, CountTimeout
    <2> QED BY <2>1, <2>2 DEF BreakerTypeOK, Deadline
  <1>2. Live' = Live
    BY DEF BreakerTypeOK, Deadline, Live, Unsettled, IsCurrent
  <1>3. Counted'
    BY <1>2 DEF Counted, Deadline
  <1>4. MissesBacked'
    <2>1. CASE IsCurrent(s)
      <3>1. GivenUp' = GivenUp \cup {s} /\ s \notin GivenUp
        BY <2>1 DEF BreakerTypeOK, Deadline, Live, GivenUp, Unsettled, IsCurrent
      <3>2. Cardinality(GivenUp') = Cardinality(GivenUp) + 1
        BY <3>1, LiveFinite, FS_AddElement
      <3>3. breaker'.timeouts = breaker.timeouts + 1 /\ breaker'.wedged = breaker.wedged
        BY <2>1 DEF BreakerTypeOK, Deadline, CountTimeout
      <3> QED BY <3>2, <3>3, LiveFinite DEF MissesBacked, BreakerTypeOK
    <2>2. CASE ~IsCurrent(s)
      <3>1. GivenUp' = GivenUp
        BY <2>2 DEF BreakerTypeOK, Deadline, Live, GivenUp, Unsettled, IsCurrent
      <3> QED BY <2>2, <3>1 DEF MissesBacked, Deadline
    <2> QED BY <2>1, <2>2
  <1>5. BornBefore' /\ HolderHolds'
    BY DEF BreakerTypeOK, BornBefore, HolderHolds, Deadline, IsCurrent
  <1>6. TimeoutHeld' /\ ExpiredHeard'
    BY DEF BreakerTypeOK, TimeoutHeld, ExpiredHeard, Deadline, IsCurrent
  <1>7. WedgedHeld'
    BY DEF BreakerTypeOK, WedgedHeld, Deadline, CountTimeout
  <1> QED BY <1>1, <1>3, <1>4, <1>5, <1>6, <1>7

LEMMA AcquirePreserves ==
  ASSUME BreakerIInv, NEW s \in Sends, Acquire(s)
  PROVE  BreakerIInv'
  <1> USE DEF BreakerIInv
  <1>1. BreakerTypeOK'
    BY DEF BreakerTypeOK, Acquire, Move, Stages
  <1>2. Live' = Live /\ GivenUp' = GivenUp
    BY MovedLive DEF Acquire, Unsettled, Stages
  <1>3. Counted' /\ MissesBacked'
    BY <1>2 DEF Counted, MissesBacked, Acquire
  <1>4. BornBefore' /\ HolderHolds'
    BY DEF BreakerTypeOK, BornBefore, HolderHolds, Acquire, Move, IsCurrent
  <1>5. TimeoutHeld' /\ ExpiredHeard' /\ WedgedHeld'
    BY SendsAssumption
    DEF BreakerTypeOK, TimeoutHeld, ExpiredHeard, WedgedHeld, Acquire, Move, IsCurrent
  <1> QED BY <1>1, <1>3, <1>4, <1>5

LEMMA LeaveMutexPreserves ==
  ASSUME BreakerIInv, NEW s \in Sends, LeaveMutex(s)
  PROVE  BreakerIInv'
  <1> USE DEF BreakerIInv
  <1>1. BreakerTypeOK'
    BY DEF BreakerTypeOK, LeaveMutex, Released, Move, Stages, Cleared
  <1>2. Live' = Live /\ GivenUp' = GivenUp
    BY MovedLive DEF LeaveMutex, Released, HolderHolds, Unsettled, Stages
  <1>3. Counted'
    BY <1>2 DEF Counted, LeaveMutex
  <1>4. MissesBacked'
    BY <1>2, LiveFinite DEF MissesBacked, LeaveMutex, Released, Cleared
  <1>5. BornBefore' /\ HolderHolds'
    BY SendsAssumption
    DEF BreakerTypeOK, BornBefore, HolderHolds, LeaveMutex, Released, Move, IsCurrent
  <1>6. TimeoutHeld' /\ ExpiredHeard' /\ WedgedHeld'
    BY DEF BreakerTypeOK, TimeoutHeld, ExpiredHeard, WedgedHeld, LeaveMutex, Released, Cleared
  <1> QED BY <1>1, <1>3, <1>4, <1>5, <1>6

LEMMA AcquireTimesOutPreserves ==
  ASSUME BreakerIInv, NEW s \in Sends, AcquireTimesOut(s)
  PROVE  BreakerIInv'
  <1> USE DEF BreakerIInv
  <1>1. BreakerTypeOK'
    BY DEF BreakerTypeOK, AcquireTimesOut, Move, Stages
  <1>2. Live' = Live /\ GivenUp' = GivenUp
    BY MovedLive DEF AcquireTimesOut, Unsettled, Stages
  <1>3. Counted' /\ MissesBacked'
    BY <1>2 DEF Counted, MissesBacked, AcquireTimesOut
  <1>4. BornBefore' /\ HolderHolds'
    BY DEF BreakerTypeOK, BornBefore, HolderHolds, AcquireTimesOut, Move, IsCurrent
  <1>5. TimeoutHeld' /\ ExpiredHeard' /\ WedgedHeld'
    BY DEF BreakerTypeOK, TimeoutHeld, ExpiredHeard, WedgedHeld, AcquireTimesOut
  <1> QED BY <1>1, <1>3, <1>4, <1>5
\* What settling leaves alone, whatever it does to the breaker.
LEMMA SettleSteady ==
  ASSUME BreakerIInv, NEW s \in Sends, Settle(s), inFlight' \in Nat,
         send[s].stage # "holding" \/ ~IsCurrent(s),
         breaker' \in [timeouts: Nat, wedged: BOOLEAN],
         breaker'.wedged => lastTx = "timeout"
  PROVE  /\ BreakerTypeOK' /\ BornBefore' /\ HolderHolds'
         /\ TimeoutHeld' /\ ExpiredHeard' /\ WedgedHeld'
  <1> USE DEF BreakerIInv
  <1>1. BreakerTypeOK'
    BY DEF BreakerTypeOK, Settle, Move, Stages
  <1>2. BornBefore' /\ HolderHolds'
    BY DEF BreakerTypeOK, BornBefore, HolderHolds, Settle, Move, IsCurrent
  <1>3. TimeoutHeld' /\ ExpiredHeard' /\ WedgedHeld'
    BY DEF BreakerTypeOK, TimeoutHeld, ExpiredHeard, WedgedHeld, Settle, Move, IsCurrent
  <1> QED BY <1>1, <1>2, <1>3

\* How many late sends are left once one live send has settled.
LEMMA LateAfterSettling ==
  ASSUME BreakerTypeOK, Counted, NEW s \in Sends, IsCurrent(s), Unsettled(s), Settle(s)
  PROVE  /\ Cardinality(GivenUp') \in Nat
         /\ Cardinality(GivenUp') = IF send[s].late THEN Cardinality(GivenUp) - 1 ELSE Cardinality(GivenUp)
  <1>1. GivenUp' = GivenUp \ {s}
    BY SettledLive
  <1>2. s \in GivenUp <=> send[s].late
    BY DEF GivenUp, Live
  <1>3. /\ IsFiniteSet(GivenUp \ {s})
        /\ Cardinality(GivenUp \ {s}) = IF s \in GivenUp THEN Cardinality(GivenUp) - 1 ELSE Cardinality(GivenUp)
    BY LiveFinite, FS_RemoveElement
  <1>4. Cardinality(GivenUp \ {s}) \in Nat
    BY <1>3, FS_CardinalityType
  <1> QED BY <1>1, <1>2, <1>3, <1>4

LEMMA SucceedsPreserves ==
  ASSUME BreakerIInv, NEW s \in Sends, Succeeds(s)
  PROVE  BreakerIInv'
  <1> USE DEF BreakerIInv
  <1>1. Unsettled(s) /\ IsCurrent(s) /\ Settle(s) /\ breaker' = Cleared
    BY DEF Succeeds, Unsettled
  <1>2. Counted' /\ inFlight' \in Nat
    BY <1>1, SettledLive
  <1>3. MissesBacked'
    BY <1>1, LateAfterSettling DEF MissesBacked, Cleared
  <1>4. /\ BreakerTypeOK' /\ BornBefore' /\ HolderHolds'
        /\ TimeoutHeld' /\ ExpiredHeard' /\ WedgedHeld'
    BY <1>1, <1>2, SettleSteady DEF Cleared, Succeeds
  <1> QED BY <1>2, <1>3, <1>4

LEMMA FailsPreserves ==
  ASSUME BreakerIInv, NEW s \in Sends, Fails(s)
  PROVE  BreakerIInv'
  <1> USE DEF BreakerIInv
  <1>1. Unsettled(s) /\ IsCurrent(s) /\ Settle(s) /\ send[s].stage # "holding"
    BY DEF Fails, Unsettled
  <1>2. Counted' /\ inFlight' \in Nat
    BY <1>1, SettledLive
  <1>3. /\ breaker' \in [timeouts: Nat, wedged: BOOLEAN]
        /\ breaker'.wedged => breaker.wedged
    BY DEF Fails, OneFewer, Cleared, BreakerTypeOK
  <1>4. MissesBacked'
    <2>1. CASE send[s].late
      <3>1. breaker' = OneFewer(breaker)
        BY <2>1 DEF Fails
      <3>2. Cardinality(GivenUp') \in Nat /\ Cardinality(GivenUp') = Cardinality(GivenUp) - 1
        BY <1>1, <2>1, LateAfterSettling
      <3> QED BY <3>1, <3>2, LiveFinite DEF MissesBacked, OneFewer, Cleared, BreakerTypeOK
    <2>2. CASE ~send[s].late
      <3>1. Cardinality(GivenUp') = Cardinality(GivenUp)
        BY <1>1, <2>2, LateAfterSettling
      <3> QED BY <2>2, <3>1 DEF MissesBacked, Fails
    <2> QED BY <2>1, <2>2
  <1>5. /\ BreakerTypeOK' /\ BornBefore' /\ HolderHolds'
        /\ TimeoutHeld' /\ ExpiredHeard' /\ WedgedHeld'
    BY <1>1, <1>2, <1>3, SettleSteady DEF WedgedHeld
  <1> QED BY <1>2, <1>4, <1>5

\* A rejection either finds its mutex still held, and arms the breaker, or finds
\* it released, and clears it.
LEMMA RejectedPreserves ==
  ASSUME BreakerIInv, NEW s \in Sends, Rejected(s)
  PROVE  BreakerIInv'
  <1> USE DEF BreakerIInv
  <1>1. Unsettled(s) /\ IsCurrent(s) /\ Settle(s) /\ send[s].stage = "expired"
    BY DEF Rejected, Unsettled
  <1>2. Counted' /\ inFlight' \in Nat
    BY <1>1, SettledLive
  <1>3. lastTx \in {"timeout", "released"}
    BY <1>1 DEF ExpiredHeard, BreakerTypeOK
  <1>4. breaker' \in [timeouts: Nat, wedged: BOOLEAN]
    <2>1. NoteMutexWedge(breaker) \in [timeouts: Nat, wedged: BOOLEAN]
      BY DEF NoteMutexWedge, Cleared, BreakerTypeOK
    <2> QED BY <2>1 DEF Rejected, CountTimeout
  <1>5. lastTx = "released" => breaker'.timeouts \in {0, 1} /\ ~breaker'.wedged
    BY DEF Rejected, NoteMutexWedge, CountTimeout, Cleared
  <1>6. lastTx = "timeout" => breaker'.wedged
    BY DEF Rejected, NoteMutexWedge, CountTimeout, BreakerTypeOK
  <1>7. MissesBacked'
    BY <1>1, <1>3, <1>5, <1>6, LateAfterSettling DEF MissesBacked
  <1>8. /\ BreakerTypeOK' /\ BornBefore' /\ HolderHolds'
        /\ TimeoutHeld' /\ ExpiredHeard' /\ WedgedHeld'
    BY <1>1, <1>2, <1>3, <1>4, <1>5, SettleSteady
  <1> QED BY <1>2, <1>7, <1>8

LEMMA SettlesStalePreserves ==
  ASSUME BreakerIInv, NEW s \in Sends, SettlesStale(s)
  PROVE  BreakerIInv'
  <1> USE DEF BreakerIInv
  <1>1. ~IsCurrent(s) /\ Settle(s) /\ UNCHANGED <<breaker, inFlight, generation>>
    BY DEF SettlesStale, Settle, ReleaseInFlight
  <1>2. Live' = Live /\ GivenUp' = GivenUp
    BY <1>1 DEF BreakerTypeOK, Live, GivenUp, Unsettled, IsCurrent, Settle, Move
  <1>3. Counted' /\ MissesBacked'
    BY <1>1, <1>2 DEF Counted, MissesBacked
  <1>4. /\ BreakerTypeOK' /\ BornBefore' /\ HolderHolds'
        /\ TimeoutHeld' /\ ExpiredHeard' /\ WedgedHeld'
    BY <1>1, SettleSteady DEF BreakerTypeOK, WedgedHeld
  <1> QED BY <1>3, <1>4

-----------------------------------------------------------------------------

LEMMA BackgroundPreserves ==
  ASSUME BreakerIInv, BackgroundTakes \/ BackgroundReleases
  PROVE  BreakerIInv'
  <1> USE DEF BreakerIInv
  <1>1. Live' = Live /\ GivenUp' = GivenUp
    BY DEF Live, GivenUp, Unsettled, IsCurrent, BackgroundTakes, BackgroundReleases
  <1>2. BreakerTypeOK'
    <2>1. CASE BackgroundTakes
      BY <2>1 DEF BreakerTypeOK, BackgroundTakes
    <2>2. CASE BackgroundReleases
      BY <2>2 DEF BreakerTypeOK, BackgroundReleases, Released, Cleared
    <2> QED BY <2>1, <2>2
  <1>3. Counted' /\ MissesBacked'
    BY <1>1, LiveFinite
    DEF Counted, MissesBacked, BackgroundTakes, BackgroundReleases, Released, Cleared
  <1>4. BornBefore' /\ HolderHolds'
    BY SendsAssumption
    DEF BornBefore, HolderHolds, IsCurrent, BackgroundTakes, BackgroundReleases, Released
  <1>5. TimeoutHeld' /\ ExpiredHeard' /\ WedgedHeld'
    BY FreeAssumption
    DEF TimeoutHeld, ExpiredHeard, WedgedHeld, IsCurrent, BreakerTypeOK,
        BackgroundTakes, BackgroundReleases, Released, Cleared
  <1> QED BY <1>2, <1>3, <1>4, <1>5

LEMMA NewSocketPreserves ==
  ASSUME BreakerIInv, NewSocket
  PROVE  BreakerIInv'
  <1> USE DEF BreakerIInv
  <1>1. \A s \in Sends : send'[s].born < generation'
    BY DEF NewSocket, BornBefore, BreakerTypeOK
  <1>2. Live' = {} /\ GivenUp' = {}
    BY <1>1 DEF Live, GivenUp, IsCurrent, BreakerTypeOK, NewSocket
  <1>3. BreakerTypeOK'
    BY DEF BreakerTypeOK, NewSocket, Cleared
  <1>4. Counted' /\ MissesBacked'
    BY <1>2, FS_EmptySet DEF Counted, MissesBacked, NewSocket, Cleared
  <1>5. BornBefore' /\ HolderHolds'
    BY SendsAssumption DEF BornBefore, HolderHolds, NewSocket, BreakerTypeOK
  <1>6. TimeoutHeld' /\ ExpiredHeard' /\ WedgedHeld'
    BY <1>1 DEF TimeoutHeld, ExpiredHeard, WedgedHeld, IsCurrent, NewSocket, Cleared, BreakerTypeOK
  <1> QED BY <1>3, <1>4, <1>5, <1>6

LEMMA SocketOpensPreserves ==
  ASSUME BreakerIInv, SocketOpens
  PROVE  BreakerIInv'
  <1> USE DEF BreakerIInv
  <1>1. Live' = Live /\ GivenUp' = GivenUp
    BY DEF Live, GivenUp, Unsettled, IsCurrent, SocketOpens
  <1>2. BreakerTypeOK'
    BY DEF BreakerTypeOK, SocketOpens, Cleared
  <1>3. Counted' /\ MissesBacked'
    BY <1>1, LiveFinite DEF Counted, MissesBacked, SocketOpens, Cleared
  <1>4. BornBefore' /\ HolderHolds' /\ TimeoutHeld' /\ ExpiredHeard' /\ WedgedHeld'
    BY DEF BornBefore, HolderHolds, TimeoutHeld, ExpiredHeard, WedgedHeld, IsCurrent, SocketOpens,
           Cleared
  <1> QED BY <1>2, <1>3, <1>4

LEMMA NextBreakerIInv == BreakerIInv /\ [BreakerNext]_breakerVars => BreakerIInv'
  <1> SUFFICES ASSUME BreakerIInv, [BreakerNext]_breakerVars PROVE BreakerIInv'
    OBVIOUS
  <1>1. ASSUME NEW s \in Sends, SendNext(s) PROVE BreakerIInv'
    BY <1>1, RelayPreserves, DeadlinePreserves, AcquirePreserves, LeaveMutexPreserves,
       AcquireTimesOutPreserves, SucceedsPreserves, FailsPreserves, RejectedPreserves,
       SettlesStalePreserves
    DEF SendNext
  <1>2. CASE BackgroundTakes \/ BackgroundReleases
    BY <1>2, BackgroundPreserves
  <1>3. CASE NewSocket
    BY <1>3, NewSocketPreserves
  <1>4. CASE SocketOpens
    BY <1>4, SocketOpensPreserves
  <1>5. CASE UNCHANGED breakerVars
    BY <1>5
    DEF breakerVars, BreakerIInv, BreakerTypeOK, Counted, BornBefore, HolderHolds, TimeoutHeld,
        ExpiredHeard, WedgedHeld, MissesBacked, Live, GivenUp, Unsettled, IsCurrent
  <1> QED BY <1>1, <1>2, <1>3, <1>4, <1>5 DEF BreakerNext

THEOREM BreakerInvariant == BreakerSpec => []BreakerIInv
  BY InitBreakerIInv, NextBreakerIInv, PTL DEF BreakerSpec

-----------------------------------------------------------------------------

\* Whatever the number of sends and sockets, every variable keeps its type, and
\* the count of sends in flight is never negative.
THEOREM BreakerTypeCorrect == BreakerSpec => []BreakerTypeOK
  <1>1. BreakerIInv => BreakerTypeOK
    BY DEF BreakerIInv
  <1> QED BY <1>1, BreakerInvariant, PTL

\* The cap on sends in flight counts the unsettled sends of the live socket, and
\* only those.
THEOREM InFlightIsExact == BreakerSpec => []InFlightExact
  <1>1. BreakerIInv => InFlightExact
    BY DEF BreakerIInv, Counted, Live, InFlightExact
  <1> QED BY <1>1, BreakerInvariant, PTL

\* A breaker that refuses sends is one that a late settlement or the release of
\* the mutex can still close.
THEOREM BreakerIsBacked == BreakerSpec => []BreakerBacked
  <1>1. ASSUME BreakerIInv PROVE BreakerBacked
    <2> SUFFICES ASSUME breaker.timeouts >= Threshold, ~breaker.wedged
                 PROVE  \E s \in Sends : IsCurrent(s) /\ Unsettled(s) /\ send[s].late
      BY <1>1 DEF BreakerIInv, BreakerBacked, WedgedHeld, TimeoutHeld
    <2>1. Cardinality(GivenUp) # 0
      BY <1>1, LiveFinite, ThresholdAssumption DEF BreakerIInv, MissesBacked, BreakerTypeOK
    <2>2. GivenUp # {}
      BY <2>1, FS_EmptySet
    <2> QED BY <2>2 DEF GivenUp, Live
  <1> QED BY <1>1, BreakerInvariant, PTL

-----------------------------------------------------------------------------
(* SendStall *)

\* Updates of the records that keep their types.
LEMMA ConnUpdates ==
  ASSUME NEW k \in ConnRec
  PROVE  /\ \A x \in {"unborn", "down", "open", "gone"} : [k EXCEPT !.st = x] \in ConnRec
         /\ \A x \in {"no", "timed", "forever"} : [k EXCEPT !.silent = x] \in ConnRec
         /\ \A x \in {"no", "logout", "remote", "done"} : [k EXCEPT !.ended = x] \in ConnRec
         /\ \A x \in Rollback \cup {None} : [k EXCEPT !.rollback = x] \in ConnRec
         /\ [k EXCEPT !.pending = TRUE] \in ConnRec
         /\ [k EXCEPT !.pending = FALSE] \in ConnRec
         /\ [k EXCEPT !.stalled = TRUE] \in ConnRec
         /\ Healed(k) \in ConnRec
  BY DEF ConnRec, Healed

LEMMA EpisodeUpdates ==
  ASSUME NEW e \in EpisodeRec
  PROVE  /\ \A x \in {"idle", "lookup", "until", "count", "cas", "wrote", "wipe", "undo"} :
              [e EXCEPT !.pc = x] \in EpisodeRec
         /\ \A x \in {"unread", "yes", "no"} :
              [e EXCEPT !.may = x] \in EpisodeRec /\ [e EXCEPT !.yield = x] \in EpisodeRec
         /\ \A x \in Strike \cup {None} : [e EXCEPT !.prev = x] \in EpisodeRec
         /\ [e EXCEPT !.fresh = TRUE] \in EpisodeRec
         /\ [e EXCEPT !.fresh = FALSE] \in EpisodeRec
  BY DEF EpisodeRec

LEMMA OneMoreTry ==
  ASSUME NEW e \in EpisodeRec, e.tries + 1 < CasAttempts
  PROVE  [e EXCEPT !.tries = @ + 1] \in EpisodeRec
  BY StallBoundsAssumption DEF EpisodeRec

LEMMA IdleType == Idle \in EpisodeRec
  BY StallBoundsAssumption DEF Idle, EpisodeRec

LEMMA NewType == \A i \in Instances, st \in {"unborn", "down", "open", "gone"} : NewConn(i, st) \in ConnRec
  BY DEF NewConn, ConnRec

LEMMA GapType ==
  ASSUME StallTypeOK
  PROVE  /\ gaps \cup {"redis"} \subseteq StallGaps
         /\ gaps \cup {"two restarts"} \subseteq StallGaps
  BY DEF StallTypeOK, StallGaps

LEMMA InitType == StallInit => StallTypeOK
  BY IdleType, NewType DEF StallInit, StallTypeOK

LEMMA MyStrikeType == StallTypeOK => \A c \in Conns : MyStrike(c) \in Strike
  <1> SUFFICES ASSUME StallTypeOK, NEW c \in Conns PROVE MyStrike(c) \in Strike
    OBVIOUS
  <1>1. episode[c].prev \in Strike \cup {None} /\ written \in Nat
    BY DEF StallTypeOK, EpisodeRec
  <1>2. Count(episode[c].prev) \in Nat
    BY <1>1 DEF Count, Strike
  <1> QED BY <1>1, <1>2 DEF MyStrike, Strike

LEMMA TypeStep == StallTypeOK /\ [StallNext]_stallVars => StallTypeOK'
  <1> SUFFICES ASSUME StallTypeOK, [StallNext]_stallVars PROVE StallTypeOK'
    OBVIOUS
  <1> USE DEF StallTypeOK
  <1>v. Event => events' \in Nat
    <2>1. events \in Nat /\ MaxEvents \in Nat
      BY StallBoundsAssumption
    <2> HIDE DEF StallTypeOK
    <2> QED BY <2>1 DEF Event
  <1>g. gaps \cup {"redis"} \subseteq StallGaps /\ gaps \cup {"two restarts"} \subseteq StallGaps
    BY GapType
  <1>e. \A c \in Conns : episode[c] \in EpisodeRec /\ conn[c] \in ConnRec
    OBVIOUS
  <1>1. ASSUME NEW c \in Conns, Ask(c) PROVE StallTypeOK'
    <2>1. [Idle EXCEPT !.pc = "lookup", !.fresh = TRUE] \in EpisodeRec
      BY IdleType, EpisodeUpdates
    <2> QED BY <1>1, <1>e, <1>v, <1>g, <2>1, ConnUpdates DEF Ask, Silence
  <1>2. ASSUME NEW c \in Conns, ReadBackoff(c) PROVE StallTypeOK'
    BY <1>2, <1>e, <1>v, <1>g, EpisodeUpdates DEF ReadBackoff
  <1>3. ASSUME NEW c \in Conns, ReadLease(c) PROVE StallTypeOK'
    BY <1>3, <1>e, <1>v, <1>g, EpisodeUpdates DEF ReadLease
  <1>4. ASSUME NEW c \in Conns, NEW how \in {"no", "timed"}, GiveUp(c, how)
        PROVE  conn' \in [Conns -> ConnRec] /\ episode' \in [Conns -> EpisodeRec]
    BY <1>4, <1>e, <1>v, <1>g, ConnUpdates, IdleType DEF GiveUp, Silence, Finish
  <1>5. ASSUME NEW c \in Conns, LookupFails(c) \/ DecideOver(c) \/ ReadUntil(c)
        PROVE  StallTypeOK'
    BY <1>4, <1>5, <1>v, <1>g DEF LookupFails, DecideOver, ReadUntil
  <1>6. ASSUME NEW c \in Conns, DecideYield(c) PROVE StallTypeOK'
    BY <1>6, <1>e, <1>v, <1>g, ConnUpdates, IdleType DEF DecideYield, Abort, Finish
  <1>7. ASSUME NEW c \in Conns, DecideRestart(c) PROVE StallTypeOK'
    <2>1. CASE slotFree[Here(c)]
      <3>1. [episode[c] EXCEPT !.pc = "count", !.yield = "unread"] \in EpisodeRec
        BY <1>e, <1>v, <1>g, EpisodeUpdates
      <3>2. slotFree' \in [Instances -> BOOLEAN]
        BY <1>7, <2>1 DEF DecideRestart
      <3>3. conn' = [conn EXCEPT ![c] = [conn[c] EXCEPT !.pending = TRUE]]
        BY <1>7, <2>1 DEF DecideRestart
      <3>4. episode' = [episode EXCEPT ![c] = [episode[c] EXCEPT !.pc = "count", !.yield = "unread"]]
        BY <1>7, <2>1 DEF DecideRestart
      <3>5. conn' \in [Conns -> ConnRec] /\ episode' \in [Conns -> EpisodeRec]
        BY <1>e, <3>1, <3>3, <3>4, ConnUpdates
      <3> QED BY <1>7, <2>1, <3>2, <3>5 DEF DecideRestart
    <2>2. CASE ~slotFree[Here(c)]
      BY <1>4, <1>7, <2>2 DEF DecideRestart
    <2> QED BY <2>1, <2>2
  <1>8. ASSUME NEW c \in Conns, DecideWait(c) \/ CallOff(c) PROVE StallTypeOK'
    <2>1. PICK x \in {"until", "wipe", "undo"} :
            episode' = [episode EXCEPT ![c] = [episode[c] EXCEPT !.pc = x]]
      BY <1>8, <1>e DEF DecideWait, CallOff, Goto, AfterWrite
    <2>3. [episode[c] EXCEPT !.pc = x] \in EpisodeRec
      BY <1>e, EpisodeUpdates
    <2>2. episode' \in [Conns -> EpisodeRec]
      BY <2>1, <2>3
    <2> QED BY <1>8, <2>2 DEF DecideWait, CallOff
  <1>9. ASSUME NEW c \in Conns, ReadStrike(c) PROVE StallTypeOK'
    <2>1. [episode[c] EXCEPT !.prev = strike, !.pc = "cas"] \in EpisodeRec
      BY <1>e, <1>v, <1>g, EpisodeUpdates
    <2> QED BY <1>9, <2>1 DEF ReadStrike
  <1>10. ASSUME NEW c \in Conns, SwapStrike(c) PROVE StallTypeOK'
    <2>1. CASE strike = episode[c].prev
      <3>1. [prev |-> episode[c].prev, wrote |-> MyStrike(c)] \in Rollback
        BY <1>e, <1>v, <1>g, MyStrikeType DEF Rollback, EpisodeRec
      <3>2. conn' \in [Conns -> ConnRec] /\ episode' \in [Conns -> EpisodeRec]
        <4>1. [conn[c] EXCEPT !.rollback = [prev |-> episode[c].prev, wrote |-> MyStrike(c)]] \in ConnRec
          BY <1>e, <3>1, ConnUpdates
        <4>2. [episode[c] EXCEPT !.pc = "wrote"] \in EpisodeRec
          BY <1>e, EpisodeUpdates
        <4> QED BY <1>10, <2>1, <4>1, <4>2 DEF SwapStrike, Goto
      <3>3. strike' \in Strike /\ written' \in Nat
        BY <1>10, MyStrikeType, <2>1 DEF SwapStrike, SetStrike
      <3> QED BY <1>10, <3>2, <3>3 DEF SwapStrike
    <2>2. CASE strike # episode[c].prev
      <3>1. episode[c].tries + 1 < CasAttempts
        BY <1>10, <2>2 DEF SwapStrike, MayRetry
      <3>2. [episode[c] EXCEPT !.pc = "count", !.tries = @ + 1] \in EpisodeRec
        <4>1. [episode[c] EXCEPT !.tries = @ + 1] \in EpisodeRec
          BY <1>e, <3>1, OneMoreTry
        <4>2. [[episode[c] EXCEPT !.tries = @ + 1] EXCEPT !.pc = "count"] \in EpisodeRec
          BY <4>1, EpisodeUpdates
        <4>3. [episode[c] EXCEPT !.pc = "count", !.tries = @ + 1]
                = [[episode[c] EXCEPT !.tries = @ + 1] EXCEPT !.pc = "count"]
          BY <1>e DEF EpisodeRec
        <4> QED BY <4>2, <4>3
      <3> QED BY <1>10, <2>2, <3>2 DEF SwapStrike
    <2> QED BY <2>1, <2>2
  <1>11. ASSUME NEW c \in Conns, RecordFails(c) PROVE StallTypeOK'
    <2>1. strike' \in Strike \cup {None} /\ written' \in Nat /\ events' \in Nat
      <3>1. SetStrike(c) => strike' \in Strike /\ written' \in Nat
        BY MyStrikeType DEF SetStrike
      <3> QED BY <1>11, <1>v, <3>1 DEF RecordFails
    <2>2. \A x \in {"timed", "no"} : [conn[c] EXCEPT !.pending = FALSE, !.silent = x] \in ConnRec
      BY <1>e, <1>v, <1>g, ConnUpdates
    <2>3. conn' \in [Conns -> ConnRec] /\ episode' \in [Conns -> EpisodeRec]
      BY <1>11, <2>2, IdleType DEF RecordFails, Finish
    <2> QED BY <1>11, <1>g, <2>1, <2>3 DEF RecordFails
  <1>12. ASSUME NEW c \in Conns, RequestRestart(c) PROVE StallTypeOK'
    <2>1. conn[c].rollback # None => conn[c].rollback.wrote.stamp \in Nat
      BY <1>e, <1>v, <1>g DEF ConnRec, Rollback, Strike
    <2>2. episode' \in [Conns -> EpisodeRec]
      BY <1>12, IdleType DEF RequestRestart, Finish
    <2>3. CASE Registered(c) /\ conn[c].rollback # None
      <3>1. queued' \in [Conns -> SUBSET Nat] /\ gaps' \subseteq StallGaps
        <4>1. queued' = [queued EXCEPT ![c] = queued[c] \cup {conn[c].rollback.wrote.stamp}]
          BY <1>12, <2>3 DEF RequestRestart
        <4>2. gaps' \in {gaps, gaps \cup {"two restarts"}}
          BY <1>12, <2>3 DEF RequestRestart
        <4>3. queued[c] \cup {conn[c].rollback.wrote.stamp} \in SUBSET Nat
          BY <2>1, <2>3
        <4> QED BY <1>g, <4>1, <4>2, <4>3
      <3> QED BY <1>12, <2>2, <3>1 DEF RequestRestart
    <2>4. CASE ~(Registered(c) /\ conn[c].rollback # None)
      BY <1>12, <2>2, <2>4 DEF RequestRestart
    <2> QED BY <2>3, <2>4
  <1>13. ASSUME NEW c \in Conns, Wipe(c) PROVE StallTypeOK'
    BY <1>13, <1>e, <1>v, <1>g, ConnUpdates, IdleType DEF Wipe, Finish
  <1>14. ASSUME NEW c \in Conns, Undo(c) PROVE StallTypeOK'
    <2>1. strike' \in Strike \cup {None}
      BY <1>14, <1>e, <1>v, <1>g DEF Undo, Restored, ConnRec, Rollback
    <2>2. /\ [conn[c] EXCEPT !.rollback = None] \in ConnRec
          /\ [conn[c] EXCEPT !.rollback = None, !.st = "gone"] \in ConnRec
      BY <1>e, <1>v, <1>g, ConnUpdates
    <2>3. conn' \in [Conns -> ConnRec] /\ registry' \in [Instances -> Conns \cup {None}]
      BY <1>14, <2>2 DEF Undo
    <2> QED BY <1>v, <1>g, <1>14, <2>1, <2>3, IdleType DEF Undo, Finish
  <1>r. ASSUME NEW c \in Conns, NEW d \in Conns, ReplaceBy(c, d)
        PROVE  conn' \in [Conns -> ConnRec] /\ registry' \in [Instances -> Conns \cup {None}]
    <2>1. Here(c) \in Instances
      BY <1>e, <1>v, <1>g DEF Here, ConnRec
    <2> QED BY <1>r, <1>e, <1>v, <1>g, <2>1, ConnUpdates, NewType DEF ReplaceBy
  <1>15. ASSUME NEW c \in Conns, NEW s \in queued[c], Restart(c, s) PROVE StallTypeOK'
    <2>1. conn' \in [Conns -> ConnRec] /\ registry' \in [Instances -> Conns \cup {None}]
      <3>1. CASE Abort(c)
        BY <1>e, <1>v, <1>g, <3>1, ConnUpdates DEF Abort
      <3> QED BY <1>15, <1>r, <3>1 DEF Restart
    <2> QED BY <1>15, <2>1, <1>v, <1>g DEF Restart
  <1>16. ASSUME NEW c \in Conns, NEW s \in queued[c], Withdraw(c, s) PROVE StallTypeOK'
    <2>1. \A x \in {"wipe", "undo"} : [Idle EXCEPT !.pc = x] \in EpisodeRec
      BY IdleType, EpisodeUpdates
    <2> QED BY <1>16, <1>e, <1>v, <1>g, <2>1, ConnUpdates DEF Withdraw
  <1>17. ASSUME NEW c \in Conns, Stalls(c) \/ Recovers(c) \/ Drops(c) PROVE StallTypeOK'
    BY <1>17, <1>e, <1>v, <1>g, ConnUpdates DEF Stalls, Recovers, Drops
  <1>18. ASSUME NEW c \in Conns, Opens(c) PROVE StallTypeOK'
    <2>1. [Healed(conn[c]) EXCEPT !.st = "open"] \in ConnRec
      BY <1>e, <1>v, <1>g, ConnUpdates
    <2> QED BY <1>18, <1>e, <1>v, <1>g, <2>1, EpisodeUpdates DEF Opens
  <1>19. ASSUME NEW c \in Conns, EndSession(c) PROVE StallTypeOK'
    <2>1. \A how \in {"logout", "remote"} : [conn[c] EXCEPT !.ended = how, !.st = "gone"] \in ConnRec
      BY <1>e, <1>v, <1>g, ConnUpdates
    <2> QED BY <1>19, <2>1, <1>v, <1>g DEF EndSession
  <1>20. ASSUME NEW c \in Conns, FinishClose(c) PROVE StallTypeOK'
    BY <1>20, <1>e, <1>v, <1>g, ConnUpdates DEF FinishClose
  <1>21. ASSUME NEW c \in Conns, ForceRestart(c) PROVE StallTypeOK'
    BY <1>21, <1>r, <1>v, <1>g DEF ForceRestart
  <1>22. ASSUME NEW c \in Conns, SilenceEnds(c) PROVE StallTypeOK'
    BY <1>22, <1>e, <1>v, <1>g, ConnUpdates DEF SilenceEnds, Silence
  <1>23. ASSUME NEW i \in Instances, RenewDiscards(i) \/ SlotFrees(i) PROVE StallTypeOK'
    <2>1. CASE RenewDiscards(i)
      <3>1. registry[i] \in Conns
        BY <2>1 DEF RenewDiscards
      <3> QED BY <1>e, <2>1, <3>1, ConnUpdates DEF RenewDiscards
    <2>2. CASE SlotFrees(i)
      BY <2>2 DEF SlotFrees
    <2> QED BY <1>23, <2>1, <2>2
  <1>24. ASSUME NEW i \in Instances, NEW d \in Conns, Takeover(i, d) PROVE StallTypeOK'
    BY <1>24, NewType, <1>v, <1>g DEF Takeover
  <1>25. ASSUME BackoffEnds PROVE StallTypeOK'
    BY <1>25 DEF BackoffEnds, Strike
  <1>26. ASSUME UNCHANGED stallVars PROVE StallTypeOK'
    BY <1>26 DEF stallVars
  <1> QED
    BY <1>1, <1>2, <1>3, <1>5, <1>6, <1>7, <1>8, <1>9, <1>10, <1>11, <1>12, <1>13, <1>14,
       <1>15, <1>16, <1>17, <1>18, <1>19, <1>20, <1>21, <1>22, <1>23, <1>24, <1>25, <1>26
    DEF StallNext, EpisodeStep, ConnStep

-----------------------------------------------------------------------------
(* A connection and its episode *)

\* What keeps a connection from being restarted again is on its way to an end: an
\* episode that will set it free, a restart that waits for its slot, or an abort.
Attended(c) ==
  /\ conn[c].pending =>
       \/ episode[c].pc \in {"count", "cas", "wrote"} \/ queued[c] # {}
       \/ episode[c].pc = "undo" /\ episode[c].yield = "yes"
  /\ conn[c].silent = "forever" => conn[c].pending \/ episode[c].pc \in {"lookup", "until"}

Sound(c) ==
  /\ conn[c].st = "unborn" =>
       /\ episode[c].pc = "idle" /\ queued[c] = {}
       /\ conn[c].ended = "no" /\ conn[c].rollback = None
       /\ \A i \in Instances : registry[i] # c
  /\ Ended(c) => conn[c].st = "gone"
  /\ episode[c].pc = "wrote" => conn[c].rollback # None
  /\ Registered(c) /\ conn[c].st = "open" => Attended(c)

AllSound == \A c \in Conns : Sound(c)

LEMMA InitSound == StallInit => AllSound
  <1> SUFFICES ASSUME StallInit, NEW b \in Conns PROVE Sound(b)
    BY DEF AllSound
  <1>1. PICK i \in Instances, c \in Conns :
          /\ conn = [d \in Conns |-> NewConn(i, IF d = c THEN "open" ELSE "unborn")]
          /\ episode = [d \in Conns |-> Idle] /\ queued = [d \in Conns |-> {}]
          /\ registry = [j \in Instances |-> IF j = i THEN c ELSE None]
    BY DEF StallInit
  <1>2. /\ episode[b].pc = "idle" /\ queued[b] = {}
        /\ ~conn[b].pending /\ conn[b].silent = "no"
        /\ conn[b].ended = "no" /\ conn[b].rollback = None
        /\ b # c <=> conn[b].st = "unborn"
    BY <1>1 DEF NewConn, Idle
  <1>3. b # c => \A j \in Instances : registry[j] # b
    BY <1>1, StallNoneAssumption
  <1> QED BY <1>2, <1>3 DEF Sound, Attended, Ended

\* A connection that no step touches stays sound.
LEMMA Untouched ==
  ASSUME StallTypeOK, NEW b \in Conns, Sound(b),
         conn'[b] = conn[b], episode'[b] = episode[b], queued'[b] = queued[b],
         \A i \in Instances : registry'[i] = b => registry[i] = b
  PROVE  Sound(b)'
  <1>1. Here(b) \in Instances
    BY DEF StallTypeOK, ConnRec, Here
  <1> QED BY <1>1 DEF Sound, Attended, Ended, Registered, Here

\* What is left to show of a connection that a step does touch.
LEMMA Touched ==
  ASSUME StallTypeOK, NEW c \in Conns,
         conn'[c].st # "unborn", conn'[c].inst = conn[c].inst,
         \A i \in Instances : registry'[i] = c => registry[i] = c,
         Ended(c)' => conn'[c].st = "gone",
         episode'[c].pc = "wrote" => conn'[c].rollback # None,
         Registered(c) /\ conn'[c].st = "open" => Attended(c)'
  PROVE  Sound(c)'
  <1>1. Here(c) \in Instances
    BY DEF StallTypeOK, ConnRec, Here
  <1> QED BY <1>1 DEF Sound, Registered, Here

\* The steps of an episode that leave the strike alone.
LEMMA EpisodeSound ==
  ASSUME StallTypeOK, AllSound, NEW c \in Conns,
         \/ Ask(c) \/ ReadBackoff(c) \/ ReadLease(c) \/ LookupFails(c)
         \/ DecideOver(c) \/ DecideYield(c) \/ DecideRestart(c) \/ DecideWait(c)
         \/ ReadUntil(c) \/ ReadStrike(c)
  PROVE  AllSound'
  <1>t. conn \in [Conns -> ConnRec] /\ episode \in [Conns -> EpisodeRec]
    BY DEF StallTypeOK
  <1>1. \A b \in Conns \ {c} : conn'[b] = conn[b] /\ episode'[b] = episode[b]
    BY <1>t DEF Ask, ReadBackoff, ReadLease, LookupFails, DecideOver, DecideYield, DecideRestart,
           DecideWait, ReadUntil, ReadStrike, GiveUp, Silence, Finish, Goto, Abort
  <1>2. queued' = queued
    BY DEF Ask, ReadBackoff, ReadLease, LookupFails, DecideOver, DecideYield, DecideRestart,
           DecideWait, ReadUntil, ReadStrike
  <1>3. \A b \in Conns, i \in Instances : registry'[i] = b => registry[i] = b
    BY StallNoneAssumption DEF Ask, ReadBackoff, ReadLease, LookupFails, DecideOver, DecideYield, DecideRestart,
           DecideWait, ReadUntil, ReadStrike, Abort
  <1>4. Sound(c)'
    <2>s. Sound(c) /\ conn[c] \in ConnRec /\ episode[c] \in EpisodeRec
      BY <1>t DEF AllSound
    <2>u. conn[c].st # "unborn"
      BY <2>s DEF Sound, Ask, ReadBackoff, ReadLease, LookupFails, Decided, DecideOver,
            DecideYield, DecideRestart, DecideWait, ReadUntil, ReadStrike
    <2>e. /\ Ended(c) => conn[c].st = "gone"
          /\ Registered(c) /\ conn[c].st = "open" => Attended(c)
      BY <2>s DEF Sound
    <2>1. ASSUME Ask(c) PROVE Sound(c)'
      <3>1. conn'[c] = [conn[c] EXCEPT !.silent = "forever"] /\ episode'[c].pc = "lookup"
        BY <1>t, <2>1 DEF Ask, Silence, Idle
      <3>2. conn[c].st = "open" /\ ~conn[c].pending
        BY <2>1 DEF Ask
      <3> QED BY <1>3, <2>s, <2>u, <2>e, <3>1, <3>2, Touched DEF ConnRec, Attended, Ended
    <2>2. ASSUME UNCHANGED conn,
                 \/ episode'[c].pc = episode[c].pc /\ episode[c].pc # "undo"
                 \/ episode[c].pc = "lookup" /\ episode'[c].pc = "until"
                 \/ episode[c].pc = "count" /\ episode'[c].pc = "cas"
          PROVE  Sound(c)'
      <3>1. episode'[c].pc = "wrote" => conn[c].rollback # None
        BY <2>2, <2>s DEF Sound
      <3>2. conn'[c] = conn[c] /\ queued'[c] = queued[c]
        BY <1>2, <2>2
      <3>3. Attended(c) => Attended(c)'
        BY <2>2, <3>2 DEF Attended
      <3> QED BY <1>3, <2>u, <2>e, <3>1, <3>2, <3>3, Touched DEF Ended
    <2>3. ASSUME NEW how \in {"no", "timed"}, GiveUp(c, how), episode[c].pc \in {"lookup", "until"}
          PROVE  Sound(c)'
      <3>1. PICK x \in {"no", "timed"} : conn'[c] = [conn[c] EXCEPT !.silent = x]
        BY <1>t, <2>3 DEF GiveUp, Silence
      <3>2. episode'[c].pc = "idle"
        BY <1>t, <2>3 DEF GiveUp, Finish, Idle
      <3> QED BY <1>2, <1>3, <2>s, <2>u, <2>e, <2>3, <3>1, <3>2, Touched DEF ConnRec, Attended, Ended
    <2>4. ASSUME DecideYield(c) PROVE Sound(c)'
      <3>1. conn'[c] = [conn[c] EXCEPT !.st = "gone"] /\ episode'[c].pc = "idle"
        BY <1>t, <2>4 DEF DecideYield, Abort, Finish, Idle
      <3> QED BY <1>3, <2>s, <3>1, Touched DEF ConnRec
    <2>5. ASSUME DecideRestart(c), slotFree[Here(c)] PROVE Sound(c)'
      <3>1. /\ conn'[c] = [conn[c] EXCEPT !.pending = TRUE]
            /\ episode'[c] = [episode[c] EXCEPT !.pc = "count", !.yield = "unread"]
        BY <1>t, <2>5 DEF DecideRestart
      <3>2. episode'[c].pc = "count"
        BY <2>s, <3>1 DEF EpisodeRec
      <3> QED BY <1>3, <2>s, <2>u, <2>e, <3>1, <3>2, Touched DEF ConnRec, Attended, Ended
    <2>6. CASE \/ LookupFails(c) \/ DecideOver(c) \/ ReadUntil(c)
               \/ DecideRestart(c) /\ ~slotFree[Here(c)]
      BY <2>3, <2>6 DEF LookupFails, DecideOver, ReadUntil, DecideRestart, Decided
    <2>7. CASE ReadBackoff(c) \/ ReadLease(c) \/ DecideWait(c) \/ ReadStrike(c)
      <3>1. ReadBackoff(c) => UNCHANGED conn /\ episode'[c].pc = episode[c].pc /\ episode[c].pc = "lookup"
        BY <1>t DEF ReadBackoff, EpisodeRec
      <3>2. ReadLease(c) => /\ UNCHANGED conn /\ episode'[c].pc = episode[c].pc
                            /\ episode[c].pc \in {"lookup", "count", "cas", "wrote"}
        BY <1>t DEF ReadLease, EpisodeRec
      <3>3. DecideWait(c) => UNCHANGED conn /\ episode'[c].pc = "until" /\ episode[c].pc = "lookup"
        BY <1>t DEF DecideWait, Goto, Decided, EpisodeRec
      <3>4. ReadStrike(c) => UNCHANGED conn /\ episode'[c].pc = "cas" /\ episode[c].pc = "count"
        BY <1>t DEF ReadStrike, EpisodeRec
      <3> QED BY <2>2, <2>7, <2>s, <3>1, <3>2, <3>3, <3>4 DEF Sound
    <2> QED BY <2>1, <2>4, <2>5, <2>6, <2>7, Zenon
  <1>5. \A b \in Conns \ {c} : Sound(b)'
    BY <1>1, <1>2, <1>3, Untouched DEF AllSound
  <1> QED BY <1>4, <1>5 DEF AllSound

\* The steps of an episode that write its strike or take it back.
LEMMA StrikeSound ==
  ASSUME StallTypeOK, AllSound, NEW c \in Conns,
         \/ SwapStrike(c) \/ RecordFails(c) \/ CallOff(c) \/ RequestRestart(c)
         \/ Wipe(c) \/ Undo(c) \/ \E s \in queued[c] : Withdraw(c, s)
  PROVE  AllSound'
  <1>t. /\ conn \in [Conns -> ConnRec] /\ episode \in [Conns -> EpisodeRec]
        /\ queued \in [Conns -> SUBSET Nat]
    BY DEF StallTypeOK
  <1>1. \A b \in Conns \ {c} : conn'[b] = conn[b] /\ episode'[b] = episode[b] /\ queued'[b] = queued[b]
    BY <1>t DEF SwapStrike, RecordFails, CallOff, RequestRestart, Wipe, Undo, Withdraw, Finish, Goto
  <1>3. \A b \in Conns, i \in Instances : registry'[i] = b => registry[i] = b
    BY StallNoneAssumption DEF SwapStrike, RecordFails, CallOff, RequestRestart, Wipe, Undo, Withdraw
  <1>s. Sound(c) /\ conn[c] \in ConnRec /\ episode[c] \in EpisodeRec
    BY <1>t DEF AllSound
  <1>u. conn[c].st # "unborn"
    BY <1>s DEF Sound, SwapStrike, RecordFails, CallOff, RequestRestart, Wipe, Undo, Withdraw
  <1>e. /\ Ended(c) => conn[c].st = "gone"
        /\ Registered(c) /\ conn[c].st = "open" => Attended(c)
    BY <1>s DEF Sound
  <1>4. ASSUME SwapStrike(c) PROVE Sound(c)'
    <2>1. CASE strike = episode[c].prev
      <3>1. [prev |-> episode[c].prev, wrote |-> MyStrike(c)] # None
        <4>1. [prev |-> episode[c].prev, wrote |-> MyStrike(c)] \in Rollback
          BY <1>s, MyStrikeType DEF Rollback, EpisodeRec
        <4> QED BY <4>1, StallNoneAssumption
      <3>2. /\ conn'[c] = [conn[c] EXCEPT !.rollback = [prev |-> episode[c].prev, wrote |-> MyStrike(c)]]
            /\ episode'[c] = [episode[c] EXCEPT !.pc = "wrote"] /\ queued'[c] = queued[c]
        BY <1>t, <1>4, <2>1 DEF SwapStrike, Goto
      <3>3. episode'[c].pc = "wrote" /\ episode[c].pc = "cas"
        BY <1>s, <1>4, <3>2 DEF SwapStrike, EpisodeRec
      <3>4. conn'[c].rollback # None
        BY <1>s, <3>1, <3>2 DEF ConnRec
      <3> QED BY <1>3, <1>s, <1>u, <1>e, <3>2, <3>3, <3>4, Touched DEF ConnRec, Attended, Ended
    <2>2. CASE strike # episode[c].prev
      <3>1. conn'[c] = conn[c] /\ queued'[c] = queued[c]
        BY <1>t, <1>4, <2>2 DEF SwapStrike
      <3>2. episode[c].pc = "cas" /\ episode'[c].pc = "count"
        BY <1>t, <1>4, <2>2 DEF SwapStrike, EpisodeRec
      <3> QED BY <1>3, <1>u, <1>e, <3>1, <3>2, Touched DEF Attended, Ended
    <2> QED BY <2>1, <2>2
  <1>5. ASSUME RecordFails(c) PROVE Sound(c)'
    <2>1. PICK x \in {"timed", "no"} : conn'[c] = [conn[c] EXCEPT !.pending = FALSE, !.silent = x]
      BY <1>t, <1>5 DEF RecordFails
    <2>2. episode'[c].pc = "idle"
      BY <1>t, <1>5 DEF RecordFails, Finish, Idle
    <2> QED BY <1>3, <1>s, <1>u, <1>e, <2>1, <2>2, Touched DEF ConnRec, Attended, Ended
  <1>6. ASSUME CallOff(c) PROVE Sound(c)'
    <2>1. /\ conn'[c] = conn[c] /\ queued'[c] = queued[c] /\ episode[c].pc = "wrote"
          /\ episode'[c] = [episode[c] EXCEPT !.pc = AfterWrite(c)] /\ AfterWrite(c) # "restart"
      BY <1>t, <1>6 DEF CallOff, Goto
    <2>2. episode'[c].pc \in {"wipe", "undo"} /\ episode'[c].yield = episode[c].yield
      BY <1>s, <2>1 DEF EpisodeRec, AfterWrite
    <2>3. conn[c].st = "open" /\ conn[c].pending => episode'[c].pc = "undo" /\ episode[c].yield = "yes"
      BY <1>s, <1>e, <2>1 DEF AfterWrite, Discarded, EpisodeRec
    <2> QED BY <1>3, <1>u, <1>e, <2>1, <2>2, <2>3, Touched DEF Attended, Ended
  <1>7. ASSUME RequestRestart(c) PROVE Sound(c)'
    <2>1. conn'[c] = conn[c] /\ episode'[c].pc = "idle" /\ episode[c].pc = "wrote"
      BY <1>t, <1>7 DEF RequestRestart, Finish, Idle
    <2>2. Registered(c) => queued'[c] # {}
      BY <1>t, <1>7, <1>s, <2>1 DEF RequestRestart, Sound
    <2> QED BY <1>3, <1>u, <1>e, <2>1, <2>2, Touched DEF Attended, Ended
  <1>8. ASSUME Wipe(c) PROVE Sound(c)'
    <2>1. /\ conn'[c] = [conn[c] EXCEPT !.rollback = None] /\ queued'[c] = queued[c]
          /\ episode'[c].pc = "idle" /\ episode[c].pc = "wipe"
      BY <1>t, <1>8 DEF Wipe, Finish, Idle
    <2> QED BY <1>3, <1>s, <1>u, <1>e, <2>1, Touched DEF ConnRec, Attended, Ended
  <1>9. ASSUME Undo(c) PROVE Sound(c)'
    <2>1. queued'[c] = queued[c] /\ episode'[c].pc = "idle" /\ episode[c].pc = "undo"
      BY <1>t, <1>9 DEF Undo, Finish, Idle
    <2>2. CASE episode[c].yield = "yes" /\ ~Discarded(c)
      <3>1. conn'[c] = [conn[c] EXCEPT !.rollback = None, !.st = "gone"]
        BY <1>t, <1>9, <2>2 DEF Undo
      <3> QED BY <1>3, <1>s, <2>1, <3>1, Touched DEF ConnRec
    <2>3. CASE ~(episode[c].yield = "yes" /\ ~Discarded(c))
      <3>1. conn'[c] = [conn[c] EXCEPT !.rollback = None]
        BY <1>t, <1>9, <2>3 DEF Undo
      <3> QED BY <1>3, <1>s, <1>u, <1>e, <2>1, <2>3, <3>1, Touched
              DEF ConnRec, Attended, Ended, Discarded
    <2> QED BY <2>2, <2>3
  <1>10. ASSUME NEW s \in queued[c], Withdraw(c, s) PROVE Sound(c)'
    <2>1. /\ conn'[c] = [conn[c] EXCEPT !.pending = FALSE] /\ episode[c].pc = "idle"
          /\ episode'[c].pc \in {"wipe", "undo"} /\ ~StillOurs(c)
      BY <1>t, <1>10 DEF Withdraw, Idle
    <2>2. Registered(c) /\ conn[c].st = "open" => conn[c].silent # "forever"
      BY <1>e, <2>1 DEF StillOurs, Attended
    <2> QED BY <1>3, <1>s, <1>u, <1>e, <2>1, <2>2, Touched DEF ConnRec, Attended, Ended
  <1>11. Sound(c)'
    BY <1>4, <1>5, <1>6, <1>7, <1>8, <1>9, <1>10, Zenon
  <1>12. \A b \in Conns \ {c} : Sound(b)'
    BY <1>1, <1>3, Untouched DEF AllSound
  <1> QED BY <1>11, <1>12 DEF AllSound

\* A connection that takes the place of another, or of none.
LEMMA BornSound ==
  ASSUME StallTypeOK, NEW d \in Conns, Sound(d), conn[d].st = "unborn",
         NEW i \in Instances, conn'[d] = NewConn(i, "down"), episode'[d] = episode[d]
  PROVE  Sound(d)'
  <1>1. /\ conn'[d].st = "down" /\ conn'[d].ended = "no" /\ episode'[d].pc = "idle"
    BY DEF Sound, NewConn
  <1> QED BY <1>1 DEF Sound, Ended

LEMMA ReplaceSound ==
  ASSUME StallTypeOK, AllSound, NEW c \in Conns, NEW d \in Conns,
         Registered(c), ReplaceBy(c, d), episode' = episode,
         \A b \in Conns \ {c} : queued'[b] = queued[b]
  PROVE  AllSound'
  <1>1. /\ conn \in [Conns -> ConnRec] /\ conn[c] \in ConnRec /\ Here(c) \in Instances
        /\ Sound(c) /\ Sound(d)
    BY DEF StallTypeOK, ConnRec, Here, AllSound
  <1>2. c # d /\ conn[c].st # "unborn"
    BY <1>1 DEF ReplaceBy, Registered, Sound
  <1>3. conn'[c] = [conn[c] EXCEPT !.st = "gone"] /\ conn'[d] = NewConn(Here(c), "down")
    BY <1>1, <1>2 DEF ReplaceBy
  <1>4. \A b \in Conns \ {c, d} : conn'[b] = conn[b]
    BY <1>1 DEF ReplaceBy
  <1>5. \A b \in Conns \ {d}, i \in Instances : registry'[i] = b => registry[i] = b
    BY DEF ReplaceBy, StallTypeOK
  <1>6. Sound(d)'
    BY <1>1, <1>3, BornSound DEF ReplaceBy
  <1>7. Sound(c)'
    <2>1. /\ conn'[c].st = "gone" /\ conn'[c].inst = conn[c].inst
          /\ conn'[c].rollback = conn[c].rollback
      BY <1>1, <1>3 DEF ConnRec
    <2>2. episode'[c].pc = "wrote" => conn'[c].rollback # None
      BY <1>1, <2>1 DEF Sound
    <2> QED BY <1>2, <1>5, <2>1, <2>2, Touched
  <1>8. \A b \in Conns \ {c, d} : Sound(b)'
    BY <1>4, <1>5, Untouched DEF AllSound
  <1> QED BY <1>6, <1>7, <1>8 DEF AllSound

LEMMA RestartSound ==
  ASSUME StallTypeOK, AllSound, NEW c \in Conns, NEW s \in queued[c], Restart(c, s)
  PROVE  AllSound'
  <1>t. conn \in [Conns -> ConnRec] /\ queued \in [Conns -> SUBSET Nat]
    BY DEF StallTypeOK
  <1>1. episode' = episode /\ Registered(c) /\ \A b \in Conns \ {c} : queued'[b] = queued[b]
    BY <1>t DEF Restart, StillOurs
  <1>2. CASE \E d \in Conns : ReplaceBy(c, d)
    BY <1>1, <1>2, ReplaceSound
  <1>3. CASE Abort(c)
    <2>1. conn'[c] = [conn[c] EXCEPT !.st = "gone"] /\ \A b \in Conns \ {c} : conn'[b] = conn[b]
      BY <1>t, <1>3 DEF Abort
    <2>2. \A b \in Conns, i \in Instances : registry'[i] = b => registry[i] = b
      BY <1>3, StallNoneAssumption DEF Abort
    <2>3. Sound(c)'
      <3>1. /\ conn'[c].st = "gone" /\ conn'[c].inst = conn[c].inst
            /\ conn'[c].rollback = conn[c].rollback
        BY <1>t, <2>1 DEF ConnRec
      <3>2. episode'[c].pc = "wrote" => conn'[c].rollback # None
        BY <1>1, <3>1 DEF Sound, AllSound
      <3> QED BY <2>2, <3>1, <3>2, Touched
    <2>4. \A b \in Conns \ {c} : Sound(b)'
      BY <1>1, <2>1, <2>2, Untouched DEF AllSound
    <2> QED BY <2>3, <2>4 DEF AllSound
  <1> QED BY <1>2, <1>3 DEF Restart

\* What happens around the episodes.
LEMMA WorldSound ==
  ASSUME StallTypeOK, AllSound,
         \/ \E c \in Conns :
              \/ Stalls(c) \/ Recovers(c) \/ Drops(c) \/ Opens(c) \/ EndSession(c)
              \/ FinishClose(c) \/ ForceRestart(c) \/ SilenceEnds(c)
         \/ \E i \in Instances :
              RenewDiscards(i) \/ SlotFrees(i) \/ \E d \in Conns : Takeover(i, d)
         \/ BackoffEnds \/ UNCHANGED stallVars
  PROVE  AllSound'
  <1>t. /\ conn \in [Conns -> ConnRec] /\ episode \in [Conns -> EpisodeRec]
        /\ registry \in [Instances -> Conns \cup {None}]
    BY DEF StallTypeOK
  \* One connection changes in place.
  <1>1. ASSUME NEW c \in Conns, queued' = queued, NEW k \in ConnRec,
               conn' = [conn EXCEPT ![c] = k],
               \A b \in Conns, i \in Instances : registry'[i] = b => registry[i] = b,
               \A b \in Conns : episode'[b].pc = episode[b].pc /\ episode'[b].yield = episode[b].yield,
               \A b \in Conns \ {c} : episode'[b] = episode[b],
               conn[c].st # "unborn", k.st # "unborn", k.inst = conn[c].inst,
               k.ended # "no" => k.st = "gone", k.rollback = conn[c].rollback,
               Registered(c) /\ k.st = "open" =>
                 \/ ~k.pending /\ k.silent # "forever"
                 \/ /\ conn[c].st = "open" /\ k.pending = conn[c].pending
                    /\ k.silent = "no" \/ k.silent = conn[c].silent
        PROVE  AllSound'
    <2>1. conn'[c] = k /\ \A b \in Conns \ {c} : conn'[b] = conn[b]
      BY <1>t, <1>1
    <2>2. Sound(c)
      BY DEF AllSound
    <2>3. Registered(c) /\ k.st = "open" => Attended(c)'
      BY <1>1, <2>1, <2>2 DEF Sound, Attended
    <2>4. episode'[c].pc = "wrote" => conn'[c].rollback # None
      BY <1>1, <2>1, <2>2 DEF Sound
    <2>5. Sound(c)'
      BY <1>1, <2>1, <2>3, <2>4, Touched DEF Ended
    <2>6. \A b \in Conns \ {c} : Sound(b)'
      BY <1>1, <2>1, Untouched DEF AllSound
    <2> QED BY <2>5, <2>6 DEF AllSound
  <1>e. \A c \in Conns : Sound(c) /\ conn[c] \in ConnRec /\ episode[c] \in EpisodeRec
    BY <1>t DEF AllSound
  <1>2. ASSUME NEW c \in Conns, Stalls(c) PROVE AllSound'
    <2> DEFINE k == [conn[c] EXCEPT !.stalled = TRUE]
    <2>1. k \in ConnRec
      BY <1>e, ConnUpdates
    <2>2. /\ k.st = "open" /\ k.inst = conn[c].inst /\ k.ended = conn[c].ended
          /\ k.rollback = conn[c].rollback /\ k.pending = conn[c].pending /\ k.silent = conn[c].silent
      BY <1>2, <1>e DEF Stalls, ConnRec
    <2>3. conn' = [conn EXCEPT ![c] = k] /\ UNCHANGED <<episode, queued, registry>> /\ conn[c].st = "open"
      BY <1>2 DEF Stalls
    <2>4. k.ended = "no"
      BY <1>e, <2>2, <2>3 DEF Sound, Ended
    <2> HIDE DEF k
    <2> QED BY <1>1, <2>1, <2>2, <2>3, <2>4
  <1>3. ASSUME NEW c \in Conns, Recovers(c) PROVE AllSound'
    <2> DEFINE k == Healed(conn[c])
    <2>1. k \in ConnRec
      BY <1>e, ConnUpdates
    <2>2. /\ k.st = conn[c].st /\ k.inst = conn[c].inst /\ k.ended = conn[c].ended
          /\ k.rollback = conn[c].rollback /\ ~k.pending /\ k.silent = "no"
      BY <1>e DEF Healed, ConnRec
    <2>3. /\ conn' = [conn EXCEPT ![c] = k] /\ UNCHANGED <<episode, queued, registry>>
          /\ conn[c].st \in {"down", "open"}
      BY <1>3 DEF Recovers
    <2>4. k.ended = "no"
      BY <1>e, <2>2, <2>3 DEF Sound, Ended
    <2> HIDE DEF k
    <2> QED BY <1>1, <2>1, <2>2, <2>3, <2>4
  <1>4. ASSUME NEW c \in Conns, Drops(c) PROVE AllSound'
    <2> DEFINE k == [conn[c] EXCEPT !.st = "down"]
    <2>1. k \in ConnRec
      BY <1>e, ConnUpdates
    <2>2. /\ k.st = "down" /\ k.inst = conn[c].inst /\ k.ended = conn[c].ended
          /\ k.rollback = conn[c].rollback
      BY <1>e DEF ConnRec
    <2>3. conn' = [conn EXCEPT ![c] = k] /\ UNCHANGED <<episode, queued, registry>> /\ conn[c].st = "open"
      BY <1>4 DEF Drops
    <2>4. k.ended = "no"
      BY <1>e, <2>2, <2>3 DEF Sound, Ended
    <2> HIDE DEF k
    <2> QED BY <1>1, <2>1, <2>2, <2>3, <2>4
  <1>5. ASSUME NEW c \in Conns, Opens(c) PROVE AllSound'
    <2> DEFINE k == [Healed(conn[c]) EXCEPT !.st = "open"]
    <2>1. k \in ConnRec
      BY <1>e, ConnUpdates
    <2>2. /\ k.st = "open" /\ k.inst = conn[c].inst /\ k.ended = conn[c].ended
          /\ k.rollback = conn[c].rollback /\ ~k.pending /\ k.silent = "no"
      BY <1>e DEF Healed, ConnRec
    <2>3. conn' = [conn EXCEPT ![c] = k] /\ UNCHANGED <<queued, registry>> /\ conn[c].st = "down"
      BY <1>5 DEF Opens
    <2>4. episode' = [episode EXCEPT ![c] = [episode[c] EXCEPT !.fresh = FALSE]]
      BY <1>5 DEF Opens
    <2>5. /\ \A b \in Conns : episode'[b].pc = episode[b].pc /\ episode'[b].yield = episode[b].yield
          /\ \A b \in Conns \ {c} : episode'[b] = episode[b]
      BY <1>t, <1>e, <2>4 DEF EpisodeRec
    <2>6. k.ended = "no"
      BY <1>e, <2>2, <2>3 DEF Sound, Ended
    <2> HIDE DEF k
    <2> QED BY <1>1, <2>1, <2>2, <2>3, <2>5, <2>6
  \* Its session ends, or another instance has it: the connection is gone.
  <1>6. ASSUME NEW c \in Conns, NEW how \in {"no", "logout", "remote", "done"},
               conn' = [conn EXCEPT ![c] = [conn[c] EXCEPT !.ended = how, !.st = "gone"]],
               UNCHANGED <<episode, queued>>, conn[c].st # "unborn",
               \A b \in Conns, i \in Instances : registry'[i] = b => registry[i] = b
        PROVE  AllSound'
    <2> DEFINE k == [conn[c] EXCEPT !.ended = how, !.st = "gone"]
    <2>1. k \in ConnRec
      BY <1>e, ConnUpdates
    <2>2. k.st = "gone" /\ k.inst = conn[c].inst /\ k.rollback = conn[c].rollback
      BY <1>e DEF ConnRec
    <2> HIDE DEF k
    <2> QED BY <1>1, <1>6, <2>1, <2>2 DEF k
  <1>7. ASSUME NEW c \in Conns, EndSession(c) PROVE AllSound'
    <2>1. conn[c].st # "unborn"
      BY <1>7, <1>e DEF EndSession, Registered, Here, ConnRec, Sound
    <2> QED BY <1>6, <1>7, <2>1 DEF EndSession
  <1>8. ASSUME NEW c \in Conns, FinishClose(c) PROVE AllSound'
    <2>1. conn[c].st = "gone"
      BY <1>8, <1>e DEF FinishClose, Sound, Ended
    <2>2. [conn[c] EXCEPT !.ended = "done"] = [conn[c] EXCEPT !.ended = "done", !.st = "gone"]
      BY <1>e, <2>1 DEF ConnRec
    <2>3. conn' = [conn EXCEPT ![c] = [conn[c] EXCEPT !.ended = "done", !.st = "gone"]]
      BY <1>8, <2>2 DEF FinishClose
    <2>4. \A b \in Conns, i \in Instances : registry'[i] = b => registry[i] = b
      BY <1>8, StallNoneAssumption DEF FinishClose
    <2> QED BY <1>6, <1>8, <2>1, <2>3, <2>4 DEF FinishClose
  <1>9. ASSUME NEW i \in Instances, RenewDiscards(i) PROVE AllSound'
    <2> DEFINE c == registry[i]
    <2>1. c \in Conns
      BY <1>t, <1>9 DEF RenewDiscards
    <2>2. conn[c].st # "unborn"
      BY <1>e, <2>1 DEF Sound
    <2>3. [conn[c] EXCEPT !.st = "gone"] = [conn[c] EXCEPT !.ended = conn[c].ended, !.st = "gone"]
      BY <1>e, <2>1 DEF ConnRec
    <2>4. conn[c].ended \in {"no", "logout", "remote", "done"}
      BY <1>e, <2>1 DEF ConnRec
    <2>5. conn' = [conn EXCEPT ![c] = [conn[c] EXCEPT !.ended = conn[c].ended, !.st = "gone"]]
      BY <1>9, <2>3 DEF RenewDiscards
    <2>6. \A b \in Conns, j \in Instances : registry'[j] = b => registry[j] = b
      BY <1>t, <1>9, StallNoneAssumption DEF RenewDiscards
    <2>7. UNCHANGED <<episode, queued>>
      BY <1>9 DEF RenewDiscards
    <2> HIDE DEF c
    <2> QED BY <1>6, <2>1, <2>2, <2>4, <2>5, <2>6, <2>7
  <1>10. ASSUME NEW c \in Conns, SilenceEnds(c) PROVE AllSound'
    <2>1. CASE conn[c].st = "unborn"
      <3>1. /\ conn'[c].st = "unborn" /\ conn'[c].ended = conn[c].ended
            /\ conn'[c].rollback = conn[c].rollback /\ \A b \in Conns \ {c} : conn'[b] = conn[b]
        BY <1>10, <1>t, <1>e, <2>1 DEF SilenceEnds, Silence, ConnRec
      <3>2. UNCHANGED <<episode, queued, registry>>
        BY <1>10 DEF SilenceEnds
      <3>3. Sound(c)'
        BY <1>e, <2>1, <3>1, <3>2 DEF Sound, Ended
      <3>4. \A b \in Conns \ {c} : Sound(b)'
        BY <1>e, <3>1, <3>2, Untouched
      <3> QED BY <3>3, <3>4 DEF AllSound
    <2>2. CASE conn[c].st # "unborn"
      <3> DEFINE k == [conn[c] EXCEPT !.silent = "no"]
      <3>1. k \in ConnRec
        BY <1>e, ConnUpdates
      <3>2. /\ k.st = conn[c].st /\ k.inst = conn[c].inst /\ k.ended = conn[c].ended
            /\ k.rollback = conn[c].rollback /\ k.pending = conn[c].pending /\ k.silent = "no"
        BY <1>e DEF ConnRec
      <3>3. conn' = [conn EXCEPT ![c] = k] /\ UNCHANGED <<episode, queued, registry>>
        BY <1>10 DEF SilenceEnds, Silence
      <3>4. k.ended # "no" => k.st = "gone"
        BY <1>e, <3>2 DEF Sound, Ended
      <3> HIDE DEF k
      <3> QED BY <1>1, <2>2, <3>1, <3>2, <3>3, <3>4
    <2> QED BY <2>1, <2>2
  <1>11. ASSUME NEW c \in Conns, ForceRestart(c) PROVE AllSound'
    BY <1>11, ReplaceSound DEF ForceRestart
  <1>12. ASSUME NEW i \in Instances, NEW d \in Conns, Takeover(i, d) PROVE AllSound'
    <2>1. /\ conn[d].st = "unborn" /\ conn'[d] = NewConn(i, "down") /\ UNCHANGED <<episode, queued>>
          /\ \A b \in Conns \ {d} : conn'[b] = conn[b]
      BY <1>t, <1>12 DEF Takeover
    <2>2. \A b \in Conns \ {d}, j \in Instances : registry'[j] = b => registry[j] = b
      BY <1>t, <1>12 DEF Takeover
    <2>3. Sound(d)'
      BY <1>e, <2>1, BornSound
    <2>4. \A b \in Conns \ {d} : Sound(b)'
      BY <1>e, <2>1, <2>2, Untouched
    <2> QED BY <2>3, <2>4 DEF AllSound
  <1>13. ASSUME (\E i \in Instances : SlotFrees(i)) \/ BackoffEnds \/ UNCHANGED stallVars
         PROVE  AllSound'
    <2>1. UNCHANGED <<conn, episode, queued, registry>>
      BY <1>13 DEF SlotFrees, BackoffEnds, stallVars
    <2> QED BY <1>e, <2>1, Untouched DEF AllSound
  <1> QED
    BY <1>2, <1>3, <1>4, <1>5, <1>7, <1>8, <1>9, <1>10, <1>11, <1>12, <1>13, Zenon

LEMMA SoundStep == StallTypeOK /\ AllSound /\ [StallNext]_stallVars => AllSound'
  BY EpisodeSound, StrikeSound, RestartSound, WorldSound, Zenon DEF StallNext, EpisodeStep, ConnStep

StallSafe == StallTypeOK /\ AllSound

LEMMA StallInvariant == StallSpec => []StallSafe
  <1>1. StallInit => StallSafe
    BY InitType, InitSound DEF StallSafe
  <1>2. StallSafe /\ [StallNext]_stallVars => StallSafe'
    BY TypeStep, SoundStep DEF StallSafe
  <1> QED BY <1>1, <1>2, PTL DEF StallSpec

\* Every reachable state is well formed, for any connections, instances and
\* bounds; in particular recordRestart never makes more than CAS_ATTEMPTS tries.
THEOREM StallTypeCorrect == StallSpec => []StallTypeOK
  <1>1. StallSafe => StallTypeOK
    BY DEF StallSafe
  <1> QED BY <1>1, StallInvariant, PTL

\* The detector is never deaf: whatever called an episode off, its connection is
\* not left waiting for a restart nobody asks for, nor quiet for ever.
THEOREM NeverDeaf == StallSpec => []NotDeaf
  <1>1. StallSafe => NotDeaf
    <2> SUFFICES ASSUME StallSafe, NEW c \in Conns, Registered(c), conn[c].st = "open",
                        episode[c].pc = "idle", queued[c] = {}
                 PROVE  conn[c].silent # "forever" /\ ~conn[c].pending
      BY DEF NotDeaf
    <2>1. Attended(c)
      BY DEF StallSafe, AllSound, Sound
    <2> QED BY <2>1 DEF Attended
  <1> QED BY <1>1, StallInvariant, PTL

-----------------------------------------------------------------------------
(* The strikes *)

\* The strikes a connection may still carry out or take back.
Mine(c) == conn[c].rollback.wrote.stamp
Strikes(c) == queued[c] \cup {s \in Nat : conn[c].rollback # None /\ s = Mine(c)}

\* Stamps grow; what is in Redis was written after the last DEL; what a
\* connection would put back was there when it wrote its own strike, and counts
\* one less.
DatedRoll(c) ==
  conn[c].rollback # None =>
    /\ conn[c].rollback.wrote.by = c /\ Mine(c) <= written
    /\ conn[c].rollback.wrote.count = Count(conn[c].rollback.prev) + 1
    /\ conn[c].rollback.prev # None /\ Mine(c) > wiped =>
         conn[c].rollback.prev.stamp > wiped /\ conn[c].rollback.prev.stamp <= written
Dated ==
  /\ wiped <= written
  /\ strike # None => strike.stamp > wiped /\ strike.stamp <= written
  /\ \A c \in Conns : DatedRoll(c)
  /\ \A s \in restarted : s <= written
  /\ \A c \in Conns : \A s \in queued[c] : s <= written

\* No two connections have a strike in common.
Apart == \A c, d \in Conns : c # d => Strikes(c) \cap Strikes(d) = {}

\* With one restart of a connection in the queue at a time, the strike that it
\* would take back is not the strike of a restart that was carried out.
Late(c) == episode[c].pc \in {"wrote", "undo", "wipe"}
Single == "two restarts" \notin gaps
Outstanding(c) ==
  /\ \A s, t \in queued[c] : s = t
  /\ queued[c] \cap restarted = {}
  /\ conn[c].rollback # None =>
       /\ Late(c) => Mine(c) \notin restarted \cup queued[c]
       /\ queued[c] # {} => Mine(c) \notin restarted

\* The key counts every restart carried out and every strike not yet decided.
Tokens ==
  {s \in 0..written : s > wiped /\ (s \in restarted \/ \E c \in Conns : s \in Strikes(c))}
Backed == Cardinality(Tokens) <= Count(strike)

\* The session of a connection is over, its key deleted and no strike of its
\* own still on the way: none is in Redis, and nobody puts one back.
Closed(c) ==
  conn[c].ended = "done" /\ episode[c].pc \notin {"wrote", "wipe"} /\ "redis" \notin gaps
NoneBack(c) ==
  /\ strike # None => strike.by # c
  /\ \A d \in Conns :
       conn[d].rollback # None /\ Mine(d) > wiped /\ conn[d].rollback.prev # None
         => conn[d].rollback.prev.by # c

StallLedger ==
  /\ Dated /\ Apart
  /\ Single => (\A c \in Conns : Outstanding(c)) /\ Backed
  /\ \A c \in Conns : Closed(c) => NoneBack(c)

\* Counting.
LEMMA TokenCount ==
  ASSUME NEW n \in Nat, NEW S, S \subseteq 0..n
  PROVE  IsFiniteSet(S) /\ Cardinality(S) \in Nat
  <1>1. IsFiniteSet(0..n)
    BY FS_Interval
  <1>2. IsFiniteSet(S)
    BY <1>1, FS_Subset
  <1> QED BY <1>2, FS_CardinalityType

LEMMA NoMore ==
  ASSUME NEW n \in Nat, NEW T, T \subseteq 0..n, NEW S, S \subseteq T
  PROVE  Cardinality(S) <= Cardinality(T)
  <1>1. IsFiniteSet(T)
    BY TokenCount
  <1> QED BY <1>1, FS_Subset

LEMMA OneLess ==
  ASSUME NEW n \in Nat, NEW T, T \subseteq 0..n, NEW x \in T, NEW S, S \subseteq T \ {x}
  PROVE  Cardinality(S) + 1 <= Cardinality(T)
  <1>1. IsFiniteSet(T) /\ Cardinality(T) \in Nat
    BY TokenCount
  <1>2. Cardinality(T \ {x}) = Cardinality(T) - 1
    BY <1>1, FS_RemoveElement
  <1>3. T \ {x} \subseteq 0..n /\ S \subseteq 0..n
    OBVIOUS
  <1>4. Cardinality(S) <= Cardinality(T \ {x})
    BY <1>3, NoMore
  <1>5. Cardinality(S) \in Nat
    BY <1>3, TokenCount
  <1> QED BY <1>1, <1>2, <1>4, <1>5

LEMMA OneMore ==
  ASSUME NEW n \in Nat, NEW T, T \subseteq 0..n, NEW x \in 0..n, NEW S, S \subseteq T \cup {x}
  PROVE  Cardinality(S) <= Cardinality(T) + 1
  <1>1. IsFiniteSet(T) /\ Cardinality(T) \in Nat
    BY TokenCount
  <1>2. Cardinality(T \cup {x}) = IF x \in T THEN Cardinality(T) ELSE Cardinality(T) + 1
    BY <1>1, FS_AddElement
  <1>3. T \cup {x} \subseteq 0..n /\ S \subseteq 0..n
    OBVIOUS
  <1>4. Cardinality(S) <= Cardinality(T \cup {x})
    BY <1>3, NoMore
  <1>5. Cardinality(S) \in Nat
    BY <1>3, TokenCount
  <1> QED BY <1>1, <1>2, <1>4, <1>5

LEMMA InitLedger == StallInit => StallLedger
  <1> SUFFICES ASSUME StallInit PROVE StallLedger
    OBVIOUS
  <1>1. \A c \in Conns : conn[c].rollback = None /\ queued[c] = {} /\ conn[c].ended = "no"
    BY DEF StallInit, NewConn
  <1>2. strike = None /\ written = 0 /\ wiped = 0 /\ restarted = {}
    BY DEF StallInit
  <1>3. \A c \in Conns : Strikes(c) = {}
    BY <1>1 DEF Strikes
  <1>4. Dated /\ Apart
    BY <1>1, <1>2, <1>3 DEF Dated, DatedRoll, Apart
  <1>5. \A c \in Conns : Outstanding(c)
    BY <1>1 DEF Outstanding
  <1>6. Tokens = {}
    BY <1>2, <1>3 DEF Tokens
  <1>7. Backed
    BY <1>2, <1>6, FS_EmptySet DEF Backed, Count
  <1>8. \A c \in Conns : ~Closed(c)
    BY <1>1 DEF Closed
  <1> QED BY <1>4, <1>5, <1>7, <1>8 DEF StallLedger

\* What the types say of the strikes.
LEMMA StrikeTypes ==
  ASSUME StallTypeOK
  PROVE  /\ written \in Nat /\ wiped \in Nat /\ restarted \subseteq Nat
         /\ strike # None => strike \in Strike
         /\ Count(strike) \in Nat
         /\ \A c \in Conns : queued[c] \subseteq Nat
         /\ \A c \in Conns : conn[c].rollback # None =>
              /\ Mine(c) \in Nat /\ conn[c].rollback.wrote \in Strike
              /\ Count(conn[c].rollback.prev) \in Nat
              /\ conn[c].rollback.prev # None => conn[c].rollback.prev \in Strike
  <1>1. strike \in Strike \cup {None} /\ Count(strike) \in Nat
    BY DEF StallTypeOK, Count, Strike
  <1>2. ASSUME NEW c \in Conns, conn[c].rollback # None
        PROVE  /\ Mine(c) \in Nat /\ conn[c].rollback.wrote \in Strike
               /\ Count(conn[c].rollback.prev) \in Nat
               /\ conn[c].rollback.prev # None => conn[c].rollback.prev \in Strike
    <2>1. conn[c].rollback \in Rollback
      BY <1>2 DEF StallTypeOK, ConnRec
    <2> QED BY <2>1 DEF Mine, Rollback, Strike, Count
  <1> QED BY <1>1, <1>2 DEF StallTypeOK

RollKept(b) == conn'[b].rollback = conn[b].rollback \/ conn'[b].rollback = None

\* Steps that only drop what connections may still carry out or take back.
LEMMA Frame ==
  ASSUME StallTypeOK, StallTypeOK', Dated, Apart, Single => \A c \in Conns : Outstanding(c),
         restarted' = restarted, written' >= written, wiped' = wiped \/ wiped' = written,
         gaps \subseteq gaps',
         \A b \in Conns : RollKept(b) /\ queued'[b] \subseteq queued[b],
         \A b \in Conns : Late(b)' => Late(b) \/ (queued[b] # {} /\ (Single => queued'[b] = {}))
  PROVE  /\ Apart'
         /\ Single' => Single /\ \A c \in Conns : Outstanding(c)'
         /\ Tokens' \subseteq Tokens
         /\ \A c \in Conns : DatedRoll(c)'
         /\ \A s \in restarted' : s <= written'
         /\ \A c \in Conns : \A s \in queued'[c] : s <= written'
         /\ wiped' <= written'
  <1>n. /\ written \in Nat /\ wiped \in Nat /\ written' \in Nat /\ wiped' \in Nat
        /\ wiped <= written /\ wiped <= wiped' /\ wiped' <= written'
    BY StrikeTypes DEF Dated, StallTypeOK
  <1>1. \A b \in Conns : Strikes(b)' \subseteq Strikes(b)
    BY DEF Strikes, Mine, RollKept
  <1>2. Apart'
    BY <1>1 DEF Apart
  <1>3. ASSUME Single', NEW b \in Conns PROVE Single /\ Outstanding(b)'
    <2>1. Single /\ Outstanding(b)
      BY <1>3 DEF Single
    <2>2. RollKept(b) /\ queued'[b] \subseteq queued[b] /\ restarted' = restarted
      OBVIOUS
    <2>3. Late(b)' => Late(b) \/ (queued[b] # {} /\ queued'[b] = {})
      BY <2>1
    <2>4. conn'[b].rollback # None => Mine(b)' = Mine(b) /\ conn[b].rollback # None
      BY <2>2 DEF RollKept, Mine
    <2> QED BY <2>1, <2>2, <2>3, <2>4 DEF Outstanding
  <1>4. /\ \A s \in restarted' : s <= written'
        /\ \A c \in Conns : \A s \in queued'[c] : s <= written'
    BY <1>n, StrikeTypes DEF Dated
  <1>5. ASSUME NEW s \in Tokens' PROVE s \in Tokens
    <2>1. /\ s \in Nat /\ s > wiped'
          /\ s \in restarted \/ \E c \in Conns : s \in Strikes(c)
      BY <1>5, <1>1, <1>n DEF Tokens
    <2>2. s <= written
      BY <2>1, <1>n DEF Dated, DatedRoll, Strikes
    <2> QED BY <2>1, <2>2, <1>n DEF Tokens
  <1>6. ASSUME NEW b \in Conns, conn'[b].rollback # None PROVE DatedRoll(b)'
    <2>1. conn'[b].rollback = conn[b].rollback /\ conn[b].rollback # None /\ Mine(b)' = Mine(b)
      BY <1>6 DEF RollKept, Mine
    <2>2. DatedRoll(b)
      BY DEF Dated
    <2>3. Mine(b) \in Nat
      BY <2>1, StrikeTypes
    <2>4. conn[b].rollback.prev # None => conn[b].rollback.prev.stamp \in Nat
      BY <2>1, StrikeTypes DEF Strike
    <2>5. Mine(b) <= written /\ Mine(b) <= written'
      BY <2>1, <2>2, <2>3, <1>n DEF DatedRoll
    <2>6. wiped' = wiped \/ ~(Mine(b) > wiped')
      BY <2>5, <2>3, <1>n
    <2>7. conn[b].rollback.prev # None /\ Mine(b) > wiped' =>
            conn[b].rollback.prev.stamp > wiped' /\ conn[b].rollback.prev.stamp <= written'
      BY <2>1, <2>2, <2>4, <2>6, <1>n DEF DatedRoll
    <2>8. /\ conn[b].rollback.wrote.by = b
          /\ conn[b].rollback.wrote.count = Count(conn[b].rollback.prev) + 1
      BY <2>1, <2>2 DEF DatedRoll
    <2> QED BY <2>1, <2>5, <2>7, <2>8 DEF DatedRoll, Count
  <1>7. \A b \in Conns : DatedRoll(b)'
    BY <1>6 DEF DatedRoll
  <1>8. Single' => Single /\ \A c \in Conns : Outstanding(c)'
    BY <1>3 DEF Single
  <1>9. Tokens' \subseteq Tokens
    BY <1>5
  <1> QED BY <1>2, <1>4, <1>7, <1>8, <1>9, <1>n, Zenon

\* The key is as it was.
LEMMA KeyKept ==
  ASSUME StallTypeOK, StallTypeOK', StallLedger,
         UNCHANGED <<strike, written, wiped, restarted>>, gaps \subseteq gaps',
         \A b \in Conns : RollKept(b) /\ queued'[b] \subseteq queued[b],
         \A b \in Conns : Late(b)' => Late(b) \/ (queued[b] # {} /\ (Single => queued'[b] = {})),
         \A b \in Conns : Closed(b)' => Closed(b)
  PROVE  StallLedger'
  <1>n. written \in Nat /\ wiped \in Nat
    BY StrikeTypes
  <1>1. /\ Apart' /\ (Single' => Single /\ \A c \in Conns : Outstanding(c)')
        /\ Tokens' \subseteq Tokens
        /\ \A c \in Conns : DatedRoll(c)'
        /\ \A s \in restarted' : s <= written'
        /\ \A c \in Conns : \A s \in queued'[c] : s <= written'
        /\ wiped' <= written'
    BY <1>n, Frame DEF StallLedger
  <1>2. Dated'
    BY <1>1 DEF StallLedger, Dated
  <1>3. Cardinality(Tokens') <= Cardinality(Tokens)
    BY <1>1, <1>n, NoMore DEF Tokens
  <1>4. Tokens \subseteq 0..written /\ Tokens' \subseteq 0..written
    BY DEF Tokens
  <1>5. Cardinality(Tokens) \in Nat /\ Cardinality(Tokens') \in Nat
    BY <1>4, <1>n, TokenCount
  <1>6. Single' => Backed'
    BY <1>1, <1>3, <1>5, StrikeTypes DEF StallLedger, Backed, Count
  <1>7. \A c \in Conns : Closed(c)' => NoneBack(c)'
    <2> SUFFICES ASSUME NEW c \in Conns, NoneBack(c) PROVE NoneBack(c)'
      BY DEF StallLedger
    <2> QED BY DEF NoneBack, RollKept, Mine
  <1> QED BY <1>1, <1>2, <1>6, <1>7 DEF StallLedger

\* The key is deleted.
LEMMA KeyDeleted ==
  ASSUME StallTypeOK, StallTypeOK', StallLedger,
         strike' = None, wiped' = written, UNCHANGED <<written, restarted>>, gaps \subseteq gaps',
         \A b \in Conns : RollKept(b) /\ queued'[b] \subseteq queued[b],
         \A b \in Conns : Late(b)' => Late(b)
  PROVE  StallLedger'
  <1>n. written \in Nat /\ wiped \in Nat
    BY StrikeTypes
  <1>1. /\ Apart' /\ (Single' => Single /\ \A c \in Conns : Outstanding(c)')
        /\ \A c \in Conns : DatedRoll(c)'
        /\ \A s \in restarted' : s <= written'
        /\ \A c \in Conns : \A s \in queued'[c] : s <= written'
        /\ wiped' <= written'
    <2>1. \A b \in Conns : Late(b)' => Late(b) \/ (queued[b] # {} /\ (Single => queued'[b] = {}))
      <3> TAKE b \in Conns
      <3>1. Late(b)' => Late(b)
        OBVIOUS
      <3> QED BY <3>1
    <2>2. written' >= written
      BY <1>n
    <2> QED BY <2>1, <2>2, Frame DEF StallLedger
  <1>2. Dated'
    BY <1>1 DEF Dated
  <1>3. Tokens' = {}
    <2>1. \A s \in 0..written : ~(s > written)
      BY <1>n
    <2> QED BY <2>1 DEF Tokens
  <1>4. Backed'
    BY <1>3, FS_EmptySet DEF Backed, Count
  <1>5. \A c \in Conns : NoneBack(c)'
    <2>1. ASSUME NEW d \in Conns, conn'[d].rollback # None PROVE ~(Mine(d)' > wiped')
      <3>1. conn[d].rollback # None /\ Mine(d)' = Mine(d) /\ Mine(d)' <= written
        BY <1>1, <2>1 DEF RollKept, Mine, DatedRoll
      <3> QED BY <1>n, <3>1, StrikeTypes
    <2> QED BY <2>1 DEF NoneBack
  <1> QED BY <1>1, <1>2, <1>4, <1>5 DEF StallLedger

\* A strike is written over the one its connection had read.
LEMMA NewStrike ==
  ASSUME StallTypeOK, NEW c \in Conns, SetStrike(c), strike = episode[c].prev
  PROVE  /\ strike' # None /\ strike'.stamp = written + 1 /\ strike'.by = c
         /\ written' = written + 1 /\ Count(strike') = Count(strike) + 1
         /\ strike'.count = Count(strike) + 1
  BY MyStrikeType, StallNoneAssumption DEF SetStrike, MyStrike, Count

LEMMA KeyWritten ==
  ASSUME StallTypeOK, StallTypeOK', StallLedger, NEW c \in Conns,
         SwapStrike(c), strike = episode[c].prev
  PROVE  StallLedger'
  <1> DEFINE r == [prev |-> strike, wrote |-> MyStrike(c)]
  <1>n. written \in Nat /\ wiped \in Nat /\ Dated /\ Apart
    BY StrikeTypes DEF StallLedger
  <1>1. /\ SetStrike(c) /\ UNCHANGED <<wiped, restarted, queued, gaps>>
        /\ conn' = [conn EXCEPT ![c].rollback = r]
        /\ episode' = [episode EXCEPT ![c].pc = "wrote"]
    BY DEF SwapStrike, Goto
  <1>2. /\ strike' # None /\ strike'.stamp = written + 1 /\ strike'.by = c
        /\ written' = written + 1 /\ Count(strike') = Count(strike) + 1
        /\ strike'.count = Count(strike) + 1
    BY <1>1, NewStrike
  <1>3. r # None /\ r.wrote = strike' /\ r.prev = strike
    <2>1. r \in Rollback
      BY MyStrikeType DEF Rollback, StallTypeOK
    <2> QED BY <1>1, <2>1, StallNoneAssumption DEF SetStrike
  <1>4. /\ conn'[c].rollback = r
        /\ \A b \in Conns \ {c} : conn'[b] = conn[b] /\ episode'[b] = episode[b]
        /\ \A b \in Conns : conn'[b].ended = conn[b].ended
        /\ episode'[c].pc = "wrote"
    BY <1>1 DEF StallTypeOK, ConnRec, EpisodeRec
  <1> HIDE DEF r
  <1>5. Mine(c)' = written + 1 /\ \A b \in Conns \ {c} : Mine(b)' = Mine(b)
    BY <1>2, <1>3, <1>4 DEF Mine
  <1>6. /\ \A b \in Conns \ {c} : Strikes(b)' = Strikes(b)
        /\ Strikes(c)' \subseteq Strikes(c) \cup {written + 1}
    BY <1>1, <1>4, <1>5 DEF Strikes
  <1>7. \A b \in Conns : \A s \in Strikes(b) : s \in Nat /\ s <= written
    BY <1>n, StrikeTypes DEF Dated, DatedRoll, Strikes
  <1>8. Apart'
    BY <1>n, <1>6, <1>7 DEF Apart
  <1>9. ASSUME NEW b \in Conns PROVE DatedRoll(b)'
    <2>1. CASE b = c
      BY <2>1, <1>n, <1>1, <1>2, <1>3, <1>4, <1>5, StrikeTypes DEF DatedRoll, Dated, Strike, Count
    <2>2. CASE b # c
      <3>1. conn'[b].rollback = conn[b].rollback /\ Mine(b)' = Mine(b) /\ wiped' = wiped
        BY <2>2, <1>1, <1>4, <1>5
      <3> QED BY <3>1, <1>n, <1>2, StrikeTypes DEF DatedRoll, Dated, Strike, Count
    <2> QED BY <2>1, <2>2
  <1>10. Dated'
    BY <1>n, <1>1, <1>2, <1>9, StrikeTypes DEF Dated
  <1>11. ASSUME Single, NEW b \in Conns PROVE Outstanding(b)'
    <2>1. Outstanding(b)
      BY <1>11 DEF StallLedger
    <2>2. CASE b = c
      <3>1. written + 1 \notin restarted /\ written + 1 \notin queued[c]
        BY <1>n DEF Dated
      <3> QED BY <2>1, <2>2, <3>1, <1>1, <1>5 DEF Outstanding
    <2>3. CASE b # c
      BY <2>1, <2>3, <1>1, <1>4, <1>5 DEF Outstanding, Late
    <2> QED BY <2>2, <2>3
  <1>12. Tokens' \subseteq Tokens \cup {written + 1}
    <2> SUFFICES ASSUME NEW s \in Tokens', s # written + 1 PROVE s \in Tokens
      OBVIOUS
    <2>1. s \in 0..(written + 1) /\ s > wiped /\ (s \in restarted \/ \E b \in Conns : s \in Strikes(b)')
      BY <1>1, <1>2 DEF Tokens
    <2> QED BY <2>1, <1>6, <1>n DEF Tokens
  <1>13. Tokens \subseteq 0..(written + 1)
    BY <1>n DEF Tokens
  <1>14. Cardinality(Tokens') <= Cardinality(Tokens) + 1
    <2>1. written + 1 \in Nat /\ written + 1 \in 0..(written + 1)
      BY <1>n
    <2> QED BY <1>12, <1>13, <2>1, OneMore
  <1>15. Backed => Backed'
    <2>1. Cardinality(Tokens) \in Nat /\ Cardinality(Tokens') \in Nat
      <3>1. Tokens' \subseteq 0..(written + 1) /\ written + 1 \in Nat
        BY <1>2, <1>n DEF Tokens
      <3> QED BY <3>1, <1>13, TokenCount
    <2> QED BY <2>1, <1>2, <1>14, StrikeTypes DEF Backed
  <1>16. ASSUME NEW b \in Conns, Closed(b)' PROVE NoneBack(b)'
    <2>1. b # c /\ Closed(b)
      BY <1>1, <1>4, <1>16 DEF Closed
    <2>2. NoneBack(b)
      BY <2>1 DEF StallLedger
    <2>3. strike'.by # b
      BY <1>2, <2>1
    <2>4. ASSUME NEW d \in Conns, conn'[d].rollback # None, Mine(d)' > wiped', conn'[d].rollback.prev # None
          PROVE  conn'[d].rollback.prev.by # b
      <3>1. CASE d = c
        BY <3>1, <2>2, <2>4, <1>3, <1>4 DEF NoneBack
      <3>2. CASE d # c
        BY <3>2, <2>2, <2>4, <1>1, <1>4, <1>5 DEF NoneBack
      <3> QED BY <3>1, <3>2
    <2> QED BY <2>3, <2>4 DEF NoneBack
  <1>17. Single' => Single
    BY <1>1 DEF Single
  <1> QED BY <1>8, <1>10, <1>11, <1>15, <1>16, <1>17 DEF StallLedger

\* Redis fails after it applied the script: a strike nobody knows of.
LEMMA KeyWrittenUnseen ==
  ASSUME StallTypeOK, StallTypeOK', StallLedger, NEW c \in Conns,
         SetStrike(c), strike = episode[c].prev, UNCHANGED <<wiped, restarted, queued>>,
         gaps \subseteq gaps', "redis" \in gaps',
         \A b \in Conns : RollKept(b) /\ (Late(b)' => Late(b))
  PROVE  StallLedger'
  <1>n. written \in Nat /\ wiped \in Nat /\ Dated
    BY StrikeTypes DEF StallLedger
  <1>1. /\ strike' # None /\ strike'.stamp = written + 1
        /\ written' = written + 1 /\ Count(strike') = Count(strike) + 1
    BY NewStrike
  <1>2. /\ Apart' /\ (Single' => Single /\ \A b \in Conns : Outstanding(b)')
        /\ Tokens' \subseteq Tokens
        /\ \A b \in Conns : DatedRoll(b)'
        /\ \A s \in restarted' : s <= written'
        /\ \A b \in Conns : \A s \in queued'[b] : s <= written'
        /\ wiped' <= written'
    <2>1. written' >= written
      BY <1>1, <1>n
    <2>2. \A b \in Conns : Late(b)' => Late(b) \/ (queued[b] # {} /\ (Single => queued'[b] = {}))
      OBVIOUS
    <2>3. \A b \in Conns : RollKept(b) /\ queued'[b] \subseteq queued[b]
      OBVIOUS
    <2> QED BY <2>1, <2>2, <2>3, Frame DEF StallLedger
  <1>3. Dated'
    BY <1>1, <1>2, <1>n DEF Dated
  <1>4. Backed => Backed'
    <2>1. Tokens \subseteq 0..written
      BY DEF Tokens
    <2>2. Cardinality(Tokens') <= Cardinality(Tokens)
      BY <1>2, <1>n, <2>1, NoMore
    <2>3. Cardinality(Tokens) \in Nat /\ Cardinality(Tokens') \in Nat
      <3>1. Tokens' \subseteq 0..written
        BY <1>2, <2>1
      <3> QED BY <1>n, <2>1, <3>1, TokenCount
    <2> QED BY <1>1, <2>2, <2>3, StrikeTypes DEF Backed
  <1>5. \A b \in Conns : ~Closed(b)'
    BY DEF Closed
  <1> QED BY <1>2, <1>3, <1>4, <1>5 DEF StallLedger

\* A connection puts back what its strike was written over: nobody carries out
\* a restart for that strike.
LEMMA KeyTakenBack ==
  ASSUME StallTypeOK, StallTypeOK', StallLedger, NEW c \in Conns,
         conn[c].rollback # None, episode[c].pc = "undo",
         strike = conn[c].rollback.wrote, strike' = conn[c].rollback.prev,
         conn'[c].rollback = None,
         UNCHANGED <<written, wiped, restarted, queued, gaps>>,
         \A b \in Conns : RollKept(b) /\ (Late(b)' => Late(b)) /\ (Closed(b)' => Closed(b))
  PROVE  StallLedger'
  <1>n. written \in Nat /\ wiped \in Nat /\ Dated /\ Apart
    BY StrikeTypes DEF StallLedger
  <1>1. /\ Apart' /\ (Single' => Single /\ \A b \in Conns : Outstanding(b)')
        /\ Tokens' \subseteq Tokens
        /\ \A b \in Conns : DatedRoll(b)'
        /\ \A s \in restarted' : s <= written'
        /\ \A b \in Conns : \A s \in queued'[b] : s <= written'
        /\ wiped' <= written'
    <2>1. written' >= written
      BY <1>n
    <2>2. \A b \in Conns : Late(b)' => Late(b) \/ (queued[b] # {} /\ (Single => queued'[b] = {}))
      OBVIOUS
    <2>3. \A b \in Conns : RollKept(b) /\ queued'[b] \subseteq queued[b]
      OBVIOUS
    <2> QED BY <2>1, <2>2, <2>3, Frame DEF StallLedger
  <1>2. strike # None
    BY StrikeTypes, StallNoneAssumption
  <1>3. /\ strike.stamp = Mine(c) /\ Mine(c) \in Nat /\ Mine(c) > wiped /\ Mine(c) <= written
        /\ Count(strike) = Count(strike') + 1
        /\ strike' # None => strike'.stamp > wiped /\ strike'.stamp <= written
    BY <1>2, <1>n, StrikeTypes DEF Dated, DatedRoll, Mine, Count
  <1>4. Dated'
    BY <1>1, <1>3 DEF Dated
  <1>5. ASSUME Single PROVE Backed'
    <2>1. Outstanding(c) /\ Backed
      BY <1>5 DEF StallLedger
    <2>2. Mine(c) \notin restarted /\ Mine(c) \notin queued[c]
      BY <2>1 DEF Outstanding, Late
    <2>3. Mine(c) \in Strikes(c) /\ Mine(c) \notin Strikes(c)'
      BY <1>3, <2>2 DEF Strikes
    <2>4. \A b \in Conns \ {c} : Mine(c) \notin Strikes(b)'
      <3>1. \A b \in Conns \ {c} : Mine(c) \notin Strikes(b)
        BY <1>n, <2>3 DEF Apart
      <3>2. \A b \in Conns : Strikes(b)' \subseteq Strikes(b)
        BY DEF Strikes, Mine, RollKept
      <3> QED BY <3>1, <3>2
    <2>5. Mine(c) \in Tokens /\ Mine(c) \notin Tokens'
      BY <1>3, <2>2, <2>3, <2>4 DEF Tokens
    <2>6. Tokens' \subseteq Tokens \ {Mine(c)} /\ Tokens \subseteq 0..written
      BY <1>1, <2>5 DEF Tokens
    <2>7. Cardinality(Tokens') + 1 <= Cardinality(Tokens)
      BY <1>n, <2>5, <2>6, OneLess
    <2>8. Cardinality(Tokens') \in Nat /\ Cardinality(Tokens) \in Nat
      <3>1. Tokens' \subseteq 0..written
        BY <2>6
      <3> QED BY <1>n, <2>6, <3>1, TokenCount
    <2>9. Count(strike') \in Nat
      BY StrikeTypes
    <2> QED BY <1>3, <2>1, <2>7, <2>8, <2>9 DEF Backed, Count
  <1>6. ASSUME NEW b \in Conns, Closed(b)' PROVE NoneBack(b)'
    <2>1. NoneBack(b)
      BY <1>6 DEF StallLedger
    <2>2. strike' # None => strike'.by # b
      BY <1>3, <2>1 DEF NoneBack
    <2> QED BY <2>1, <2>2 DEF NoneBack, RollKept, Mine
  <1> QED BY <1>1, <1>4, <1>5, <1>6 DEF StallLedger

\* A restart enters the queue, with the strike that its connection remembers.
LEMMA RestartQueued ==
  ASSUME StallTypeOK, StallTypeOK', StallLedger, NEW c \in Conns,
         RequestRestart(c), Registered(c), conn[c].rollback # None
  PROVE  StallLedger'
  <1>n. written \in Nat /\ wiped \in Nat /\ Dated /\ Apart /\ Mine(c) \in Nat
    BY StrikeTypes DEF StallLedger
  <1>1. /\ queued' = [queued EXCEPT ![c] = queued[c] \cup {Mine(c)}]
        /\ UNCHANGED <<conn, strike, written, wiped, restarted>>
        /\ gaps' = IF queued[c] # {} THEN gaps \cup {"two restarts"} ELSE gaps
        /\ episode' = [episode EXCEPT ![c] = Idle]
        /\ episode[c].pc = "wrote" /\ ~Ended(c)
    BY DEF RequestRestart, Mine, Finish, AfterWrite
  <1>2. /\ queued'[c] = queued[c] \cup {Mine(c)}
        /\ \A b \in Conns \ {c} : queued'[b] = queued[b] /\ episode'[b] = episode[b]
        /\ episode'[c].pc = "idle"
        /\ \A b \in Conns : Mine(b)' = Mine(b)
    BY <1>1 DEF StallTypeOK, Idle, Mine
  <1>3. \A b \in Conns : Strikes(b)' = Strikes(b)
    BY <1>1, <1>2, <1>n DEF Strikes
  <1>4. Apart'
    BY <1>3, <1>n DEF Apart
  <1>5. Dated'
    <2>1. Mine(c) <= written
      BY <1>n DEF Dated, DatedRoll
    <2>2. \A b \in Conns : \A s \in queued'[b] : s <= written'
      BY <1>1, <1>2, <1>n, <2>1 DEF Dated
    <2>3. \A b \in Conns : DatedRoll(b)'
      BY <1>1, <1>2, <1>n DEF Dated, DatedRoll, Count
    <2> QED BY <1>1, <1>n, <2>2, <2>3 DEF Dated
  <1>6. Single' => Single /\ queued[c] = {}
    BY <1>1 DEF Single
  <1>7. ASSUME Single, queued[c] = {}, NEW b \in Conns PROVE Outstanding(b)'
    <2>1. Outstanding(b)
      BY <1>7 DEF StallLedger
    <2>2. CASE b = c
      <3>1. Mine(c) \notin restarted
        BY <1>1, <2>1, <2>2 DEF Outstanding, Late
      <3> QED BY <1>1, <1>2, <1>7, <2>2, <3>1 DEF Outstanding, Late
    <2>3. CASE b # c
      BY <1>1, <1>2, <2>1, <2>3 DEF Outstanding, Late
    <2> QED BY <2>2, <2>3
  <1>8. Backed => Backed'
    <2>1. Tokens' = Tokens
      BY <1>1, <1>3 DEF Tokens
    <2> QED BY <1>1, <2>1 DEF Backed, Count
  <1>9. ASSUME NEW b \in Conns, Closed(b)' PROVE NoneBack(b)'
    <2>1. b # c /\ gaps \subseteq gaps'
      BY <1>1, <1>9 DEF Closed, Ended
    <2>2. Closed(b)
      BY <1>1, <1>2, <1>9, <2>1 DEF Closed
    <2> QED BY <1>1, <1>2, <2>2 DEF NoneBack, StallLedger
  <1> QED BY <1>4, <1>5, <1>6, <1>7, <1>8, <1>9 DEF StallLedger

\* A restart is carried out.
LEMMA RestartCarriedOut ==
  ASSUME StallTypeOK, StallTypeOK', StallLedger, NEW c \in Conns, NEW s \in queued[c],
         restarted' = restarted \cup {s}, queued' = [queued EXCEPT ![c] = @ \ {s}],
         UNCHANGED <<strike, written, wiped, episode, gaps>>,
         \A b \in Conns : RollKept(b) /\ (Closed(b)' => Closed(b))
  PROVE  StallLedger'
  <1>n. written \in Nat /\ wiped \in Nat /\ Dated /\ Apart /\ s \in Nat /\ s <= written
    BY StrikeTypes DEF StallLedger, Dated
  <1>1. /\ queued'[c] = queued[c] \ {s}
        /\ \A b \in Conns \ {c} : queued'[b] = queued[b]
    BY DEF StallTypeOK
  <1>2. \A b \in Conns : Strikes(b)' \subseteq Strikes(b)
    BY <1>1 DEF Strikes, Mine, RollKept
  <1>3. Apart'
    BY <1>2, <1>n DEF Apart
  <1>4. Dated'
    <2>1. ASSUME NEW b \in Conns PROVE DatedRoll(b)'
      BY <1>n DEF Dated, DatedRoll, RollKept, Mine, Count
    <2>2. /\ \A b \in Conns : \A t \in queued'[b] : t <= written'
          /\ \A t \in restarted' : t <= written'
      BY <1>1, <1>n DEF Dated
    <2> QED BY <1>n, <2>1, <2>2 DEF Dated
  <1>5. ASSUME Single, NEW b \in Conns PROVE Outstanding(b)'
    <2>1. Outstanding(b) /\ Outstanding(c)
      BY <1>5 DEF StallLedger
    <2>2. /\ Late(b)' <=> Late(b)
          /\ conn'[b].rollback # None => conn[b].rollback # None /\ Mine(b)' = Mine(b)
      BY DEF Late, RollKept, Mine
    <2>3. CASE b = c
      <3>1. queued'[c] = {}
        BY <2>1, <1>1 DEF Outstanding
      <3>2. Late(c) /\ conn[c].rollback # None => Mine(c) # s
        BY <2>1 DEF Outstanding
      <3> QED BY <2>1, <2>2, <2>3, <3>1, <3>2 DEF Outstanding
    <2>4. CASE b # c
      <3>1. s \in Strikes(c)
        BY DEF Strikes
      <3>2. s \notin Strikes(b)
        BY <1>n, <2>4, <3>1 DEF Apart
      <3>3. s \notin queued[b] /\ (conn[b].rollback # None => Mine(b) # s)
        BY <1>n, <3>2 DEF Strikes
      <3> QED BY <1>1, <2>1, <2>2, <2>4, <3>3 DEF Outstanding
    <2> QED BY <2>3, <2>4
  <1>6. Backed => Backed'
    <2>1. Tokens' \subseteq Tokens
      <3>1. s \in Strikes(c)
        BY DEF Strikes
      <3> QED BY <1>2, <3>1 DEF Tokens
    <2>2. Tokens \subseteq 0..written /\ Tokens' \subseteq 0..written
      BY DEF Tokens
    <2>3. Cardinality(Tokens') <= Cardinality(Tokens)
      BY <1>n, <2>1, <2>2, NoMore
    <2>4. Cardinality(Tokens') \in Nat /\ Cardinality(Tokens) \in Nat
      BY <1>n, <2>2, TokenCount
    <2> QED BY <2>3, <2>4, StrikeTypes DEF Backed, Count
  <1>7. ASSUME NEW b \in Conns, Closed(b)' PROVE NoneBack(b)'
    <2>1. NoneBack(b)
      BY <1>7 DEF StallLedger
    <2> QED BY <2>1 DEF NoneBack, RollKept, Mine
  <1>8. Single' => Single
    BY DEF Single
  <1> QED BY <1>3, <1>4, <1>5, <1>6, <1>7, <1>8 DEF StallLedger

\* What most steps leave of one connection's strikes.
Calm(b) ==
  /\ RollKept(b) /\ (Late(b)' => Late(b))
  /\ conn'[b].ended = "done" => conn[b].ended = "done"
  /\ conn[b].ended = "done" /\ episode[b].pc \in {"wrote", "wipe"} =>
       episode'[b].pc \in {"wrote", "wipe"}

LEMMA CalmUntouched ==
  ASSUME NEW b \in Conns, conn'[b] = conn[b], episode'[b] = episode[b]
  PROVE  Calm(b)
  BY DEF Calm, RollKept, Late

LEMMA CalmClosed ==
  ASSUME gaps \subseteq gaps', NEW b \in Conns, Calm(b)
  PROVE  Closed(b)' => Closed(b)
  BY DEF Calm, Closed

\* A step that leaves Redis, the queue and every connection's strike alone.
LEMMA CalmStep ==
  ASSUME StallTypeOK, StallTypeOK', StallLedger,
         UNCHANGED <<strike, written, wiped, restarted, queued, gaps>>,
         \A b \in Conns : Calm(b)
  PROVE  StallLedger'
  <1>1. \A b \in Conns : RollKept(b) /\ queued'[b] \subseteq queued[b]
    BY DEF Calm
  <1>2. \A b \in Conns : Late(b)' => Late(b) \/ (queued[b] # {} /\ (Single => queued'[b] = {}))
    BY DEF Calm
  <1>3. \A b \in Conns : Closed(b)' => Closed(b)
    BY CalmClosed
  <1> QED BY <1>1, <1>2, <1>3, KeyKept

\* The steps of an episode up to the strike, and the verdict on it.
LEMMA EpisodeLedger ==
  ASSUME StallTypeOK, StallTypeOK', StallLedger, NEW c \in Conns,
         \/ Ask(c) \/ ReadBackoff(c) \/ ReadLease(c) \/ LookupFails(c)
         \/ DecideOver(c) \/ DecideYield(c) \/ DecideRestart(c) \/ DecideWait(c)
         \/ ReadUntil(c) \/ ReadStrike(c) \/ CallOff(c)
  PROVE  StallLedger'
  <1>t. /\ conn \in [Conns -> ConnRec] /\ episode \in [Conns -> EpisodeRec]
        /\ conn[c] \in ConnRec /\ episode[c] \in EpisodeRec
    BY DEF StallTypeOK
  <1>1. UNCHANGED <<strike, written, wiped, restarted, queued, gaps>>
    BY DEF Ask, ReadBackoff, ReadLease, LookupFails, DecideOver, DecideYield, DecideRestart,
           DecideWait, ReadUntil, ReadStrike, CallOff
  <1>2. \A b \in Conns \ {c} : conn'[b] = conn[b] /\ episode'[b] = episode[b]
    BY <1>t DEF Ask, ReadBackoff, ReadLease, LookupFails, DecideOver, DecideYield, DecideRestart,
           DecideWait, ReadUntil, ReadStrike, CallOff, GiveUp, Silence, Finish, Goto, Abort
  <1>3. conn'[c].rollback = conn[c].rollback /\ conn'[c].ended = conn[c].ended
    BY <1>t DEF Ask, ReadBackoff, ReadLease, LookupFails, DecideOver, DecideYield, DecideRestart,
           DecideWait, ReadUntil, ReadStrike, CallOff, GiveUp, Silence, Finish, Goto, Abort, ConnRec
  <1>4. \/ episode[c].pc \in {"idle", "lookup", "until", "count"}
           /\ episode'[c].pc \in {"idle", "lookup", "until", "count", "cas"}
        \/ episode'[c].pc = episode[c].pc
        \/ /\ episode[c].pc = "wrote" /\ episode'[c].pc \in {"wipe", "undo"}
           /\ Ended(c) => episode'[c].pc = "wipe"
    <2>1. CASE \/ LookupFails(c) \/ DecideOver(c) \/ DecideYield(c) \/ ReadUntil(c)
      <3>1. episode[c].pc \in {"lookup", "until"} /\ episode' = [episode EXCEPT ![c] = Idle]
        BY <2>1 DEF LookupFails, Decided, DecideOver, DecideYield, ReadUntil, GiveUp, Finish
      <3> QED BY <1>t, <3>1 DEF Idle
    <2>4. CASE Ask(c)
      BY <1>t, <2>4 DEF Ask, Idle
    <2>5. CASE DecideRestart(c) /\ slotFree[Here(c)]
      <3>1. /\ episode[c].pc = "lookup"
            /\ episode'[c] = [episode[c] EXCEPT !.pc = "count", !.yield = "unread"]
        BY <1>t, <2>5 DEF DecideRestart, Decided
      <3> QED BY <1>t, <3>1 DEF EpisodeRec
    <2>6. CASE DecideRestart(c) /\ ~slotFree[Here(c)]
      BY <1>t, <2>6 DEF DecideRestart, Decided, GiveUp, Finish, Idle
    <2>2. CASE ReadBackoff(c) \/ ReadLease(c) \/ DecideWait(c) \/ ReadStrike(c)
      BY <1>t, <2>2 DEF ReadBackoff, ReadLease, Decided, DecideWait, ReadStrike, Goto, EpisodeRec
    <2>3. CASE CallOff(c)
      <3>1. episode[c].pc = "wrote" /\ episode'[c] = [episode[c] EXCEPT !.pc = AfterWrite(c)]
        BY <1>t, <2>3 DEF CallOff, Goto
      <3>2. episode'[c].pc = AfterWrite(c) /\ AfterWrite(c) # "restart"
        BY <1>t, <2>3, <3>1 DEF EpisodeRec, CallOff
      <3> QED BY <3>1, <3>2 DEF AfterWrite
    <2> QED BY <2>1, <2>2, <2>3, <2>4, <2>5, <2>6
  <1>5. Calm(c)
    BY <1>3, <1>4 DEF Calm, RollKept, Late, Ended
  <1>6. \A b \in Conns : Calm(b)
    BY <1>2, <1>5, CalmUntouched
  <1> QED BY <1>1, <1>6, CalmStep

\* The strike is written, or is not.
LEMMA RecordLedger ==
  ASSUME StallTypeOK, StallTypeOK', StallLedger, NEW c \in Conns, SwapStrike(c) \/ RecordFails(c)
  PROVE  StallLedger'
  <1>t. /\ conn \in [Conns -> ConnRec] /\ episode \in [Conns -> EpisodeRec]
        /\ conn[c] \in ConnRec /\ episode[c] \in EpisodeRec
    BY DEF StallTypeOK
  <1>1. CASE SwapStrike(c) /\ strike = episode[c].prev
    BY <1>1, KeyWritten
  <1>2. CASE SwapStrike(c) /\ strike # episode[c].prev
    <2>1. /\ UNCHANGED <<strike, written, wiped, restarted, queued, gaps, conn>>
          /\ \A b \in Conns \ {c} : episode'[b] = episode[b]
          /\ episode[c].pc = "cas" /\ episode'[c].pc = "count"
      BY <1>t, <1>2 DEF SwapStrike, EpisodeRec
    <2>2. Calm(c)
      BY <2>1 DEF Calm, RollKept, Late
    <2>3. \A b \in Conns : Calm(b)
      BY <2>1, <2>2, CalmUntouched
    <2> QED BY <2>1, <2>3, CalmStep
  <1>3. CASE RecordFails(c)
    <2>1. /\ \A b \in Conns \ {c} : conn'[b] = conn[b] /\ episode'[b] = episode[b]
          /\ episode[c].pc \in {"count", "cas"} /\ episode'[c].pc = "idle"
          /\ conn'[c].rollback = conn[c].rollback /\ conn'[c].ended = conn[c].ended
          /\ UNCHANGED <<wiped, restarted, queued>>
          /\ gaps' = IF strike' # strike THEN gaps \cup {"redis"} ELSE gaps
      BY <1>t, <1>3 DEF RecordFails, Finish, Idle, ConnRec
    <2>2. Calm(c)
      BY <2>1 DEF Calm, RollKept, Late
    <2>3. \A b \in Conns : Calm(b)
      BY <2>1, <2>2, CalmUntouched
    <2>4. CASE UNCHANGED <<strike, written>>
      BY <2>1, <2>3, <2>4, CalmStep
    <2>5. CASE SetStrike(c) /\ strike = episode[c].prev
      <3>1. strike' # strike
        <4>1. strike' # None /\ strike'.stamp = written + 1
          BY <2>5, NewStrike
        <4>2. strike # None => strike.stamp \in Nat /\ strike.stamp <= written
          BY StrikeTypes DEF StallLedger, Dated, Strike
        <4> QED BY <4>1, <4>2, StrikeTypes
      <3>2. gaps \subseteq gaps' /\ "redis" \in gaps'
        BY <2>1, <3>1
      <3>3. \A b \in Conns : RollKept(b) /\ (Late(b)' => Late(b))
        BY <2>3 DEF Calm
      <3> QED BY <2>1, <2>5, <3>2, <3>3, KeyWrittenUnseen
    <2> QED BY <1>3, <2>4, <2>5 DEF RecordFails
  <1> QED BY <1>1, <1>2, <1>3

\* The strike is deleted or taken back, and the restart queued, carried out or
\* withdrawn.
LEMMA RestartLedger ==
  ASSUME StallTypeOK, StallTypeOK', StallLedger, NEW c \in Conns,
         \/ RequestRestart(c) \/ Wipe(c) \/ Undo(c)
         \/ \E s \in queued[c] : Restart(c, s) \/ Withdraw(c, s)
  PROVE  StallLedger'
  <1>t. /\ conn \in [Conns -> ConnRec] /\ episode \in [Conns -> EpisodeRec]
        /\ conn[c] \in ConnRec /\ episode[c] \in EpisodeRec /\ queued \in [Conns -> SUBSET Nat]
    BY DEF StallTypeOK
  <1>1. CASE RequestRestart(c)
    <2>1. CASE Registered(c) /\ conn[c].rollback # None
      BY <1>1, <2>1, RestartQueued
    <2>2. CASE ~(Registered(c) /\ conn[c].rollback # None)
      <3>1. /\ UNCHANGED <<strike, written, wiped, restarted, queued, gaps, conn>>
            /\ \A b \in Conns \ {c} : episode'[b] = episode[b]
            /\ ~Ended(c) /\ episode'[c].pc = "idle"
        BY <1>t, <1>1, <2>2 DEF RequestRestart, AfterWrite, Finish, Idle
      <3>2. Calm(c)
        BY <3>1 DEF Calm, RollKept, Late, Ended
      <3>3. \A b \in Conns : Calm(b)
        BY <3>1, <3>2, CalmUntouched
      <3> QED BY <3>1, <3>3, CalmStep
    <2> QED BY <2>1, <2>2
  <1>2. CASE Wipe(c)
    <2>1. /\ \A b \in Conns \ {c} : conn'[b] = conn[b] /\ episode'[b] = episode[b]
          /\ conn'[c].rollback = None /\ conn'[c].ended = conn[c].ended
          /\ episode[c].pc = "wipe" /\ episode'[c].pc = "idle"
          /\ UNCHANGED <<written, restarted, queued>> /\ gaps \subseteq gaps'
      BY <1>t, <1>2 DEF Wipe, Finish, Idle, ConnRec
    <2>2. \A b \in Conns : RollKept(b) /\ queued'[b] \subseteq queued[b] /\ (Late(b)' => Late(b))
      BY <2>1 DEF RollKept, Late
    <2>3. CASE strike' = None /\ wiped' = written
      BY <2>1, <2>2, <2>3, KeyDeleted
    <2>4. CASE UNCHANGED <<strike, wiped>> /\ "redis" \in gaps'
      <3>1. \A b \in Conns : Closed(b)' => Closed(b)
        BY <2>4 DEF Closed
      <3>2. \A b \in Conns : Late(b)' => Late(b) \/ (queued[b] # {} /\ (Single => queued'[b] = {}))
        BY <2>2
      <3>3. \A b \in Conns : RollKept(b) /\ queued'[b] \subseteq queued[b]
        BY <2>2
      <3> QED BY <2>1, <2>4, <3>1, <3>2, <3>3, KeyKept
    <2> QED BY <1>2, <2>3, <2>4 DEF Wipe
  <1>3. CASE Undo(c)
    <2>1. /\ \A b \in Conns \ {c} : conn'[b] = conn[b] /\ episode'[b] = episode[b]
          /\ episode[c].pc = "undo" /\ episode'[c].pc = "idle"
          /\ UNCHANGED <<written, wiped, restarted, queued>> /\ gaps \subseteq gaps'
      BY <1>t, <1>3 DEF Undo, Finish, Idle
    <2>2. conn'[c].rollback = None /\ conn'[c].ended = conn[c].ended
      BY <1>t, <1>3 DEF Undo, ConnRec
    <2>3. \A b \in Conns : RollKept(b) /\ queued'[b] \subseteq queued[b] /\ (Late(b)' => Late(b))
      BY <2>1, <2>2 DEF RollKept, Late
    <2>4. CASE /\ conn[c].rollback # None /\ strike = conn[c].rollback.wrote
               /\ strike' = conn[c].rollback.prev /\ gaps' = gaps
      <3>1. \A b \in Conns : Calm(b)
        BY <2>1, <2>2, <2>3, CalmUntouched DEF Calm
      <3>2. \A b \in Conns : RollKept(b) /\ (Late(b)' => Late(b)) /\ (Closed(b)' => Closed(b))
        BY <2>1, <2>3, <3>1, CalmClosed
      <3> QED BY <2>1, <2>2, <2>4, <3>2, KeyTakenBack
    <2>5. CASE UNCHANGED strike
      <3>1. \A b \in Conns : Calm(b)
        BY <2>1, <2>2, <2>3, CalmUntouched DEF Calm
      <3>2. \A b \in Conns : Closed(b)' => Closed(b)
        BY <2>1, <3>1, CalmClosed
      <3>3. \A b \in Conns : Late(b)' => Late(b) \/ (queued[b] # {} /\ (Single => queued'[b] = {}))
        BY <2>3
      <3>4. \A b \in Conns : RollKept(b) /\ queued'[b] \subseteq queued[b]
        BY <2>3
      <3> QED BY <2>1, <2>5, <3>2, <3>3, <3>4, KeyKept
    <2> QED BY <1>3, <2>4, <2>5 DEF Undo, Restored
  <1>4. ASSUME NEW s \in queued[c], Restart(c, s) PROVE StallLedger'
    <2>1. /\ restarted' = restarted \cup {s} /\ queued' = [queued EXCEPT ![c] = @ \ {s}]
          /\ UNCHANGED <<strike, written, wiped, episode, gaps>>
      BY <1>4 DEF Restart
    <2>2. \A b \in Conns : /\ RollKept(b)
                           /\ conn'[b].ended = "done" => conn[b].ended = "done"
      BY <1>4, <1>t DEF Restart, ReplaceBy, Abort, NewConn, RollKept, ConnRec
    <2>3. \A b \in Conns : RollKept(b) /\ (Closed(b)' => Closed(b))
      BY <2>1, <2>2 DEF Closed
    <2> QED BY <2>1, <2>3, RestartCarriedOut
  <1>5. ASSUME NEW s \in queued[c], Withdraw(c, s) PROVE StallLedger'
    <2>1. /\ \A b \in Conns \ {c} : /\ conn'[b] = conn[b] /\ episode'[b] = episode[b]
                                    /\ queued'[b] = queued[b]
          /\ queued'[c] = queued[c] \ {s}
          /\ episode[c].pc = "idle" /\ episode'[c].pc \in {"wipe", "undo"}
          /\ conn'[c].rollback = conn[c].rollback /\ conn'[c].ended = conn[c].ended
          /\ UNCHANGED <<strike, written, wiped, restarted, gaps>>
      BY <1>t, <1>5 DEF Withdraw, Idle, ConnRec
    <2>2. \A b \in Conns : RollKept(b) /\ queued'[b] \subseteq queued[b]
      BY <2>1 DEF RollKept
    <2>3. Single => queued'[c] = {}
      BY <2>1 DEF StallLedger, Outstanding
    <2>4. \A b \in Conns : Late(b)' => Late(b) \/ (queued[b] # {} /\ (Single => queued'[b] = {}))
      BY <2>1, <2>3 DEF Late
    <2>5. \A b \in Conns : Closed(b)' => Closed(b)
      BY <2>1 DEF Closed
    <2> QED BY <2>1, <2>2, <2>4, <2>5, KeyKept
  <1> QED BY <1>1, <1>2, <1>3, <1>4, <1>5

\* What happens around the episodes.
LEMMA WorldLedger ==
  ASSUME StallTypeOK, StallTypeOK', AllSound, StallLedger,
         \/ \E c \in Conns :
              \/ Stalls(c) \/ Recovers(c) \/ Drops(c) \/ Opens(c) \/ EndSession(c)
              \/ FinishClose(c) \/ ForceRestart(c) \/ SilenceEnds(c)
         \/ \E i \in Instances :
              RenewDiscards(i) \/ SlotFrees(i) \/ \E d \in Conns : Takeover(i, d)
         \/ BackoffEnds \/ UNCHANGED stallVars
  PROVE  StallLedger'
  <1>t. /\ conn \in [Conns -> ConnRec] /\ episode \in [Conns -> EpisodeRec]
    BY DEF StallTypeOK
  <1>1. ASSUME UNCHANGED <<strike, written, wiped, restarted, queued, gaps>>,
               \A b \in Conns : /\ RollKept(b) /\ episode'[b].pc = episode[b].pc
                                /\ conn'[b].ended = "done" => conn[b].ended = "done"
        PROVE  StallLedger'
    <2>1. \A b \in Conns : Calm(b)
      BY <1>1 DEF Calm, Late
    <2> QED BY <1>1, <2>1, CalmStep
  <1>2. ASSUME NEW c \in Conns,
               Stalls(c) \/ Recovers(c) \/ Drops(c) \/ Opens(c) \/ EndSession(c) \/ SilenceEnds(c)
        PROVE  StallLedger'
    <2>1. UNCHANGED <<strike, written, wiped, restarted, queued, gaps>>
      BY <1>2 DEF Stalls, Recovers, Drops, Opens, EndSession, SilenceEnds
    <2>2. \A b \in Conns : episode'[b].pc = episode[b].pc
      BY <1>t, <1>2 DEF Stalls, Recovers, Drops, Opens, EndSession, SilenceEnds, EpisodeRec
    <2>3. \A b \in Conns : RollKept(b) /\ (conn'[b].ended = "done" => conn[b].ended = "done")
      <3>1. \A b \in Conns \ {c} : conn'[b] = conn[b]
        BY <1>t, <1>2 DEF Stalls, Recovers, Drops, Opens, EndSession, SilenceEnds, Silence
      <3>2. conn[c] \in ConnRec
        BY <1>t
      <3>3. Stalls(c) \/ Drops(c) \/ SilenceEnds(c) =>
              conn'[c].rollback = conn[c].rollback /\ conn'[c].ended = conn[c].ended
        BY <1>t, <3>2 DEF Stalls, Drops, SilenceEnds, Silence, ConnRec
      <3>4. Recovers(c) \/ Opens(c) =>
              conn'[c].rollback = conn[c].rollback /\ conn'[c].ended = conn[c].ended
        <4> DEFINE h == Healed(conn[c])
        <4>1. h \in ConnRec /\ h.rollback = conn[c].rollback /\ h.ended = conn[c].ended
          <5>1. h \in ConnRec
            BY <3>2, ConnUpdates
          <5>2. h.rollback = conn[c].rollback /\ h.ended = conn[c].ended
            BY <3>2 DEF Healed, ConnRec
          <5> QED BY <5>1, <5>2
        <4>2. Recovers(c) => conn'[c] = h
          BY <1>t DEF Recovers
        <4>3. Opens(c) => conn'[c] = [h EXCEPT !.st = "open"]
          BY <1>t DEF Opens
        <4> HIDE DEF h
        <4>4. [h EXCEPT !.st = "open"].rollback = h.rollback /\ [h EXCEPT !.st = "open"].ended = h.ended
          BY <4>1 DEF ConnRec
        <4> QED BY <4>1, <4>2, <4>3, <4>4
      <3>5. EndSession(c) => conn'[c].rollback = conn[c].rollback /\ conn'[c].ended # "done"
        BY <1>t, <3>2 DEF EndSession, ConnRec
      <3> QED BY <1>2, <3>1, <3>3, <3>4, <3>5 DEF RollKept
    <2> QED BY <1>1, <2>1, <2>2, <2>3
  <1>3. ASSUME NEW c \in Conns, ForceRestart(c) PROVE StallLedger'
    <2>1. \A b \in Conns : RollKept(b) /\ (conn'[b].ended = "done" => conn[b].ended = "done")
      BY <1>t, <1>3 DEF ForceRestart, ReplaceBy, NewConn, RollKept, ConnRec
    <2> QED BY <1>1, <1>3, <2>1 DEF ForceRestart
  <1>4. ASSUME NEW i \in Instances, NEW d \in Conns, Takeover(i, d) PROVE StallLedger'
    <2>1. \A b \in Conns : RollKept(b) /\ (conn'[b].ended = "done" => conn[b].ended = "done")
      BY <1>t, <1>4 DEF Takeover, NewConn, RollKept
    <2> QED BY <1>1, <1>4, <2>1 DEF Takeover
  <1>5. ASSUME NEW i \in Instances, RenewDiscards(i) PROVE StallLedger'
    <2>1. \A b \in Conns : RollKept(b) /\ (conn'[b].ended = "done" => conn[b].ended = "done")
      BY <1>t, <1>5 DEF RenewDiscards, RollKept, ConnRec
    <2> QED BY <1>1, <1>5, <2>1 DEF RenewDiscards
  <1>6. ASSUME NEW c \in Conns, FinishClose(c) PROVE StallLedger'
    <2>1. /\ \A b \in Conns : RollKept(b)
          /\ \A b \in Conns \ {c} : conn'[b] = conn[b]
          /\ UNCHANGED <<written, restarted, queued, episode>> /\ gaps \subseteq gaps'
      BY <1>t, <1>6 DEF FinishClose, RollKept, ConnRec
    <2>2. \A b \in Conns : RollKept(b) /\ queued'[b] \subseteq queued[b]
      BY <2>1
    <2>3. CASE strike' = None /\ wiped' = written
      <3>1. \A b \in Conns : Late(b)' => Late(b)
        BY <2>1 DEF Late
      <3> QED BY <2>1, <2>2, <2>3, <3>1, KeyDeleted
    <2>4. CASE UNCHANGED <<strike, wiped>> /\ "redis" \in gaps'
      <3>1. \A b \in Conns : Closed(b)' => Closed(b)
        BY <2>4 DEF Closed
      <3>2. \A b \in Conns : Late(b)' => Late(b) \/ (queued[b] # {} /\ (Single => queued'[b] = {}))
        BY <2>1 DEF Late
      <3> QED BY <2>1, <2>2, <2>4, <3>1, <3>2, KeyKept
    <2> QED BY <1>6, <2>3, <2>4 DEF FinishClose
  <1>7. ASSUME (\E i \in Instances : SlotFrees(i)) \/ BackoffEnds \/ UNCHANGED stallVars
        PROVE  StallLedger'
    <2>1. UNCHANGED <<conn, episode, strike, written, wiped, restarted, queued, gaps>>
      BY <1>7 DEF SlotFrees, BackoffEnds, stallVars
    <2> QED BY <1>1, <2>1 DEF RollKept
  <1> QED BY <1>2, <1>3, <1>4, <1>5, <1>6, <1>7, Zenon

StallCounted == StallTypeOK /\ AllSound /\ StallLedger

LEMMA CountedInvariant == StallSpec => []StallCounted
  <1>1. StallInit => StallCounted
    BY InitType, InitSound, InitLedger DEF StallCounted
  <1>2. StallCounted /\ [StallNext]_stallVars => StallCounted'
    <2> SUFFICES ASSUME StallCounted, [StallNext]_stallVars PROVE StallLedger'
      BY TypeStep, SoundStep DEF StallCounted
    <2>1. StallTypeOK /\ StallTypeOK' /\ AllSound /\ StallLedger
      BY TypeStep DEF StallCounted
    <2> QED
      BY <2>1, EpisodeLedger, RecordLedger, RestartLedger, WorldLedger, Zenon
      DEF StallNext, EpisodeStep, ConnStep
  <1> QED BY <1>1, <1>2, PTL DEF StallSpec

\* As long as no connection has two restarts in the queue, the key in Redis
\* counts every restart carried out since it was last deleted: restoreState puts
\* a value back only over the strike it belongs to, and the restart of that
\* strike was called off.
THEOREM EveryRestartCounted == StallSpec => []RestartsCounted
  <1>1. StallCounted => RestartsCounted
    <2> SUFFICES ASSUME StallCounted, Single
                 PROVE  Cardinality({s \in restarted : s > wiped}) <= Count(strike)
      BY DEF RestartsCounted, Single
    <2>1. {s \in restarted : s > wiped} \subseteq Tokens
      BY StrikeTypes DEF StallCounted, StallLedger, Dated, Tokens
    <2>2. Tokens \subseteq 0..written /\ written \in Nat /\ Backed
      BY StrikeTypes DEF Tokens, StallCounted, StallLedger
    <2>3. Cardinality({s \in restarted : s > wiped}) <= Cardinality(Tokens)
      BY <2>1, <2>2, NoMore
    <2>4. Cardinality(Tokens) \in Nat /\ Cardinality({s \in restarted : s > wiped}) \in Nat
      BY <2>1, <2>2, TokenCount
    <2> QED BY <2>2, <2>3, <2>4, StrikeTypes DEF Backed, StallCounted
  <1> QED BY <1>1, CountedInvariant, PTL

\* Unless Redis failed, a session that is over leaves no strike of its own in
\* Redis, whichever of its close, its episode and its withdrawn restart ends last.
THEOREM LogoutLeavesNoBackoff == StallSpec => []NoBackoffAfterLogout
  <1>1. StallCounted => NoBackoffAfterLogout
    BY DEF StallCounted, StallLedger, NoBackoffAfterLogout, Closed, NoneBack
  <1> QED BY <1>1, CountedInvariant, PTL
=============================================================================
