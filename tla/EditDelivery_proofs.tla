-------------------------- MODULE EditDelivery_proofs --------------------------
(***************************************************************************)
(* Theorems about EditDelivery for any messages, sequences of events,      *)
(* memory of positions, retries and failures.                              *)
(***************************************************************************)
EXTENDS EditDelivery, FiniteSetTheorems, TLAPS

BatchRec ==
  [st : {"none", "addressing", "filing", "ready", "done"}, body : Nat, tries : Nat,
   stored : BOOLEAN]

DeliveryRec ==
  [st : {"none", "queued", "waiting", "ready", "wire",
         "keyless", "dropped", "abandoned", "failed", "delivered"},
   waits : SUBSET Nat, late : BOOLEAN, claimed : BOOLEAN, tries : Nat, overtaken : BOOLEAN]

\* The order in which positions are evicted is left out: whatever is evicted, it is
\* nothing that is still being delivered.
EditTypeOK ==
  /\ event \in Traffic
  /\ arrived \in Nat
  /\ batch \in [Events -> BatchRec]
  /\ delivery \in [Events -> DeliveryRec]
  /\ chain \in [Targets -> Seq(Events)]
  /\ editedAt \in [Targets -> Events \cup {0}]
  /\ intake \subseteq Events
  /\ filed \subseteq Targets
  /\ inFlightWebhooks \in Int
  /\ shown \in [Targets -> Events \cup {0, Unknown}]

\* An event that has not arrived has done nothing, and a dump that is still being
\* addressed has not sent its edit anywhere.
Ahead ==
  \A n \in Events :
    /\ n > arrived => batch[n].st = "none" /\ delivery[n].st = "none"
    /\ batch[n].st = "addressing" => event[n].kind # "plain" /\ delivery[n].st = "none"

-----------------------------------------------------------------------------
(* Events and their order *)

LEMMA EventTypes ==
  ASSUME event \in Traffic
  PROVE  /\ Events = 1..Len(event) /\ Len(event) \in Nat
         /\ IsFiniteSet(Events)
         /\ \A n \in Events : event[n] \in EventRec /\ n \in Nat \ {0}
  <1>1. event \in Seq(EventRec)
    BY TrafficAssumption
  <1>2. Events = 1..Len(event) /\ Len(event) \in Nat
    BY <1>1 DEF Events
  <1>3. IsFiniteSet(Events)
    BY <1>2, FS_Interval
  <1> QED BY <1>1, <1>2, <1>3

\* Positions are ordered: what is at or after b is at or after whatever b is.
LEMMA OlderOrders ==
  ASSUME event \in Traffic, NEW a \in Events \cup {0}, NEW b \in Events \cup {0},
         NEW c \in Events \cup {0}
  PROVE  /\ ~Older(a, a) /\ ~Older(a, 0)
         /\ ~Older(b, a) /\ ~Older(c, b) => ~Older(c, a)
         /\ Older(a, b) => ~Older(b, a)
  <1>1. \A n \in Events : event[n].at \in Nat /\ n \in Nat \ {0}
    BY EventTypes DEF EventRec
  <1> QED BY <1>1 DEF Older

-----------------------------------------------------------------------------
(* Types *)

LEMMA InitTypes == EditInit => EditTypeOK /\ Ahead
  <1> SUFFICES ASSUME EditInit PROVE EditTypeOK /\ Ahead
    OBVIOUS
  <1>1. event \in Traffic /\ \A n \in Events : n \in Nat \ {0}
    BY EventTypes DEF EditInit
  <1>2. batch \in [Events -> BatchRec]
    BY DEF EditInit, BatchRec
  <1>3. delivery \in [Events -> DeliveryRec]
    BY DEF EditInit, NoDelivery, DeliveryRec
  <1>4. chain \in [Targets -> Seq(Events)]
    BY DEF EditInit
  <1>5. shown \in [Targets -> Events \cup {0, Unknown}] /\ filed \subseteq Targets
    BY DEF EditInit
  <1>6. EditTypeOK
    BY <1>1, <1>2, <1>3, <1>4, <1>5 DEF EditInit, EditTypeOK
  <1>7. Ahead
    BY <1>1 DEF EditInit, Ahead, NoDelivery
  <1> QED BY <1>6, <1>7

\* Updates of the records that keep their types.
LEMMA BatchUpdates ==
  ASSUME NEW b \in BatchRec
  PROVE  /\ \A x \in {"addressing", "filing", "ready", "done"} : [b EXCEPT !.st = x] \in BatchRec
         /\ [b EXCEPT !.st = "ready", !.stored = TRUE] \in BatchRec
         /\ [b EXCEPT !.st = "ready", !.tries = @ + 1] \in BatchRec
         /\ \A x \in {"filing", "done"}, y \in Nat : [b EXCEPT !.st = x, !.body = y] \in BatchRec
  <1>1. \A x \in {"addressing", "filing", "ready", "done"} : [b EXCEPT !.st = x] \in BatchRec
    BY DEF BatchRec
  <1>2. [b EXCEPT !.st = "ready", !.stored = TRUE] \in BatchRec
    BY DEF BatchRec
  <1>3. [b EXCEPT !.st = "ready", !.tries = @ + 1] \in BatchRec
    <2>1. b.tries + 1 \in Nat
      BY DEF BatchRec
    <2>2. [b EXCEPT !.tries = b.tries + 1] \in BatchRec
      BY <2>1 DEF BatchRec
    <2>3. [[b EXCEPT !.tries = b.tries + 1] EXCEPT !.st = "ready"] \in BatchRec
      BY <2>2 DEF BatchRec
    <2> QED BY <2>3
  <1>4. ASSUME NEW x \in {"filing", "done"}, NEW y \in Nat
        PROVE  [b EXCEPT !.st = x, !.body = y] \in BatchRec
    <2>1. [b EXCEPT !.st = x] \in BatchRec
      BY DEF BatchRec
    <2>2. [[b EXCEPT !.st = x] EXCEPT !.body = y] \in BatchRec
      BY <2>1 DEF BatchRec
    <2> QED BY <2>2
  <1> QED BY <1>1, <1>2, <1>3, <1>4

LEMMA DeliveryUpdates ==
  ASSUME NEW d \in DeliveryRec
  PROVE  /\ \A x \in {"queued", "ready", "wire", "keyless", "dropped", "abandoned", "failed",
                      "delivered"} : [d EXCEPT !.st = x] \in DeliveryRec
         /\ [d EXCEPT !.st = "ready", !.claimed = TRUE] \in DeliveryRec
         /\ \A w \in SUBSET Nat : [d EXCEPT !.st = "waiting", !.waits = w] \in DeliveryRec
         /\ [d EXCEPT !.late = TRUE] \in DeliveryRec
         /\ [d EXCEPT !.st = "ready", !.tries = @ + 1] \in DeliveryRec
         /\ [d EXCEPT !.overtaken = TRUE] \in DeliveryRec
  <1>1. \A x \in {"queued", "ready", "wire", "keyless", "dropped", "abandoned", "failed",
                   "delivered"} : [d EXCEPT !.st = x] \in DeliveryRec
    BY DEF DeliveryRec
  <1>2. [d EXCEPT !.st = "ready", !.claimed = TRUE] \in DeliveryRec
    BY DEF DeliveryRec
  <1>3. ASSUME NEW w \in SUBSET Nat
        PROVE  [d EXCEPT !.st = "waiting", !.waits = w] \in DeliveryRec
    <2>1. [d EXCEPT !.st = "waiting"] \in DeliveryRec
      BY DEF DeliveryRec
    <2>2. [[d EXCEPT !.st = "waiting"] EXCEPT !.waits = w] \in DeliveryRec
      BY <2>1 DEF DeliveryRec
    <2> QED BY <2>2
  <1>4. [d EXCEPT !.late = TRUE] \in DeliveryRec /\ [d EXCEPT !.overtaken = TRUE] \in DeliveryRec
    BY DEF DeliveryRec
  <1>5. [d EXCEPT !.st = "ready", !.tries = @ + 1] \in DeliveryRec
    <2>1. d.tries + 1 \in Nat
      BY DEF DeliveryRec
    <2>2. [d EXCEPT !.tries = d.tries + 1] \in DeliveryRec
      BY <2>1 DEF DeliveryRec
    <2>3. [[d EXCEPT !.tries = d.tries + 1] EXCEPT !.st = "ready"] \in DeliveryRec
      BY <2>2 DEF DeliveryRec
    <2> QED BY <2>3
  <1> QED BY <1>1, <1>2, <1>3, <1>4, <1>5

\* What a claim does to the positions: it sets its own, unless that is forgotten at
\* once, and takes away none of a target that has a delivery queued.
LEMMA ClaimEffect ==
  ASSUME EditTypeOK, NEW n \in Events, ClaimPosition(n)
  PROVE  /\ editedAt' \in [Targets -> Events \cup {0}]
         /\ forgotten \subseteq forgotten'
         /\ \A m \in Targets : chain[m] # <<>> \/ m \notin forgotten' =>
              editedAt'[m] = IF m = Target(n) THEN n ELSE editedAt[m]
  <1>1. PICK gone, ord :
          /\ gone = Evicted(ord)
          /\ editedAt' = [x \in Targets |->
               IF x \in gone THEN 0 ELSE IF x = Target(n) THEN n ELSE editedAt[x]]
          /\ forgotten' = forgotten \cup gone
    BY DEF ClaimPosition
  <1>2. \A m \in gone : chain[m] = <<>>
    BY <1>1 DEF Evicted
  <1> QED BY <1>1, <1>2 DEF EditTypeOK

LEMMA OvertakenTypes ==
  ASSUME event \in Traffic, NEW d \in [Events -> DeliveryRec], NEW n \in Events
  PROVE  Overtaken(d, n) \in [Events -> DeliveryRec]
  BY DeliveryUpdates DEF Overtaken

-----------------------------------------------------------------------------
(* What a step may do *)

\* Only the delivery at the head of its target's chain has begun.
Heads ==
  \A n \in Events : delivery[n].st \in {"waiting", "ready", "wire"} => AtHead(n)

\* What is applied in place is the event's own edit.
Bodies == \A n \in Events : batch[n].body \in {0, n}

\* As long as the secrets of an event have not been filed its window is open.
Windows == \A n \in Events : batch[n].st \in {"addressing", "filing"} => n \in intake

EditBase == EditTypeOK /\ Ahead /\ Heads /\ Bodies /\ Windows

\* A step is about one event; of others it at most says that they were overtaken.
OthersStay(n) ==
  \A k \in Events \ {n} :
    /\ batch'[k] = batch[k]
    /\ \/ delivery'[k] = delivery[k]
       \/ /\ delivery[k].st = "wire" /\ Target(k) = Target(n)
          /\ delivery'[k] = [delivery[k] EXCEPT !.overtaken = TRUE]

\* A chain grows at its end or loses its head.
Leaves(n) == AtHead(n) /\ chain' = [chain EXCEPT ![Target(n)] = Tail(@)]
ChainMoves(n) == UNCHANGED chain \/ Enqueue(n) \/ Leaves(n)

\* Positions move by claims; a claim is made known to the requests on the wire.
Claims(n) ==
  /\ ~Superseded(n) /\ ClaimPosition(n)
  /\ \A k \in Events \ {n} :
       delivery[k].st = "wire" /\ Target(k) = Target(n) => delivery'[k].overtaken
PositionsMove(n) == ClaimsNothing \/ Claims(n)

Moves(n) == OthersStay(n) /\ ChainMoves(n) /\ PositionsMove(n) /\ event' = event

\* The outcomes of a repair: it wins and is applied in place, it leaves an edit over
\* for the chain, or neither.
Repaired(n) ==
  /\ ~Superseded(n) /\ ClaimPosition(n)
  /\ delivery' = Overtaken(delivery, n)
  /\ UNCHANGED chain
  /\ batch'[n].body = n
LeftOver(n) ==
  /\ ClaimsNothing
  /\ delivery' = [delivery EXCEPT ![n].st = "queued"]
  /\ Enqueue(n)
  /\ batch'[n].body = 0
Untouched(n) == ClaimsNothing /\ UNCHANGED <<delivery, chain>> /\ batch'[n].body = 0

LEMMA RepairEffect ==
  ASSUME EditTypeOK, NEW n \in Events, NEW opens \in BOOLEAN, NEW windows \in SUBSET Events,
         NEW counted \in Int, Repair(n, opens, windows, counted)
  PROVE  /\ batch' \in [Events -> BatchRec]
         /\ \A k \in Events \ {n} : batch'[k] = batch[k]
         /\ batch'[n].st = (IF event[n].orig THEN "filing" ELSE "done")
         /\ batch'[n].stored = batch[n].stored
         /\ intake' = (IF event[n].orig THEN windows ELSE windows \ {n})
         /\ \/ Repaired(n) /\ inFlightWebhooks' = counted + (IF event[n].orig THEN 0 ELSE -1)
            \/ LeftOver(n) /\ inFlightWebhooks' = counted + (IF event[n].orig THEN 1 ELSE 0)
            \/ Untouched(n) /\ inFlightWebhooks' = counted + (IF event[n].orig THEN 0 ELSE -1)
  <1>1. PICK st \in {"filing", "done"}, body \in {0, n} :
          /\ st = (IF event[n].orig THEN "filing" ELSE "done")
          /\ body = (IF (event[n].orig /\ HasEdit(n) /\ opens) /\ ~Superseded(n) THEN n ELSE 0)
          /\ batch' = [batch EXCEPT ![n].st = st, ![n].body = body]
    BY DEF Repair
  <1>2. batch[n] \in BatchRec /\ n \in Nat
    BY EventTypes DEF EditTypeOK
  <1>3. batch' = [batch EXCEPT ![n] = [batch[n] EXCEPT !.st = st, !.body = body]]
    BY <1>1
  <1>4. [batch[n] EXCEPT !.st = st, !.body = body] \in BatchRec
    BY <1>2, BatchUpdates
  <1>5. /\ batch' \in [Events -> BatchRec]
        /\ \A k \in Events \ {n} : batch'[k] = batch[k]
        /\ batch'[n] = [batch[n] EXCEPT !.st = st, !.body = body]
    BY <1>3, <1>4 DEF EditTypeOK
  <1>6. batch'[n].st = st /\ batch'[n].body = body /\ batch'[n].stored = batch[n].stored
    BY <1>2, <1>5 DEF BatchRec
  <1>7. intake' = (IF event[n].orig THEN windows ELSE windows \ {n})
    BY DEF Repair
  <1>8. CASE (event[n].orig /\ HasEdit(n) /\ opens) /\ ~Superseded(n)
    <2>1. ClaimPosition(n) /\ delivery' = Overtaken(delivery, n) /\ UNCHANGED chain
      BY <1>8 DEF Repair
    <2>2. inFlightWebhooks' = counted + (IF event[n].orig THEN 0 ELSE -1)
      BY <1>8 DEF Repair
    <2> QED BY <1>1, <1>5, <1>6, <1>7, <1>8, <2>1, <2>2 DEF Repaired
  <1>9. CASE ~((event[n].orig /\ HasEdit(n) /\ opens) /\ ~Superseded(n))
    <2>1. CASE HasEdit(n) /\ ~(event[n].orig /\ HasEdit(n) /\ opens)
      <3>1. ClaimsNothing /\ delivery' = [delivery EXCEPT ![n].st = "queued"] /\ Enqueue(n)
        BY <1>9, <2>1 DEF Repair
      <3>2. inFlightWebhooks' = counted + (IF event[n].orig THEN 1 ELSE 0)
        BY <1>9, <2>1 DEF Repair, Reservation
      <3> QED BY <1>1, <1>5, <1>6, <1>7, <1>9, <3>1, <3>2 DEF LeftOver
    <2>2. CASE ~(HasEdit(n) /\ ~(event[n].orig /\ HasEdit(n) /\ opens))
      <3>1. ClaimsNothing /\ UNCHANGED <<delivery, chain>>
        BY <1>9, <2>2 DEF Repair
      <3>2. inFlightWebhooks' = counted + (IF event[n].orig THEN 0 ELSE -1)
        BY <1>9, <2>2 DEF Repair
      <3> QED BY <1>1, <1>5, <1>6, <1>7, <1>9, <3>1, <3>2 DEF Untouched
    <2> QED BY <2>1, <2>2
  <1> QED BY <1>8, <1>9

\* What the outcome of a repair means for the deliveries, the chains and the positions.
LEMMA OutcomeMoves ==
  ASSUME EditTypeOK, NEW n \in Events, delivery[n].st = "none",
         Repaired(n) \/ LeftOver(n) \/ Untouched(n),
         \A k \in Events \ {n} : batch'[k] = batch[k], event' = event
  PROVE  /\ delivery' \in [Events -> DeliveryRec]
         /\ chain' \in [Targets -> Seq(Events)]
         /\ editedAt' \in [Targets -> Events \cup {0}]
         /\ delivery'[n] = delivery[n] \/ delivery'[n] = [delivery[n] EXCEPT !.st = "queued"]
         /\ Moves(n)
  <1>1. Target(n) \in Targets
    BY EventTypes DEF EditTypeOK, Target, EventRec
  <1>2. CASE Repaired(n)
    <2>1. delivery' \in [Events -> DeliveryRec]
      BY <1>2, OvertakenTypes DEF Repaired, EditTypeOK
    <2>2. \A k \in Events :
            delivery'[k] = IF delivery[k].st = "wire" /\ Target(k) = Target(n)
                           THEN [delivery[k] EXCEPT !.overtaken = TRUE] ELSE delivery[k]
      BY <1>2 DEF Repaired, Overtaken
    <2>3. \A k \in Events : [delivery[k] EXCEPT !.overtaken = TRUE].overtaken
      BY DEF EditTypeOK, DeliveryRec
    <2>4. OthersStay(n)
      BY <2>2 DEF OthersStay
    <2>5. Claims(n)
      BY <1>2, <2>2, <2>3 DEF Claims, Repaired
    <2> QED BY <1>2, <2>1, <2>2, <2>4, <2>5, ClaimEffect
            DEF Moves, Repaired, ChainMoves, PositionsMove, EditTypeOK
  <1>3. CASE LeftOver(n)
    <2>1. delivery' = [delivery EXCEPT ![n] = [delivery[n] EXCEPT !.st = "queued"]]
      BY <1>3 DEF LeftOver
    <2>2. delivery[n] \in DeliveryRec
      BY DEF EditTypeOK
    <2>3. [delivery[n] EXCEPT !.st = "queued"] \in DeliveryRec
      BY <2>2, DeliveryUpdates
    <2>4. /\ delivery' \in [Events -> DeliveryRec]
          /\ delivery'[n] = [delivery[n] EXCEPT !.st = "queued"]
          /\ \A k \in Events \ {n} : delivery'[k] = delivery[k]
      BY <2>1, <2>3 DEF EditTypeOK
    <2>5. chain' \in [Targets -> Seq(Events)]
      BY <1>1, <1>3 DEF LeftOver, Enqueue, EditTypeOK
    <2> QED BY <1>3, <2>4, <2>5
            DEF Moves, LeftOver, OthersStay, ChainMoves, PositionsMove, ClaimsNothing, EditTypeOK
  <1>4. CASE Untouched(n)
    BY <1>4
       DEF Moves, Untouched, OthersStay, ChainMoves, PositionsMove, ClaimsNothing, EditTypeOK
  <1> QED BY <1>2, <1>3, <1>4

-----------------------------------------------------------------------------
(* The steps of a delivery *)

\* Where the delivery of n goes, and by how much the counter changes.
Turns(n, from, to, by) ==
  /\ delivery[n].st = from /\ delivery'[n].st = to
  /\ inFlightWebhooks' = inFlightWebhooks + by
Keeps(n) == delivery'[n].late = delivery[n].late /\ delivery'[n].claimed = delivery[n].claimed
Stays == UNCHANGED chain /\ ClaimsNothing

Begins(n) ==
  /\ Turns(n, "queued", "ready", 1) /\ event[n].kind = "plain"
  /\ delivery'[n].claimed /\ AtHead(n) /\ Stays
Waits(n) ==
  /\ Turns(n, "queued", "waiting", 0) /\ event[n].kind # "plain"
  /\ delivery'[n].waits = intake /\ Keeps(n) /\ AtHead(n) /\ Stays
TimesOut(n) ==
  /\ Turns(n, "waiting", "waiting", 0)
  /\ delivery'[n].waits = delivery[n].waits /\ delivery'[n].late
  /\ delivery'[n].claimed = delivery[n].claimed /\ Stays
Misses(n) ==
  /\ Turns(n, "waiting", "keyless", -1) /\ IntakeOver(n) /\ Target(n) \notin filed
  /\ Keeps(n) /\ Leaves(n) /\ ClaimsNothing
Drops(n) == Turns(n, "waiting", "dropped", -1) /\ Leaves(n) /\ ClaimsNothing
Finds(n) ==
  /\ Turns(n, "waiting", "ready", 1) /\ delivery'[n].claimed
  /\ UNCHANGED chain /\ Claims(n)
Sends(n) == Turns(n, "ready", "wire", 0) /\ Keeps(n) /\ ~Superseded(n) /\ Stays
Retries(n) == Turns(n, "wire", "ready", 0) /\ Keeps(n) /\ Stays
Ends(n) ==
  /\ \E from \in {"ready", "wire"}, to \in {"abandoned", "failed", "delivered"} :
       Turns(n, from, to, -2)
  /\ Leaves(n) /\ ClaimsNothing

Shows(n) ==
  \/ UNCHANGED shown
  \/ /\ delivery[n].st = "wire" /\ shown[Target(n)] # Unknown
     /\ shown' = [shown EXCEPT ![Target(n)] = n]

Delivers(n) ==
  \/ Begins(n) \/ Waits(n) \/ TimesOut(n) \/ Misses(n) \/ Drops(n) \/ Finds(n)
  \/ Sends(n) \/ Retries(n) \/ Ends(n)

\* The new record of one delivery, everything else being equal.
LEMMA OneDelivery ==
  ASSUME EditTypeOK, NEW n \in Events, NEW d \in DeliveryRec,
         delivery' = [delivery EXCEPT ![n] = d], UNCHANGED <<event, batch>>
  PROVE  /\ delivery' \in [Events -> DeliveryRec]
         /\ delivery'[n] = d
         /\ OthersStay(n)
  BY DEF EditTypeOK, OthersStay

LEMMA LeaveTypes ==
  ASSUME EditTypeOK, NEW n \in Events, AtHead(n),
         chain' = [chain EXCEPT ![Target(n)] = Tail(@)]
  PROVE  chain' \in [Targets -> Seq(Events)] /\ Leaves(n)
  <1>1. Target(n) \in Targets
    BY EventTypes DEF EditTypeOK, Target, EventRec
  <1>2. chain[Target(n)] \in Seq(Events) /\ chain[Target(n)] # <<>>
    BY <1>1 DEF EditTypeOK, AtHead
  <1>3. Tail(chain[Target(n)]) \in Seq(Events)
    BY <1>2
  <1> QED BY <1>1, <1>3 DEF EditTypeOK, Leaves

\* A step that leaves the chain with a last word.
LEMMA LeaveMoves ==
  ASSUME EditBase, NEW n \in Events, delivery[n].st \in {"waiting", "ready", "wire"},
         NEW why \in {"keyless", "dropped", "abandoned", "failed", "delivered"},
         Leave(n, why), UNCHANGED <<event, batch, editedAt, order, forgotten>>
  PROVE  /\ delivery' \in [Events -> DeliveryRec]
         /\ delivery'[n].st = why /\ Keeps(n)
         /\ chain' \in [Targets -> Seq(Events)] /\ Leaves(n)
         /\ Moves(n) /\ ClaimsNothing
  <1>1. AtHead(n)
    BY DEF EditBase, Heads
  <1>2. chain' \in [Targets -> Seq(Events)] /\ Leaves(n)
    BY <1>1, LeaveTypes DEF EditBase, Leave
  <1>3. delivery[n] \in DeliveryRec
    BY DEF EditBase, EditTypeOK
  <1>4. [delivery[n] EXCEPT !.st = why] \in DeliveryRec
    BY <1>3, DeliveryUpdates
  <1>5. delivery' = [delivery EXCEPT ![n] = [delivery[n] EXCEPT !.st = why]]
    BY DEF Leave
  <1>6. /\ delivery' \in [Events -> DeliveryRec]
        /\ delivery'[n] = [delivery[n] EXCEPT !.st = why]
        /\ OthersStay(n)
    BY <1>4, <1>5, OneDelivery DEF EditBase
  <1>7. delivery'[n].st = why /\ Keeps(n)
    BY <1>3, <1>6 DEF DeliveryRec, Keeps
  <1> QED BY <1>2, <1>6, <1>7 DEF Moves, ChainMoves, PositionsMove, ClaimsNothing

LEMMA DeliveryStep ==
  ASSUME EditBase, NEW n \in Events,
         \/ StartDelivery(n) \/ IntakeTimesOut(n) \/ RecallMisses(n) \/ RecallFinds(n)
         \/ Attempt(n) \/ EditLands(n) \/ EditRefused(n)
  PROVE  /\ EditTypeOK'
         /\ UNCHANGED <<arrived, batch, intake, filed>>
         /\ Moves(n) /\ Delivers(n) /\ Shows(n)
  <1>1. delivery[n] \in DeliveryRec /\ Target(n) \in Targets /\ EditTypeOK
        /\ intake \in SUBSET Nat
    BY EventTypes DEF EditBase, EditTypeOK, Target, EventRec
  <1>2. UNCHANGED <<event, arrived, batch, intake, filed>>
    BY DEF StartDelivery, IntakeTimesOut, RecallMisses, RecallFinds, Attempt, EditLands,
           EditRefused
  <1>3. Shows(n) /\ shown' \in [Targets -> Events \cup {0, Unknown}]
    BY <1>1 DEF StartDelivery, IntakeTimesOut, RecallMisses, RecallFinds, Attempt, EditLands,
           EditRefused, Shows, EditTypeOK
  <1> DEFINE Goal == /\ delivery' \in [Events -> DeliveryRec]
                     /\ chain' \in [Targets -> Seq(Events)]
                     /\ editedAt' \in [Targets -> Events \cup {0}]
                     /\ Moves(n) /\ Delivers(n)
  <1>4. ASSUME StartDelivery(n) PROVE Goal
    <2>1. Stays /\ editedAt' = editedAt /\ delivery[n].st = "queued" /\ AtHead(n)
      BY <1>4 DEF StartDelivery, Stays, ClaimsNothing
    <2>2. CASE event[n].kind = "plain"
      <3>1. [delivery[n] EXCEPT !.st = "ready", !.claimed = TRUE] \in DeliveryRec
        BY <1>1, DeliveryUpdates
      <3>2. delivery' = [delivery EXCEPT ![n] = [delivery[n] EXCEPT !.st = "ready", !.claimed = TRUE]]
        BY <1>4, <2>2 DEF StartDelivery
      <3>3. /\ delivery' \in [Events -> DeliveryRec] /\ OthersStay(n)
            /\ delivery'[n] = [delivery[n] EXCEPT !.st = "ready", !.claimed = TRUE]
        BY <1>1, <1>2, <3>1, <3>2, OneDelivery
      <3>4. delivery'[n].st = "ready" /\ delivery'[n].claimed
        BY <1>1, <3>3 DEF DeliveryRec
      <3>5. Begins(n)
        BY <1>4, <2>1, <2>2, <3>4 DEF Begins, Turns, StartDelivery
      <3> QED BY <1>1, <1>2, <2>1, <3>3, <3>5
              DEF Moves, ChainMoves, PositionsMove, Stays, Delivers, EditTypeOK
    <2>3. CASE event[n].kind # "plain"
      <3>1. [delivery[n] EXCEPT !.st = "waiting", !.waits = intake] \in DeliveryRec
        BY <1>1, DeliveryUpdates
      <3>2. delivery' = [delivery EXCEPT ![n] = [delivery[n] EXCEPT !.st = "waiting", !.waits = intake]]
        BY <1>4, <2>3 DEF StartDelivery
      <3>3. /\ delivery' \in [Events -> DeliveryRec] /\ OthersStay(n)
            /\ delivery'[n] = [delivery[n] EXCEPT !.st = "waiting", !.waits = intake]
        BY <1>1, <1>2, <3>1, <3>2, OneDelivery
      <3>4. delivery'[n].st = "waiting" /\ delivery'[n].waits = intake /\ Keeps(n)
        BY <1>1, <3>3 DEF DeliveryRec, Keeps
      <3>5. inFlightWebhooks' = inFlightWebhooks + 0
        BY <1>1, <1>4, <2>3 DEF StartDelivery, EditTypeOK
      <3>6. Waits(n)
        BY <2>1, <2>3, <3>4, <3>5 DEF Waits, Turns
      <3> QED BY <1>1, <1>2, <2>1, <3>3, <3>6
              DEF Moves, ChainMoves, PositionsMove, Stays, Delivers, EditTypeOK
    <2> QED BY <2>2, <2>3
  <1>5. ASSUME IntakeTimesOut(n) PROVE Goal
    <2>1. Stays /\ editedAt' = editedAt /\ delivery[n].st = "waiting"
          /\ inFlightWebhooks' = inFlightWebhooks
      BY <1>5 DEF IntakeTimesOut, Stays, ClaimsNothing
    <2>2. [delivery[n] EXCEPT !.late = TRUE] \in DeliveryRec
      BY <1>1, DeliveryUpdates
    <2>3. delivery' = [delivery EXCEPT ![n] = [delivery[n] EXCEPT !.late = TRUE]]
      BY <1>5 DEF IntakeTimesOut
    <2>4. /\ delivery' \in [Events -> DeliveryRec] /\ OthersStay(n)
          /\ delivery'[n] = [delivery[n] EXCEPT !.late = TRUE]
      BY <1>1, <1>2, <2>2, <2>3, OneDelivery
    <2>5. /\ delivery'[n].st = delivery[n].st /\ delivery'[n].late
          /\ delivery'[n].waits = delivery[n].waits /\ delivery'[n].claimed = delivery[n].claimed
      BY <1>1, <2>4 DEF DeliveryRec
    <2>6. TimesOut(n)
      BY <1>1, <2>1, <2>5 DEF TimesOut, Turns, EditTypeOK
    <2> QED BY <1>1, <1>2, <2>1, <2>4, <2>6
            DEF Moves, ChainMoves, PositionsMove, Stays, Delivers, EditTypeOK
  <1>6. ASSUME RecallMisses(n) PROVE Goal
    <2>1. UNCHANGED <<event, batch, editedAt, order, forgotten>> /\ IntakeOver(n)
          /\ delivery[n].st = "waiting" /\ inFlightWebhooks' = inFlightWebhooks + -1
      BY <1>1, <1>6 DEF RecallMisses, IntakeOver, Uncount, Reservation, EditTypeOK
    <2>2. CASE Target(n) \notin filed /\ Leave(n, "keyless")
      <3>1. /\ delivery' \in [Events -> DeliveryRec]
            /\ delivery'[n].st = "keyless" /\ Keeps(n)
            /\ chain' \in [Targets -> Seq(Events)] /\ Leaves(n)
            /\ Moves(n) /\ ClaimsNothing
        BY <2>1, <2>2, LeaveMoves
      <3>2. Misses(n)
        BY <2>1, <2>2, <3>1 DEF Misses, Turns
      <3> QED BY <1>1, <2>1, <3>1, <3>2 DEF Delivers, EditTypeOK
    <2>3. CASE Leave(n, "dropped")
      <3>1. /\ delivery' \in [Events -> DeliveryRec]
            /\ delivery'[n].st = "dropped" /\ Keeps(n)
            /\ chain' \in [Targets -> Seq(Events)] /\ Leaves(n)
            /\ Moves(n) /\ ClaimsNothing
        BY <2>1, <2>3, LeaveMoves
      <3>2. Drops(n)
        BY <2>1, <3>1 DEF Drops, Turns
      <3> QED BY <1>1, <2>1, <3>1, <3>2 DEF Delivers, EditTypeOK
    <2> QED BY <1>6, <2>2, <2>3 DEF RecallMisses
  <1>7. ASSUME RecallFinds(n) PROVE Goal
    <2>1. delivery[n].st = "waiting"
      BY <1>7 DEF RecallFinds, IntakeOver
    <2>2. CASE Superseded(n)
      <3>1. UNCHANGED <<event, batch, editedAt, order, forgotten>> /\ Leave(n, "dropped")
        BY <1>2, <1>7, <2>2 DEF RecallFinds, ClaimsNothing
      <3>2. inFlightWebhooks' = inFlightWebhooks + -1
        BY <1>1, <1>7, <2>2 DEF RecallFinds, Uncount, Reservation, EditTypeOK
      <3>3. /\ delivery' \in [Events -> DeliveryRec]
            /\ delivery'[n].st = "dropped" /\ Keeps(n)
            /\ chain' \in [Targets -> Seq(Events)] /\ Leaves(n)
            /\ Moves(n) /\ ClaimsNothing
        BY <2>1, <3>1, LeaveMoves
      <3>4. Drops(n)
        BY <2>1, <3>2, <3>3 DEF Drops, Turns
      <3> QED BY <1>1, <3>1, <3>3, <3>4 DEF Delivers, EditTypeOK
    <2>3. CASE ~Superseded(n)
      <3>1. ClaimPosition(n) /\ UNCHANGED chain /\ inFlightWebhooks' = inFlightWebhooks + 1
        BY <1>7, <2>3 DEF RecallFinds
      <3>2. [delivery[n] EXCEPT !.st = "ready", !.claimed = TRUE] \in DeliveryRec
        BY <1>1, DeliveryUpdates
      <3>3. delivery' = [delivery EXCEPT ![n] = [delivery[n] EXCEPT !.st = "ready", !.claimed = TRUE]]
        BY <1>7, <2>3 DEF RecallFinds
      <3>4. /\ delivery' \in [Events -> DeliveryRec] /\ OthersStay(n)
            /\ delivery'[n] = [delivery[n] EXCEPT !.st = "ready", !.claimed = TRUE]
        BY <1>1, <1>2, <3>2, <3>3, OneDelivery
      <3>5. delivery'[n].st = "ready" /\ delivery'[n].claimed
        BY <1>1, <3>4 DEF DeliveryRec
      <3>6. \A k \in Events \ {n} : ~(delivery[k].st = "wire" /\ Target(k) = Target(n))
        BY <2>1 DEF EditBase, Heads, AtHead
      <3>7. Claims(n)
        BY <2>3, <3>1, <3>6 DEF Claims
      <3>8. Finds(n)
        BY <2>1, <3>1, <3>5, <3>7 DEF Finds, Turns
      <3>9. editedAt' \in [Targets -> Events \cup {0}]
        BY <1>1, <3>1, ClaimEffect
      <3> QED BY <1>1, <1>2, <3>1, <3>4, <3>7, <3>8, <3>9
              DEF Moves, ChainMoves, PositionsMove, Delivers, EditTypeOK
    <2> QED BY <2>2, <2>3
  <1>8. ASSUME Attempt(n) PROVE Goal
    <2>1. /\ UNCHANGED <<event, batch, editedAt, order, forgotten>> /\ ClaimsNothing
          /\ delivery[n].st = "ready"
      BY <1>8 DEF Attempt, ClaimsNothing
    <2>2. CASE StillWanted(n)
      <3>1. [delivery[n] EXCEPT !.st = "wire"] \in DeliveryRec
        BY <1>1, DeliveryUpdates
      <3>2. delivery' = [delivery EXCEPT ![n] = [delivery[n] EXCEPT !.st = "wire"]]
            /\ UNCHANGED <<chain, inFlightWebhooks>>
        BY <1>8, <2>2 DEF Attempt
      <3>3. /\ delivery' \in [Events -> DeliveryRec] /\ OthersStay(n)
            /\ delivery'[n] = [delivery[n] EXCEPT !.st = "wire"]
        BY <1>1, <1>2, <3>1, <3>2, OneDelivery
      <3>4. delivery'[n].st = "wire" /\ Keeps(n)
        BY <1>1, <3>3 DEF DeliveryRec, Keeps
      <3>5. Sends(n)
        BY <1>1, <2>1, <2>2, <3>2, <3>4 DEF Sends, Turns, Stays, StillWanted, EditTypeOK
      <3> QED BY <1>1, <1>2, <2>1, <3>2, <3>3, <3>5
              DEF Moves, ChainMoves, PositionsMove, Delivers, EditTypeOK
    <2>3. CASE ~StillWanted(n)
      <3>1. Leave(n, "abandoned") /\ inFlightWebhooks' = inFlightWebhooks + -2
        BY <1>1, <1>8, <2>3 DEF Attempt, Uncount, Reservation, EditTypeOK
      <3>2. /\ delivery' \in [Events -> DeliveryRec]
            /\ delivery'[n].st = "abandoned" /\ Keeps(n)
            /\ chain' \in [Targets -> Seq(Events)] /\ Leaves(n)
            /\ Moves(n) /\ ClaimsNothing
        BY <2>1, <3>1, LeaveMoves
      <3>3. Ends(n)
        BY <2>1, <3>1, <3>2 DEF Ends, Turns
      <3> QED BY <1>1, <2>1, <3>2, <3>3 DEF Delivers, EditTypeOK
    <2> QED BY <2>2, <2>3
  <1>9. ASSUME EditLands(n) PROVE Goal
    <2>1. /\ UNCHANGED <<event, batch, editedAt, order, forgotten>>
          /\ delivery[n].st = "wire" /\ Leave(n, "delivered")
          /\ inFlightWebhooks' = inFlightWebhooks + -2
      BY <1>1, <1>9 DEF EditLands, Uncount, Reservation, EditTypeOK
    <2>2. /\ delivery' \in [Events -> DeliveryRec]
          /\ delivery'[n].st = "delivered" /\ Keeps(n)
          /\ chain' \in [Targets -> Seq(Events)] /\ Leaves(n)
          /\ Moves(n) /\ ClaimsNothing
      BY <2>1, LeaveMoves
    <2>3. Ends(n)
      BY <2>1, <2>2 DEF Ends, Turns
    <2> QED BY <1>1, <2>1, <2>2, <2>3 DEF Delivers, EditTypeOK
  <1>10. ASSUME EditRefused(n) PROVE Goal
    <2>1. /\ UNCHANGED <<event, batch, editedAt, order, forgotten>> /\ ClaimsNothing
          /\ delivery[n].st = "wire"
      BY <1>10 DEF EditRefused, ClaimsNothing
    <2>2. CASE delivery[n].tries < MaxRetries
      <3>1. [delivery[n] EXCEPT !.st = "ready", !.tries = @ + 1] \in DeliveryRec
        BY <1>1, DeliveryUpdates
      <3>2. /\ delivery' = [delivery EXCEPT ![n] = [delivery[n] EXCEPT !.st = "ready", !.tries = @ + 1]]
            /\ UNCHANGED <<chain, inFlightWebhooks>>
        BY <1>10, <2>2 DEF EditRefused, RetryEdit
      <3>3. /\ delivery' \in [Events -> DeliveryRec] /\ OthersStay(n)
            /\ delivery'[n] = [delivery[n] EXCEPT !.st = "ready", !.tries = @ + 1]
        BY <1>1, <1>2, <3>1, <3>2, OneDelivery
      <3>4. delivery'[n].st = "ready" /\ Keeps(n)
        BY <1>1, <3>3 DEF DeliveryRec, Keeps
      <3>5. Retries(n)
        BY <1>1, <2>1, <3>2, <3>4 DEF Retries, Turns, Stays, EditTypeOK
      <3> QED BY <1>1, <1>2, <2>1, <3>2, <3>3, <3>5
              DEF Moves, ChainMoves, PositionsMove, Delivers, EditTypeOK
    <2>3. CASE ~(delivery[n].tries < MaxRetries)
      <3>1. Leave(n, "failed") /\ inFlightWebhooks' = inFlightWebhooks + -2
        BY <1>1, <1>10, <2>3 DEF EditRefused, RetryEdit, Uncount, Reservation, EditTypeOK
      <3>2. /\ delivery' \in [Events -> DeliveryRec]
            /\ delivery'[n].st = "failed" /\ Keeps(n)
            /\ chain' \in [Targets -> Seq(Events)] /\ Leaves(n)
            /\ Moves(n) /\ ClaimsNothing
        BY <2>1, <3>1, LeaveMoves
      <3>3. Ends(n)
        BY <2>1, <3>1, <3>2 DEF Ends, Turns
      <3> QED BY <1>1, <2>1, <3>2, <3>3 DEF Delivers, EditTypeOK
    <2> QED BY <2>2, <2>3
  <1>11. Goal
    BY <1>4, <1>5, <1>6, <1>7, <1>8, <1>9, <1>10
  <1>12. inFlightWebhooks' \in Int
    BY <1>1, <1>11 DEF Delivers, Begins, Waits, TimesOut, Misses, Drops, Finds, Sends, Retries,
       Ends, Turns, EditTypeOK
  <1>13. event' \in Traffic /\ arrived' \in Nat /\ batch' \in [Events -> BatchRec]
         /\ intake' \subseteq Events /\ filed' \subseteq Targets /\ Events' = Events
    BY <1>1, <1>2 DEF EditTypeOK, Events
  <1> QED BY <1>2, <1>3, <1>11, <1>12, <1>13 DEF EditTypeOK

-----------------------------------------------------------------------------
(* The steps of an event: its arrival, its batch *)

\* What an event contributes to inFlightWebhooks: its upsert once, its edit once by
\* the reservation and once more while sendToWebhook has it.
BatchWeight(st) == IF st \in {"addressing", "filing", "ready"} THEN 1 ELSE 0
EditWeight(st) ==
  IF st \in {"queued", "waiting"} THEN 1 ELSE IF st \in {"ready", "wire"} THEN 2 ELSE 0

Counts(n) ==
  inFlightWebhooks' = inFlightWebhooks
                        + (BatchWeight(batch'[n].st) - BatchWeight(batch[n].st))
                        + (EditWeight(delivery'[n].st) - EditWeight(delivery[n].st))

\* The batch keeps what is in it.
BatchKeeps(n) == batch'[n].body = batch[n].body /\ batch'[n].stored = batch[n].stored

Dumped(n) ==
  /\ batch[n].st = "none" /\ batch'[n].st = "addressing" /\ BatchKeeps(n)
  /\ delivery[n].st = "none"
  /\ intake' = intake \cup {n} /\ UNCHANGED delivery /\ Stays
  /\ event[n].kind = "dump"

PlainOld(n) == UNCHANGED <<batch, intake, delivery>> /\ Stays

PlainNew(n) ==
  /\ event[n].kind = "plain"
  /\ delivery[n].st = "none" /\ delivery'[n].st = "queued" /\ Keeps(n)
  /\ Claims(n) /\ Enqueue(n) /\ UNCHANGED <<batch, intake>>

Handled(n) ==
  /\ event[n].kind # "plain"
  /\ batch[n].st \in {"none", "addressing"} /\ delivery[n].st = "none"
  /\ batch'[n].st \in {"filing", "done"} /\ batch'[n].stored = batch[n].stored
  /\ batch'[n].st = "filing" => n \in intake'
  /\ intake \ {n} \subseteq intake'
  /\ \/ Repaired(n) \/ LeftOver(n) \/ Untouched(n)
  /\ delivery'[n] = delivery[n] \/ (delivery'[n].st = "queued" /\ Keeps(n))

Filed(n) ==
  /\ batch[n].st = "filing" /\ batch'[n].st = "ready" /\ batch'[n].body = batch[n].body
  /\ batch'[n].stored => batch[n].stored \/ Target(n) \in filed'
  /\ filed \subseteq filed' /\ intake' = intake \ {n}
  /\ UNCHANGED <<arrived, delivery, shown>> /\ Stays

Landed(n) ==
  /\ batch[n].st = "ready" /\ batch'[n].st \in {"ready", "done"} /\ BatchKeeps(n)
  /\ UNCHANGED <<arrived, intake, filed, delivery>> /\ Stays
  /\ \/ UNCHANGED shown
     \/ /\ shown[Target(n)] = Unknown
        /\ shown' = [shown EXCEPT ![Target(n)] = batch[n].body]

\* The new record of one batch, everything else being equal.
LEMMA OneBatch ==
  ASSUME EditTypeOK, NEW n \in Events, NEW b \in BatchRec,
         batch' = [batch EXCEPT ![n] = b], UNCHANGED <<event, delivery>>
  PROVE  /\ batch' \in [Events -> BatchRec]
         /\ batch'[n] = b
         /\ OthersStay(n)
  BY DEF EditTypeOK, OthersStay

LEMMA BatchStep ==
  ASSUME EditBase, NEW n \in Events, FileSecrets(n) \/ BatchLands(n)
  PROVE  EditTypeOK' /\ Moves(n) /\ Counts(n) /\ (Filed(n) \/ Landed(n))
  <1>1. /\ EditTypeOK /\ batch[n] \in BatchRec /\ Target(n) \in Targets
        /\ batch[n].body \in {0, n}
    BY EventTypes DEF EditBase, EditTypeOK, Bodies, Target, EventRec
  <1>2. UNCHANGED <<event, arrived, delivery, chain>> /\ Stays
    BY DEF FileSecrets, BatchLands, Stays, ClaimsNothing
  <1>3. CASE FileSecrets(n)
    <2>1. PICK b \in BatchRec :
            /\ batch' = [batch EXCEPT ![n] = b]
            /\ b.st = "ready" /\ b.body = batch[n].body
            /\ b.stored => batch[n].stored \/ Target(n) \in filed'
      <3>1. CASE /\ filed' = filed \cup {Target(n)}
                 /\ batch' = [batch EXCEPT ![n].st = "ready", ![n].stored = TRUE]
        <4>1. [batch[n] EXCEPT !.st = "ready", !.stored = TRUE] \in BatchRec
          BY <1>1, BatchUpdates
        <4>2. batch' = [batch EXCEPT ![n] = [batch[n] EXCEPT !.st = "ready", !.stored = TRUE]]
          BY <3>1
        <4>3. /\ [batch[n] EXCEPT !.st = "ready", !.stored = TRUE].st = "ready"
              /\ [batch[n] EXCEPT !.st = "ready", !.stored = TRUE].body = batch[n].body
          BY <1>1 DEF BatchRec
        <4> QED BY <3>1, <4>1, <4>2, <4>3
      <3>2. CASE batch' = [batch EXCEPT ![n].st = "ready"]
        <4>1. [batch[n] EXCEPT !.st = "ready"] \in BatchRec
          BY <1>1, BatchUpdates
        <4>2. batch' = [batch EXCEPT ![n] = [batch[n] EXCEPT !.st = "ready"]]
          BY <3>2
        <4>3. /\ [batch[n] EXCEPT !.st = "ready"].st = "ready"
              /\ [batch[n] EXCEPT !.st = "ready"].body = batch[n].body
              /\ [batch[n] EXCEPT !.st = "ready"].stored = batch[n].stored
          BY <1>1 DEF BatchRec
        <4> QED BY <4>1, <4>2, <4>3
      <3> QED BY <1>3, <3>1, <3>2 DEF FileSecrets
    <2>2. batch' \in [Events -> BatchRec] /\ batch'[n] = b /\ OthersStay(n)
      BY <1>1, <1>2, <2>1, OneBatch
    <2>3. /\ batch[n].st = "filing" /\ intake' = intake \ {n}
          /\ inFlightWebhooks' = inFlightWebhooks
          /\ filed \subseteq filed' /\ filed' \subseteq Targets /\ shown' = shown
      BY <1>1, <1>3 DEF FileSecrets, EditTypeOK
    <2>4. Filed(n)
      BY <1>2, <2>1, <2>2, <2>3 DEF Filed
    <2>5. Counts(n)
      BY <1>1, <1>2, <2>1, <2>2, <2>3 DEF Counts, BatchWeight, EditWeight, EditTypeOK
    <2> QED BY <1>1, <1>2, <2>2, <2>3, <2>4, <2>5
            DEF EditTypeOK, Moves, ChainMoves, PositionsMove, Stays, ClaimsNothing, Events
  <1>4. CASE BatchLands(n)
    <2>1. PICK b \in BatchRec :
            /\ batch' = [batch EXCEPT ![n] = b]
            /\ b.st \in {"ready", "done"} /\ b.body = batch[n].body /\ b.stored = batch[n].stored
            /\ inFlightWebhooks' = inFlightWebhooks - (IF b.st = "done" THEN 1 ELSE 0)
      <3>1. CASE BatchDone(n)
        <4>1. [batch[n] EXCEPT !.st = "done"] \in BatchRec
          BY <1>1, BatchUpdates
        <4>2. batch' = [batch EXCEPT ![n] = [batch[n] EXCEPT !.st = "done"]]
              /\ inFlightWebhooks' = inFlightWebhooks - 1
          BY <3>1 DEF BatchDone
        <4>3. /\ [batch[n] EXCEPT !.st = "done"].st = "done"
              /\ [batch[n] EXCEPT !.st = "done"].body = batch[n].body
              /\ [batch[n] EXCEPT !.st = "done"].stored = batch[n].stored
          BY <1>1 DEF BatchRec
        <4> QED BY <4>1, <4>2, <4>3
      <3>2. CASE /\ batch' = [batch EXCEPT ![n].st = "ready", ![n].tries = @ + 1]
                 /\ UNCHANGED inFlightWebhooks
        <4>1. [batch[n] EXCEPT !.st = "ready", !.tries = @ + 1] \in BatchRec
          BY <1>1, BatchUpdates
        <4>2. batch' = [batch EXCEPT ![n] = [batch[n] EXCEPT !.st = "ready", !.tries = @ + 1]]
          BY <3>2
        <4>3. /\ [batch[n] EXCEPT !.st = "ready", !.tries = @ + 1].st = "ready"
              /\ [batch[n] EXCEPT !.st = "ready", !.tries = @ + 1].body = batch[n].body
              /\ [batch[n] EXCEPT !.st = "ready", !.tries = @ + 1].stored = batch[n].stored
          BY <1>1 DEF BatchRec
        <4>4. inFlightWebhooks' = inFlightWebhooks - 0
          BY <1>1, <3>2 DEF EditTypeOK
        <4> QED BY <4>1, <4>2, <4>3, <4>4
      <3> QED BY <1>4, <3>1, <3>2 DEF BatchLands, RetryBatch
    <2>2. batch' \in [Events -> BatchRec] /\ batch'[n] = b /\ OthersStay(n)
      BY <1>1, <1>2, <2>1, OneBatch
    <2>3. /\ batch[n].st = "ready" /\ UNCHANGED <<intake, filed>>
          /\ \/ UNCHANGED shown
             \/ /\ shown[Target(n)] = Unknown
                /\ shown' = [shown EXCEPT ![Target(n)] = batch[n].body]
             \/ shown' = [shown EXCEPT ![Target(n)] = @]
      BY <1>4 DEF BatchLands
    <2>4. [shown EXCEPT ![Target(n)] = shown[Target(n)]] = shown
      BY <1>1 DEF EditTypeOK
    <2>5. Landed(n)
      BY <1>2, <2>1, <2>2, <2>3, <2>4 DEF Landed, BatchKeeps
    <2>6. Counts(n)
      BY <1>1, <1>2, <2>1, <2>2, <2>3 DEF Counts, BatchWeight, EditWeight, EditTypeOK
    <2>7. shown' \in [Targets -> Events \cup {0, Unknown}]
      BY <1>1, <2>3, <2>4 DEF EditTypeOK
    <2>8. inFlightWebhooks' \in Int
      BY <1>1, <2>1 DEF EditTypeOK
    <2>9. EditTypeOK'
      BY <1>1, <1>2, <2>2, <2>3, <2>7, <2>8 DEF EditTypeOK, Stays, ClaimsNothing, Events
    <2> QED BY <1>1, <1>2, <2>2, <2>5, <2>6, <2>9
            DEF Moves, ChainMoves, PositionsMove, Stays
  <1> QED BY <1>3, <1>4

LEMMA ArrivalStep ==
  ASSUME EditBase, NEW n \in Events,
         HandleUpsert(n) \/ HandleHistory(n) \/ HandlePlain(n) \/ Addressed(n)
  PROVE  /\ EditTypeOK' /\ Moves(n) /\ Counts(n)
         /\ UNCHANGED <<filed, shown>>
         /\ n <= arrived' /\ arrived <= arrived'
         /\ n > arrived \/ batch[n].st = "addressing"
         /\ Dumped(n) \/ PlainOld(n) \/ PlainNew(n) \/ Handled(n)
  <1>1. /\ EditTypeOK /\ batch[n] \in BatchRec /\ delivery[n] \in DeliveryRec
        /\ Target(n) \in Targets /\ n \in Nat /\ arrived \in Nat
        /\ event[n].orig \in BOOLEAN
    BY EventTypes DEF EditBase, EditTypeOK, Target, EventRec
  <1>2. UNCHANGED <<event, filed, shown>>
    BY DEF HandleUpsert, HandleHistory, HandlePlain, Addressed
  <1>3. ASSUME HandleUpsert(n) \/ HandleHistory(n) \/ HandlePlain(n)
        PROVE  arrived' = n /\ n > arrived /\ batch[n].st = "none" /\ delivery[n].st = "none"
    BY <1>1, <1>3 DEF HandleUpsert, HandleHistory, HandlePlain, Arrives, EditBase, Ahead
  <1>4. ASSUME HandleUpsert(n) \/ Addressed(n)
        PROVE  /\ EditTypeOK' /\ Moves(n) /\ Counts(n) /\ Handled(n)
               /\ n <= arrived' /\ arrived <= arrived'
    <2>1. PICK opens \in BOOLEAN, windows \in SUBSET Events, counted \in Int :
            /\ Repair(n, opens, windows, counted)
            /\ intake \subseteq windows /\ n \in windows
            /\ counted = inFlightWebhooks + 1 - BatchWeight(batch[n].st)
            /\ batch[n].st \in {"none", "addressing"}
      <3>1. CASE HandleUpsert(n)
        <4>1. event[n].kind = "live" /\ batch[n].st = "none"
          BY <1>3, <3>1 DEF HandleUpsert, Arrives
        <4>2. PICK opens \in BOOLEAN : Repair(n, opens, intake \cup {n}, inFlightWebhooks + 1)
          BY <3>1, <4>1 DEF HandleUpsert, OpenWindow
        <4>3. inFlightWebhooks + 1 = inFlightWebhooks + 1 - BatchWeight(batch[n].st)
          BY <1>1, <4>1 DEF BatchWeight, EditTypeOK
        <4>4. intake \cup {n} \in SUBSET Events /\ inFlightWebhooks + 1 \in Int
          BY <1>1 DEF EditTypeOK
        <4> QED BY <4>1, <4>2, <4>3, <4>4
      <3>2. CASE Addressed(n)
        <4>1. batch[n].st = "addressing" /\ n \in intake
          BY <3>2 DEF Addressed, EditBase, Windows
        <4>2. PICK opens \in BOOLEAN : Repair(n, opens, intake, inFlightWebhooks)
          BY <3>2 DEF Addressed
        <4>3. inFlightWebhooks = inFlightWebhooks + 1 - BatchWeight(batch[n].st)
          BY <1>1, <4>1 DEF BatchWeight, EditTypeOK
        <4> QED BY <1>1, <4>1, <4>2, <4>3 DEF EditTypeOK
      <3> QED BY <1>4, <3>1, <3>2
    <2>2. /\ delivery[n].st = "none" /\ event[n].kind # "plain"
          /\ n <= arrived' /\ arrived <= arrived' /\ arrived' \in Nat
      <3>1. CASE HandleUpsert(n)
        BY <1>1, <1>3, <3>1 DEF HandleUpsert, Arrives
      <3>2. CASE Addressed(n)
        BY <1>1, <3>2 DEF Addressed, EditBase, Ahead
      <3> QED BY <1>4, <3>1, <3>2
    <2>3. /\ batch' \in [Events -> BatchRec]
          /\ \A k \in Events \ {n} : batch'[k] = batch[k]
          /\ batch'[n].st = (IF event[n].orig THEN "filing" ELSE "done")
          /\ batch'[n].stored = batch[n].stored
          /\ intake' = (IF event[n].orig THEN windows ELSE windows \ {n})
          /\ \/ Repaired(n) /\ inFlightWebhooks' = counted + (IF event[n].orig THEN 0 ELSE -1)
             \/ LeftOver(n) /\ inFlightWebhooks' = counted + (IF event[n].orig THEN 1 ELSE 0)
             \/ Untouched(n) /\ inFlightWebhooks' = counted + (IF event[n].orig THEN 0 ELSE -1)
      <3>1. Repair(n, opens, windows, counted)
        BY <2>1
      <3> QED BY <1>1, <3>1, RepairEffect
    <2>4. /\ delivery' \in [Events -> DeliveryRec]
          /\ chain' \in [Targets -> Seq(Events)]
          /\ editedAt' \in [Targets -> Events \cup {0}]
          /\ Moves(n)
      BY <1>1, <1>2, <2>2, <2>3, OutcomeMoves
    <2>5. \/ delivery'[n] = delivery[n]
          \/ LeftOver(n) /\ delivery'[n] = [delivery[n] EXCEPT !.st = "queued"]
      <3>1. CASE Repaired(n)
        <4>1. delivery'[n] = delivery[n]
          BY <2>2, <3>1 DEF Repaired, Overtaken
        <4> QED BY <4>1
      <3>2. CASE LeftOver(n)
        BY <1>1, <3>2 DEF LeftOver, EditTypeOK
      <3>3. CASE Untouched(n)
        BY <3>3 DEF Untouched
      <3> QED BY <2>3, <3>1, <3>2, <3>3
    <2>6. delivery'[n] = delivery[n] \/ (delivery'[n].st = "queued" /\ Keeps(n))
      BY <1>1, <2>5 DEF Keeps, DeliveryRec
    <2>7. Handled(n)
      BY <2>1, <2>2, <2>3, <2>6 DEF Handled
    <2>8. Counts(n)
      <3>1. LeftOver(n) => delivery'[n].st = "queued"
        BY <1>1 DEF LeftOver, EditTypeOK, DeliveryRec
      <3>2. Repaired(n) \/ Untouched(n) => delivery'[n].st = "none"
        BY <2>2 DEF Repaired, Untouched, Overtaken
      <3>3. EditWeight(delivery[n].st) = 0 /\ EditWeight("queued") = 1
        BY <2>2 DEF EditWeight
      <3>4. BatchWeight(batch'[n].st) = (IF event[n].orig THEN 1 ELSE 0)
        BY <2>3 DEF BatchWeight
      <3>5. BatchWeight(batch[n].st) \in Int
        BY DEF BatchWeight
      <3>6. inFlightWebhooks \in Int
        BY <1>1 DEF EditTypeOK
      <3>7. CASE LeftOver(n)
        <4>1. inFlightWebhooks' = counted + (IF event[n].orig THEN 1 ELSE 0)
          <5>1. ~ Repaired(n) /\ ~ Untouched(n)
            BY <3>1, <3>2, <3>7
          <5> QED BY <2>3, <5>1
        <4> QED BY <2>1, <3>1, <3>3, <3>4, <3>5, <3>6, <3>7, <4>1 DEF Counts
      <3>8. CASE ~ LeftOver(n)
        <4>1. delivery'[n].st = "none"
              /\ inFlightWebhooks' = counted + (IF event[n].orig THEN 0 ELSE -1)
          BY <2>3, <3>2, <3>8
        <4>2. EditWeight(delivery'[n].st) = 0
          BY <4>1 DEF EditWeight
        <4> QED BY <2>1, <3>3, <3>4, <3>5, <3>6, <4>1, <4>2 DEF Counts
      <3> QED BY <3>7, <3>8
    <2>9. intake' \subseteq Events /\ inFlightWebhooks' \in Int /\ filed' \subseteq Targets
      BY <1>1, <1>2, <2>1, <2>3 DEF EditTypeOK
    <2>10. event' \in Traffic /\ Events' = Events /\ shown' \in [Targets -> Events \cup {0, Unknown}]
      BY <1>1, <1>2 DEF EditTypeOK, Events
    <2>11. EditTypeOK'
      BY <2>2, <2>3, <2>4, <2>9, <2>10 DEF EditTypeOK
    <2> QED BY <2>2, <2>4, <2>7, <2>8, <2>11
  <1>5. ASSUME HandleHistory(n)
        PROVE  EditTypeOK' /\ Moves(n) /\ Counts(n) /\ Dumped(n)
    <2>1. /\ intake' = intake \cup {n} /\ batch' = [batch EXCEPT ![n].st = "addressing"]
          /\ event[n].kind = "dump"
          /\ inFlightWebhooks' = inFlightWebhooks + 1
          /\ UNCHANGED <<event, delivery, chain, filed, shown>> /\ Stays
      BY <1>5 DEF HandleHistory, Arrives, OpenWindow, Stays
    <2>2. [batch[n] EXCEPT !.st = "addressing"] \in BatchRec
      BY <1>1, BatchUpdates
    <2>3. batch' = [batch EXCEPT ![n] = [batch[n] EXCEPT !.st = "addressing"]]
      BY <2>1
    <2>4. /\ batch' \in [Events -> BatchRec] /\ OthersStay(n)
          /\ batch'[n] = [batch[n] EXCEPT !.st = "addressing"]
      BY <1>1, <2>1, <2>2, <2>3, OneBatch
    <2>5. batch'[n].st = "addressing" /\ BatchKeeps(n)
      BY <1>1, <2>4 DEF BatchRec, BatchKeeps
    <2>6. Dumped(n)
      BY <1>3, <1>5, <2>1, <2>5 DEF Dumped
    <2>7. Counts(n)
      BY <1>1, <1>3, <1>5, <2>1, <2>5 DEF Counts, BatchWeight, EditWeight, EditTypeOK
    <2>8. inFlightWebhooks' \in Int /\ intake' \subseteq Events /\ arrived' \in Nat
      BY <1>1, <1>3, <1>5, <2>1 DEF EditTypeOK
    <2>9. EditTypeOK'
      BY <1>1, <2>1, <2>4, <2>8 DEF EditTypeOK, Stays, ClaimsNothing, Events
    <2> QED BY <1>2, <2>1, <2>4, <2>6, <2>7, <2>9 DEF Moves, ChainMoves, PositionsMove, Stays
  <1>6. ASSUME HandlePlain(n), Superseded(n)
        PROVE  EditTypeOK' /\ Moves(n) /\ Counts(n) /\ PlainOld(n)
    <2>1. UNCHANGED <<event, batch, intake, filed, shown, delivery, inFlightWebhooks>> /\ Stays
      BY <1>6 DEF HandlePlain, Stays
    <2>2. Moves(n) /\ PlainOld(n)
      BY <2>1 DEF Moves, OthersStay, ChainMoves, PositionsMove, Stays, PlainOld
    <2>3. Counts(n)
      BY <1>1, <2>1 DEF Counts, BatchWeight, EditWeight, EditTypeOK
    <2>4. EditTypeOK'
      BY <1>1, <1>3, <1>6, <2>1 DEF EditTypeOK, Stays, ClaimsNothing, Events
    <2> QED BY <2>2, <2>3, <2>4
  <1>7. ASSUME HandlePlain(n), ~Superseded(n)
        PROVE  EditTypeOK' /\ Moves(n) /\ Counts(n) /\ PlainNew(n)
    <2>1. /\ UNCHANGED <<event, batch, intake, filed, shown>> /\ event[n].kind = "plain"
          /\ ClaimPosition(n) /\ Enqueue(n)
          /\ delivery' = Overtaken([delivery EXCEPT ![n].st = "queued"], n)
          /\ inFlightWebhooks' = inFlightWebhooks + 1
      BY <1>7 DEF HandlePlain, Arrives, Reservation
    <2> DEFINE queued == [delivery EXCEPT ![n].st = "queued"]
    <2>2. queued = [delivery EXCEPT ![n] = [delivery[n] EXCEPT !.st = "queued"]]
      OBVIOUS
    <2>3. [delivery[n] EXCEPT !.st = "queued"] \in DeliveryRec
      BY <1>1, DeliveryUpdates
    <2>4. /\ queued \in [Events -> DeliveryRec]
          /\ queued[n] = [delivery[n] EXCEPT !.st = "queued"]
          /\ \A k \in Events \ {n} : queued[k] = delivery[k]
      BY <1>1, <2>2, <2>3 DEF EditTypeOK
    <2>5. queued[n].st = "queued" /\ queued[n].late = delivery[n].late
          /\ queued[n].claimed = delivery[n].claimed
      BY <1>1, <2>4 DEF DeliveryRec
    <2> HIDE DEF queued
    <2>6. delivery' = Overtaken(queued, n)
      BY <2>1 DEF queued
    <2>7. delivery' \in [Events -> DeliveryRec]
      BY <1>1, <2>4, <2>6, OvertakenTypes DEF EditTypeOK
    <2>8. delivery'[n] = queued[n]
      BY <2>5, <2>6 DEF Overtaken
    <2>9. \A k \in Events \ {n} :
            delivery'[k] = IF delivery[k].st = "wire" /\ Target(k) = Target(n)
                           THEN [delivery[k] EXCEPT !.overtaken = TRUE] ELSE delivery[k]
      BY <2>4, <2>6 DEF Overtaken
    <2>10. \A k \in Events : [delivery[k] EXCEPT !.overtaken = TRUE].overtaken
      BY <1>1 DEF EditTypeOK, DeliveryRec
    <2>11. OthersStay(n)
      BY <2>1, <2>9 DEF OthersStay
    <2>12. Claims(n)
      BY <1>7, <2>1, <2>9, <2>10 DEF Claims
    <2>13. PlainNew(n)
      BY <1>3, <1>7, <2>1, <2>5, <2>8, <2>12 DEF PlainNew, Keeps
    <2>14. Counts(n)
      BY <1>1, <1>3, <1>7, <2>1, <2>5, <2>8 DEF Counts, BatchWeight, EditWeight, EditTypeOK
    <2>15. chain' \in [Targets -> Seq(Events)]
      BY <1>1, <2>1 DEF Enqueue, EditTypeOK
    <2>16. editedAt' \in [Targets -> Events \cup {0}]
      BY <1>1, <2>1, ClaimEffect
    <2>17. inFlightWebhooks' \in Int /\ arrived' \in Nat
      BY <1>1, <1>3, <1>7, <2>1 DEF EditTypeOK
    <2>18. EditTypeOK'
      BY <1>1, <2>1, <2>7, <2>15, <2>16, <2>17 DEF EditTypeOK, Events
    <2> QED BY <2>1, <2>11, <2>12, <2>13, <2>14, <2>18 DEF Moves, ChainMoves, PositionsMove
  <1>8. ASSUME HandleHistory(n) \/ HandlePlain(n)
        PROVE  n <= arrived' /\ arrived <= arrived'
    BY <1>1, <1>3, <1>8
  <1>9. n > arrived \/ batch[n].st = "addressing"
    BY <1>3 DEF Addressed
  <1> QED BY <1>2, <1>4, <1>5, <1>6, <1>7, <1>8, <1>9

-----------------------------------------------------------------------------
(* All steps *)

\* What every step is.
Arrived(n) ==
  /\ UNCHANGED <<filed, shown>> /\ n <= arrived' /\ arrived <= arrived'
  /\ n > arrived \/ batch[n].st = "addressing"
  /\ Dumped(n) \/ PlainOld(n) \/ PlainNew(n) \/ Handled(n)
Delivered(n) == UNCHANGED <<arrived, batch, intake, filed>> /\ Delivers(n) /\ Shows(n)

Stepped(n) == Arrived(n) \/ Filed(n) \/ Landed(n) \/ Delivered(n)

LEMMA StepIs ==
  ASSUME EditBase, NEW n \in Events, EditStep(n)
  PROVE  EditTypeOK' /\ Moves(n) /\ Counts(n) /\ Stepped(n)
  <1>1. CASE HandleUpsert(n) \/ HandleHistory(n) \/ HandlePlain(n) \/ Addressed(n)
    BY <1>1, ArrivalStep DEF Stepped, Arrived
  <1>2. CASE FileSecrets(n) \/ BatchLands(n)
    BY <1>2, BatchStep DEF Stepped
  <1>3. CASE \/ StartDelivery(n) \/ IntakeTimesOut(n) \/ RecallMisses(n) \/ RecallFinds(n)
             \/ Attempt(n) \/ EditLands(n) \/ EditRefused(n)
    <2>1. EditTypeOK' /\ Moves(n) /\ Delivered(n)
      BY <1>3, DeliveryStep DEF Delivered
    <2>2. batch' = batch /\ inFlightWebhooks \in Int /\ BatchWeight(batch[n].st) \in Int
      BY <2>1 DEF Delivered, EditBase, EditTypeOK, BatchWeight
    <2>3. \A w \in Int :
            inFlightWebhooks' = inFlightWebhooks + w
              /\ EditWeight(delivery'[n].st) - EditWeight(delivery[n].st) = w => Counts(n)
      BY <2>2 DEF Counts
    <2>4. Counts(n)
      BY <2>1, <2>3 DEF Delivered, Delivers, Begins, Waits, TimesOut, Misses, Drops, Finds, Sends,
         Retries, Ends, Turns, EditWeight
    <2> QED BY <2>1, <2>4 DEF Stepped
  <1> QED BY <1>1, <1>2, <1>3 DEF EditStep

\* Nothing else starts, ends or moves on, and what has arrived has arrived.
LEMMA Elsewhere ==
  ASSUME EditBase, NEW n \in Events, Moves(n), NEW k \in Events \ {n}
  PROVE  /\ batch'[k] = batch[k]
         /\ delivery'[k].st = delivery[k].st /\ delivery'[k].waits = delivery[k].waits
         /\ delivery'[k].late = delivery[k].late /\ delivery'[k].claimed = delivery[k].claimed
         /\ delivery[k].overtaken => delivery'[k].overtaken
  <1>1. delivery[k] \in DeliveryRec
    BY DEF EditBase, EditTypeOK
  <1>2. LET d == [delivery[k] EXCEPT !.overtaken = TRUE]
        IN  /\ d.st = delivery[k].st /\ d.waits = delivery[k].waits
            /\ d.late = delivery[k].late /\ d.claimed = delivery[k].claimed
            /\ d.overtaken
    BY <1>1 DEF DeliveryRec
  <1> QED BY <1>2 DEF Moves, OthersStay

LEMMA HeadsKept ==
  ASSUME EditBase, NEW n \in Events, EditTypeOK', Moves(n), Stepped(n)
  PROVE  Heads'
  <1>1. ASSUME NEW k \in Events
        PROVE  Target(k) \in Targets /\ chain[Target(k)] \in Seq(Events) /\ Target(k)' = Target(k)
    BY EventTypes DEF EditBase, EditTypeOK, Target, EventRec, Moves
  <1>2. ASSUME NEW k \in Events \ {n}, delivery'[k].st \in {"waiting", "ready", "wire"}
        PROVE  AtHead(k)'
    <2>1. AtHead(k)
      BY <1>2, Elsewhere DEF EditBase, Heads
    <2>2. CASE UNCHANGED chain
      BY <1>1, <2>1, <2>2 DEF AtHead
    <2>3. CASE Enqueue(n)
      <3>1. \/ chain'[Target(k)] = chain[Target(k)]
            \/ chain'[Target(k)] = Append(chain[Target(k)], n)
        BY <1>1, <2>3 DEF Enqueue, EditBase, EditTypeOK
      <3>2. \A c \in Seq(Events) : c # <<>> => Append(c, n) # <<>> /\ Head(Append(c, n)) = Head(c)
        OBVIOUS
      <3>3. chain'[Target(k)] # <<>> /\ Head(chain'[Target(k)]) = k
        BY <1>1, <2>1, <3>1, <3>2 DEF AtHead
      <3> QED BY <1>1, <3>3 DEF AtHead
    <2>4. CASE Leaves(n)
      <3>1. Target(k) # Target(n)
        BY <2>1, <2>4 DEF Leaves, AtHead
      <3> QED BY <1>1, <2>1, <2>4, <3>1 DEF AtHead, Leaves, EditBase, EditTypeOK
    <2> QED BY <2>2, <2>3, <2>4 DEF Moves, ChainMoves
  <1>3. ASSUME delivery'[n].st \in {"waiting", "ready", "wire"}
        PROVE  AtHead(n)'
    <2>1. AtHead(n) /\ UNCHANGED chain
      <3>1. CASE Arrived(n)
        <4>1. delivery'[n] = delivery[n]
          BY <1>3, <3>1 DEF Arrived, Dumped, PlainOld, PlainNew, Handled
        <4>2. ~ PlainNew(n) /\ ~ Handled(n)
          BY <1>3, <4>1 DEF PlainNew, Handled
        <4> QED BY <1>3, <3>1, <4>1, <4>2 DEF Arrived, Dumped, PlainOld, Stays, EditBase, Heads
      <3>2. CASE Filed(n) \/ Landed(n)
        BY <1>3, <3>2 DEF Filed, Landed, Stays, EditBase, Heads
      <3>3. CASE Delivered(n)
        BY <1>3, <3>3 DEF Delivered, Delivers, Begins, Waits, TimesOut, Misses, Drops, Finds, Sends,
           Retries, Ends, Turns, Stays, EditBase, Heads
      <3> QED BY <3>1, <3>2, <3>3 DEF Stepped
    <2> QED BY <1>1, <2>1 DEF AtHead
  <1>4. Events' = Events
    BY DEF Moves, Events
  <1> QED BY <1>2, <1>3, <1>4 DEF Heads

LEMMA StepBase ==
  ASSUME EditBase, NEW n \in Events, EditStep(n)
  PROVE  EditBase'
  <1>1. EditTypeOK' /\ Moves(n) /\ Stepped(n) /\ Heads'
    BY StepIs, HeadsKept
  <1>2. Events' = Events /\ event' = event /\ arrived \in Nat /\ arrived' \in Nat
        /\ \A k \in Events : k \in Nat
    BY <1>1, EventTypes DEF Moves, Events, EditBase, EditTypeOK
  <1>3. /\ arrived <= arrived' /\ n <= arrived'
        /\ batch'[n].st = "addressing" => event[n].kind # "plain" /\ delivery'[n].st = "none"
        /\ batch'[n].body \in {0, n}
        /\ batch'[n].st \in {"addressing", "filing"} => n \in intake'
        /\ intake \ {n} \subseteq intake'
    <2>1. EditBase => /\ delivery[n].st # "none" \/ batch[n].st # "none" => n <= arrived
                      /\ batch[n].st = "addressing" => event[n].kind # "plain" /\ delivery[n].st = "none"
                      /\ batch[n].body \in {0, n}
                      /\ batch[n].st \in {"addressing", "filing"} => n \in intake
      BY <1>2 DEF EditBase, Ahead, Bodies, Windows
    <2>2. CASE Arrived(n)
      BY <2>1, <2>2 DEF Arrived, Dumped, PlainOld, PlainNew, Handled, BatchKeeps, Repaired,
         LeftOver, Untouched
    <2>3. CASE Filed(n) \/ Landed(n)
      BY <1>2, <2>1, <2>3 DEF Filed, Landed, BatchKeeps
    <2>4. CASE Delivered(n)
      BY <1>2, <2>1, <2>4 DEF Delivered, Delivers, Begins, Waits, TimesOut, Misses, Drops, Finds,
         Sends, Retries, Ends, Turns
    <2> QED BY <1>1, <2>2, <2>3, <2>4 DEF Stepped
  <1>4. \A k \in Events \ {n} : batch'[k] = batch[k] /\ delivery'[k].st = delivery[k].st
    BY <1>1, Elsewhere
  <1>5. Ahead'
    BY <1>2, <1>3, <1>4 DEF EditBase, Ahead
  <1>6. Bodies' /\ Windows'
    BY <1>2, <1>3, <1>4 DEF EditBase, Bodies, Windows
  <1> QED BY <1>1, <1>5, <1>6 DEF EditBase

LEMMA InitBase == EditInit => EditBase
  <1> SUFFICES ASSUME EditInit PROVE EditBase
    OBVIOUS
  <1>1. EditTypeOK /\ Ahead
    BY InitTypes
  <1>2. Heads /\ Bodies /\ Windows
    BY DEF EditInit, Heads, Bodies, Windows, NoDelivery
  <1> QED BY <1>1, <1>2 DEF EditBase

LEMMA NextBase == EditBase /\ [EditNext]_editVars => EditBase'
  <1> SUFFICES ASSUME EditBase, [EditNext]_editVars PROVE EditBase'
    OBVIOUS
  <1>1. CASE EditNext
    BY <1>1, StepBase DEF EditNext
  <1>2. CASE UNCHANGED editVars
    BY <1>2 DEF editVars, EditBase, EditTypeOK, Ahead, Heads, Bodies, Windows, AtHead, Target, Events
  <1> QED BY <1>1, <1>2

\* The events, the types of what the connection remembers of them, and the order in
\* which each goes through its batch and its delivery.
THEOREM EditInvariant == EditSpec => []EditBase
  BY InitBase, NextBase, PTL DEF EditSpec

-----------------------------------------------------------------------------
(* The counter a shutdown waits for *)

Batches == {n \in Events : batch[n].st \in {"addressing", "filing", "ready"}}
Undone == {n \in Events : Undelivered(n)}
Sending == {n \in Events : delivery[n].st \in {"ready", "wire"}}

\* WorkCounted, to the number: every batch counts once, and every edit once, or twice
\* while its request is out.
Counted ==
  inFlightWebhooks = Cardinality(Batches) + Cardinality(Undone) + Cardinality(Sending)

\* A set that changes at most by one element.
LEMMA OneElement ==
  ASSUME NEW S, NEW T, NEW x, IsFiniteSet(S), S \ {x} = T \ {x}
  PROVE  /\ IsFiniteSet(T)
         /\ Cardinality(T) = Cardinality(S) + (IF x \in T THEN 1 ELSE 0) - (IF x \in S THEN 1 ELSE 0)
  <1> DEFINE R == S \ {x}
  <1>1. IsFiniteSet(R) /\ Cardinality(R) \in Nat /\ Cardinality(S) \in Nat
        /\ Cardinality(R) = IF x \in S THEN Cardinality(S) - 1 ELSE Cardinality(S)
    BY FS_RemoveElement, FS_CardinalityType
  <1>2. CASE x \in T
    <2>1. T = R \cup {x} /\ x \notin R
      BY <1>2
    <2>2. IsFiniteSet(T) /\ Cardinality(T) = Cardinality(R) + 1
      BY <1>1, <2>1, FS_AddElement
    <2> QED BY <1>1, <1>2, <2>2
  <1>3. CASE x \notin T
    <2>1. T = R
      BY <1>3
    <2> QED BY <1>1, <1>3, <2>1
  <1> QED BY <1>2, <1>3

LEMMA WorkSets ==
  ASSUME EditBase
  PROVE  /\ IsFiniteSet(Batches) /\ IsFiniteSet(Undone) /\ IsFiniteSet(Sending)
         /\ Cardinality(Batches) \in Nat /\ Cardinality(Undone) \in Nat
         /\ Cardinality(Sending) \in Nat
  <1>1. IsFiniteSet(Events)
    BY EventTypes DEF EditBase, EditTypeOK
  <1>2. IsFiniteSet(Batches) /\ IsFiniteSet(Undone) /\ IsFiniteSet(Sending)
    BY <1>1, FS_Subset DEF Batches, Undone, Sending
  <1> QED BY <1>2, FS_CardinalityType

LEMMA StepCounted ==
  ASSUME EditBase, Counted, NEW n \in Events, EditStep(n)
  PROVE  Counted'
  <1>1. Moves(n) /\ Counts(n) /\ Events' = Events
    BY StepIs DEF Moves, Events
  <1>2. \A k \in Events \ {n} : batch'[k] = batch[k] /\ delivery'[k].st = delivery[k].st
    BY <1>1, Elsewhere
  <1>3. /\ Batches \ {n} = Batches' \ {n}
        /\ Undone \ {n} = Undone' \ {n}
        /\ Sending \ {n} = Sending' \ {n}
    BY <1>1, <1>2 DEF Batches, Undone, Sending, Undelivered
  <1>4. /\ Cardinality(Batches') =
             Cardinality(Batches) + (IF n \in Batches' THEN 1 ELSE 0) - (IF n \in Batches THEN 1 ELSE 0)
        /\ Cardinality(Undone') =
             Cardinality(Undone) + (IF n \in Undone' THEN 1 ELSE 0) - (IF n \in Undone THEN 1 ELSE 0)
        /\ Cardinality(Sending') =
             Cardinality(Sending) + (IF n \in Sending' THEN 1 ELSE 0) - (IF n \in Sending THEN 1 ELSE 0)
    BY <1>3, WorkSets, OneElement
  <1>5. /\ BatchWeight(batch[n].st) = (IF n \in Batches THEN 1 ELSE 0)
        /\ BatchWeight(batch'[n].st) = (IF n \in Batches' THEN 1 ELSE 0)
    BY <1>1 DEF Batches, BatchWeight
  <1>6. EditWeight(delivery[n].st) = (IF n \in Undone THEN 1 ELSE 0) + (IF n \in Sending THEN 1 ELSE 0)
    BY DEF Undone, Sending, Undelivered, EditWeight
  <1>7. EditWeight(delivery'[n].st) = (IF n \in Undone' THEN 1 ELSE 0) + (IF n \in Sending' THEN 1 ELSE 0)
    BY <1>1 DEF Undone, Sending, Undelivered, EditWeight
  <1>8. PICK b1 \in {0, 1}, b2 \in {0, 1}, u1 \in {0, 1}, u2 \in {0, 1}, s1 \in {0, 1}, s2 \in {0, 1} :
          /\ b1 = (IF n \in Batches THEN 1 ELSE 0) /\ b2 = (IF n \in Batches' THEN 1 ELSE 0)
          /\ u1 = (IF n \in Undone THEN 1 ELSE 0) /\ u2 = (IF n \in Undone' THEN 1 ELSE 0)
          /\ s1 = (IF n \in Sending THEN 1 ELSE 0) /\ s2 = (IF n \in Sending' THEN 1 ELSE 0)
    OBVIOUS
  <1>9. inFlightWebhooks' = inFlightWebhooks + (b2 - b1) + ((u2 + s2) - (u1 + s1))
    BY <1>1, <1>5, <1>6, <1>7, <1>8 DEF Counts
  <1>10. /\ Cardinality(Batches') = Cardinality(Batches) + b2 - b1
         /\ Cardinality(Undone') = Cardinality(Undone) + u2 - u1
         /\ Cardinality(Sending') = Cardinality(Sending) + s2 - s1
    BY <1>4, <1>8
  <1> QED BY <1>9, <1>10, WorkSets DEF Counted

LEMMA NextCounted == EditBase /\ Counted /\ [EditNext]_editVars => Counted'
  <1> SUFFICES ASSUME EditBase, Counted, [EditNext]_editVars PROVE Counted'
    OBVIOUS
  <1>1. CASE EditNext
    BY <1>1, StepCounted DEF EditNext
  <1>2. CASE UNCHANGED editVars
    BY <1>2 DEF editVars, Counted, Batches, Undone, Sending, Undelivered, Events
  <1> QED BY <1>1, <1>2

LEMMA InitCounted == EditInit => Counted
  <1> SUFFICES ASSUME EditInit PROVE Counted
    OBVIOUS
  <1>1. Batches = {} /\ Undone = {} /\ Sending = {}
    BY DEF EditInit, Batches, Undone, Sending, Undelivered, NoDelivery
  <1> QED BY <1>1, FS_EmptySet DEF Counted, EditInit

\* A shutdown that waits for inFlightWebhooks to come to zero leaves nothing behind,
\* and does not wait for nothing.
THEOREM WorkIsCounted == EditSpec => []WorkCounted
  <1>1. EditBase /\ Counted => WorkCounted
    <2> SUFFICES ASSUME EditBase, Counted PROVE WorkCounted
      OBVIOUS
    <2>1. Sending \subseteq Undone
      BY DEF Sending, Undone, Undelivered
    <2>2. /\ Cardinality(Batches) = 0 <=> Batches = {}
          /\ Cardinality(Undone) = 0 <=> Undone = {}
          /\ Cardinality(Sending) = 0 <=> Sending = {}
      BY WorkSets, FS_EmptySet
    <2>3. inFlightWebhooks > 0 <=> Batches # {} \/ Undone # {}
      BY <2>1, <2>2, WorkSets DEF Counted
    <2> QED BY <2>3 DEF WorkCounted, Batches, Undone
  <1> QED BY <1>1, InitBase, NextBase, InitCounted, NextCounted, PTL DEF EditSpec

-----------------------------------------------------------------------------
(* Keys that are on their way *)

Unfiled(k) == batch[k].st \in {"addressing", "filing"}

\* A stored key can be recalled; an edit waits for the key of every event before it;
\* one that was dropped in time for want of a key has missed none, and will not.
KeysSound ==
  \A n \in Events :
    /\ batch[n].stored => Target(n) \in filed
    /\ delivery[n].st = "waiting" =>
         \A k \in 1..(n - 1) : Unfiled(k) => k \in delivery[n].waits
    /\ delivery[n].st = "keyless" /\ ~delivery[n].late =>
         \A k \in 1..(n - 1) :
           event[k].orig /\ Target(k) = Target(n) => ~Unfiled(k) /\ ~batch[k].stored

LEMMA StepKeys ==
  ASSUME EditBase, KeysSound, NEW a \in Events, EditStep(a)
  PROVE  KeysSound'
  <1>1. /\ EditTypeOK' /\ Moves(a) /\ Stepped(a) /\ Events' = Events /\ event' = event
        /\ \A k \in Events : Target(k)' = Target(k)
    BY StepIs DEF Moves, Events, Target
  <1>2. /\ \A k \in Events : k \in Nat /\ k # 0
        /\ \A n \in Events : \A k \in 1..(n - 1) : k \in Events /\ k < n
        /\ arrived \in Nat
    BY EventTypes DEF EditBase, EditTypeOK
  \* What an event that has arrived may still do about its key.
  <1>3. ASSUME NEW k \in Events, k <= arrived
        PROVE  /\ Unfiled(k)' => Unfiled(k)
               /\ batch'[k].stored => batch[k].stored \/ Unfiled(k)
    <2>1. CASE k # a
      BY <1>1, <2>1, Elsewhere DEF Unfiled
    <2>2. CASE k = a
      <3>1. CASE Arrived(a)
        BY <1>2, <1>3, <2>2, <3>1 DEF Arrived, Dumped, PlainOld, PlainNew, Handled, BatchKeeps, Unfiled
      <3>2. CASE Filed(a) \/ Landed(a)
        BY <2>2, <3>2 DEF Filed, Landed, BatchKeeps, Unfiled
      <3>3. CASE Delivered(a)
        BY <2>2, <3>3 DEF Delivered, Unfiled
      <3> QED BY <1>1, <3>1, <3>2, <3>3 DEF Stepped
    <2> QED BY <2>1, <2>2
  <1>4. filed \subseteq filed'
    BY <1>1 DEF Stepped, Arrived, Filed, Landed, Delivered
  <1>5. ASSUME NEW n \in Events, batch'[n].stored
        PROVE  Target(n) \in filed'
    <2>1. batch[n].stored => Target(n) \in filed
      BY DEF KeysSound
    <2>2. CASE n # a
      BY <1>1, <1>4, <1>5, <2>1, <2>2, Elsewhere
    <2>3. CASE n = a
      <3>1. batch'[a].stored => batch[a].stored \/ Target(a) \in filed'
        BY <1>1 DEF Stepped, Arrived, Dumped, PlainOld, PlainNew, Handled, Filed, Landed, Delivered,
           BatchKeeps
      <3> QED BY <1>4, <1>5, <2>1, <2>3, <3>1
    <2> QED BY <2>2, <2>3
  <1>6. ASSUME NEW n \in Events, delivery'[n].st = "waiting", NEW k \in 1..(n - 1), Unfiled(k)'
        PROVE  k \in delivery'[n].waits
    <2>1. n <= arrived
      <3>1. delivery[n].st # "none"
        <4>1. CASE n # a
          BY <1>1, <1>6, <4>1, Elsewhere
        <4>2. CASE n = a
          BY <1>1, <1>6, <4>2
             DEF Stepped, Arrived, Dumped, PlainOld, PlainNew, Handled, Filed, Landed, Delivered, Delivers,
                 Begins, Waits, TimesOut, Misses, Drops, Finds, Sends, Retries, Ends, Turns
        <4> QED BY <4>1, <4>2
      <3> QED BY <1>2, <3>1 DEF EditBase, Ahead
    <2>2. Unfiled(k) /\ k \in Events
      BY <1>2, <1>3, <1>6, <2>1
    <2>3. CASE delivery[n].st = "waiting" /\ delivery'[n].waits = delivery[n].waits
      BY <2>2, <2>3 DEF KeysSound
    <2>4. CASE delivery'[n].waits = intake
      BY <2>2, <2>4 DEF EditBase, Windows, Unfiled
    <2>5. \/ delivery[n].st = "waiting" /\ delivery'[n].waits = delivery[n].waits
          \/ delivery'[n].waits = intake
      <3>1. CASE n # a
        BY <1>1, <1>6, <3>1, Elsewhere
      <3>2. CASE n = a
        <4>1. CASE Arrived(a)
          <5>1. delivery'[n] = delivery[n]
            BY <1>6, <3>2, <4>1 DEF Arrived, Dumped, PlainOld, PlainNew, Handled
          <5> QED BY <1>6, <5>1
        <4>2. CASE Filed(a) \/ Landed(a)
          BY <1>6, <4>2 DEF Filed, Landed
        <4>3. CASE Delivered(a)
          BY <1>6, <3>2, <4>3
             DEF Delivered, Delivers, Begins, Waits, TimesOut, Misses, Drops, Finds, Sends, Retries, Ends, Turns
        <4> QED BY <1>1, <4>1, <4>2, <4>3 DEF Stepped
      <3> QED BY <3>1, <3>2
    <2> QED BY <2>3, <2>4, <2>5
  <1>7. ASSUME NEW n \in Events, delivery'[n].st = "keyless", ~delivery'[n].late,
               NEW k \in 1..(n - 1), event[k].orig, Target(k) = Target(n)
        PROVE  ~Unfiled(k)' /\ ~batch'[k].stored
    <2>1. /\ delivery[n].st # "none"
          /\ \/ delivery[n].st = "keyless" /\ ~delivery[n].late
             \/ n = a /\ Delivered(a) /\ Misses(a)
      <3>1. CASE n # a
        BY <1>1, <1>7, <3>1, Elsewhere
      <3>2. CASE n = a
        <4>1. CASE Arrived(a)
          <5>1. delivery'[n] = delivery[n]
            BY <1>7, <3>2, <4>1 DEF Arrived, Dumped, PlainOld, PlainNew, Handled
          <5> QED BY <1>7, <5>1
        <4>2. CASE Filed(a) \/ Landed(a)
          BY <1>7, <4>2 DEF Filed, Landed
        <4>3. CASE Delivered(a)
          BY <1>7, <3>2, <4>3
             DEF Delivered, Delivers, Begins, Waits, TimesOut, Misses, Drops, Finds, Sends, Retries, Ends, Turns
        <4> QED BY <1>1, <4>1, <4>2, <4>3 DEF Stepped
      <3> QED BY <3>1, <3>2
    <2>2. n <= arrived /\ k \in Events /\ k <= arrived
      BY <1>2, <2>1 DEF EditBase, Ahead
    <2>3. ~Unfiled(k) /\ ~batch[k].stored
      <3>1. CASE delivery[n].st = "keyless" /\ ~delivery[n].late
        BY <1>7, <3>1 DEF KeysSound
      <3>2. CASE n = a /\ Delivered(a) /\ Misses(a)
        <4>1. /\ delivery[n].st = "waiting" /\ ~delivery[n].late
              /\ delivery[n].waits \cap intake = {} /\ Target(n) \notin filed
          BY <1>7, <3>2 DEF Misses, Turns, Keeps, IntakeOver
        <4>2. Unfiled(k) => k \in delivery[n].waits /\ k \in intake
          BY <2>2, <4>1 DEF KeysSound, EditBase, Windows, Unfiled
        <4>3. ~batch[k].stored
          BY <1>7, <2>2, <4>1 DEF KeysSound
        <4> QED BY <4>1, <4>2, <4>3
      <3> QED BY <2>1, <3>1, <3>2
    <2> QED BY <1>3, <2>2, <2>3
  <1>8. \A n \in Events : \A k \in 1..(n - 1) : event'[k].orig /\ Target(k)' = Target(n)' =>
          event[k].orig /\ Target(k) = Target(n)
    BY <1>1, <1>2
  <1>9. \A n \in Events : Target(n)' = Target(n)
    BY <1>1
  <1> QED BY <1>1, <1>5, <1>6, <1>7, <1>8, <1>9 DEF KeysSound

LEMMA NextKeys == EditBase /\ KeysSound /\ [EditNext]_editVars => KeysSound'
  <1> SUFFICES ASSUME EditBase, KeysSound, [EditNext]_editVars PROVE KeysSound'
    OBVIOUS
  <1>1. CASE EditNext
    BY <1>1, StepKeys DEF EditNext
  <1>2. CASE UNCHANGED editVars
    BY <1>2 DEF editVars, KeysSound, Unfiled, Target, Events
  <1> QED BY <1>1, <1>2

LEMMA InitKeys == EditInit => KeysSound
  BY DEF EditInit, KeysSound, NoDelivery

\* An edit that is dropped for want of a key has not raced with it, whatever else is
\* under way.
THEOREM NoKeyIsMissed == EditSpec => []NoKeyMissed
  <1>1. KeysSound => NoKeyMissed
    BY DEF KeysSound, NoKeyMissed
  <1> QED BY <1>1, InitBase, NextBase, InitKeys, NextKeys, PTL DEF EditSpec

-----------------------------------------------------------------------------
(* Positions, and what the consumer shows *)

\* The position remembered of m is that of x or of a newer edit.
AtOrAfter(m, x) == editedAt[m] # 0 /\ ~Older(editedAt[m], x)

\* PositionKept, and as much of it for plaintext edits, for what was applied in place
\* and for what is shown, as holds until the position of a target is evicted.
EditSound(n) ==
  LET kept == AtOrAfter(Target(n), n)
      remembered == Target(n) \notin forgotten
  IN  /\ delivery[n].st \in {"none", "queued", "waiting"} => ~delivery[n].claimed
      /\ delivery[n].st \in {"ready", "wire"} /\ event[n].kind # "plain" => kept
      /\ Undelivered(n) /\ event[n].kind = "plain" /\ remembered => kept
      /\ batch[n].body # 0 /\ remembered => kept
      /\ delivery[n].st = "wire" /\ ~delivery[n].overtaken /\ remembered => ~Superseded(n)

ShownSound(m) ==
  m \notin forgotten => shown[m] \in {0, Unknown} \/ AtOrAfter(m, shown[m])

PositionsSound == (\A n \in Events : EditSound(n)) /\ (\A m \in Targets : ShownSound(m))

\* Positions only grow, until they are evicted.
LEMMA PositionsGrow ==
  ASSUME EditBase, NEW n \in Events, Moves(n)
  PROVE  /\ forgotten \subseteq forgotten'
         /\ \A m \in Targets : chain[m] # <<>> \/ m \notin forgotten' =>
              /\ \A x \in Events : AtOrAfter(m, x) => AtOrAfter(m, x)'
              /\ editedAt'[m] = editedAt[m] \/ (m = Target(n) /\ Claims(n))
         /\ ClaimPosition(n) /\ (chain[Target(n)] # <<>> \/ Target(n) \notin forgotten') =>
              AtOrAfter(Target(n), n)'
  <1>1. /\ event \in Traffic /\ event' = event /\ EditTypeOK
        /\ \A x \in Events : x # 0
        /\ \A m \in Targets : editedAt[m] \in Events \cup {0}
        /\ Target(n) \in Targets
    BY EventTypes DEF EditBase, EditTypeOK, Moves, Target, EventRec
  <1>2. \A x, y : Older(x, y)' <=> Older(x', y')
    BY <1>1 DEF Older
  <1>3. ASSUME ClaimPosition(n)
        PROVE  /\ forgotten \subseteq forgotten'
               /\ \A m \in Targets : chain[m] # <<>> \/ m \notin forgotten' =>
                    editedAt'[m] = IF m = Target(n) THEN n ELSE editedAt[m]
    BY <1>1, <1>3, ClaimEffect
  <1>4. ASSUME ClaimPosition(n), chain[Target(n)] # <<>> \/ Target(n) \notin forgotten'
        PROVE  AtOrAfter(Target(n), n)'
    <2>1. editedAt'[Target(n)] = n /\ ~Older(n, n)
      BY <1>1, <1>3, <1>4, OlderOrders
    <2>2. ~Older(editedAt'[Target(n)], n)
      BY <2>1
    <2> QED BY <1>1, <2>1, <2>2 DEF AtOrAfter, Older, Target
  <1>5. forgotten \subseteq forgotten'
    BY <1>3 DEF Moves, PositionsMove, ClaimsNothing, Claims
  <1>6. ASSUME NEW m \in Targets, chain[m] # <<>> \/ m \notin forgotten'
        PROVE  editedAt'[m] = editedAt[m] \/ (m = Target(n) /\ Claims(n))
    BY <1>3, <1>6 DEF Moves, PositionsMove, ClaimsNothing, Claims
  <1>7. ASSUME NEW m \in Targets, chain[m] # <<>> \/ m \notin forgotten',
               NEW x \in Events, AtOrAfter(m, x)
        PROVE  AtOrAfter(m, x)'
    <2>1. CASE editedAt'[m] = editedAt[m]
      BY <1>1, <1>7, <2>1 DEF AtOrAfter, Older
    <2>2. CASE m = Target(n) /\ Claims(n)
      <3>1. editedAt'[m] = n
        BY <1>3, <1>7, <2>2 DEF Claims
      <3>2. ~Older(n, editedAt[m]) /\ ~Older(editedAt[m], x) /\ editedAt[m] \in Events \cup {0}
        BY <1>1, <1>7, <2>2 DEF Claims, Superseded, AtOrAfter
      <3>3. ~Older(n, x)
        BY <1>1, <3>2, OlderOrders
      <3> QED BY <1>1, <3>1, <3>3 DEF AtOrAfter, Older
    <2> QED BY <1>6, <1>7, <2>1, <2>2
  <1> QED BY <1>3, <1>4, <1>5, <1>6, <1>7

LEMMA StepEditSound ==
  ASSUME EditBase, PositionsSound, NEW a \in Events, EditStep(a), NEW n \in Events
  PROVE  EditSound(n)'
  <1>1. /\ EditTypeOK' /\ Moves(a) /\ Stepped(a) /\ event' = event
        /\ Target(n)' = Target(n) /\ Target(n) \in Targets /\ EditSound(n)
    BY StepIs, EventTypes DEF Moves, Target, EventRec, EditBase, EditTypeOK, PositionsSound
  <1>2. /\ forgotten \subseteq forgotten'
        /\ chain[Target(n)] # <<>> \/ Target(n) \notin forgotten' =>
              /\ AtOrAfter(Target(n), n) => AtOrAfter(Target(n), n)'
              /\ editedAt'[Target(n)] = editedAt[Target(n)] \/ (Target(n) = Target(a) /\ Claims(a))
    BY <1>1, PositionsGrow
  <1>3. ASSUME ClaimPosition(a), chain[Target(a)] # <<>> \/ Target(a) \notin forgotten'
        PROVE  AtOrAfter(Target(a), a)'
    BY <1>1, <1>3, PositionsGrow
  <1>4. delivery[n].st \in {"waiting", "ready", "wire"} => chain[Target(n)] # <<>>
    BY DEF EditBase, Heads, AtHead
  <1>5. editedAt'[Target(n)] = editedAt[Target(n)] => (Superseded(n)' <=> Superseded(n))
    BY <1>1 DEF Superseded, Older, Target
  <1>6. (AtOrAfter(Target(n), n))' <=> AtOrAfter(Target(n), n)'
    OBVIOUS
  <1>7. CASE n # a
    <2>1. /\ batch'[n] = batch[n]
          /\ delivery'[n].st = delivery[n].st /\ delivery'[n].claimed = delivery[n].claimed
          /\ delivery[n].overtaken => delivery'[n].overtaken
      BY <1>1, <1>7, Elsewhere DEF Moves
    <2>2. /\ delivery'[n].st \in {"none", "queued", "waiting"} => ~delivery'[n].claimed
          /\ delivery'[n].st \in {"ready", "wire"} /\ event[n].kind # "plain" => AtOrAfter(Target(n), n)'
          /\ Undelivered(n)' /\ event[n].kind = "plain" /\ Target(n) \notin forgotten' =>
               AtOrAfter(Target(n), n)'
          /\ batch'[n].body # 0 /\ Target(n) \notin forgotten' => AtOrAfter(Target(n), n)'
      BY <1>1, <1>2, <1>4, <2>1 DEF EditSound, Undelivered
    <2>3. ASSUME delivery'[n].st = "wire", ~delivery'[n].overtaken, Target(n) \notin forgotten'
          PROVE  ~Superseded(n)'
      <3>1. ~Superseded(n)
        BY <1>1, <1>2, <2>1, <2>3 DEF EditSound
      <3>2. ~(Target(n) = Target(a) /\ Claims(a))
        BY <1>7, <2>1, <2>3 DEF Claims
      <3> QED BY <1>2, <1>5, <2>3, <3>1, <3>2
    <2> QED BY <1>1, <2>2, <2>3 DEF EditSound
  <1>8. CASE n = a
    <2>1. CASE Arrived(a)
      <3>1. CASE Dumped(a) \/ PlainOld(a)
        <4>1. delivery'[n] = delivery[n] /\ batch'[n].body = batch[n].body
              /\ UNCHANGED <<editedAt, forgotten>>
          BY <1>8, <3>1 DEF Dumped, PlainOld, BatchKeeps, Stays, ClaimsNothing
        <4> QED BY <1>1, <1>5, <4>1 DEF EditSound, AtOrAfter, Older, Undelivered
      <3>2. CASE PlainNew(a)
        <4>1. /\ delivery[n].st = "none" /\ delivery'[n].st = "queued"
              /\ delivery'[n].claimed = delivery[n].claimed
              /\ event[n].kind = "plain" /\ batch'[n] = batch[n] /\ ClaimPosition(a)
          BY <1>8, <3>2 DEF PlainNew, Keeps, Claims
        <4>2. Target(n) \notin forgotten' => AtOrAfter(Target(n), n)'
          BY <1>1, <1>3, <1>8, <4>1
        <4> QED BY <1>1, <4>1, <4>2 DEF EditSound
      <3>3. CASE Handled(a)
        <4>1. /\ event[n].kind # "plain" /\ delivery[n].st = "none"
              /\ delivery'[n].st \in {"none", "queued"}
              /\ delivery'[n].claimed = delivery[n].claimed
              /\ batch'[n].body # 0 => ClaimPosition(a)
          BY <1>8, <3>3 DEF Handled, Keeps, Repaired, LeftOver, Untouched
        <4>2. batch'[n].body # 0 /\ Target(n) \notin forgotten' => AtOrAfter(Target(n), n)'
          BY <1>1, <1>3, <1>8, <4>1
        <4> QED BY <1>1, <4>1, <4>2 DEF EditSound
      <3> QED BY <2>1, <3>1, <3>2, <3>3 DEF Arrived
    <2>2. CASE Filed(a) \/ Landed(a)
      <3>1. delivery'[n] = delivery[n] /\ batch'[n].body = batch[n].body
            /\ UNCHANGED <<editedAt, forgotten>>
        BY <1>8, <2>2 DEF Filed, Landed, BatchKeeps, Stays, ClaimsNothing
      <3> QED BY <1>1, <1>5, <3>1 DEF EditSound, AtOrAfter, Older, Undelivered
    <2>3. CASE Delivered(a)
      <3>1. batch' = batch
        BY <2>3 DEF Delivered
      <3>2. batch'[n].body # 0 /\ Target(n) \notin forgotten' => AtOrAfter(Target(n), n)'
        BY <1>1, <1>2, <3>1 DEF EditSound
      <3>3. Undelivered(n) /\ event[n].kind = "plain" /\ Target(n) \notin forgotten'
              => AtOrAfter(Target(n), n)'
        BY <1>1, <1>2 DEF EditSound
      <3>4. Undelivered(n)
        BY <1>8, <2>3 DEF Delivered, Delivers, Begins, Waits, TimesOut, Misses, Drops, Finds, Sends,
           Retries, Ends, Turns, Undelivered
      <3>5. delivery'[n].st \in {"none", "queued", "waiting"} => ~delivery'[n].claimed
        BY <1>1, <1>8, <2>3 DEF Delivered, Delivers, Begins, Waits, TimesOut, Misses, Drops, Finds,
           Sends, Retries, Ends, Turns, Keeps, EditSound
      <3>6. ASSUME delivery'[n].st \in {"ready", "wire"}, event[n].kind # "plain"
            PROVE  AtOrAfter(Target(n), n)'
        <4>1. CASE Finds(a)
          <5>1. chain[Target(a)] # <<>> /\ ClaimPosition(a)
            BY <1>4, <1>8, <4>1 DEF Finds, Turns, Claims
          <5> QED BY <1>1, <1>3, <1>8, <5>1
        <4>2. CASE ~Finds(a)
          <5>1. delivery[n].st \in {"ready", "wire"}
            BY <1>8, <2>3, <3>6, <4>2 DEF Delivered, Delivers, Begins, Waits, TimesOut, Misses, Drops,
               Sends, Retries, Ends, Turns
          <5> QED BY <1>1, <1>2, <1>4, <3>6, <5>1 DEF EditSound
        <4> QED BY <4>1, <4>2
      <3>7. ASSUME delivery'[n].st = "wire"
            PROVE  ~Superseded(n)'
        <4>1. Sends(a)
          BY <1>8, <2>3, <3>7 DEF Delivered, Delivers, Begins, Waits, TimesOut, Misses, Drops, Finds,
             Sends, Retries, Ends, Turns
        <4> QED BY <1>5, <1>8, <4>1 DEF Sends, Stays, ClaimsNothing
      <3> QED BY <1>1, <3>2, <3>3, <3>4, <3>5, <3>6, <3>7 DEF EditSound
    <2> QED BY <1>1, <2>1, <2>2, <2>3 DEF Stepped
  <1> QED BY <1>7, <1>8

\* The text shown changes when an upsert creates the message, or to an edit on the wire.
LEMMA ShownMoves ==
  ASSUME EditBase, NEW a \in Events, EditStep(a), NEW m \in Targets, shown'[m] # shown[m]
  PROVE  /\ m = Target(a)
         /\ \/ Landed(a) /\ shown[m] = Unknown /\ shown'[m] = batch[a].body
            \/ Delivered(a) /\ delivery[a].st = "wire" /\ shown'[m] = a
  <1>1. Stepped(a) /\ shown \in [Targets -> Events \cup {0, Unknown}]
    BY StepIs DEF EditBase, EditTypeOK
  <1>2. CASE Landed(a) /\ ~UNCHANGED shown
    BY <1>1, <1>2 DEF Landed
  <1>3. CASE Delivered(a) /\ ~UNCHANGED shown
    BY <1>1, <1>3 DEF Delivered, Shows
  <1> QED BY <1>1, <1>2, <1>3 DEF Stepped, Arrived, Filed

LEMMA StepShownSound ==
  ASSUME EditBase, PositionsSound, NEW a \in Events, EditStep(a), NEW m \in Targets
  PROVE  ShownSound(m)'
  <1>1. /\ Moves(a) /\ event' = event /\ EditSound(a) /\ ShownSound(m)
        /\ shown[m] \in Events \cup {0, Unknown} /\ shown'[m] \in Events \cup {0, Unknown}
        /\ batch[a].body \in {0, a} /\ \A x \in Events : x # 0 /\ x \in Nat
    BY StepIs, EventTypes DEF Moves, PositionsSound, EditBase, EditTypeOK, Bodies, Events
  <1>2. /\ forgotten \subseteq forgotten'
        /\ m \notin forgotten' => \A x \in Events : AtOrAfter(m, x) => AtOrAfter(m, x)'
    BY <1>1, PositionsGrow
  <1>3. ASSUME m \notin forgotten'
        PROVE  shown'[m] \in {0, Unknown} \/ \E x \in Events : x = shown'[m] /\ AtOrAfter(m, x)
    <2>1. CASE shown'[m] = shown[m]
      BY <1>1, <1>2, <1>3, <2>1 DEF ShownSound
    <2>2. CASE shown'[m] # shown[m]
      <3>1. /\ m = Target(a)
            /\ \/ shown'[m] = batch[a].body
               \/ delivery[a].st = "wire" /\ shown'[m] = a
        BY <2>2, ShownMoves
      <3>2. CASE shown'[m] = batch[a].body
        BY <1>1, <1>2, <1>3, <3>1, <3>2 DEF EditSound
      <3>3. CASE delivery[a].st = "wire" /\ shown'[m] = a
        BY <1>1, <1>2, <1>3, <3>1, <3>3 DEF EditSound, Undelivered
      <3> QED BY <3>1, <3>2, <3>3
    <2> QED BY <2>1, <2>2
  <1>4. ASSUME NEW x \in Events, x = shown'[m], AtOrAfter(m, x)'
        PROVE  AtOrAfter(m, shown[m])'
    BY <1>1, <1>4 DEF AtOrAfter, Older
  <1> QED BY <1>2, <1>3, <1>4 DEF ShownSound

LEMMA NextPositions ==
  EditBase /\ PositionsSound /\ [EditNext]_editVars => PositionsSound'
  <1> SUFFICES ASSUME EditBase, PositionsSound, [EditNext]_editVars PROVE PositionsSound'
    OBVIOUS
  <1>1. CASE EditNext
    <2>1. PICK a \in Events : EditStep(a)
      BY <1>1 DEF EditNext
    <2>2. Events' = Events
      BY <2>1, StepIs DEF Moves, Events
    <2> QED BY <2>1, <2>2, StepEditSound, StepShownSound DEF PositionsSound
  <1>2. CASE UNCHANGED editVars
    BY <1>2 DEF editVars, PositionsSound, EditSound, ShownSound, AtOrAfter, Superseded, Undelivered,
                Older, Target, Events
  <1> QED BY <1>1, <1>2

LEMMA InitPositions == EditInit => PositionsSound
  BY DEF EditInit, PositionsSound, EditSound, ShownSound, Undelivered, NoDelivery

\* What is shown, what is out and what was applied in place are at or behind the
\* position remembered, as long as it is remembered.
THEOREM PositionsInvariant == EditSpec => [](EditBase /\ PositionsSound)
  BY InitBase, NextBase, InitPositions, NextPositions, PTL DEF EditSpec

\* No retry of an edit finds its position evicted, however many messages are edited
\* meanwhile.
THEOREM PositionIsKept == EditSpec => []PositionKept
  <1>1. EditBase /\ PositionsSound => PositionKept
    BY DEF PositionsSound, EditSound, PositionKept, AtOrAfter, Undelivered
  <1> QED BY <1>1, PositionsInvariant, PTL

LEMMA StepNewest ==
  ASSUME EditBase, PositionsSound, NEW a \in Events, EditStep(a), NEW m \in Targets,
         shown[m] # Unknown, shown'[m] # Unknown, Older(shown'[m], shown[m])
  PROVE  m \in forgotten \/ (shown'[m] # 0 /\ delivery[shown'[m]].overtaken)
  <1>1. /\ event \in Traffic /\ shown[m] \in Events \cup {0}
        /\ editedAt[m] \in Events \cup {0} /\ a # 0
        /\ EditSound(a) /\ ShownSound(m)
    BY EventTypes DEF EditBase, EditTypeOK, PositionsSound
  <1>2. shown'[m] # shown[m]
    BY <1>1, OlderOrders
  <1>3. m = Target(a) /\ delivery[a].st = "wire" /\ shown'[m] = a
    BY <1>2, ShownMoves
  <1>4. CASE m \notin forgotten /\ ~delivery[a].overtaken
    <2>1. ~Superseded(a) /\ AtOrAfter(m, a)
      BY <1>1, <1>3, <1>4 DEF EditSound, Undelivered
    <2>2. ~Older(a, editedAt[m])
      BY <1>3, <2>1 DEF Superseded, AtOrAfter
    <2>3. ~Older(a, shown[m])
      <3>1. CASE shown[m] = 0
        BY <1>1, <3>1, OlderOrders
      <3>2. CASE AtOrAfter(m, shown[m])
        BY <1>1, <2>2, <3>2, OlderOrders DEF AtOrAfter
      <3> QED BY <1>1, <1>4, <3>1, <3>2 DEF ShownSound
    <2> QED BY <1>3, <2>3
  <1> QED BY <1>1, <1>3, <1>4

\* The newest edit stands: in any order of arrival, over any channel, through any
\* retries and evictions, an older text replaces a newer one only when its request was
\* out before the newer edit was claimed, or its position had to be forgotten.
THEOREM NewestAlwaysStands == EditSpec => NewestStands
  <1> DEFINE Step == \A m \in Targets :
        (shown[m] # Unknown /\ shown'[m] # Unknown /\ Older(shown'[m], shown[m]))
          => \/ m \in forgotten
             \/ shown'[m] # 0 /\ delivery[shown'[m]].overtaken
  <1>1. EditBase /\ PositionsSound /\ [EditNext]_editVars => [Step]_editVars
    BY StepNewest DEF EditNext
  <1> HIDE DEF Step
  <1>2. EditSpec => [][Step]_editVars
    BY <1>1, PositionsInvariant, PTL DEF EditSpec
  <1> QED BY <1>2 DEF NewestStands, Step
=============================================================================
