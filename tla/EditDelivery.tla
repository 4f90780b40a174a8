----------------------------- MODULE EditDelivery -----------------------------
(***************************************************************************)
(* How one BaileysConnection hands messages and edits of messages to the   *)
(* webhook: the upsert and history handlers, the filing of the secrets     *)
(* that edits are encrypted with, the chain of deliveries of each edited   *)
(* message, the positions that tell an older edit from a newer one, and    *)
(* the retries of a delivery.                                              *)
(*                                                                         *)
(* Baileys does not await the handlers, so all of it runs concurrently.    *)
(* An event is numbered in the order it is handed over (eventSeq) and      *)
(* carries an original message, an edit, or both, of one target; an edit   *)
(* is named by its event, so rank, which only orders edits of one event,   *)
(* is left out.  A plaintext edit comes on messages.update and needs no    *)
(* secret.  Secrets are within their lifetime.                             *)
(*                                                                         *)
(* The consumer behind the webhook is external: it creates a message once, *)
(* answers 404 to an edit of a message it does not know, and applies every *)
(* other edit it is sent.                                                  *)
(***************************************************************************)
EXTENDS Integers, Sequences, FiniteSets

CONSTANTS
  Targets,     \* messages that are edited
  Traffic,     \* the sequences of events Baileys may hand over
  Memory,      \* EDIT_POSITION_MEMORY
  MaxRetries,  \* config.webhook.retryPolicy.maxRetries
  MaxTrouble,  \* bound on events and failures of requests, answers, writes, lookups
  Unknown      \* the consumer has no such message

VARIABLES
  event,     \* what each event carries, chosen at the start
  arrived,   \* eventSeq
  batch,     \* the handler of each event, up to the end of its upsert
  delivery,  \* the delivery of the edit of each event
  chain,     \* editDeliveries: the edits queued for each target
  editedAt,  \* the edit whose position is remembered, 0 for none
  order,     \* targets in editedAt, least recently claimed first
  intake,    \* events whose secrets are still being filed
  filed,     \* targets whose secret is stored
  inFlightWebhooks, \* _inFlightWebhooks
  shown,     \* what the consumer shows: 0 for the original, or an edit
  forgotten, \* targets whose position was once evicted
  mishaps    \* failures so far

editVars == <<event, arrived, batch, delivery, chain, editedAt, order, intake, filed,
              inFlightWebhooks, shown, forgotten, mishaps>>

Events == DOMAIN event

\* An event: a batch of messages, live or from a dump, with an original, an
\* encrypted edit or both, or a plaintext edit.
EventsOf(m, stamps) ==
  {e \in [kind: {"live", "dump"}, target: {m}, orig: BOOLEAN, at: stamps \cup {0}] :
     e.orig \/ e.at # 0}
  \cup [kind: {"plain"}, target: {m}, orig: {FALSE}, at: stamps]

EventRec == [kind : {"live", "dump", "plain"}, target : Targets, orig : BOOLEAN, at : Nat]
ASSUME TrafficAssumption == \A e \in Traffic : e \in Seq(EventRec)
ASSUME MemoryAssumption == Memory \in Nat /\ MaxRetries \in Nat /\ MaxTrouble \in Nat
ASSUME UnknownAssumption == Unknown \notin Nat

NoDelivery == [st |-> "none", waits |-> {}, late |-> FALSE, claimed |-> FALSE,
               tries |-> 0, overtaken |-> FALSE]

\* Some messages were delivered, and their secrets filed, before.
EditInit ==
  /\ event \in Traffic
  /\ arrived = 0
  /\ batch = [n \in Events |-> [st |-> "none", body |-> 0, tries |-> 0, stored |-> FALSE]]
  /\ delivery = [n \in Events |-> NoDelivery]
  /\ chain = [m \in Targets |-> <<>>]
  /\ editedAt = [m \in Targets |-> 0]
  /\ order = <<>>
  /\ intake = {}
  /\ filed \in {{}, Targets}
  /\ inFlightWebhooks = 0
  /\ shown = [m \in Targets |-> IF m \in filed THEN 0 ELSE Unknown]
  /\ forgotten = {}
  /\ mishaps = 0

-----------------------------------------------------------------------------
(* Positions *)

Target(n) == event[n].target
HasEdit(n) == event[n].at # 0

\* By timestamp, then by the event it arrived on; 0 stands for the original.
Older(a, b) ==
  /\ b # 0
  /\ a # 0 => \/ event[a].at < event[b].at
              \/ event[a].at = event[b].at /\ a < b

\* editSuperseded
Superseded(n) == editedAt[Target(n)] # 0 /\ Older(n, editedAt[Target(n)])

\* The targets claimEditPosition evicts: the least recently claimed ones, except
\* those that still have a delivery queued.
Evicted_Oldest(ord) ==
  {ord[k] : k \in 1..(Len(ord) - Memory)}
Evicted(ord) ==
  LET idle == {k \in DOMAIN ord : chain[ord[k]] = <<>>}
  IN  {ord[k] : k \in {k \in idle : Cardinality({j \in idle : j < k}) < Len(ord) - Memory}}

\* claimEditPosition, once the edit is known not to be superseded.  Requests of
\* older edits already on the wire are remembered as overtaken.
ClaimPosition(n) ==
  LET m == Target(n)
      ord == Append(SelectSeq(order, LAMBDA x : x # m), m)
      gone == Evicted(ord)
  IN  /\ order' = SelectSeq(ord, LAMBDA x : x \notin gone)
      /\ editedAt' = [x \in Targets |->
           IF x \in gone THEN 0 ELSE IF x = m THEN n ELSE editedAt[x]]
      /\ forgotten' = forgotten \cup gone

Overtaken(d, n) ==
  [k \in Events |-> IF d[k].st = "wire" /\ Target(k) = Target(n)
                    THEN [d[k] EXCEPT !.overtaken = TRUE] ELSE d[k]]

ClaimsNothing == UNCHANGED <<editedAt, order, forgotten>>

\* What emitUnresolvedEdits and onMessagesUpdate add to inFlightWebhooks before
\* the edit first runs.
Reservation_Late == 0
Reservation == 1

Mishap ==
  /\ Len(event) + mishaps < MaxTrouble
  /\ mishaps' = mishaps + 1

-----------------------------------------------------------------------------
(* Events *)

\* enqueueEditDelivery
Enqueue(n) == chain' = [chain EXCEPT ![Target(n)] = Append(@, n)]

\* The window for the secrets of a batch opens before its handler suspends.
OpenWindow_Live(n) == IF event[n].kind = "live" THEN intake \cup {n} ELSE intake
OpenWindow(n) == intake \cup {n}

\* repairSecretMessageEdits and emitUnresolvedEdits, in one synchronous run: an
\* edit whose original is in the same batch, and whose key opens it, is applied
\* in place; any other edit goes onto the chain of its target.  A batch without
\* an original has no secret to file and nothing else to send.
Repair(n, opens, windows, counted) ==
  LET inPlace == event[n].orig /\ HasEdit(n) /\ opens
      wins == inPlace /\ ~Superseded(n)
      leftOver == HasEdit(n) /\ ~inPlace
      stays == event[n].orig
  IN  /\ batch' = [batch EXCEPT ![n].st = IF stays THEN "filing" ELSE "done",
                                ![n].body = IF wins THEN n ELSE 0]
      /\ intake' = IF stays THEN windows ELSE windows \ {n}
      /\ IF wins
         THEN ClaimPosition(n) /\ delivery' = Overtaken(delivery, n)
         ELSE /\ ClaimsNothing
              /\ delivery' = IF leftOver THEN [delivery EXCEPT ![n].st = "queued"] ELSE delivery
      /\ IF leftOver THEN Enqueue(n) ELSE UNCHANGED chain
      /\ inFlightWebhooks' = counted + (IF stays THEN 0 ELSE -1) + IF leftOver THEN Reservation ELSE 0

Arrives(n, kind) ==
  /\ n = arrived + 1
  /\ event[n].kind = kind
  /\ arrived' = n

\* handleMessagesUpsert
HandleUpsert(n) ==
  /\ Arrives(n, "live")
  /\ \E opens \in BOOLEAN : Repair(n, opens, OpenWindow(n), inFlightWebhooks + 1)
  /\ UNCHANGED <<event, filed, shown, mishaps>>

\* handleMessagingHistorySet, up to the keystore lookup of addressHistory.
HandleHistory(n) ==
  /\ Arrives(n, "dump")
  /\ intake' = OpenWindow(n)
  /\ batch' = [batch EXCEPT ![n].st = "addressing"]
  /\ inFlightWebhooks' = inFlightWebhooks + 1
  /\ ClaimsNothing
  /\ UNCHANGED <<event, delivery, chain, filed, shown, mishaps>>

Addressed(n) ==
  /\ batch[n].st = "addressing"
  /\ \E opens \in BOOLEAN : Repair(n, opens, intake, inFlightWebhooks)
  /\ UNCHANGED <<event, arrived, filed, shown, mishaps>>

\* onMessagesUpdate: a plaintext edit claims its position at once.
HandlePlain(n) ==
  /\ Arrives(n, "plain")
  /\ IF Superseded(n)
     THEN ClaimsNothing /\ UNCHANGED <<delivery, chain, inFlightWebhooks>>
     ELSE /\ ClaimPosition(n)
          /\ delivery' = Overtaken([delivery EXCEPT ![n].st = "queued"], n)
          /\ Enqueue(n)
          /\ inFlightWebhooks' = inFlightWebhooks + Reservation
  /\ UNCHANGED <<event, batch, intake, filed, shown, mishaps>>

\* fileMessageSecrets, then the window closes whether or not it worked.
FileSecrets(n) ==
  /\ batch[n].st = "filing"
  /\ \/ /\ filed' = filed \cup {Target(n)}
        /\ batch' = [batch EXCEPT ![n].st = "ready", ![n].stored = TRUE]
        /\ UNCHANGED mishaps
     \/ /\ Mishap
        /\ batch' = [batch EXCEPT ![n].st = "ready"]
        /\ UNCHANGED filed
  /\ intake' = intake \ {n}
  /\ UNCHANGED <<event, arrived, delivery, chain, editedAt, order, inFlightWebhooks,
                 shown, forgotten>>

-----------------------------------------------------------------------------
(* The upsert goes out, with its retries *)

BatchDone(n) ==
  /\ batch' = [batch EXCEPT ![n].st = "done"]
  /\ inFlightWebhooks' = inFlightWebhooks - 1

RetryBatch(n) ==
  IF batch[n].tries < MaxRetries
  THEN batch' = [batch EXCEPT ![n].st = "ready", ![n].tries = @ + 1] /\ UNCHANGED inFlightWebhooks
  ELSE BatchDone(n)

\* The consumer gets it, or it is lost on the way.
BatchLands(n) ==
  /\ batch[n].st = "ready"
  /\ \/ /\ shown' = [shown EXCEPT ![Target(n)] = IF @ = Unknown THEN batch[n].body ELSE @]
        /\ BatchDone(n)
        /\ UNCHANGED mishaps
     \/ /\ Mishap
        /\ RetryBatch(n)
        /\ UNCHANGED shown
  /\ UNCHANGED <<event, arrived, delivery, chain, editedAt, order, intake, filed,
                 forgotten>>

-----------------------------------------------------------------------------
(* The chain of a target *)

AtHead(n) ==
  /\ chain[Target(n)] # <<>>
  /\ Head(chain[Target(n)]) = n

Leave(n, why) ==
  /\ delivery' = [delivery EXCEPT ![n].st = why]
  /\ chain' = [chain EXCEPT ![Target(n)] = Tail(@)]

\* The reservation is given back, and what sendToWebhook had added.
Uncount(sending) == inFlightWebhooks' = inFlightWebhooks - Reservation - sending

\* A plaintext edit is sent at once, an encrypted one first waits for the windows
\* open at this moment.
StartDelivery(n) ==
  /\ delivery[n].st = "queued" /\ AtHead(n)
  /\ IF event[n].kind = "plain"
     THEN /\ delivery' = [delivery EXCEPT ![n].st = "ready", ![n].claimed = TRUE]
          /\ inFlightWebhooks' = inFlightWebhooks + 1
     ELSE /\ delivery' = [delivery EXCEPT ![n].st = "waiting", ![n].waits = intake]
          /\ UNCHANGED inFlightWebhooks
  /\ UNCHANGED <<event, arrived, batch, chain, editedAt, order, intake, filed,
                 shown, forgotten, mishaps>>

\* The wait for secretIntake is over, because it settled or because it timed out.
IntakeOver(n) ==
  /\ delivery[n].st = "waiting"
  /\ delivery[n].waits \cap intake = {} \/ delivery[n].late

IntakeTimesOut(n) ==
  /\ delivery[n].st = "waiting" /\ ~IntakeOver(n)
  /\ Mishap
  /\ delivery' = [delivery EXCEPT ![n].late = TRUE]
  /\ UNCHANGED <<event, arrived, batch, chain, editedAt, order, intake, filed,
                 inFlightWebhooks, shown, forgotten>>

\* recallMessageSecret finds nothing, or fails: the edit is dropped.
RecallMisses(n) ==
  /\ IntakeOver(n)
  /\ \/ Target(n) \notin filed /\ Leave(n, "keyless") /\ UNCHANGED mishaps
     \/ Mishap /\ Leave(n, "dropped")
  /\ Uncount(0)
  /\ UNCHANGED <<event, arrived, batch, editedAt, order, intake, filed, shown, forgotten>>

\* It is found.  The position is claimed once the edit is decrypted.
RecallFinds(n) ==
  /\ IntakeOver(n)
  /\ Target(n) \in filed
  /\ IF Superseded(n)
     THEN /\ ClaimsNothing
          /\ Leave(n, "dropped")
          /\ Uncount(0)
     ELSE /\ ClaimPosition(n)
          /\ delivery' = [delivery EXCEPT ![n].st = "ready", ![n].claimed = TRUE]
          /\ inFlightWebhooks' = inFlightWebhooks + 1
          /\ UNCHANGED chain
  /\ UNCHANGED <<event, arrived, batch, intake, filed, shown, mishaps>>

\* deliverToWebhook, before each attempt: stillWanted.
StillWanted_FirstOnly(n) == delivery[n].tries = 0 => ~Superseded(n)
StillWanted(n) == ~Superseded(n)

Attempt(n) ==
  /\ delivery[n].st = "ready"
  /\ IF StillWanted(n)
     THEN /\ delivery' = [delivery EXCEPT ![n].st = "wire"]
          /\ UNCHANGED <<chain, inFlightWebhooks>>
     ELSE Leave(n, "abandoned") /\ Uncount(1)
  /\ UNCHANGED <<event, arrived, batch, editedAt, order, intake, filed, shown,
                 forgotten, mishaps>>

RetryEdit(n) ==
  IF delivery[n].tries < MaxRetries
  THEN /\ delivery' = [delivery EXCEPT ![n].st = "ready", ![n].tries = @ + 1]
       /\ UNCHANGED <<chain, inFlightWebhooks>>
  ELSE Leave(n, "failed") /\ Uncount(1)

\* The consumer applies the edit and says so.
EditLands(n) ==
  /\ delivery[n].st = "wire"
  /\ shown[Target(n)] # Unknown
  /\ shown' = [shown EXCEPT ![Target(n)] = n]
  /\ Leave(n, "delivered") /\ Uncount(1)
  /\ UNCHANGED <<event, arrived, batch, editedAt, order, intake, filed, forgotten,
                 mishaps>>

\* 404, or the request or its answer is lost.
EditRefused(n) ==
  /\ delivery[n].st = "wire"
  /\ \/ shown[Target(n)] = Unknown /\ UNCHANGED <<shown, mishaps>>
     \/ Mishap /\ UNCHANGED shown
     \/ /\ Mishap
        /\ shown[Target(n)] # Unknown
        /\ shown' = [shown EXCEPT ![Target(n)] = n]
  /\ RetryEdit(n)
  /\ UNCHANGED <<event, arrived, batch, editedAt, order, intake, filed, forgotten>>

EditStep(n) ==
  \/ HandleUpsert(n) \/ HandleHistory(n) \/ HandlePlain(n)
  \/ Addressed(n) \/ FileSecrets(n) \/ BatchLands(n)
  \/ StartDelivery(n) \/ IntakeTimesOut(n) \/ RecallMisses(n) \/ RecallFinds(n)
  \/ Attempt(n) \/ EditLands(n) \/ EditRefused(n)

EditNext == \E n \in Events : EditStep(n)

EditSpec == EditInit /\ [][EditNext]_editVars

-----------------------------------------------------------------------------
(* Properties *)

Undelivered(n) == delivery[n].st \in {"queued", "waiting", "ready", "wire"}

\* An older text never replaces a newer one, however the two edits arrived and
\* whatever was retried, with two exceptions the code names: a request already on
\* the wire when the newer edit was claimed, and a position the memory was too
\* small to keep.
NewestStands ==
  [][\A m \in Targets :
       (shown[m] # Unknown /\ shown'[m] # Unknown /\ Older(shown'[m], shown[m]))
         => \/ m \in forgotten
            \/ shown'[m] # 0 /\ delivery[shown'[m]].overtaken]_editVars

\* The position of an encrypted edit outlives its retries: until the delivery is
\* over, nothing that other messages claim makes the connection forget it.
PositionKept ==
  \A n \in Events :
    (Undelivered(n) /\ delivery[n].claimed /\ event[n].kind # "plain")
      => editedAt[Target(n)] # 0 /\ ~Older(editedAt[Target(n)], n)

\* An edit is not lost to a key that was on its way: one that is dropped for want
\* of a key came before every event that brought the original, or the key could
\* not be stored, or it took longer than the lookup waits.
NoKeyMissed ==
  \A n \in Events :
    (delivery[n].st = "keyless" /\ ~delivery[n].late)
      => \A k \in 1..(n - 1) :
           (event[k].orig /\ Target(k) = Target(n)) => ~batch[k].stored

\* A shutdown that waits for inFlightWebhooks to reach zero abandons nothing:
\* the counter is positive as long as a message or an edit is on its way, and it
\* comes back to zero.
WorkCounted ==
  LET busy == \/ \E n \in Events : Undelivered(n)
              \/ \E n \in Events : batch[n].st \in {"addressing", "filing", "ready"}
  IN  busy <=> inFlightWebhooks > 0
=============================================================================
