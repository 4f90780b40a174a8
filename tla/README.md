# A verification of baileys-api's connection cluster

baileys-api serves WhatsApp numbers ("phones") over HTTP. A phone must be
connected to WhatsApp by one socket of one process; with two, WhatsApp kicks them
in turn and the Signal session is damaged. Several worker processes ("instances")
share a Redis and divide the phones among them by leases; a proxy routes requests
to the owner. What can go wrong is mostly a matter of order: three loops, client
requests, timers and socket events interleave at every `await` of every process,
over a Redis that sees single commands. This directory models that part.

All paths are relative to the repository's `src/` directory.

## 1. Inventory

| component | state | operations | hard part | what makes it correct |
|---|---|---|---|---|
| lease store, `cluster/leaseStore.ts` | lease and epoch counter per phone in Redis | acquire (INCR, SET NX), force-acquire (INCR, SET), renew and release (scripts) | two-command acquisitions, delayed commands, TTLs | an epoch names one grant; stale renewals and releases do nothing |
| coordinator, `cluster/coordinator.ts` | held epochs, first-seen times, degraded and draining flags per process | claim, renew, rebalance loops; connect, import, restart, logout under a lease; shutdown | all of these interleave; crashes; Redis outages | no connection without its lease, no lost phone, epochs agree |
| connections handler, `baileys/connectionsHandler.ts` | registry of connections, slot per phone | connect, discard, logout, logoutAll, restart by the watchdog | waiters of a slot, background reconnects | one live socket per phone, always registered |
| connection, `baileys/connection.ts` | socket, discarded and ended flags, reconnect counter, send-stall breaker, edit positions | connect, close, logout, abort, event handlers, sends, webhook deliveries | every handler spans awaits in which the object may be replaced | no socket after a discard; an episode decides only about its own socket; newest edit wins |
| auth state, `baileys/redisAuthState.ts` | credentials, Signal keys, import cursor in a Redis hash | fenced write, fenced clear, seed, advance of a candidate | zombie writers, read-modify-write | only the lease owner writes; a connection resumes the session that was imported |
| registry, `cluster/instanceRegistry.ts` | liveness, load, draining flag, with a TTL | heartbeat, list, deregister, events | views are a heartbeat old | claims and placements tolerate stale views |
| quarantine, `cluster/quarantineStore.ts` | strikes and backoff per phone | strike, check, clear | read-modify-write across owners | a failing phone backs off, an explicit request overrides |
| send-stall store, `cluster/sendStallStore.ts` | restarts and backoff per phone | record, restore, clear (compare-and-set) | rollback against a successor or a logout | a cancelled restart leaves no trace |
| idempotency, `helpers/withIdempotency.ts` | a marker or a result per key | acquire, steal, cache, mark indeterminate, release | dead, slow and restarted holders | a send happens at most once; an unknown outcome stays unknown |
| proxy, `proxy/*.ts` | route cache | resolve, forward, retry once | stale routes | the request reaches the owner or fails with a retry hint |
| controllers, middlewares | none | validation, status codes | - | - |
| media, history, crypto helpers | files | conversions | - | - |

Interactions: controllers call the coordinator (explicit requests) and the handler
(everything else); the coordinator calls the handler to connect, discard and log
out; the handler creates connections and gives them callbacks (`onConnectionClose`,
`requestLogout`, `requestRestart`, `onUnrecoverable`); connections call the handler
through those, and read leases, strikes and credentials from Redis themselves; the
handler calls the coordinator through `onSpawnFailed`. The list of what is hard to
test, with lines, is under "hazards" in `PROJECT.json`.

## 2. Modules

| module | what |
|---|---|
| `LeaseLock` | abstract: what a lease promises |
| `LeaseStore` | the Redis commands of `leaseStore.ts`; implements `LeaseLock` |
| `LeaseStore_proofs` | the theorems about it |
| `MCLeaseStore` | `LeaseStore` for TLC |
| `Coordinator` | the instances, their loops and requests, over leases, credentials, tombstones, registry |
| `Coordinator_proofs` | the theorems about it |
| `MCCoordinator` | `Coordinator` for TLC, with a second initial state (scale-out) |
| `ConnectionsHandler` | the connections of one phone in one process |
| `ConnectionsHandler_proofs` | the theorems about it |
| `Idempotency` | the requests that carry one message, over the key in Redis and the process registry |
| `Idempotency_proofs` | the theorems about it |
| `MCIdempotency` | `Idempotency` for TLC, with the constraint that trades requests for mishaps and the symmetry of workers |
| `ProxyRouting` | requests through the proxy's route cache to workers whose ownership moves |
| `ProxyRouting_proofs` | the theorems about it |
| `SendBreaker` | the sends of one connection, its in-flight cap and its circuit breaker |
| `SendStall` | the watchdog's episodes and the strikes in Redis, over connections and instances |
| `SendStall_proofs` | the theorems about these two |
| `AuthState` | who writes a phone's credentials, the seed of an import and its candidates |
| `AuthState_proofs` | the theorems about it |
| `EditDelivery` | messages, edits of messages and the secrets between them, on their way to the webhook |
| `EditDelivery_proofs` | the theorems about it |
| `MCSession` | `SendBreaker`, `SendStall`, `AuthState` and `EditDelivery` for TLC, one at a time |

How they fit together: `LeaseStore` is the ground `Coordinator` stands on;
`Coordinator` treats a connection as opening or live, and `ConnectionsHandler` looks
inside. `SendBreaker` raises the stall that `SendStall` takes as one flag, and the
restart `SendStall` asks for is `Stalls` of `ConnectionsHandler`. `AuthState`,
`Idempotency` and `ProxyRouting` take from the cluster only what they read of it:
the lease and the registry, moved by the kinds of change `Coordinator` produces.

### LeaseStore

One action per Redis command. `IncrEpoch` is the INCR an acquisition starts with;
the call then waits in `calls` for its SET (`SetIfAbsent`, `SetAlways`), while
others execute. `RenewScript` and `ReleaseScript` are one atomic step each, some
time after the call. `LoseCall` drops a call (process or connection gone) and
`Elapse` runs TTLs down. Two SETs of one process execute in the order of their INCRs
because a process has one Redis connection (`lib/redis.ts`) and promises resolve in
reply order. `granted` is a history variable.

### Coordinator

A thread is whatever an instance may have going on for a phone: the claim of that
phone (scan, SET NX, sleep, reconnect), its renewal, its move by a rebalance, its
handoff by the shutdown, the release after a lost connection, and the requests. A
step ends where the code awaits Redis, a timer, the handler's slot or WhatsApp;
`op[t].pc` names what thread t awaits. Shared by the threads of an instance: `held`
(heldLeaseEpochs), `conn` (the registered connection with its epoch), `seen`
(firstSeenUnleasedAt), the loops' positions. In Redis: `lease`, `auth` (none,
unpaired or paired credentials), `quarantined`, `handoff`, `cooldown`, `registry`.

Abstractions, each of them deliberate:

- *INCR and SET are one step.* `LeaseStore` treats them apart and shows (and proves)
  what the coordinator relies on: epochs are unique and grow from SET to SET of one
  instance. `NextEpoch` therefore takes the smallest number above every epoch the
  instance still remembers, which keeps the state space finite: the code compares
  epochs only within an instance, for equality and for order.
- *Reads merged into one step:* the gates of a claim candidate (lease, tombstone,
  cooldown, strike) up to the credentials check, which is a step of its own; the
  share, computed when the scan begins; the guard of `acquireExplicitLease` (lease
  and registry), which is apart from its SET; the peers and shares of a rebalance.
- *Redis commands that fail only together:* a process is cut off from Redis as a
  whole (`reachable`); commands in flight are rejected, with or without having been
  executed; new ones wait, as node-redis queues them. Best-effort steps that swallow
  errors (`clearQuarantine`) then simply wait.
- *Slots:* a thread that waits for a free slot goes on before its process handles
  any reply or timer (`Settled`): resolving the slot's promise wakes it in a
  microtask.
- *Time:* TTLs, backoffs and graces end at any moment once they may. A lease lapses
  freely unless renewals of it arrive (`Renewed`): its owner runs, reaches Redis, and
  has a connection or a thread for the phone. An owner that drains has stopped its
  renewal timer, and its leases lapse under sockets that are still up: a discard may
  wait for its slot longer than the TTL (30 s), and the hard stop (35 s) comes later
  still. Nor does anything renew a claimed phone that waits for its chunk, and a blocked
  event loop renews nothing; both are `SlowLapse`, which counts as a disturbance, for
  the TTL is three renewal intervals and a chunk is short. `overdue` is a history: the
  leases that ran out under an instance with a connection or a thread for the phone.
- *The hard stop* is the second disjunct of `Exit`: it ends the process wherever the
  drain is.
- *Rejected commands* (`Rejected`): each await of a thread has its own consequence. A
  logout whose credentials could not be cleared leaves its discarded connection
  registered ("dead").
- A reconnect that gives up aborts and records its strike in one step; chunks of
  five reconnects are not separated (there are at most two phones).
- The connection is live or still opening; its own reconnects, and calls that race
  inside the handler, belong to `ConnectionsHandler`.

`NextPhase` is a step of the claim tick, which awaits the rebalance and all
reconnects before the next scan.

### ConnectionsHandler

Connections are objects with identities (`conns`), because the difficult cases are
about one that has lost its registry entry (`entry`) and still awaits something
(`busy`). `slot` is `inFlightOps`. Threads are the calls of the coordinator and,
per connection, the two callbacks that call back into the handler: the wrong-number
logout and the watchdog's restart. The actions on connections are what happens to
them by themselves: the socket drops and is redialled in the background, the
device is unlinked (`close()` without a slot), the number is wrong, sends stall, the
connection gives up. `spawnFails`, `redialFails` and `clearFails` reject the
respective await. `logoutAll`, which no slot keeps apart from the rest, is added by
`BulkNext`: with it, `NoOrphan` fails (see section 5). Identities are reused when nothing refers to
a connection.

### Idempotency

All attempts carry one message, so there is one key (`cell`): free, processing (with
the worker and its incarnation), indeterminate, or a result. `pc[a]` is the Redis
command attempt a issues next; the branches of `withIdempotency` between two commands
belong to the step that reads the reply. A send is external and has a life of its own
(`send`): on the wire, parked beyond the time the attempt waits, sent, or failed, and
the proof that it failed may come long after the response (`known`, `marker`: the
route's retraction, whichever of the two comes second). A send that is rejected in time
is either known not to have happened (`SendFails`: not connected, the breaker, the
mutex) or not (`SendRejects`: Baileys relays inside a transaction of the key store and
commits afterwards, so that a failing `keys.set` rejects a message that is out). The
answer to the latter, 500, claims nothing; the key is released all the same. A process crashes with all
its attempts and comes back under the same instance id with another incarnation. Any
command may be rejected, executed or not. `gaps` is a history variable: it records
the events the code accepts a second message for, so that `AtMostOnce` can say
that there are no others. "rejected" is a send rejected
after it went out; "unmarked" is a lock taken over from a holder
that is dead and whose marker could not be written: its message may be out, and the
`processing` value it left says nothing of it.

### ProxyRouting

A request is in the proxy (cached route, or lease, registry and choice of a worker),
at a worker (lease, live-owner check, serve or force), or on its way back; every read
and every forward is a step, and the cache is shared. Two histories say what a
request may rely on: `calm`, nothing has moved since it came in, and `right`, the
worker it is at was entitled to serve it at some time since it was sent there
(`Entitled`: it owned the phone, no live worker did, or the owner it had read was gone,
for lease and registry are read one after the other). The changes of ownership are
those `Coordinator` makes: claim, handoff, lapse, takeover, drain, crash, restart. `CacheExpires` is the TTL of a route as well as a delivered
`ownership.changed`, which pub/sub may lose: fairness assumes only that the TTL ends.

### SendBreaker

`send[s]` is what becomes of a send: waiting for the keystore mutex, holding it,
rejected on its way out, given up on (`late`) or settled, in the socket generation it
was born in. The library's mutex is external and appears as the four events it emits
(`handleTxEvent`). A new socket (`generation`) clears the breaker while old sends
remain.

### SendStall

Connections are objects with identities, as in `ConnectionsHandler`, over two
instances. `episode` is `handleSendStall` of each connection up to its await
(`lookup` covers the two reads that are issued together); `queued` are the restarts
waiting for the per-number slot, each with the strike it belongs to; `strike` is the
key in Redis, written by compare-and-set over several attempts. Around the episodes
happen recovery, a drop and redial of the socket, a forced restart, a logout, a
remote logged-out close, a takeover, the late fence of the old owner, and failing
Redis commands. `gaps` is a history: a strike that a failed Redis command wrote
unnoticed or left in place ("redis"), and a second restart queued behind one of the same
connection ("two restarts").

### AuthState

Credentials are the session they belong to, the Noise candidate in use, and a count
of changes; a socket has its own copy (`mem`) and saves it whole. `MayWrite` is the
owner check inside the scripts. `advance` is `advanceImportCandidate`, one step per
command; `spawn` is an import or a claim that has taken the lease and has yet to
seed, replace the socket and load. A save may have been sent before the socket was
closed, which is what makes the seed interesting. A socket that closes before its first
open searches for the next candidate or, if it was replaced, does not (`Closes`); a
rejected command ends the search and the reconnect goes on (`SearchFails`).

### EditDelivery

An event is what Baileys hands to a handler. `batch` follows the handler (addressing
of a dump, filing of secrets, the request with its retries), `delivery` the edit
(queued behind `chain`, waiting for open filings, recalled, sent, retried). `editedAt`
and `order` are the bounded memory of positions with its eviction. The consumer behind
the webhook is external: `shown` is the text it ends up with.

### MCSession

`focus` chooses which of the four modules moves while the others stay at an initial
state. They share no variable and no code path that changes another's state, so
interleaving them would multiply the states and show nothing; the run has their sum.

## 3. Runs

| run | configuration | checks |
|---|---|---|
| `lease_store` | 2 instances, 1 phone, TTL 2, 4 epochs, 3 calls in flight | `TypeOK`, `EpochsUnique`, `OwnEpochsIncrease`, `EndsOnlyByHolder`, `ExtendedOnlyByOwner`, `ImplementsLock` |
| `failover` | 2 instances, 2 phones; from boot with 2 failures out of crash, shutdown, give-up, failed spawn, failed rebuild, rebalance, late renewal; or one instance serves both phones, the other joins, and 1 of these, the rebalance or a failure | `TypeOK`, `SocketsLeased`, `ReleasesOnlyUnused`, `HandoffHonoured` |
| `recovery` | 2 instances from boot, 1 phone, 1 event: a failure (also an outage, an unlink, a late renewal) or a request of any of the 4 kinds; fairness | `EpochsAgree`, `ServedAgain`, `SelfFences` |
| `handler` | 2 calls out of connect, forced connect, discard, logout; 3 mishaps; 4 connections; fairness | `TypeOK`, `OneSocket`, `NoOrphan`, `CallsReturn`, `EntryServes` |
| `idempotency` | 3 requests for one message with 1 mishap, or 2 requests with 2, 2 workers; a mishap is a crash, a rejected command (the commit of a send that is out among them), or a slow process, whose registry entry or whose send is late | `TypeOK`, `HolderKeepsLock`, `AtMostOnce`, `AnswersTrue`, `Retracted`, `MarkerStands` |
| `proxy` | 2 requests again and again, 2 workers, 1 change of any of 6 kinds with all claims and renewals that follow; fairness | `ServedByOwner`, `OneRetryEnough`, `RoutesSettle` |
| `session` | breaker: 3 sends, threshold 2, cap 2, 2 sockets. Stall: 3 connections, 2 instances, 3 strikes, 4 events, 2 tries of the compare-and-set. Auth: 1 import of 2 candidates, 2 workers, 3 leases, 1 save per socket. Edits: 3 events about one message and 1 failure, or 1 event about each of two and 2 failures; a memory of 1 position, 1 retry | the twelve properties of these modules |
| `lease_epoch_order`, `stale_release`, `resurrection`, `bulk_logout`, `import_overwritten` | the smallest instance that shows the trace | one property each, violated: section 5 |

Why the bounds are enough. Leases: three calls in flight let any two commands of one
call straddle a complete call of each instance. Cluster: two instances are the
smallest number with an owner and a peer (a third meets the others in the lease only,
and what is proved of any number confirms that it changes nothing, with the exception
of `HandoffHonoured`, below); two phones are needed for shares and rebalances;
two failures let a recovery fail. The scale-out has
one event, its rebalance or a failure: a failure after the rebalance takes more time than
a run has (`HandoffHonoured`, `ReleasesOnlyUnused` and `SocketsLeased` are proved for
any number of both). Handler: four connections are one registered, one
taking over, and two on their way out. Idempotency: with three requests one holds the
key, one has read it, and one arrives in between; two workers give a holder elsewhere
and one in the same process; a second mishap lets a holder whose marker was rejected
die. Proxy: one request stores a route that another, older
read then overwrites. Breaker: three sends against a cap and a threshold of two reach
both limits with one to spare, and the second socket has sends of the first behind
it. Stall: three connections are a replaced one, its successor and one on the other
instance. Edits: two edits of one message, in every order and over every
channel, with the original before, between or after them; the second message only has
to push a position out of a memory of one.

Smaller than in the code, and why that changes nothing but the length of the runs:
`CAS_ATTEMPTS` and the attempts of `advanceImportCandidate` are 2 (code: 3), the
breaker's threshold 2, the memory of positions 1 (code: 1000), candidates 2.
`MaxEpoch`, `MaxInFlight` of `LeaseStore`, `MaxDisturbed`, `MaxMishaps`, `MaxChanges`,
`MaxTrouble`, `MaxEvents`, `Alone`, `MaxStrikes`, `MaxSockets`, `MaxBackground`,
`MaxSaves` and the number of `Requests`, `Attempts`, `Calls` and `Conns`
are bounds of the models, not of the code.

What the runs do not claim.

- `SocketsLeased` excepts a lease that ran out under its owner (`overdue`): while an
  instance drains for longer than the TTL, stalls, or keeps a claim waiting, a peer may
  claim the phone and two sockets overlap until the fence or the hard stop (section 5).
  What it says is that nothing else takes a lease from under a connection or opens one
  without it. It is checked without requests and outages: a force-acquire makes the
  previous owner's connection a duplicate until its next renewal, and an owner cut off
  from Redis keeps its socket on purpose. There, `SelfFences` is the property.
- `EpochsAgree` is checked under one event (`Alone`): a failure, or a request with at
  most one failure of its own (a failed spawn or reuse, a crash of its process). It
  does not hold with two requests on one instance, nor with a lapsed lease or an outage during a request
  (section 5).
- `EntryServes` excepts a connection whose session has ended, since a failing clear of
  the credentials leaves it registered.
- `AtMostOnce` holds up to the gaps the code names: a run without a lock when Redis
  rejects the acquisition, a live holder the registry reports dead, a result that
  could not be stored, a TTL that ended, a holder that died with a message out, a
  lock taken over from a dead holder that could not mark its unknown outcome, and a send
  rejected after it went out, whose key is released.
- `AnswersTrue` is about the answers that claim something: 200, the 404 and 503 that say
  "not sent", and the 504. A plain 500 is the answer both to a rejection that left
  nothing on the wire and to one that came after the relay.
- `ServedByOwner` allows the window between the read of the lease and that of the
  registry: a worker that finds the owner it has read gone serves, even when another
  worker has taken over meanwhile. It and the rest of `proxy` are checked without Redis
  failures in the worker's guard, which then serves whatever it has (fail-open).
- `RestartsCounted` assumes that no connection has two restarts in the queue
  (section 5).
- `HandoffHonoured` is about two instances in what it says of the tombstone. With a
  third, another instance's whole tenure, and its rebalance at the end, fits between the
  gates of a claim and its SET, and the claim then takes what the new tombstone promises
  to somebody else. What it says of the cooldown, that nobody takes back what it gave
  away, holds for any number and is proved (`CooldownRespected`).
- `NewestStands` excepts a request that was on the wire when the newer edit was
  claimed, and a message whose position was forgotten. `PositionKept` says nothing of
  plaintext edits (section 5).
- A connection runs one stall episode at a time: the next needs a new streak of 90 s.

None of these restrictions hides in a guard: each is in a configuration, in a module's
head or in the property's text. Four of them were found by proof attempts:
`ServedByOwner`, `AtMostOnce`, `RestartsCounted` and `HandoffHonoured` had been stated
without them, TLC agreed at the bounds then used, and the missing step of the induction
was a real execution just beyond those bounds (a lease that changes hands twice during
one request; two mishaps; a second restart in the queue; a third instance). The first
three were given their premises, or the history that records them, and the
`idempotency` run a second mishap.

## 4. Fairness

`Coordinator!Fairness`: a live process handles every reply and timer that is due (WF
of each thread's step and of each loop: Node's event loop starves nothing, and the
loops reschedule themselves); Redis becomes reachable again; an orchestrator restarts
a process that exited; TTLs, backoffs and the orphan grace end. Failures, requests,
rebalances and user actions have none. `ConnectionsHandler!FairSpec`: every
await ends, with success or rejection; nothing obliges a call or a mishap to happen.
`ProxyRouting!FairSpec`: a forward is answered or times out, a lookup returns, and the
TTL of a cached route ends; workers owe nothing, and nothing has to stop moving
(`RoutesSettle` assumes in its premise that ownership does). The fairness is weak
throughout.

`Idempotency`, `SendBreaker`, `SendStall`, `AuthState` and `EditDelivery` are checked for
safety only. What could be stuck there is stated as a state invariant instead:
`BreakerBacked` (an open breaker has something left that closes it), `NotDeaf` (a
stall is heard again), `WorkCounted` (the counter a shutdown waits for returns to zero).

## 5. Disagreements with the comments

- **Epochs do not strictly increase across owners** (`lease_epoch_order`;
  `leaseStore.ts:9-11`, `keys.ts:5-7`). i1 INCRs to 1, i2 INCRs to 2 and SETs, its
  lease ends, i1 SETs with 1. Unique epochs, and growing ones per instance, hold and
  are proved.
- **A rebalance can delete a newer lease of its own instance** (`stale_release`;
  `coordinator.ts:532-534`, `101-103`). The release takes the epoch held at that
  moment, not the one held when the connection was discarded. The giving back of
  claims in a draining tick and the end of a logout have the same shape.
- **A restart can resurrect a logged-out phone** (`resurrection`;
  `coordinator.ts:921-927`). The veto expects the DELETE to have the newer epoch; a
  DELETE that was already running has the older one.
- **`logoutAll` can leave an orphan** (`bulk_logout`; `connectionsHandler.ts:769-771`).
  The drain loop protects only what began before the logouts.
- **An import can be overwritten by the socket it replaces** (`import_overwritten`;
  `coordinator.ts:842-843`). The credentials are seeded before the old socket is
  discarded; a save of that socket which reaches Redis in between writes its own whole
  copy over the seed, the owner fence does not object (same instance), and the fresh
  connection loads the QR session.

Seen in the model and listed under "hazards" without a run of their own: a renewal
that loses its SET NX to a request of its own process discards the live socket; a
request whose SET was executed but whose reply was lost; two requests on one
instance whose slots are taken in the other order; a claim that takes the lease of
a phone just logged out; a failed reuse that abandons the lease under a live
connection; `onUnrecoverable` of a replaced connection.

Seen while modelling, without a comment that promises otherwise: a remote logged-out
close takes no slot, so a watchdog restart that is queued may rebuild a socket for a
session that has ended; a 409 for a message still in progress that comes back from
the second hop reaches the client as 503 (`router.ts:207-211`); `claimEditPosition`
may evict the position it has just set, when as many protected deliveries as the
memory holds are under way and the edit is a plaintext one, whose delivery is entered
only after the claim (`connection.ts:2637-2675`).

Nor do these break a promise, but they sit uneasily beside a comment:

- `coordinator.ts:1051-1053` closes each socket before its lease is released, so that "the
  next owner must never overlap with a still-open socket". The order holds
  (`ReleasesOnlyUnused`), the overlap is possible: renewals end when the drain begins
  (`1061-1067`), and a discard that waits for its slot may outlast the TTL, with the hard
  stop of `index.ts:109-112` only after it.
- Only a mutex-acquire timeout proves that a send never reached WhatsApp
  (`withIdempotency.ts:117-120`, `connection.ts:1162-1165`), yet every rejection before
  the deadline releases the key (`withIdempotency.ts:202-213`), a failed commit of the
  key store after the relay (`redisAuthState.ts:287-303`) too. The retry then sends a
  second message (gap "rejected").

Met in a proof attempt:

- `withIdempotency.ts:419-421` leaves the `processing` marker where the indeterminate one
  could not be written, and says that "it 409s the retry for the rest of the TTL". It
  does so while the holder's process lives; once that is dead, the next retry takes the
  lock over as any dead holder's, and the message may go out twice (gap "unmarked").
- `resolveMisdirectedRequest` (`workerRouting.ts:24-31`) reads lease and registry one
  after the other: the owner it has read may be gone because another worker has taken
  the phone over, and the request is served from a socket that is about to be fenced.
- A connection has room for one strike to take back (`stallStrikeRollback`,
  `connection.ts:347`). When a second restart of it queues behind the first, and one of
  the two is withdrawn, `rollBackStallStrike` (`connection.ts:1789`) takes back the
  strike written last, which may be that of the restart that is carried out.

## 6. Proofs

Eight modules hold theorems, one for each component, `SendBreaker` and `SendStall`
sharing theirs. Each theorem is for every value of the constants, under the named
assumptions on them, which the runs evaluate, and nothing else is taken on trust. With
the exceptions at the end of this section, every safety property that a passing run
checks is stated by a theorem, `Coordinator`'s under the hypotheses given below. The
proofs share one pattern: the property is not inductive, an invariant around it is, and
each lemma `...Preserves` or `...Step` takes one action, or one part of the invariant,
through a step.

**`LeaseStore_proofs`**: every property the run `lease_store` checks, and that the store
implements `LeaseLock`. Assumptions: `LeaseTtlAssumption` (the TTL is positive),
`NoLeaseAssumption` (the absent value is no lease), `BoundsAssumption`.
`EpochsUnique` is not inductive. `IInv` adds that no epoch in use exceeds the counter
(`EpochsCounted`), that the epoch of a pending SET was given to that call alone and to
no grant (`EpochsReserved`), that a pending SET is above every grant of its own
instance (`PendingAboveOwn`, which needs `IsNextSet`: without the ordered connection
`OwnEpochsIncrease` fails), and that a current lease was granted (`LeaseGranted`). Each
lemma `...Preserves` takes one group of actions through `IInv`; `LeaseStep` then
classifies what a step may do to a lease, and the action properties and the
refinement (a SET that writes is `Issue`, a deletion is `End`, the rest stutters)
follow from `IInv` and that classification.

**`Coordinator_proofs`**, in three layers, each of which uses the one before. Assumptions:
`SizesAssumption` (finitely many instances, phones and requests), `NamesAssumption` (the
absent values are none of the present ones, requests are no tasks), and the three on
kinds, disturbances and bounds.

- `TypeOK`, whatever happens. `BaseOK` adds to the types that a thread is at a place of
  its kind and has an epoch once it was granted one (`ThreadsOK`), that a connection has
  one (`ConnGranted`), and that a connection being opened is registered and has its slot
  taken by one thread (`SlotsHeld`).
- What a rebalance asks of the claims, whatever happens. `TicksOK`: the claim tick has
  one phase at a time, so that a rebalance runs when no claim of its instance is about.
  `GatesOK`: a claim past its gates is for no phone that its instance has given away
  (`NotTakenBack`), nor, between two instances, for one that a tombstone promises to the
  other (`NotPromised`). `CooldownRespected` has no further hypothesis;
  `RebalanceRespected` (`HandoffHonoured`) has `TwoInstances`, without which it is false.
- `SocketsLeased`, `EpochsAgree` and `ReleasesOnlyUnused` under `Calm`: no requests, no
  outage; crashes, restarts, shutdowns with their hard stops, rebalances, failed spawns
  and rebuilds, lost connections, and leases that run out under draining, stalled or
  waiting owners are all in, for any number of instances. Outside `Calm` `SocketsLeased`
  does not hold, and is not meant to (section 3); the run `failover` is an instance inside
  it. `CalmOK` says for each instance and phone what stands on the lease: a process that
  is gone has nothing there (`Gone`); a connection, and a claim that is to make one, hold
  the lease under their own epoch, unless it ran out under them or, for a claim, the
  instance has re-asserted it since, which the claim finds out when it wakes (`Founded`); a claim is
  only about when nothing is connected (`Single`); whoever is about to release has let go
  of the connection, and no claim can bring one back (`LetGo`); and the instance remembers
  the epoch of its connection (`Tracked`). The three properties each read off one or two
  of these.

**`ConnectionsHandler_proofs`**: `TypeOK`, `OneSocket`, `NoOrphan`, for `Spec`, which leaves
out the bulk logout (with it, `NoOrphan` is false: section 5). Assumptions: there are
connections to use, the absent value is none of them. `HandlerIInv` says that one
operation at a time is past the slot (`SlotHeld`), that each is about a connection
(`OpsAbout`), that a connection being spawned has done nothing yet (`SpawnsFresh`), that
one being ended is discarded and is not replaced meanwhile (`EndsOwn`), that whatever is
not discarded and has a socket, awaits one or is being spawned is registered
(`Registered`, which is what `NoOrphan` lacks to be inductive), that the only live
socket of a discarded connection is one whose logout is under way (`LogoutLeaves`), and
what handlers that await leave alone (`HandlersQuiet`). `OneSocket` follows: a live
socket is the entry's.

**`Idempotency_proofs`**: every property the run `idempotency` checks. Assumptions:
`BoundsAssumption`, `AttemptsAssumption`, `DisturbancesAssumption`, `FreeAssumption` and
`NoneAssumption` (the absent values are none of the values written or answers given).
The first invariant, `IInv`, adds to types and lock that an attempt is served by a process
that runs (`Served`: a crash ends all attempts of its process, which is why two holders
of one process cannot hide behind one value), that only a processing value is looked into
and stolen (`Suspected`: so a steal never removes a marker), and that nothing is sent
before the key was asked for and a send known not to have happened has not (`Phases`: so
a marker is retracted only on proof). It gives `HolderKeepsLock` and `MarkerStands`. The
second, `MInv`, follows the message: while no gap was met one message is out at most, and
it is covered by its holder, its marker, its result, or the lock that was left when
the marker could not be written (`OneOut`); a send under way belongs to an attempt at work
(`OnTheWire`); an answer decided on is backed by its send (`Told`); and a marker awaits
its proof or its retraction (`Retractable`). It gives `AtMostOnce`, `AnswersTrue` and
`Retracted`.

**`ProxyRouting_proofs`**: `ServedByOwner` and `OneRetryEnough`. `RoutingIInv` says of each
request that it has what its next step needs (`Equipped`), that a request at an entitled
worker is marked so and none is served unmarked (`Earned`), and, as long as nothing has
moved, that what it has read still holds and its one retry is at the owner's (`Steady`;
for an answered request that is `Resolved`, the conclusion of `OneRetryEnough`).

**`SendStall_proofs`**, first about `SendBreaker`: `BreakerTypeOK`, `InFlightExact`,
`BreakerBacked`. Assumptions: `SendsAssumption` (finitely many sends, other than the
mutex's marks), `ThresholdAssumption` (a threshold above one: with one, a send rejected
after its mutex was released would leave the breaker open for good), `FreeAssumption`,
`SocketsAssumption`. `BreakerBacked` needs the whole ledger. `BreakerIInv` says that the
counter is exact (`Counted`); sends are born in a generation that exists
(`BornBefore`); the holder of the mutex is a send that holds it, and conversely
(`HolderHolds`); a transaction that has timed out still holds it (`TimeoutHeld`); a send
that was given up on and holds the mutex has been heard of (`ExpiredHeard`); an armed
wedge has a holder (`WedgedHeld`); and every missed deadline counted has a late send or
a wedge behind it (`MissesBacked`). A type invariant alone would not even bound the
counter from below: that `inFlight` is never negative follows from `Counted`.

Then about `SendStall`: `StallTypeOK`, `NotDeaf`, `RestartsCounted`,
`NoBackoffAfterLogout`. Assumptions: `StallNoneAssumption`, `StallBoundsAssumption`. For
`NotDeaf`, `AllSound`: what keeps a registered connection from being restarted again is on
its way to an end, be it an episode that will set it free, a restart in the queue or an
abort (`Attended`). For the strikes, `StallLedger`: stamps grow, and what a connection
would put back was there when it wrote its own strike and counts one less (`Dated`); no
two connections have a strike in common (`Apart`); as long as no connection has two
restarts in the queue, the strike it would take back is not that of a restart carried
out (`Outstanding`), and the key counts every restart carried out and every strike not
yet decided (`Backed`); once a session is closed, none of its strikes is in Redis and
nobody can put one back (`NoneBack`). `RestartsCounted` alone is lost at the first
rollback: the induction has to count the strikes that are still undecided.

**`AuthState_proofs`**: `OwnerStateStands`. Assumptions: `SessionsAssumption`,
`CandidatesAssumption`. `AuthIInv` adds the types (`AuthTypeOK`), what a thread has read
before it goes on (`HasRead`), and that no epoch is in use that was not granted
(`EpochsGranted`): without it a later grant could bring an old epoch, and with it an old
writer, back.

**`EditDelivery_proofs`**: `WorkCounted`, `NoKeyMissed`, `PositionKept`, `NewestStands`.
Assumptions: `TrafficAssumption` (traffic is sequences of events), `MemoryAssumption`,
`UnknownAssumption`. `EditBase` has the types and the order in which an event goes
through batch and delivery (`Ahead`, `Heads`, `Bodies`, `Windows`). `Counted` says what the
counter is, to the number: the batches, the undelivered edits, and again those whose
request is out. `KeysSound`: an edit waits for every event before it whose secrets are
not filed, and one dropped in time has missed none. `PositionsSound`: until the position
of a message is evicted, what is shown, what was applied in place and what is being
delivered are at or behind it, and a request behind it is marked as overtaken; for an
encrypted edit it is not evicted before its delivery is over. The order in which
positions are evicted is left out of all of this: whatever is evicted, it is nothing that
is still being delivered. `Evicted` of `EditDelivery` is therefore written as the set of
positions that go, which also keeps recursion out of the module.

Only model-checked:

- all liveness (`ServedAgain`, `SelfFences`, `CallsReturn`, `EntryServes`, `RoutesSettle`),
  which is beyond the proof system;
- `EpochsAgree` with a request or an outage (run `recovery`), where only
  one event at a time keeps it true, and where an inductive invariant would have to say
  what each kind of request may have done so far. `SocketsLeased` and
  `ReleasesOnlyUnused` are false there (sections 3 and 5).

## 7. Not modelled

- The two commands of a quarantine strike and its backoff (a flag with an expiry in
  `Coordinator`).
- The HTTP routes that only map a call to a response, validation, authentication.
- Media, audio and history conversion, cryptography of secrets and edits: formats and
  I/O, no shared state to interleave.
- Of a connection: QR codes, presence, group activity, receipts, and the batching of
  history uploads.
- Of the proxy: media, requests fanned out to all workers, buffering of bodies.
- Of the handler: calls passed straight through to a socket, and the drain of webhooks
  at shutdown (`WorkCounted` is about the counter it waits for).
- Configuration and logging: values of the constants.

`PROJECT.json` says of each component what is left out.

## 8. What could follow

1. `Quarantine`: the strike's read and write under two instances, and the backoff
   function against its definition.
2. Properties for the hazards of `Coordinator` that have only a note: the renewal that
   fences its own request's lease, two requests on one instance, the claim of a phone
   just logged out.
3. Proofs: `EpochsAgree` of `Coordinator` with one request (`Alone`), for which the
   invariant has to say what a request may do to each of the parts of `PairOK`; what
   `ReleasesOnlyUnused` keeps of itself with requests about.
4. An abstract once-only cell that `Idempotency` implements between its gaps, and an
   abstract latest-writer register for `EditDelivery`, with the refinements proved on
   top of `MInv` and `PositionsSound`.
