----------------------------- MODULE ProxyRouting -----------------------------
(***************************************************************************)
(* src/proxy/router.ts and routeCache.ts with what a worker decides before *)
(* it serves (src/cluster/workerRouting.ts, the live-owner guard of        *)
(* coordinator.ts): how a request for a phone reaches the worker that owns *)
(* it, while ownership moves.                                              *)
(*                                                                         *)
(* A proxy serves many requests at once; they share its route cache.  The  *)
(* lease and the registry are in Redis and change under the request's      *)
(* feet: a read of one is a step, and so is each forward.  Workers' loops  *)
(* (Coordinator.tla) appear as the changes of ownership they cause.        *)
(***************************************************************************)
EXTENDS Naturals

CONSTANTS Workers, Requests,
          None,         \* no lease, no cached route, no worker
          Changes,      \* what may happen to the workers and their leases
          MaxChanges    \* bound: how many times it happens

AllChanges == {"crash", "handoff", "drain", "lapse", "takeover", "timeout"}
ASSUME ChangesAssumption == Changes \subseteq AllChanges
ASSUME BoundsAssumption == MaxChanges \in Nat
ASSUME NoneAssumption == None \notin Workers \cup Requests

VARIABLES
  lease,     \* the owner of the phone, or None
  registry,  \* registry[w]: "gone", "live" or "draining"
  up,        \* up[w]: whether the process runs
  socket,    \* socket[w]: whether it has a connection for the phone
  cache,     \* the proxy's cached route, or None
  req,       \* req[r]: request r
  left       \* changes that may still happen

cluster == <<lease, registry, up, socket>>
vars == <<cluster, cache, req, left>>

\* A request: `to` is the worker it is forwarded to, `owner` the instance a
\* lookup has named, `reply` the worker's last answer, `hop` how often it was
\* forwarded.  History: `calm`, nothing in the cluster has changed since it came
\* in; `right`, the worker it is at was entitled to serve it at some time since.
NoRequest == [pc |-> "idle", kind |-> "call", to |-> None, owner |-> None,
              reply |-> "none", hop |-> 0, calm |-> TRUE, right |-> FALSE]

Init ==
  /\ lease = None
  /\ registry = [w \in Workers |-> "live"]
  /\ up = [w \in Workers |-> TRUE]
  /\ socket = [w \in Workers |-> FALSE]
  /\ cache = None
  /\ req = [r \in Requests |-> NoRequest]
  /\ left = MaxChanges

Change(kind) == kind \in Changes /\ left > 0 /\ left' = left - 1

\* Worker w may serve the phone: it has the lease, or no live worker has it.
Rightful(w, l, reg) == l \in {None, w} \/ reg[l] = "gone"

AtWorker(q) == q.pc \in {"forward", "alive", "serve", "force"}

\* The worker that request q is at may serve it: also when the owner it has read
\* is gone, whoever has taken the phone over from that one.
Entitled(q, l, reg) ==
  Rightful(q.to, l, reg) \/ (q.pc = "alive" /\ reg[q.owner] = "gone")

\* The requests, after a change of the cluster by r.  Answers are forgotten.
Witnessed(reqs, r) ==
  [q \in Requests |->
     IF reqs[q].pc \in {"idle", "answered"} THEN NoRequest
     ELSE [reqs[q] EXCEPT
             !.calm = @ /\ q = r,
             !.right = @ \/ (AtWorker(reqs[q]) /\ Entitled(reqs[q], lease', registry'))]]

NoOne == None
Goto(r, pc) == req' = [req EXCEPT ![r].pc = pc]
Reply(r, reply) ==
  req' = [req EXCEPT ![r].pc = "replied", ![r].reply = reply,
                     ![r].right = @ /\ reply = "200"]

\* The response; it is kept if it can be judged by the state of the cluster.
Answer(r, code) ==
  req' = [req EXCEPT ![r] =
    IF req[r].calm
    THEN [NoRequest EXCEPT !.pc = "answered", !.reply = code, !.to = req[r].to]
    ELSE NoRequest]

-----------------------------------------------------------------------------
(* forwardByPhone: finding the target *)

\* A request comes in; a cached route needs no lookup.
Arrive(r, kind) ==
  /\ req[r].pc \in {"idle", "answered"}
  /\ req' = [req EXCEPT ![r] =
       [NoRequest EXCEPT !.kind = kind,
                         !.pc = IF cache = None THEN "lease" ELSE "forward",
                         !.to = cache,
                         !.right = cache # None /\ Rightful(cache, lease, registry)]]
  /\ UNCHANGED <<cluster, cache, left>>

\* getLease.  Without one, only a placement goes on.
ReadLease(r) ==
  /\ req[r].pc = "lease"
  /\ \/ lease # None /\ req' = [req EXCEPT ![r].pc = "instance", ![r].owner = lease]
     \/ lease = None /\ req[r].kind = "place" /\ Goto(r, "pick")
     \/ lease = None /\ req[r].kind = "call" /\ Answer(r, "404")
  /\ UNCHANGED <<cluster, cache, left>>

\* Forwarding to w.
Towards(r, w) ==
  req' = [req EXCEPT ![r].pc = "forward", ![r].to = w, ![r].owner = None,
                     ![r].right = Rightful(w, lease, registry)]

\* getInstance(lease.owner): the route is cached, or the owner is dead and a
\* placement may go elsewhere.
ReadInstance(r) ==
  LET w == req[r].owner
  IN /\ req[r].pc = "instance"
     /\ \/ registry[w] # "gone" /\ Towards(r, w) /\ cache' = w
        \/ /\ registry[w] = "gone"
           /\ cache' = None
           /\ IF req[r].kind = "place" THEN Goto(r, "pick") ELSE Answer(r, "503")
     /\ UNCHANGED <<cluster, left>>

\* pickLeastLoadedWorker.  The loads are a heartbeat old: any worker that is not
\* draining may be the least loaded.
Pick(r) ==
  /\ req[r].pc = "pick"
  /\ \/ \E w \in Workers : registry[w] = "live" /\ Towards(r, w)
     \/ (\A w \in Workers : registry[w] # "live") /\ Answer(r, "503")
  /\ UNCHANGED <<cluster, cache, left>>

-----------------------------------------------------------------------------
(* The worker *)

\* Bug: only a worker without a socket asks who owns the phone.
Receive_SocketFirst(r) ==
  LET w == req[r].to
  IN /\ req[r].pc = "forward" /\ up[w]
     /\ \/ req[r].kind = "call" /\ (socket[w] \/ lease \in {None, w}) /\ Goto(r, "serve")
        \/ req[r].kind = "place" /\ lease \in {None, w} /\ Goto(r, "force")
        \/ /\ lease \notin {None, w} /\ ~(req[r].kind = "call" /\ socket[w])
           /\ req' = [req EXCEPT ![r].pc = "alive", ![r].owner = lease]
     /\ UNCHANGED <<cluster, cache, left>>

\* getLease of resolveMisdirectedRequest (a call) or of acquireExplicitLease (a
\* takeover, which the former lets through).
Receive(r) ==
  LET w == req[r].to
  IN /\ req[r].pc = "forward" /\ up[w]
     /\ \/ /\ lease \in {None, w}
           /\ Goto(r, IF req[r].kind = "call" THEN "serve" ELSE "force")
        \/ /\ lease \notin {None, w}
           /\ req' = [req EXCEPT ![r].pc = "alive", ![r].owner = lease]
     /\ UNCHANGED <<cluster, cache, left>>

\* isInstanceAlive(lease.owner): 421, or 409 to a takeover, both with the owner.
CheckAlive(r) ==
  LET w == req[r].to
  IN /\ req[r].pc = "alive" /\ up[w]
     /\ IF registry[req[r].owner] # "gone" THEN Reply(r, "misdirected")
        ELSE Goto(r, IF req[r].kind = "call" THEN "serve" ELSE "force")
     /\ UNCHANGED <<cluster, cache, left>>

\* The handler: not connected, done, or an idempotency conflict without an owner.
Serve(r) ==
  LET w == req[r].to
  IN /\ req[r].pc = "serve" /\ up[w]
     /\ \/ socket[w] /\ Reply(r, "200")
        \/ socket[w] /\ Reply(r, "409")
        \/ ~socket[w] /\ Reply(r, "404")
     /\ UNCHANGED <<cluster, cache, left>>

\* forceAcquireLease, and the connect.
ForceAcquire(r) ==
  LET w == req[r].to
  IN /\ req[r].pc = "force" /\ up[w]
     /\ lease' = w
     /\ socket' = [socket EXCEPT ![w] = TRUE]
     /\ UNCHANGED <<registry, up, cache, left>>
     /\ req' = Witnessed([req EXCEPT ![r].pc = "replied", ![r].reply = "200"], r)

-----------------------------------------------------------------------------
(* forwardByPhone: the worker's answer *)

\* The fetch fails: the worker is gone, or (bounded) does not answer in time.
FetchFails(r) ==
  /\ AtWorker(req[r])
  /\ \/ ~up[req[r].to] /\ Goto(r, "failed") /\ UNCHANGED left
     \/ /\ up[req[r].to] /\ Change("timeout")
        /\ req' = [req EXCEPT ![r].pc = "failed", ![r].calm = FALSE]
  /\ cache' = None
  /\ UNCHANGED cluster

\* stillRegistered?
Diagnose(r) ==
  /\ req[r].pc = "failed"
  /\ Answer(r, IF registry[req[r].to] = "gone" THEN "503" ELSE "504")
  /\ UNCHANGED <<cluster, cache, left>>

\* The first answer.  421 and 409 drop the cached route; one that names an owner
\* is followed, any other is relayed.
First(r) ==
  /\ req[r].pc = "replied" /\ req[r].hop = 0
  /\ \/ /\ req[r].reply = "misdirected"
        /\ cache' = None
        /\ Goto(r, "owner")
     \/ /\ req[r].reply # "misdirected"
        /\ cache' = IF req[r].reply = "409" THEN None ELSE cache
        /\ Answer(r, req[r].reply)
  /\ UNCHANGED <<cluster, left>>

\* Bug: the request goes where it came from.
FollowTo_Same(r) == req[r].to

\* retryTarget: the instance the worker named.
FollowTo(r) == req[r].owner

\* getInstance(owner), then the only retry.
Follow(r) ==
  /\ req[r].pc = "owner"
  /\ \/ registry[req[r].owner] = "gone" /\ Answer(r, "503")
     \/ /\ registry[req[r].owner] # "gone"
        /\ LET w == FollowTo(r)
           IN req' = [req EXCEPT ![r] =
                [@ EXCEPT !.pc = "forward", !.to = w, !.hop = 1,
                          !.reply = "none", !.owner = None,
                          !.right = Rightful(w, lease, registry)]]
  /\ UNCHANGED <<cluster, cache, left>>

\* The retry's answer.  A second 421 or 409 ends the request; success is cached.
Second(r) ==
  /\ req[r].pc = "replied" /\ req[r].hop = 1
  /\ \/ /\ req[r].reply \in {"misdirected", "409"}
        /\ Answer(r, IF req[r].reply = "409" THEN "503 busy" ELSE "503")
        /\ UNCHANGED cache
     \/ /\ req[r].reply \notin {"misdirected", "409"}
        /\ cache' = IF req[r].reply = "200" THEN req[r].to ELSE cache
        /\ Answer(r, req[r].reply)
  /\ UNCHANGED <<cluster, left>>

-----------------------------------------------------------------------------
(* The route cache *)

\* Bug: routes are cached for ever.
CacheExpires_Never == FALSE /\ UNCHANGED vars

\* routeCacheTtlMs ends, or ownership.changed is delivered.  The message may
\* come late or never: pub/sub keeps nothing for a subscriber that is away.
CacheExpires ==
  /\ cache # None
  /\ cache' = None
  /\ UNCHANGED <<cluster, req, left>>

-----------------------------------------------------------------------------
(* Ownership moves *)

\* The requests have seen a change that none of them made.
Moved == req' = Witnessed(req, NoOne)

\* A claim of an unowned phone.
Claim(w) ==
  /\ lease = None /\ up[w] /\ registry[w] = "live"
  /\ lease' = w
  /\ socket' = [socket EXCEPT ![w] = TRUE]
  /\ UNCHANGED <<registry, up, cache, left>>
  /\ Moved

\* A rebalance, a shutdown or a DELETE gives the phone up.
HandOff(w) ==
  /\ lease = w /\ up[w] /\ Change("handoff")
  /\ lease' = None
  /\ socket' = [socket EXCEPT ![w] = FALSE]
  /\ UNCHANGED <<registry, up, cache>>
  /\ Moved

\* The TTL of the lease runs out: its owner is gone or was too slow.
Lapse ==
  /\ lease # None
  /\ \/ ~up[lease] /\ UNCHANGED left
     \/ up[lease] /\ Change("lapse")
  /\ lease' = None
  /\ UNCHANGED <<registry, up, socket, cache>>
  /\ Moved

\* A takeover that did not come through this proxy.
Takeover(w) ==
  /\ up[w] /\ lease # w /\ Change("takeover")
  /\ lease' = w
  /\ socket' = [socket EXCEPT ![w] = TRUE]
  /\ UNCHANGED <<registry, up, cache>>
  /\ Moved

\* The renewal loop of an instance that lost its lease discards the socket, or
\* that of a live one takes a lapsed lease again.
Renew(w) ==
  /\ up[w] /\ socket[w] /\ lease # w
  /\ \/ lease = None /\ lease' = w /\ UNCHANGED socket
     \/ lease # None /\ socket' = [socket EXCEPT ![w] = FALSE] /\ UNCHANGED lease
  /\ UNCHANGED <<registry, up, cache, left>>
  /\ Moved

Drain(w) ==
  /\ up[w] /\ registry[w] = "live" /\ Change("drain")
  /\ registry' = [registry EXCEPT ![w] = "draining"]
  /\ UNCHANGED <<lease, up, socket, cache>>
  /\ Moved

Crash(w) ==
  /\ up[w] /\ Change("crash")
  /\ up' = [up EXCEPT ![w] = FALSE]
  /\ socket' = [socket EXCEPT ![w] = FALSE]
  /\ UNCHANGED <<lease, registry, cache>>
  /\ Moved

\* The heartbeat's TTL ends, or a process starts (again) and announces itself.
RegistryExpires(w) ==
  /\ ~up[w] /\ registry[w] # "gone"
  /\ registry' = [registry EXCEPT ![w] = "gone"]
  /\ UNCHANGED <<lease, up, socket, cache, left>>
  /\ Moved

Restart(w) ==
  /\ ~up[w]
  /\ up' = [up EXCEPT ![w] = TRUE]
  /\ registry' = [registry EXCEPT ![w] = "live"]
  /\ UNCHANGED <<lease, socket, cache, left>>
  /\ Moved

-----------------------------------------------------------------------------

Step(r) ==
  \/ ReadLease(r) \/ ReadInstance(r) \/ Pick(r)
  \/ Receive(r) \/ CheckAlive(r) \/ Serve(r) \/ ForceAcquire(r)
  \/ FetchFails(r) \/ Diagnose(r) \/ First(r) \/ Follow(r) \/ Second(r)

Next ==
  \/ \E r \in Requests : Step(r) \/ \E kind \in {"call", "place"} : Arrive(r, kind)
  \/ CacheExpires \/ Lapse
  \/ \E w \in Workers :
       \/ Claim(w) \/ HandOff(w) \/ Takeover(w) \/ Renew(w) \/ Drain(w)
       \/ Crash(w) \/ RegistryExpires(w) \/ Restart(w)

Spec == Init /\ [][Next]_vars

\* A forward is answered or times out, and the cached route's TTL ends.
FairSpec == Spec /\ WF_vars(CacheExpires) /\ \A r \in Requests : WF_vars(Step(r))

-----------------------------------------------------------------------------
(* Properties *)

\* No zombie answers: a request is served from a worker's socket only if, at some
\* time since it was sent there, that worker owned the phone, no live worker did,
\* or the owner it had read was gone.  Lease and registry are read one after the
\* other, so in the last case another worker may have taken over in between; the
\* worker may still have the socket of a lease it lost.
ServedByOwner ==
  \A r \in Requests :
    req[r].pc = "replied" /\ req[r].reply = "200" => req[r].right

\* However stale the cached route, one retry is enough when nothing moves
\* meanwhile: the request is answered by the owner, unless the stale route led
\* to a worker that is down (503 or 504, and the route is dropped) or the owner
\* is busy with the same message.
OneRetryEnough ==
  \A r \in Requests :
    LET w == lease
    IN /\ req[r].pc = "answered"
       /\ w # None /\ up[w] /\ registry[w] # "gone" /\ socket[w]
       => \/ req[r].reply \in {"200", "409", "503 busy"} /\ req[r].to = w
          \/ req[r].reply \in {"503", "504"} /\ req[r].to # w /\ ~up[req[r].to]

\* Once ownership has settled the proxy stops sending requests elsewhere, even
\* if every ownership.changed is lost and a stale read is stored late.
RoutesSettle ==
  \A w \in Workers :
    <>[](lease = w /\ registry[w] = "live") => <>[](cache \in {None, w})
=============================================================================
