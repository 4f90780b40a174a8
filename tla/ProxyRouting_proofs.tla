-------------------------- MODULE ProxyRouting_proofs --------------------------
(***************************************************************************)
(* Theorems about ProxyRouting for any workers, requests, changes and      *)
(* bound on them.                                                          *)
(***************************************************************************)
EXTENDS ProxyRouting, TLAPS

Request ==
  [pc : {"idle", "answered", "lease", "instance", "pick", "forward", "alive", "serve",
         "force", "replied", "failed", "owner"},
   kind : {"call", "place"},
   to : Workers \cup {None}, owner : Workers \cup {None},
   reply : {"none", "200", "404", "409", "misdirected", "503", "503 busy", "504"},
   hop : {0, 1}, calm : BOOLEAN, right : BOOLEAN]

RoutingTypeOK ==
  /\ lease \in Workers \cup {None}
  /\ registry \in [Workers -> {"gone", "live", "draining"}]
  /\ up \in [Workers -> BOOLEAN]
  /\ socket \in [Workers -> BOOLEAN]
  /\ cache \in Workers \cup {None}
  /\ req \in [Requests -> Request]
  /\ left \in 0..MaxChanges

\* A request has what its next step needs; only a calm one keeps its answer.
Equipped(q) ==
  /\ AtWorker(q) \/ q.pc \in {"replied", "failed"} => q.to \in Workers
  /\ q.pc \in {"instance", "alive", "owner"} => q.owner \in Workers
  /\ q.pc = "replied" => /\ q.reply \in {"200", "404", "409", "misdirected"}
                         /\ q.reply = "misdirected" => q.owner \in Workers
  /\ q.pc \in {"lease", "instance", "pick"} => q.hop = 0
  /\ q.pc = "answered" => q.calm

\* A request at a worker that is entitled to serve it is marked, and none is served
\* unmarked.
Earned(q) ==
  /\ AtWorker(q) /\ Entitled(q, lease, registry) => q.right
  /\ q.pc \in {"serve", "force"} => q.right
  /\ q.pc = "replied" /\ q.reply = "200" => q.right

\* What OneRetryEnough says of an answered request.
Resolved(q) ==
  LET w == lease
  IN w # None /\ up[w] /\ registry[w] # "gone" /\ socket[w]
     => \/ q.reply \in {"200", "409", "503 busy"} /\ q.to = w
        \/ q.reply \in {"503", "504"} /\ q.to # w /\ ~up[q.to]

\* What a request has read still holds while nothing has changed: it knows the
\* owner, and its one retry is at the owner's.
Steady(q) ==
  /\ q.pc \in {"instance", "owner"} => q.owner = lease
  /\ q.pc = "pick" => lease = None \/ registry[lease] = "gone"
  /\ AtWorker(q) /\ q.hop = 1 => q.to = lease
  /\ q.pc = "alive" => q.owner = lease /\ lease # q.to
  /\ q.pc \in {"serve", "force"} => Rightful(q.to, lease, registry)
  /\ q.pc = "replied" =>
       IF q.reply = "misdirected" THEN q.owner = lease /\ q.hop = 0
       ELSE /\ Rightful(q.to, lease, registry)
            /\ q.reply = "404" => ~socket[q.to]
  /\ q.pc = "failed" => ~up[q.to]
  /\ q.pc = "answered" => Resolved(q)

\* Neither ServedByOwner nor OneRetryEnough is inductive: they speak of the last
\* step of a request only.
RoutingIInv ==
  /\ RoutingTypeOK
  /\ \A r \in Requests : /\ Equipped(req[r])
                         /\ Earned(req[r])
                         /\ req[r].calm => Steady(req[r])

\* The invariant of one request, whose parts the lemmas below take one at a time.
RequestOK(q) == q \in Request /\ Equipped(q) /\ Earned(q) /\ (q.calm => Steady(q))

-----------------------------------------------------------------------------

LEMMA NoRequestOK ==
  NoRequest \in Request /\ NoRequest.pc = "idle" /\ RequestOK(NoRequest)
  <1>1. NoRequest \in Request /\ NoRequest.pc = "idle"
    BY DEF NoRequest, Request
  <1>2. Equipped(NoRequest) /\ Earned(NoRequest) /\ Steady(NoRequest)
    BY <1>1 DEF Equipped, Earned, Steady, AtWorker
  <1> QED BY <1>1, <1>2 DEF RequestOK

LEMMA InitRoutingIInv == Init => RoutingIInv
  <1> SUFFICES ASSUME Init PROVE RoutingIInv
    OBVIOUS
  <1>1. RoutingTypeOK
    BY NoRequestOK, BoundsAssumption DEF Init, RoutingTypeOK
  <1>2. \A r \in Requests : req[r] = NoRequest
    BY DEF Init
  <1> QED BY <1>1, <1>2, NoRequestOK DEF RoutingIInv, RequestOK

\* A step of one request that leaves the cluster alone.
LEMMA RequestStep ==
  ASSUME RoutingIInv, NEW r \in Requests, NEW q, RequestOK(q), req' = [req EXCEPT ![r] = q],
         UNCHANGED cluster, cache' \in Workers \cup {None}, left' \in 0..MaxChanges
  PROVE  RoutingIInv'
  <1>1. req'[r] = q /\ req' \in [Requests -> Request]
        /\ \A p \in Requests \ {r} : req'[p] = req[p]
    BY DEF RoutingIInv, RoutingTypeOK, RequestOK
  <1>2. UNCHANGED <<lease, registry, up, socket>>
    BY DEF cluster
  <1>3. RoutingTypeOK'
    BY <1>1, <1>2 DEF RoutingIInv, RoutingTypeOK
  <1>4. ASSUME NEW p \in Requests
        PROVE  Equipped(req[p])' /\ Earned(req[p])' /\ (req[p].calm => Steady(req[p]))'
    <2>1. CASE p = r
      BY <1>1, <1>2, <2>1 DEF RequestOK, Earned, Steady, Resolved
    <2>2. CASE p # r
      BY <1>1, <1>2, <2>2 DEF RoutingIInv, Earned, Steady, Resolved
    <2> QED BY <2>1, <2>2
  <1> QED BY <1>3, <1>4 DEF RoutingIInv

LEMMA TheRequest ==
  ASSUME RoutingIInv, NEW r \in Requests
  PROVE  /\ req[r] \in Request /\ RequestOK(req[r]) /\ req \in [Requests -> Request]
         /\ lease \in Workers \cup {None} /\ cache \in Workers \cup {None} /\ left \in 0..MaxChanges
  BY DEF RoutingIInv, RoutingTypeOK, RequestOK

\* The answer of a request: kept when it is calm, and then resolved.
LEMMA AnswerStep ==
  ASSUME RoutingIInv, NEW r \in Requests,
         NEW code \in {"200", "404", "409", "503", "503 busy", "504"}, Answer(r, code),
         UNCHANGED cluster, cache' \in Workers \cup {None}, left' \in 0..MaxChanges,
         req[r].calm => Resolved([req[r] EXCEPT !.reply = code])
  PROVE  RoutingIInv'
  <1> DEFINE kept == [NoRequest EXCEPT !.pc = "answered", !.reply = code, !.to = req[r].to]
             q == IF req[r].calm THEN kept ELSE NoRequest
  <1>1. req[r] \in Request
    BY TheRequest
  <1>2. kept \in Request /\ kept.pc = "answered" /\ kept.reply = code /\ kept.to = req[r].to
        /\ kept.calm
    BY <1>1 DEF NoRequest, Request
  <1>3. ASSUME req[r].calm
        PROVE  RequestOK(kept)
    <2>1. /\ [req[r] EXCEPT !.reply = code].reply = code
          /\ [req[r] EXCEPT !.reply = code].to = req[r].to
      BY <1>1 DEF Request
    <2>2. Resolved(kept)
      BY <1>2, <1>3, <2>1 DEF Resolved
    <2>3. Steady(kept) /\ Earned(kept) /\ Equipped(kept)
      BY <1>2, <2>2 DEF Steady, Earned, Equipped, AtWorker
    <2> QED BY <1>2, <2>3 DEF RequestOK
  <1>4. RequestOK(q)
    BY <1>3, NoRequestOK
  <1>5. req' = [req EXCEPT ![r] = q]
    BY DEF Answer
  <1> HIDE DEF q
  <1> QED BY <1>4, <1>5, RequestStep

LEMMA ArrivePreserves ==
  ASSUME RoutingIInv, NEW r \in Requests, NEW kind \in {"call", "place"}, Arrive(r, kind)
  PROVE  RoutingIInv'
  <1> DEFINE q == [NoRequest EXCEPT !.kind = kind,
                         !.pc = IF cache = None THEN "lease" ELSE "forward",
                         !.to = cache,
                         !.right = cache # None /\ Rightful(cache, lease, registry)]
  <1>1. cache \in Workers \cup {None} /\ left \in 0..MaxChanges
    BY TheRequest
  <1>2. /\ q \in Request /\ q.pc = (IF cache = None THEN "lease" ELSE "forward")
        /\ q.to = cache /\ q.hop = 0
        /\ q.right = (cache # None /\ Rightful(cache, lease, registry))
    BY <1>1 DEF NoRequest, Request
  <1>3. req' = [req EXCEPT ![r] = q] /\ UNCHANGED <<cluster, cache, left>>
    BY DEF Arrive
  <1> HIDE DEF q
  <1>4. Equipped(q) /\ Earned(q) /\ Steady(q)
    <2>1. CASE cache = None
      BY <1>2, <2>1 DEF Equipped, Earned, Steady, AtWorker
    <2>2. CASE cache # None
      <3>1. Entitled(q, lease, registry) => q.right
        BY <1>2, <2>2 DEF Entitled
      <3>2. q.pc = "forward" /\ q.to \in Workers
        BY <1>1, <1>2, <2>2
      <3> QED BY <1>2, <3>1, <3>2 DEF Equipped, Earned, Steady, AtWorker
    <2> QED BY <2>1, <2>2
  <1> QED BY <1>1, <1>2, <1>3, <1>4, RequestStep DEF RequestOK

\* A request goes on to a step of the proxy's own.
LEMMA ReadLeasePreserves ==
  ASSUME RoutingIInv, NEW r \in Requests, ReadLease(r)
  PROVE  RoutingIInv'
  <1>1. req[r] \in Request /\ req \in [Requests -> Request] /\ req[r].pc = "lease"
        /\ lease \in Workers \cup {None} /\ req[r].hop = 0
    BY TheRequest DEF ReadLease, RequestOK, Equipped
  <1>2. UNCHANGED cluster /\ cache' \in Workers \cup {None} /\ left' \in 0..MaxChanges
    BY TheRequest DEF ReadLease
  <1>3. CASE lease # None
    <2> DEFINE q == [req[r] EXCEPT !.pc = "instance", !.owner = lease]
    <2>1. q \in Request /\ q.pc = "instance" /\ q.owner = lease /\ lease \in Workers /\ q.hop = 0
      BY <1>1, <1>3 DEF Request
    <2>2. req' = [req EXCEPT ![r] = q]
      BY <1>1, <1>3 DEF ReadLease
    <2> HIDE DEF q
    <2>3. RequestOK(q)
      BY <2>1 DEF RequestOK, Equipped, Earned, Steady, AtWorker
    <2> QED BY <1>2, <2>2, <2>3, RequestStep
  <1>4. CASE lease = None /\ Goto(r, "pick")
    <2> DEFINE q == [req[r] EXCEPT !.pc = "pick"]
    <2>1. q \in Request /\ q.pc = "pick" /\ q.hop = 0
      BY <1>1 DEF Request
    <2>2. req' = [req EXCEPT ![r] = q]
      BY <1>1, <1>4 DEF Goto
    <2> HIDE DEF q
    <2>3. RequestOK(q)
      BY <1>4, <2>1 DEF RequestOK, Equipped, Earned, Steady, AtWorker
    <2> QED BY <1>2, <2>2, <2>3, RequestStep
  <1>5. CASE lease = None /\ Answer(r, "404")
    <2>1. Resolved([req[r] EXCEPT !.reply = "404"])
      BY <1>5 DEF Resolved
    <2> QED BY <1>2, <1>5, <2>1, AnswerStep
  <1> QED BY <1>3, <1>4, <1>5 DEF ReadLease

\* A request is sent to w: marked at once if w is entitled to serve it.
LEMMA TowardsStep ==
  ASSUME RoutingIInv, NEW r \in Requests, NEW w \in Workers, Towards(r, w),
         req[r].hop = 0, UNCHANGED cluster, cache' \in Workers \cup {None}, left' \in 0..MaxChanges
  PROVE  RoutingIInv'
  <1> DEFINE q == [req[r] EXCEPT !.pc = "forward", !.to = w, !.owner = None,
                                 !.right = Rightful(w, lease, registry)]
  <1>1. req[r] \in Request /\ req \in [Requests -> Request]
    BY TheRequest
  <1>2. /\ q \in Request /\ q.pc = "forward" /\ q.to = w /\ q.hop = req[r].hop
        /\ q.right = Rightful(w, lease, registry) /\ q.calm = req[r].calm
    BY <1>1 DEF Request, Rightful
  <1>3. req' = [req EXCEPT ![r] = q]
    BY <1>1 DEF Towards
  <1> HIDE DEF q
  <1>4. Equipped(q) /\ Earned(q) /\ (q.calm => Steady(q))
    BY <1>2 DEF Equipped, Earned, Steady, AtWorker, Entitled
  <1> QED BY <1>2, <1>3, <1>4, RequestStep DEF RequestOK

\* A request goes to another step and keeps its fields.
LEMMA GotoStep ==
  ASSUME RoutingIInv, NEW r \in Requests,
         NEW pc \in {"pick", "serve", "force", "failed", "owner"}, Goto(r, pc),
         UNCHANGED cluster, cache' \in Workers \cup {None}, left' \in 0..MaxChanges,
         Equipped([req[r] EXCEPT !.pc = pc]), Earned([req[r] EXCEPT !.pc = pc]),
         req[r].calm => Steady([req[r] EXCEPT !.pc = pc])
  PROVE  RoutingIInv'
  <1> DEFINE q == [req[r] EXCEPT !.pc = pc]
  <1>1. req[r] \in Request /\ req \in [Requests -> Request]
    BY TheRequest
  <1>2. q \in Request /\ q.calm = req[r].calm
    BY <1>1 DEF Request
  <1>3. req' = [req EXCEPT ![r] = q]
    BY <1>1 DEF Goto
  <1>4. Equipped(q) /\ Earned(q) /\ (q.calm => Steady(q))
    BY <1>2
  <1> HIDE DEF q
  <1> QED BY <1>2, <1>3, <1>4, RequestStep DEF RequestOK

\* The fields of a request that goes to another step.
LEMMA Gone ==
  ASSUME NEW q \in Request,
         NEW pc \in {"pick", "serve", "force", "failed", "owner"}
  PROVE  LET p == [q EXCEPT !.pc = pc]
         IN /\ p \in Request /\ p.pc = pc /\ p.to = q.to /\ p.owner = q.owner
            /\ p.reply = q.reply /\ p.hop = q.hop /\ p.calm = q.calm /\ p.right = q.right
  BY DEF Request

LEMMA PlacingPreserves ==
  ASSUME RoutingIInv, NEW r \in Requests, ReadInstance(r) \/ Pick(r)
  PROVE  RoutingIInv'
  <1>1. req[r] \in Request /\ req \in [Requests -> Request]
        /\ Equipped(req[r]) /\ (req[r].calm => Steady(req[r]))
        /\ lease \in Workers \cup {None} /\ cache \in Workers \cup {None} /\ left \in 0..MaxChanges
    BY TheRequest DEF RequestOK
  <1>2. UNCHANGED cluster /\ left' \in 0..MaxChanges
    BY <1>1 DEF ReadInstance, Pick
  <1>3. req[r].hop = 0
    BY <1>1 DEF ReadInstance, Pick, Equipped
  <1>4. CASE ReadInstance(r)
    <2> DEFINE w == req[r].owner
    <2>1. w \in Workers /\ (req[r].calm => w = lease)
      BY <1>1, <1>4 DEF ReadInstance, Equipped, Steady
    <2>2. CASE registry[w] # "gone"
      BY <1>2, <1>3, <1>4, <2>1, <2>2, TowardsStep DEF ReadInstance
    <2>3. CASE registry[w] = "gone" /\ Goto(r, "pick")
      <3> DEFINE q == [req[r] EXCEPT !.pc = "pick"]
      <3>1. q.pc = "pick" /\ q.hop = 0
        BY <1>1, <1>3 DEF Request
      <3> HIDE DEF q
      <3>2. Equipped(q) /\ Earned(q) /\ (req[r].calm => Steady(q))
        BY <2>1, <2>3, <3>1 DEF Equipped, Earned, Steady, AtWorker
      <3>3. cache' \in Workers \cup {None}
        BY <1>4, <2>3 DEF ReadInstance
      <3> QED BY <1>2, <2>3, <3>2, <3>3, GotoStep DEF q
    <2>4. CASE registry[w] = "gone" /\ Answer(r, "503")
      <3>1. req[r].calm => Resolved([req[r] EXCEPT !.reply = "503"])
        BY <2>1, <2>4 DEF Resolved
      <3>2. cache' \in Workers \cup {None}
        BY <1>4, <2>4 DEF ReadInstance
      <3> QED BY <1>2, <2>4, <3>1, <3>2, AnswerStep
    <2> QED BY <1>4, <2>2, <2>3, <2>4 DEF ReadInstance
  <1>5. CASE Pick(r)
    <2>1. cache' \in Workers \cup {None}
      BY <1>1, <1>5 DEF Pick
    <2>2. ASSUME NEW w \in Workers, Towards(r, w)
          PROVE  RoutingIInv'
      BY <1>2, <1>3, <2>1, <2>2, TowardsStep
    <2>3. CASE Answer(r, "503")
      <3>1. req[r].calm => Resolved([req[r] EXCEPT !.reply = "503"])
        BY <1>1, <1>5 DEF Pick, Steady, Resolved
      <3> QED BY <1>2, <2>1, <2>3, <3>1, AnswerStep
    <2> QED BY <1>5, <2>2, <2>3 DEF Pick
  <1> QED BY <1>4, <1>5

\* The worker: what it has read makes it entitled, then or now.
LEMMA ReceivePreserves ==
  ASSUME RoutingIInv, NEW r \in Requests, Receive(r)
  PROVE  RoutingIInv'
  <1> DEFINE w == req[r].to
  <1>1. req[r] \in Request /\ req \in [Requests -> Request] /\ req[r].pc = "forward"
        /\ Equipped(req[r]) /\ Earned(req[r]) /\ (req[r].calm => Steady(req[r]))
        /\ lease \in Workers \cup {None} /\ cache \in Workers \cup {None} /\ left \in 0..MaxChanges
    BY TheRequest DEF RequestOK, Receive
  <1>2. UNCHANGED <<cluster, cache, left>> /\ w \in Workers
    BY <1>1 DEF Receive, Equipped, AtWorker
  <1>3. CASE lease \in {None, w}
    <2>1. PICK pc \in {"serve", "force"} : Goto(r, pc)
      BY <1>2, <1>3 DEF Receive
    <2> DEFINE q == [req[r] EXCEPT !.pc = pc]
    <2>2. q.pc = pc /\ q.to = w /\ q.hop = req[r].hop /\ q.right = req[r].right
      BY <1>1, Gone
    <2> HIDE DEF q
    <2>3. req[r].right /\ Rightful(w, lease, registry)
      BY <1>1, <1>2, <1>3 DEF Earned, AtWorker, Entitled, Rightful
    <2>4. Equipped(q) /\ Earned(q) /\ (req[r].calm => Steady(q))
      BY <1>1, <1>2, <2>1, <2>2, <2>3 DEF Equipped, Earned, Steady, AtWorker
    <2> QED BY <1>1, <1>2, <2>1, <2>4, GotoStep DEF q
  <1>4. CASE lease \notin {None, w}
    <2> DEFINE q == [req[r] EXCEPT !.pc = "alive", !.owner = lease]
    <2>1. /\ q \in Request /\ q.pc = "alive" /\ q.owner = lease /\ q.to = w
          /\ q.hop = req[r].hop /\ q.right = req[r].right /\ q.calm = req[r].calm
      BY <1>1 DEF Request
    <2>2. req' = [req EXCEPT ![r] = q]
      BY <1>1, <1>4 DEF Receive
    <2> HIDE DEF q
    <2>3. Entitled(q, lease, registry) => req[r].right
      BY <1>1, <2>1 DEF Earned, AtWorker, Entitled, Rightful
    <2>4. Equipped(q) /\ Earned(q) /\ (q.calm => Steady(q))
      BY <1>1, <1>2, <1>4, <2>1, <2>3 DEF Equipped, Earned, Steady, AtWorker
    <2> QED BY <1>1, <1>2, <2>1, <2>2, <2>4, RequestStep DEF RequestOK
  <1> QED BY <1>3, <1>4

\* The worker replies, marked as before for a success.
LEMMA ReplyStep ==
  ASSUME RoutingIInv, NEW r \in Requests, NEW code \in {"200", "404", "409", "misdirected"},
         Reply(r, code), req[r].to \in Workers,
         UNCHANGED cluster, cache' \in Workers \cup {None}, left' \in 0..MaxChanges,
         code = "misdirected" => req[r].owner \in Workers, code = "200" => req[r].right,
         req[r].calm =>
           IF code = "misdirected" THEN req[r].owner = lease /\ req[r].hop = 0
           ELSE /\ Rightful(req[r].to, lease, registry)
                /\ code = "404" => ~socket[req[r].to]
  PROVE  RoutingIInv'
  <1> DEFINE q == [req[r] EXCEPT !.pc = "replied", !.reply = code, !.right = @ /\ code = "200"]
  <1>1. req[r] \in Request /\ req \in [Requests -> Request]
    BY TheRequest
  <1>2. /\ q \in Request /\ q.pc = "replied" /\ q.reply = code /\ q.to = req[r].to
        /\ q.owner = req[r].owner /\ q.hop = req[r].hop /\ q.calm = req[r].calm
        /\ q.right = (req[r].right /\ code = "200")
    BY <1>1 DEF Request
  <1>3. req' = [req EXCEPT ![r] = q]
    BY <1>1 DEF Reply
  <1> HIDE DEF q
  <1>4. Equipped(q) /\ Earned(q) /\ (q.calm => Steady(q))
    BY <1>2 DEF Equipped, Earned, Steady, AtWorker
  <1> QED BY <1>2, <1>3, <1>4, RequestStep DEF RequestOK

LEMMA CheckAlivePreserves ==
  ASSUME RoutingIInv, NEW r \in Requests, CheckAlive(r)
  PROVE  RoutingIInv'
  <1> DEFINE w == req[r].to
  <1>1. req[r] \in Request /\ req \in [Requests -> Request] /\ req[r].pc = "alive"
        /\ Equipped(req[r]) /\ Earned(req[r]) /\ (req[r].calm => Steady(req[r]))
        /\ lease \in Workers \cup {None} /\ cache \in Workers \cup {None} /\ left \in 0..MaxChanges
    BY TheRequest DEF RequestOK, CheckAlive
  <1>2. UNCHANGED <<cluster, cache, left>> /\ w \in Workers /\ req[r].owner \in Workers
    BY <1>1 DEF CheckAlive, Equipped, AtWorker
  <1>3. req[r].calm => req[r].owner = lease /\ req[r].hop = 0
    BY <1>1 DEF Steady, AtWorker, Request
  <1>4. CASE registry[req[r].owner] # "gone"
    <2>1. Reply(r, "misdirected")
      BY <1>4 DEF CheckAlive
    <2> QED BY <1>1, <1>2, <1>3, <2>1, ReplyStep
  <1>5. CASE registry[req[r].owner] = "gone"
    <2>1. PICK pc \in {"serve", "force"} : Goto(r, pc)
      BY <1>5 DEF CheckAlive
    <2> DEFINE q == [req[r] EXCEPT !.pc = pc]
    <2>2. q.pc = pc /\ q.to = w /\ q.hop = req[r].hop /\ q.right = req[r].right
      BY <1>1, Gone
    <2> HIDE DEF q
    <2>3. req[r].right /\ (req[r].calm => Rightful(w, lease, registry))
      BY <1>1, <1>3, <1>5 DEF Earned, AtWorker, Entitled, Rightful
    <2>4. Equipped(q) /\ Earned(q) /\ (req[r].calm => Steady(q))
      BY <1>1, <1>2, <1>3, <2>1, <2>2, <2>3 DEF Equipped, Earned, Steady, AtWorker
    <2> QED BY <1>1, <1>2, <2>1, <2>4, GotoStep DEF q
  <1> QED BY <1>4, <1>5

LEMMA ServePreserves ==
  ASSUME RoutingIInv, NEW r \in Requests, Serve(r)
  PROVE  RoutingIInv'
  <1>1. req[r] \in Request /\ req[r].pc = "serve"
        /\ Equipped(req[r]) /\ Earned(req[r]) /\ (req[r].calm => Steady(req[r]))
        /\ cache \in Workers \cup {None} /\ left \in 0..MaxChanges
    BY TheRequest DEF RequestOK, Serve
  <1>2. UNCHANGED <<cluster, cache, left>> /\ req[r].to \in Workers /\ req[r].right
        /\ (req[r].calm => Rightful(req[r].to, lease, registry))
    BY <1>1 DEF Serve, Equipped, Earned, Steady, AtWorker
  <1>3. CASE socket[req[r].to]
    <2>1. PICK code \in {"200", "409"} : Reply(r, code)
      BY <1>3 DEF Serve
    <2> QED BY <1>1, <1>2, <2>1, ReplyStep
  <1>4. CASE ~socket[req[r].to]
    <2>1. Reply(r, "404")
      BY <1>4 DEF Serve
    <2> QED BY <1>1, <1>2, <1>4, <2>1, ReplyStep
  <1> QED BY <1>3, <1>4

\* The proxy, once the forward has failed or has been answered.
LEMMA FetchFailsPreserves ==
  ASSUME RoutingIInv, NEW r \in Requests, FetchFails(r)
  PROVE  RoutingIInv'
  <1>1. req[r] \in Request /\ req \in [Requests -> Request] /\ AtWorker(req[r])
        /\ Equipped(req[r]) /\ left \in 0..MaxChanges
    BY TheRequest DEF RequestOK, FetchFails
  <1>2. UNCHANGED cluster /\ cache' \in Workers \cup {None} /\ req[r].to \in Workers
    BY <1>1 DEF FetchFails, Equipped
  <1>3. CASE ~up[req[r].to] /\ Goto(r, "failed") /\ UNCHANGED left
    <2> DEFINE q == [req[r] EXCEPT !.pc = "failed"]
    <2>1. q.pc = "failed" /\ q.to = req[r].to
      BY <1>1, Gone
    <2> HIDE DEF q
    <2>2. Equipped(q) /\ Earned(q) /\ Steady(q)
      BY <1>2, <1>3, <2>1 DEF Equipped, Earned, Steady, AtWorker
    <2> QED BY <1>1, <1>2, <1>3, <2>2, GotoStep DEF q
  <1>4. CASE Change("timeout") /\ req' = [req EXCEPT ![r].pc = "failed", ![r].calm = FALSE]
    <2> DEFINE q == [req[r] EXCEPT !.pc = "failed", !.calm = FALSE]
    <2>1. q \in Request /\ q.pc = "failed" /\ q.to = req[r].to /\ ~q.calm
      BY <1>1 DEF Request
    <2>2. req' = [req EXCEPT ![r] = q]
      BY <1>1, <1>4
    <2> HIDE DEF q
    <2>3. RequestOK(q)
      BY <1>2, <2>1 DEF RequestOK, Equipped, Earned, AtWorker
    <2>4. left' \in 0..MaxChanges
      BY <1>1, <1>4, BoundsAssumption DEF Change
    <2> QED BY <1>2, <2>2, <2>3, <2>4, RequestStep
  <1> QED BY <1>3, <1>4 DEF FetchFails

\* What Resolved reads of a request whose answer is known.
LEMMA WithReply ==
  ASSUME NEW q \in Request, NEW code
  PROVE  [q EXCEPT !.reply = code].reply = code /\ [q EXCEPT !.reply = code].to = q.to
  BY DEF Request

LEMMA DiagnosePreserves ==
  ASSUME RoutingIInv, NEW r \in Requests, Diagnose(r)
  PROVE  RoutingIInv'
  <1>1. req[r] \in Request /\ req[r].pc = "failed" /\ (req[r].calm => ~up[req[r].to])
        /\ cache \in Workers \cup {None} /\ left \in 0..MaxChanges
    BY TheRequest DEF RequestOK, Steady, Diagnose
  <1>2. PICK code \in {"503", "504"} : Answer(r, code)
    BY DEF Diagnose
  <1>3. ASSUME req[r].calm
        PROVE  Resolved([req[r] EXCEPT !.reply = code])
    <2> DEFINE q == [req[r] EXCEPT !.reply = code]
    <2>1. q.reply = code /\ q.to = req[r].to
      BY <1>1, WithReply
    <2>2. code \in {"503", "504"}
      BY <1>2
    <2>3. ~up[req[r].to]
      BY <1>1, <1>3
    <2> HIDE DEF q
    <2>4. q.reply \in {"503", "504"} /\ ~up[q.to] /\ (up[lease] => q.to # lease)
      BY <2>1, <2>2, <2>3
    <2>5. Resolved(q)
      BY <2>4 DEF Resolved
    <2> QED BY <2>5 DEF q
  <1> QED BY <1>1, <1>2, <1>3, AnswerStep DEF Diagnose

\* A calm request's answer other than a redirect resolves it: it was at the owner's.
LEMMA RelayResolves ==
  ASSUME RoutingIInv, NEW r \in Requests, req[r].pc = "replied", req[r].calm,
         req[r].reply # "misdirected",
         NEW code, code \in {"200", "409", "503 busy"} \/ (code = "404" /\ req[r].reply = "404")
  PROVE  Resolved([req[r] EXCEPT !.reply = code])
  <1>1. req[r] \in Request /\ Steady(req[r]) /\ Equipped(req[r])
    BY TheRequest DEF RequestOK
  <1>2. Rightful(req[r].to, lease, registry) /\ (req[r].reply = "404" => ~socket[req[r].to])
    BY <1>1 DEF Steady
  <1> QED BY <1>1, <1>2, WithReply DEF Resolved, Rightful

LEMMA FirstPreserves ==
  ASSUME RoutingIInv, NEW r \in Requests, First(r)
  PROVE  RoutingIInv'
  <1>1. req[r] \in Request /\ req \in [Requests -> Request] /\ req[r].pc = "replied"
        /\ req[r].hop = 0 /\ Equipped(req[r]) /\ (req[r].calm => Steady(req[r]))
        /\ cache \in Workers \cup {None} /\ left \in 0..MaxChanges
    BY TheRequest DEF RequestOK, First
  <1>2. UNCHANGED <<cluster, left>> /\ cache' \in Workers \cup {None}
    BY <1>1 DEF First
  <1>3. CASE req[r].reply = "misdirected" /\ Goto(r, "owner")
    <2> DEFINE q == [req[r] EXCEPT !.pc = "owner"]
    <2>1. q.pc = "owner" /\ q.owner = req[r].owner
      BY <1>1, Gone
    <2> HIDE DEF q
    <2>2. req[r].owner \in Workers /\ (req[r].calm => req[r].owner = lease)
      BY <1>1, <1>3 DEF Equipped, Steady
    <2>3. Equipped(q) /\ Earned(q) /\ (req[r].calm => Steady(q))
      BY <2>1, <2>2 DEF Equipped, Earned, Steady, AtWorker
    <2> QED BY <1>1, <1>2, <1>3, <2>3, GotoStep DEF q
  <1>4. CASE req[r].reply # "misdirected" /\ Answer(r, req[r].reply)
    <2>1. req[r].reply \in {"200", "404", "409"}
      BY <1>1, <1>4 DEF Equipped
    <2>2. req[r].calm => Resolved([req[r] EXCEPT !.reply = req[r].reply])
      BY <1>1, <1>4, <2>1, RelayResolves
    <2> QED BY <1>1, <1>2, <1>4, <2>1, <2>2, AnswerStep
  <1> QED BY <1>3, <1>4 DEF First

LEMMA FollowPreserves ==
  ASSUME RoutingIInv, NEW r \in Requests, Follow(r)
  PROVE  RoutingIInv'
  <1> DEFINE w == req[r].owner
  <1>1. req[r] \in Request /\ req \in [Requests -> Request] /\ req[r].pc = "owner"
        /\ w \in Workers /\ (req[r].calm => w = lease)
        /\ cache \in Workers \cup {None} /\ left \in 0..MaxChanges
    BY TheRequest DEF RequestOK, Follow, Equipped, Steady
  <1>2. UNCHANGED <<cluster, cache, left>>
    BY DEF Follow
  <1>3. CASE registry[w] = "gone" /\ Answer(r, "503")
    <2>1. req[r].calm => Resolved([req[r] EXCEPT !.reply = "503"])
      BY <1>1, <1>3 DEF Resolved
    <2> QED BY <1>1, <1>2, <1>3, <2>1, AnswerStep
  <1>4. CASE registry[w] # "gone"
    <2> DEFINE q == [req[r] EXCEPT !.pc = "forward", !.to = w, !.hop = 1, !.reply = "none",
                                   !.owner = None, !.right = Rightful(w, lease, registry)]
    <2>1. /\ q \in Request /\ q.pc = "forward" /\ q.to = w /\ q.hop = 1
          /\ q.right = Rightful(w, lease, registry) /\ q.calm = req[r].calm
      BY <1>1 DEF Request, Rightful
    <2>2. req' = [req EXCEPT ![r] = q]
      BY <1>1, <1>4 DEF Follow, FollowTo
    <2> HIDE DEF q
    <2>3. Equipped(q) /\ Earned(q) /\ (q.calm => Steady(q))
      BY <1>1, <2>1 DEF Equipped, Earned, Steady, AtWorker, Entitled
    <2> QED BY <1>1, <1>2, <2>1, <2>2, <2>3, RequestStep DEF RequestOK
  <1> QED BY <1>3, <1>4 DEF Follow

\* A retry that is calm was sent to the owner, and is not redirected.
LEMMA SecondPreserves ==
  ASSUME RoutingIInv, NEW r \in Requests, Second(r)
  PROVE  RoutingIInv'
  <1>1. req[r] \in Request /\ req[r].pc = "replied" /\ req[r].hop = 1
        /\ Equipped(req[r]) /\ (req[r].calm => Steady(req[r]))
        /\ cache \in Workers \cup {None} /\ left \in 0..MaxChanges
    BY TheRequest DEF RequestOK, Second
  <1>2. UNCHANGED <<cluster, left>> /\ cache' \in Workers \cup {None}
    BY <1>1 DEF Second, Equipped
  <1>3. req[r].calm => req[r].reply # "misdirected"
    BY <1>1 DEF Steady
  <1>4. CASE req[r].reply = "misdirected" /\ Answer(r, "503")
    BY <1>1, <1>2, <1>3, <1>4, AnswerStep
  <1>5. CASE req[r].reply = "409" /\ Answer(r, "503 busy")
    <2>1. req[r].calm => Resolved([req[r] EXCEPT !.reply = "503 busy"])
      BY <1>1, <1>3, RelayResolves
    <2> QED BY <1>1, <1>2, <1>5, <2>1, AnswerStep
  <1>6. CASE req[r].reply \notin {"misdirected", "409"} /\ Answer(r, req[r].reply)
    <2>1. req[r].reply \in {"200", "404"}
      BY <1>1, <1>6 DEF Equipped
    <2>2. req[r].calm => Resolved([req[r] EXCEPT !.reply = req[r].reply])
      BY <1>1, <1>3, <2>1, RelayResolves
    <2> QED BY <1>1, <1>2, <1>6, <2>1, <2>2, AnswerStep
  <1> QED BY <1>4, <1>5, <1>6 DEF Second

-----------------------------------------------------------------------------

\* A change of the cluster, seen by a request: an answer is forgotten, no request is
\* calm any more, and one whose worker becomes entitled is marked.
LEMMA Seen ==
  ASSUME NEW q \in Request, Equipped(q), Earned(q), NEW l, NEW reg,
         NEW s \in Request,
         s = IF q.pc \in {"idle", "answered"} THEN NoRequest
             ELSE [q EXCEPT !.calm = FALSE,
                            !.right = @ \/ (AtWorker(q) /\ Entitled(q, l, reg))]
  PROVE  /\ Equipped(s)
         /\ AtWorker(s) /\ Entitled(s, l, reg) => s.right
         /\ s.pc \in {"serve", "force"} => s.right
         /\ s.pc = "replied" /\ s.reply = "200" => s.right
         /\ s.calm => s = NoRequest
  <1>1. CASE q.pc \in {"idle", "answered"}
    BY <1>1, NoRequestOK DEF AtWorker, RequestOK, Equipped
  <1>2. CASE q.pc \notin {"idle", "answered"}
    <2>1. /\ s.pc = q.pc /\ s.to = q.to /\ s.owner = q.owner /\ s.reply = q.reply
          /\ s.hop = q.hop /\ ~s.calm
          /\ s.right = (q.right \/ (AtWorker(q) /\ Entitled(q, l, reg)))
      BY <1>2 DEF Request
    <2>2. AtWorker(s) = AtWorker(q) /\ Entitled(s, l, reg) = Entitled(q, l, reg)
      BY <2>1 DEF AtWorker, Entitled
    <2>3. Equipped(s)
      BY <2>1, <1>2 DEF Equipped, AtWorker
    <2> QED BY <2>1, <2>2, <2>3 DEF Earned
  <1> QED BY <1>1, <1>2

LEMMA SeenTyped ==
  ASSUME NEW q \in Request, NEW l, NEW reg, NEW own \in BOOLEAN
  PROVE  (IF q.pc \in {"idle", "answered"} THEN NoRequest
          ELSE [q EXCEPT !.calm = @ /\ own,
                         !.right = @ \/ (AtWorker(q) /\ Entitled(q, l, reg))]) \in Request
  <1>1. ASSUME NEW a \in BOOLEAN, NEW b \in BOOLEAN
        PROVE  [q EXCEPT !.calm = a, !.right = b] \in Request
    BY DEF Request
  <1>2. /\ (q.calm /\ own) \in BOOLEAN
        /\ (q.right \/ (AtWorker(q) /\ Entitled(q, l, reg))) \in BOOLEAN
    OBVIOUS
  <1>3. [q EXCEPT !.calm = @ /\ own, !.right = @ \/ (AtWorker(q) /\ Entitled(q, l, reg))]
          \in Request
    BY <1>1, <1>2, Zenon
  <1> QED BY <1>3, NoRequestOK

LEMMA MovedStep ==
  ASSUME RoutingIInv, Moved, cache' = cache, left' \in 0..MaxChanges,
         lease' \in Workers \cup {None}, registry' \in [Workers -> {"gone", "live", "draining"}],
         up' \in [Workers -> BOOLEAN], socket' \in [Workers -> BOOLEAN]
  PROVE  RoutingIInv'
  <1>1. \A q \in Requests : req[q] \in Request /\ Equipped(req[q]) /\ Earned(req[q])
    BY TheRequest DEF RequestOK
  <1>2. cache \in Workers \cup {None}
    BY DEF RoutingIInv, RoutingTypeOK
  <1>3. \A q \in Requests : (q = NoOne) = FALSE
    BY NoneAssumption DEF NoOne
  <1>4. req' = [q \in Requests |->
                 IF req[q].pc \in {"idle", "answered"} THEN NoRequest
                 ELSE [req[q] EXCEPT
                         !.calm = @ /\ (q = NoOne),
                         !.right = @ \/ (AtWorker(req[q]) /\ Entitled(req[q], lease', registry'))]]
    BY DEF Moved, Witnessed
  <1>5. ASSUME NEW q \in Requests
        PROVE  /\ req'[q] \in Request
               /\ req'[q] = IF req[q].pc \in {"idle", "answered"} THEN NoRequest
                   ELSE [req[q] EXCEPT
                     !.calm = FALSE,
                     !.right = @ \/ (AtWorker(req[q]) /\ Entitled(req[q], lease', registry'))]
    <2>1. req'[q] \in Request
      BY <1>1, <1>3, <1>4, SeenTyped
    <2>2. (req[q].calm /\ (q = NoOne)) = FALSE
      BY <1>3
    <2> QED BY <1>4, <2>1, <2>2
  <1>6. RoutingTypeOK'
    BY <1>2, <1>4, <1>5 DEF RoutingTypeOK
  <1>7. ASSUME NEW q \in Requests
        PROVE  /\ Equipped(req'[q])
               /\ AtWorker(req'[q]) /\ Entitled(req'[q], lease', registry') => req'[q].right
               /\ req'[q].pc \in {"serve", "force"} => req'[q].right
               /\ req'[q].pc = "replied" /\ req'[q].reply = "200" => req'[q].right
               /\ req'[q].calm => req'[q] = NoRequest
    BY <1>1, <1>5, Seen
  <1>8. ASSUME NEW q \in Requests
        PROVE  Equipped(req[q])' /\ Earned(req[q])' /\ (req[q].calm => Steady(req[q]))'
    <2>1. Equipped(req[q])' /\ Earned(req[q])'
      BY <1>7 DEF Equipped, Earned, AtWorker, Entitled, Rightful
    <2>2. ASSUME req'[q].calm PROVE Steady(req[q])'
      BY <1>7, <2>2, NoRequestOK DEF Steady, AtWorker
    <2> QED BY <2>1, <2>2
  <1> QED BY <1>6, <1>8 DEF RoutingIInv

\* A takeover through this proxy: to the other requests a change like any other.
LEMMA ForceAcquirePreserves ==
  ASSUME RoutingIInv, NEW r \in Requests, ForceAcquire(r)
  PROVE  RoutingIInv'
  <1> DEFINE w == req[r].to
             b == [req[r] EXCEPT !.pc = "replied", !.reply = "200"]
             bs == [req EXCEPT ![r] = b]
  <1>1. \A q \in Requests : req[q] \in Request /\ Equipped(req[q]) /\ Earned(req[q])
    BY TheRequest DEF RequestOK
  <1>2. /\ req[r].pc = "force" /\ lease' = w /\ socket' = [socket EXCEPT ![w] = TRUE]
        /\ UNCHANGED <<registry, up, cache, left>> /\ w \in Workers /\ req[r].right
    BY <1>1 DEF ForceAcquire, Equipped, Earned, AtWorker
  <1>3. req \in [Requests -> Request]
    BY TheRequest
  <1>4. /\ b \in Request /\ b.pc = "replied" /\ b.reply = "200" /\ b.to = w
        /\ b.owner = req[r].owner /\ b.hop = req[r].hop /\ b.calm = req[r].calm /\ b.right
    BY <1>1, <1>2 DEF Request
  <1> HIDE DEF b
  <1>5. req' = [q \in Requests |->
                 IF bs[q].pc \in {"idle", "answered"} THEN NoRequest
                 ELSE [bs[q] EXCEPT
                         !.calm = @ /\ q = r,
                         !.right = @ \/ (AtWorker(bs[q]) /\ Entitled(bs[q], lease', registry'))]]
    <2>1. bs = [req EXCEPT ![r].pc = "replied", ![r].reply = "200"]
      BY <1>3 DEF b, bs
    <2>2. req' = Witnessed(bs, r)
      BY <2>1 DEF ForceAcquire
    <2> QED BY <2>2 DEF Witnessed
  <1>6. bs[r] = b /\ \A q \in Requests \ {r} : bs[q] = req[q]
    BY <1>3 DEF bs
  <1> HIDE DEF bs
  <1>7. /\ req'[r] \in Request /\ req'[r].pc = "replied" /\ req'[r].reply = "200" /\ req'[r].to = w
        /\ req'[r].right
    <2>1. req'[r] = [b EXCEPT !.calm = @ /\ (r = r),
                              !.right = @ \/ (AtWorker(b) /\ Entitled(b, lease', registry'))]
      BY <1>4, <1>5, <1>6
    <2>2. req'[r] \in Request
      BY <1>4, <1>5, <1>6, SeenTyped
    <2>3. req'[r].pc = b.pc /\ req'[r].reply = b.reply /\ req'[r].to = b.to
          /\ (req'[r].right = (b.right \/ (AtWorker(b) /\ Entitled(b, lease', registry'))))
      BY <1>4, <2>1 DEF Request
    <2> QED BY <1>4, <2>2, <2>3
  <1>8. ASSUME NEW q \in Requests \ {r}
        PROVE  /\ req'[q] \in Request
               /\ req'[q] = IF req[q].pc \in {"idle", "answered"} THEN NoRequest
                   ELSE [req[q] EXCEPT
                     !.calm = FALSE,
                     !.right = @ \/ (AtWorker(req[q]) /\ Entitled(req[q], lease', registry'))]
    <2>1. req'[q] = IF req[q].pc \in {"idle", "answered"} THEN NoRequest
                    ELSE [req[q] EXCEPT
                         !.calm = @ /\ (q = r),
                         !.right = @ \/ (AtWorker(req[q]) /\ Entitled(req[q], lease', registry'))]
      BY <1>5, <1>6
    <2>2. req'[q] \in Request
      BY <1>1, <2>1, SeenTyped
    <2>3. (req[q].calm /\ (q = r)) = FALSE
      OBVIOUS
    <2> QED BY <2>1, <2>2, <2>3
  <1>9. RoutingTypeOK'
    BY <1>2, <1>5, <1>7, <1>8 DEF RoutingIInv, RoutingTypeOK
  <1>10. ASSUME NEW q \in Requests
         PROVE  Equipped(req[q])' /\ Earned(req[q])' /\ (req[q].calm => Steady(req[q]))'
    <2>1. CASE q = r
      BY <1>2, <1>7, <2>1 DEF Equipped, Earned, Steady, AtWorker, Rightful
    <2>2. CASE q # r
      <3>1. /\ Equipped(req'[q])
            /\ AtWorker(req'[q]) /\ Entitled(req'[q], lease', registry') => req'[q].right
            /\ req'[q].pc \in {"serve", "force"} => req'[q].right
            /\ req'[q].pc = "replied" /\ req'[q].reply = "200" => req'[q].right
            /\ req'[q].calm => req'[q] = NoRequest
        <4>1. q \in Requests \ {r} /\ req[q] \in Request /\ Equipped(req[q]) /\ Earned(req[q])
          BY <1>1, <2>2
        <4>2. /\ req'[q] \in Request
              /\ req'[q] = IF req[q].pc \in {"idle", "answered"} THEN NoRequest
                  ELSE [req[q] EXCEPT
                    !.calm = FALSE,
                    !.right = @ \/ (AtWorker(req[q]) /\ Entitled(req[q], lease', registry'))]
          BY <1>8, <4>1
        <4> QED BY <4>1, <4>2, Seen
      <3>2. Equipped(req[q])' /\ Earned(req[q])'
        BY <3>1 DEF Equipped, Earned, AtWorker, Entitled, Rightful
      <3>3. ASSUME req'[q].calm PROVE Steady(req[q])'
        BY <3>1, <3>3, NoRequestOK DEF Steady, AtWorker
      <3> QED BY <3>2, <3>3
    <2> QED BY <2>1, <2>2
  <1> QED BY <1>9, <1>10 DEF RoutingIInv

LEMMA CacheExpiresPreserves ==
  ASSUME RoutingIInv, CacheExpires PROVE RoutingIInv'
  <1>1. UNCHANGED <<lease, registry, up, socket, req, left>> /\ cache' = None
    BY DEF CacheExpires, cluster
  <1>2. RoutingTypeOK'
    BY <1>1 DEF RoutingIInv, RoutingTypeOK
  <1> QED BY <1>1, <1>2 DEF RoutingIInv, Earned, Steady, Resolved

\* The changes of the cluster that no request makes.
LEMMA OwnershipMovesPreserve ==
  ASSUME RoutingIInv,
         Lapse \/ \E w \in Workers : \/ Claim(w) \/ HandOff(w) \/ Takeover(w) \/ Renew(w)
                                     \/ Drain(w) \/ Crash(w) \/ RegistryExpires(w) \/ Restart(w)
  PROVE  RoutingIInv'
  <1>1. RoutingTypeOK
    BY DEF RoutingIInv
  <1>2. ASSUME NEW kind, Change(kind)
        PROVE  left' \in 0..MaxChanges
    BY <1>1, <1>2, BoundsAssumption DEF Change, RoutingTypeOK
  <1>3. CASE Lapse
    <2>1. left' \in 0..MaxChanges
      BY <1>1, <1>2, <1>3 DEF Lapse, RoutingTypeOK
    <2> QED BY <1>1, <1>3, <2>1, MovedStep DEF Lapse, RoutingTypeOK
  <1>4. ASSUME NEW w \in Workers, Claim(w) PROVE RoutingIInv'
    BY <1>1, <1>4, MovedStep DEF Claim, RoutingTypeOK
  <1>5. ASSUME NEW w \in Workers, HandOff(w) PROVE RoutingIInv'
    BY <1>1, <1>2, <1>5, MovedStep DEF HandOff, RoutingTypeOK
  <1>6. ASSUME NEW w \in Workers, Takeover(w) PROVE RoutingIInv'
    BY <1>1, <1>2, <1>6, MovedStep DEF Takeover, RoutingTypeOK
  <1>7. ASSUME NEW w \in Workers, Renew(w) PROVE RoutingIInv'
    BY <1>1, <1>7, MovedStep DEF Renew, RoutingTypeOK
  <1>8. ASSUME NEW w \in Workers, Drain(w) PROVE RoutingIInv'
    BY <1>1, <1>2, <1>8, MovedStep DEF Drain, RoutingTypeOK
  <1>9. ASSUME NEW w \in Workers, Crash(w) PROVE RoutingIInv'
    BY <1>1, <1>2, <1>9, MovedStep DEF Crash, RoutingTypeOK
  <1>10. ASSUME NEW w \in Workers, RegistryExpires(w) PROVE RoutingIInv'
    BY <1>1, <1>10, MovedStep DEF RegistryExpires, RoutingTypeOK
  <1>11. ASSUME NEW w \in Workers, Restart(w) PROVE RoutingIInv'
    BY <1>1, <1>11, MovedStep DEF Restart, RoutingTypeOK
  <1> QED BY <1>3, <1>4, <1>5, <1>6, <1>7, <1>8, <1>9, <1>10, <1>11

LEMMA NextRoutingIInv == RoutingIInv /\ [Next]_vars => RoutingIInv'
  <1> SUFFICES ASSUME RoutingIInv, [Next]_vars PROVE RoutingIInv'
    OBVIOUS
  <1>1. ASSUME NEW r \in Requests, Step(r) PROVE RoutingIInv'
    BY <1>1, ReadLeasePreserves, PlacingPreserves, ReceivePreserves, CheckAlivePreserves,
       ServePreserves, ForceAcquirePreserves, FetchFailsPreserves, DiagnosePreserves,
       FirstPreserves, FollowPreserves, SecondPreserves DEF Step
  <1>2. CASE UNCHANGED vars
    <2>1. UNCHANGED <<lease, registry, up, socket, cache, req, left>>
      BY <1>2 DEF vars, cluster
    <2> QED BY <2>1 DEF RoutingIInv, RoutingTypeOK, Earned, Steady, Resolved
  <1> QED BY <1>1, <1>2, ArrivePreserves, CacheExpiresPreserves, OwnershipMovesPreserve DEF Next

\* Of what the proxy has read about a phone nothing is lost on the way: as long as the
\* cluster stays as it is, the request is where the lease says; and whatever happens, a
\* worker that may serve the phone is remembered as entitled.
THEOREM RoutingInvariant == Spec => []RoutingIInv
  <1>1. Init => RoutingIInv
    BY InitRoutingIInv
  <1>2. RoutingIInv /\ [Next]_vars => RoutingIInv'
    BY NextRoutingIInv
  <1> QED BY <1>1, <1>2, PTL DEF Spec

\* No zombie answers, for any number of workers, requests and changes: a request is
\* served only by a worker that was entitled to serve the phone at some time since the
\* request was sent there (resolveMisdirectedRequest and acquireExplicitLease).
THEOREM ServedByTheEntitled == Spec => []ServedByOwner
  <1>1. RoutingIInv => ServedByOwner
    BY DEF RoutingIInv, Earned, ServedByOwner
  <1> QED BY <1>1, RoutingInvariant, PTL

\* One retry is enough: while ownership rests, forwardByPhone ends with the owner's
\* answer, or with 503 or 504 because the worker it went to first is down.
THEOREM OneRetrySuffices == Spec => []OneRetryEnough
  <1>1. RoutingIInv => OneRetryEnough
    BY DEF RoutingIInv, Equipped, Steady, Resolved, OneRetryEnough
  <1> QED BY <1>1, RoutingInvariant, PTL
================================================================================
