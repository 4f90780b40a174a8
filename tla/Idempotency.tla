----------------------------- MODULE Idempotency ------------------------------
(***************************************************************************)
(* src/helpers/withIdempotency.ts and the route that uses it, POST         *)
(* send-message of src/controllers/connections/index.ts: what keeps one    *)
(* message of a client from going out twice.                               *)
(*                                                                         *)
(* All attempts carry the same chatwootMessageId, hence the same Redis     *)
(* key.  They are requests at any of the workers, which crash and restart  *)
(* under the same instance id.  Every Redis command of an attempt is a     *)
(* step; a command may be rejected, executed or not.  The send itself      *)
(* (connection.ts, Baileys and WhatsApp) is external: it goes out, fails   *)
(* before anything is on the wire, is rejected before or after that, or    *)
(* outlives the time the attempt waits for it.                             *)
(***************************************************************************)
EXTENDS Naturals, FiniteSets

CONSTANTS Attempts,      \* numbered in the order of the requests
          Workers,
          Free, None,    \* no value under the key; nothing
          Disturbances,  \* what may go wrong
          MaxDisturbed   \* bound: how many times something goes wrong

\* What an attempt's client is told.
Answers == {"409 processing", "409 indeterminate", "200 cached", "200", "not sent",
            "500", "504 retry", "504 unprotected"}

AllDisturbances == {"crash", "redis", "slow"}
ASSUME DisturbancesAssumption == Disturbances \subseteq AllDisturbances
ASSUME AttemptsAssumption == Attempts \subseteq Nat
ASSUME BoundsAssumption == MaxDisturbed \in Nat
ASSUME FreeAssumption ==
  Free \notin [k : {"processing"}, w : Workers, inc : Nat]
                \cup [k : {"indeterminate", "result"}, of : Attempts]
ASSUME NoneAssumption == None \notin Answers

VARIABLES
  cell,      \* the value under the idempotency key
  alive,     \* alive[w]: whether the registry has an entry for w
  up,        \* up[w]: whether the process runs
  inc,       \* inc[w]: its incarnation
  at,        \* at[a]: the worker that serves attempt a, or None
  pc,        \* pc[a]: the command attempt a issues next
  held,      \* held[a]: whether the key is the attempt's
  raw,       \* raw[a]: the value it has read
  send,      \* send[a]: its send, as WhatsApp and the socket know it
  marker,    \* marker[a]: whether the route's indeterminateMarker is set
  known,     \* known[a]: knownNotSent
  answer,    \* answer[a]: the response, decided on or given
  reserved,  \* whether the client reserved a WhatsApp id for the message
  gaps,      \* history: what has happened that the key cannot protect from
  left       \* disturbances that may still happen

attempt == <<at, pc, held, raw, send, marker, known, answer>>
process == <<alive, up, inc>>
vars == <<cell, process, attempt, reserved, gaps, left>>

Init ==
  /\ cell = Free
  /\ alive = [w \in Workers |-> TRUE]
  /\ up = [w \in Workers |-> TRUE]
  /\ inc = [w \in Workers |-> 0]
  /\ at = [a \in Attempts |-> None]
  /\ pc = [a \in Attempts |-> "unborn"]
  /\ held = [a \in Attempts |-> FALSE]
  /\ raw = [a \in Attempts |-> Free]
  /\ send = [a \in Attempts |-> "none"]
  /\ marker = [a \in Attempts |-> FALSE]
  /\ known = [a \in Attempts |-> FALSE]
  /\ answer = [a \in Attempts |-> None]
  /\ reserved \in BOOLEAN
  /\ gaps = {}
  /\ left = MaxDisturbed

-----------------------------------------------------------------------------
(* Values under the key *)

\* processingValue(): it names a process, not an attempt.
Processing(w) == [k |-> "processing", w |-> w, inc |-> inc[w]]

\* Bug: one marker per process, like the processing value.
Indeterminate_PerProcess(a) == [k |-> "indeterminate", of |-> at[a]]

\* indeterminateValue(): unique to the attempt.
Indeterminate(a) == [k |-> "indeterminate", of |-> a]

\* JSON.stringify(value): the message key the attempt got from WhatsApp.
Result(a) == [k |-> "result", of |-> a]

Is(v, kind) == v # Free /\ v.k = kind

\* The attempts whose work runs: the send and the command after it.
Running(a) == pc[a] \in {"work", "cache", "mark", "release"}

Disturb(kind) == kind \in Disturbances /\ left > 0 /\ left' = left - 1
Goto(a, p) == pc' = [pc EXCEPT ![a] = p]
Decide(a, response) == answer' = [answer EXCEPT ![a] = response]

\* The request is answered without any work.
Refuse(a, response) == Decide(a, response) /\ Goto(a, "answered")

-----------------------------------------------------------------------------
(* acquireOrSteal *)

\* The work starts, with the key or, when Redis failed, without it.
Work(a, holds) ==
  /\ held' = [held EXCEPT ![a] = holds]
  /\ send' = [send EXCEPT ![a] = "wire"]
  /\ Goto(a, "work")

\* A SET NX of attempt a at worker w: the first command of a request that comes
\* in there, or the second try after the key was found released.
Acquiring(a, w) ==
  /\ \/ pc[a] = "reacquire" /\ at[a] = w
     \/ /\ pc[a] = "unborn" /\ up[w]
        /\ \A b \in Attempts : b < a => pc[b] # "unborn"
  /\ at' = [at EXCEPT ![a] = w]

\* acquireLock.
Acquire(a, w) ==
  /\ Acquiring(a, w)
  /\ \/ /\ cell = Free
        /\ cell' = Processing(w)
        /\ Work(a, TRUE)
        /\ UNCHANGED answer
     \/ /\ cell # Free
        /\ IF pc[a] = "unborn" THEN Goto(a, "inspect") /\ UNCHANGED answer
                               ELSE Refuse(a, "409 processing")
        /\ UNCHANGED <<cell, held, send>>
  /\ UNCHANGED <<process, raw, marker, known, reserved, gaps, left>>

\* The outcome "failed-open": the work runs, and the key is not its own.
FailedOpen(a) == Work(a, FALSE)

\* The SET is rejected, executed or not.
AcquireFails(a, w) ==
  /\ Acquiring(a, w)
  /\ Disturb("redis")
  /\ cell' \in {cell} \cup (IF cell = Free THEN {Processing(w)} ELSE {})
  /\ FailedOpen(a)
  /\ gaps' = gaps \cup {"unlocked"}
  /\ UNCHANGED <<process, raw, marker, known, answer, reserved>>

\* A processing value whose holder may be dead: not this process itself.
Suspect(a) == Is(cell, "processing") /\ cell # Processing(at[a])

\* GET.  A dead incarnation of the own process needs no look at the registry.
Inspect(a) ==
  /\ pc[a] = "inspect"
  /\ \/ cell = Free /\ Goto(a, "reacquire") /\ UNCHANGED <<raw, answer>>
     \/ /\ Suspect(a)
        /\ raw' = [raw EXCEPT ![a] = cell]
        /\ Goto(a, IF cell.w = at[a] THEN "steal" ELSE "holder")
        /\ UNCHANGED answer
     \/ /\ cell # Free /\ ~Suspect(a)
        /\ Refuse(a, CASE cell.k = "processing" -> "409 processing"
                       [] cell.k = "indeterminate" -> "409 indeterminate"
                       [] cell.k = "result" -> "200 cached")
        /\ UNCHANGED raw
  /\ UNCHANGED <<cell, process, at, held, send, marker, known, reserved, gaps, left>>

\* isInstanceAlive(holder).
CheckHolder(a) ==
  /\ pc[a] = "holder"
  /\ IF alive[raw[a].w]
     THEN Refuse(a, "409 processing") /\ raw' = [raw EXCEPT ![a] = Free]
     ELSE Goto(a, "steal") /\ UNCHANGED <<answer, raw>>
  /\ UNCHANGED <<cell, process, at, held, send, marker, known,
                 reserved, gaps, left>>

\* A lock whose holder still works: the registry lost sight of a live process.
HolderWorks(v) ==
  \E b \in Attempts : held[b] /\ Running(b) /\ Processing(at[b]) = v

\* A lock left by an attempt whose message went out, or may have, and which could
\* not leave its marker: markIndeterminate was rejected.
LeftUnmarked(v) ==
  \E b \in Attempts :
    held[b] /\ ~Running(b) /\ at[b] = v.w /\ send[b] \in {"parked", "sent"}

\* What a steal of value v cannot know.
StealGaps(v) == {gap \in {"stolen", "unmarked"} :
                   IF gap = "stolen" THEN HolderWorks(v) ELSE LeftUnmarked(v)}

\* STEAL_SCRIPT: compare with the value that was read, and set.
Steal(a) ==
  /\ pc[a] = "steal"
  /\ \/ /\ cell = raw[a]
        /\ cell' = Processing(at[a])
        /\ Work(a, TRUE)
        /\ gaps' = gaps \cup StealGaps(cell)
        /\ UNCHANGED answer
     \/ /\ cell # raw[a]
        /\ Refuse(a, "409 processing")
        /\ UNCHANGED <<cell, held, send, gaps>>
  /\ raw' = [raw EXCEPT ![a] = Free]
  /\ UNCHANGED <<process, at, marker, known, reserved, left>>

\* A rejected look at the holder, or a rejected steal, refuses the request.
LookupFails(a) ==
  /\ pc[a] \in {"inspect", "holder", "steal"}
  /\ Disturb("redis")
  /\ \/ UNCHANGED <<cell, gaps>>
     \/ /\ pc[a] = "steal" /\ cell = raw[a]
        /\ cell' = Processing(at[a])
        /\ gaps' = gaps \cup StealGaps(cell)
  /\ Refuse(a, "409 processing")
  /\ raw' = [raw EXCEPT ![a] = Free]
  /\ UNCHANGED <<process, at, held, send, marker, known, reserved>>

-----------------------------------------------------------------------------
(* The send, as the route awaits it *)

Sends(a) ==
  /\ pc[a] = "work"
  /\ send' = [send EXCEPT ![a] = "sent"]
  /\ Decide(a, "200")
  /\ Goto(a, "cache")
  /\ UNCHANGED <<cell, process, at, held, raw, marker, known, reserved, gaps, left>>

\* Nothing was on the wire, and the response says so: not connected, stalled, the
\* transaction's mutex not obtained, nothing to send.
SendFails(a) ==
  /\ pc[a] = "work"
  /\ send' = [send EXCEPT ![a] = "failed"]
  /\ Decide(a, "not sent")
  /\ Goto(a, "release")
  /\ UNCHANGED <<cell, process, at, held, raw, marker, known, reserved, gaps, left>>

\* Any other rejection proves nothing: the message is relayed inside a transaction
\* of the key store, and when it is out Redis may still reject the commit.  The
\* response is a plain 500 and the key is released.
SendRejects(a) ==
  /\ pc[a] = "work"
  /\ \/ send' = [send EXCEPT ![a] = "failed"] /\ UNCHANGED <<gaps, left>>
     \/ /\ Disturb("redis")
        /\ send' = [send EXCEPT ![a] = "sent"]
        /\ gaps' = gaps \cup {"rejected"}
  /\ Decide(a, "500")
  /\ Goto(a, "release")
  /\ UNCHANGED <<cell, process, at, held, raw, marker, known, reserved>>

\* Bug: an unknown outcome is handled like a failure.
AfterTimeout_Released == "release"

\* isIndeterminate: WhatsApp recognises a repeated send by its reserved id.
AfterTimeout == IF reserved THEN "release" ELSE "mark"

\* OperationTimeoutError: the send stays parked in the socket.
TimesOut(a) ==
  /\ pc[a] = "work"
  /\ send' = [send EXCEPT ![a] = "parked"]
  /\ Decide(a, "504 retry")
  /\ Goto(a, AfterTimeout)
  /\ UNCHANGED <<cell, process, at, held, raw, marker, known, reserved, gaps, left>>

\* What can become of a parked send: it goes out, it gives up on the mutex and
\* has provably done nothing, or it fails some other way and may have gone out.
Outcome(kind) == IF kind = "unproven" THEN {"sent", "failed"} ELSE {kind}

\* Bug: any late failure counts as proof.
Definite_AnyFailure(kind) == kind \in {"failed", "unproven"}

\* onLateDefinitiveFailure is called when the mutex was not obtained, only.
Definite(kind) == kind = "failed"

\* Bug: the marker is retracted only by a verdict that finds it there.
RetractOnMark_Never(a, landed) == FALSE

\* retractIndeterminate fires on whichever comes second: the marker ...
RetractOnMark(a, landed) == landed /\ known[a]

\* ... or the verdict.
RetractOnVerdict(a, kind) == marker[a] /\ Definite(kind)

SettlesLate(a, kind) ==
  /\ send[a] = "parked" /\ pc[a] # "gone"
  /\ \E truth \in Outcome(kind) : send' = [send EXCEPT ![a] = truth]
  /\ known' = [known EXCEPT ![a] = Definite(kind)]
  /\ IF RetractOnVerdict(a, kind)
     THEN Goto(a, "clear") /\ marker' = [marker EXCEPT ![a] = FALSE]
     ELSE UNCHANGED <<pc, marker>>
  /\ UNCHANGED <<cell, process, at, held, raw, answer, reserved, gaps, left>>

-----------------------------------------------------------------------------
(* What is left under the key *)

\* WRITE_IF_OURS_SCRIPT: over nothing, or over the own processing value.
MayWrite(a) == cell = Free \/ (held[a] /\ cell = Processing(at[a]))

\* cacheResult; a result that was not stored makes the attempt release.
Cache(a) ==
  /\ pc[a] = "cache"
  /\ IF MayWrite(a)
     THEN cell' = Result(a) /\ Goto(a, "answered")
     ELSE UNCHANGED cell /\ Goto(a, "release")
  /\ UNCHANGED <<process, at, held, raw, send, marker, known, answer,
                 reserved, gaps, left>>

CacheFails(a) ==
  /\ pc[a] = "cache" /\ Disturb("redis")
  /\ \/ MayWrite(a) /\ cell' = Result(a) /\ UNCHANGED gaps
     \/ UNCHANGED cell /\ gaps' = gaps \cup {"uncached"}
  /\ Goto(a, "release")
  /\ UNCHANGED <<process, at, held, raw, send, marker, known, answer, reserved>>

\* retrySafe: the response invites a retry if the outcome is known or guarded.
MarkAnswer(a, landed) == IF known[a] \/ landed THEN "504 retry" ELSE "504 unprotected"

\* onIndeterminate, and the response.
Marked(a, landed) ==
  /\ Decide(a, MarkAnswer(a, landed))
  /\ marker' = [marker EXCEPT ![a] = landed /\ ~RetractOnMark(a, landed)]
  /\ Goto(a, IF RetractOnMark(a, landed) THEN "clear" ELSE "answered")

\* markIndeterminate.
Mark(a) ==
  /\ pc[a] = "mark"
  /\ cell' = IF MayWrite(a) THEN Indeterminate(a) ELSE cell
  /\ Marked(a, MayWrite(a))
  /\ UNCHANGED <<process, at, held, raw, send, known, reserved, gaps, left>>

\* Rejected: a marker that landed all the same is never retracted.
MarkFails(a) ==
  /\ pc[a] = "mark" /\ Disturb("redis")
  /\ \/ UNCHANGED <<cell, gaps>>
     \/ MayWrite(a) /\ cell' = Indeterminate(a) /\ gaps' = gaps \cup {"unretracted"}
  /\ Marked(a, FALSE)
  /\ UNCHANGED <<process, at, held, raw, send, known, reserved>>

\* Bug: released on the evidence of the process's value alone.
MayRelease_AnyOfProcess(a) == cell = Processing(at[a])

\* releaseLock and RELEASE_IF_OURS_SCRIPT.
MayRelease(a) == held[a] /\ cell = Processing(at[a])

Release(a) ==
  /\ pc[a] = "release"
  /\ cell' = IF MayRelease(a) THEN Free ELSE cell
  /\ Goto(a, "answered")
  /\ UNCHANGED <<process, at, held, raw, send, marker, known, answer,
                 reserved, gaps, left>>

ReleaseFails(a) ==
  /\ pc[a] = "release" /\ held[a] /\ Disturb("redis")
  /\ cell' \in {cell} \cup (IF MayRelease(a) THEN {Free} ELSE {})
  /\ Goto(a, "answered")
  /\ UNCHANGED <<process, at, held, raw, send, marker, known, answer, reserved, gaps>>

\* clearIndeterminate: compare with the very marker, and delete.
Clear(a) ==
  /\ pc[a] = "clear"
  /\ cell' = IF cell = Indeterminate(a) THEN Free ELSE cell
  /\ Goto(a, "answered")
  /\ UNCHANGED <<process, at, held, raw, send, marker, known, answer,
                 reserved, gaps, left>>

ClearFails(a) ==
  /\ pc[a] = "clear" /\ Disturb("redis")
  /\ cell' \in {cell, IF cell = Indeterminate(a) THEN Free ELSE cell}
  /\ gaps' = gaps \cup {"unretracted"}
  /\ Goto(a, "answered")
  /\ UNCHANGED <<process, at, held, raw, send, marker, known, answer, reserved>>

-----------------------------------------------------------------------------
(* Time and processes *)

\* The key's TTL.  It outlasts an attempt: 600 s, a send is awaited for 45 s.  It
\* may end before a parked send does, and ends the memory of one that went out.
Expire ==
  /\ cell # Free /\ ~HolderWorks(cell)
  /\ \A a \in Attempts : Running(a) => cell # Result(a)
  /\ cell' = Free
  /\ gaps' = IF \E a \in Attempts : send[a] \in {"parked", "sent"}
             THEN gaps \cup {"expired"} ELSE gaps
  /\ UNCHANGED <<process, attempt, reserved, left>>

\* The process dies; what it had on its socket went out or did not.
Crash(w) ==
  /\ up[w] /\ Disturb("crash")
  /\ up' = [up EXCEPT ![w] = FALSE]
  /\ LET here == {a \in Attempts : at[a] = w}
         open == {a \in here : send[a] \in {"wire", "parked"}}
     IN \E out \in SUBSET open :
          /\ send' = [a \in Attempts |-> IF a \notin open THEN send[a]
                                         ELSE IF a \in out THEN "sent" ELSE "failed"]
          /\ gaps' = IF \E a \in here : Running(a) /\ send'[a] = "sent"
                     THEN gaps \cup {"died"} ELSE gaps
          /\ pc' = [a \in Attempts |-> IF a \in here THEN "gone" ELSE pc[a]]
          /\ raw' = [a \in Attempts |-> IF a \in here THEN Free ELSE raw[a]]
  /\ UNCHANGED <<cell, alive, inc, at, held, marker, known, answer, reserved>>

Restart(w) ==
  /\ ~up[w]
  /\ up' = [up EXCEPT ![w] = TRUE]
  /\ inc' = [inc EXCEPT ![w] = @ + 1]
  /\ alive' = [alive EXCEPT ![w] = TRUE]
  /\ UNCHANGED <<cell, attempt, reserved, gaps, left>>

\* The registry entry of a dead process, or of one that is too slow, expires.
RegistryExpires(w) ==
  /\ alive[w]
  /\ \/ ~up[w] /\ UNCHANGED left
     \/ up[w] /\ Disturb("slow")
  /\ alive' = [alive EXCEPT ![w] = FALSE]
  /\ UNCHANGED <<cell, up, inc, attempt, reserved, gaps>>

Heartbeat(w) ==
  /\ up[w] /\ ~alive[w]
  /\ alive' = [alive EXCEPT ![w] = TRUE]
  /\ UNCHANGED <<cell, up, inc, attempt, reserved, gaps, left>>

-----------------------------------------------------------------------------

Step(a) ==
  \/ \E w \in Workers : Acquire(a, w)
  \/ Inspect(a) \/ CheckHolder(a) \/ Steal(a)
  \/ Sends(a) \/ SendFails(a) \/ SendRejects(a) \/ TimesOut(a)
  \/ \E kind \in {"sent", "failed", "unproven"} : SettlesLate(a, kind)
  \/ Cache(a) \/ Mark(a) \/ Release(a) \/ Clear(a)

Fails(a) ==
  \/ \E w \in Workers : AcquireFails(a, w)
  \/ LookupFails(a)
  \/ CacheFails(a) \/ MarkFails(a) \/ ReleaseFails(a) \/ ClearFails(a)

Next ==
  \/ \E a \in Attempts : Step(a) \/ Fails(a)
  \/ \E w \in Workers : Crash(w) \/ Restart(w) \/ RegistryExpires(w) \/ Heartbeat(w)
  \/ Expire

Spec == Init /\ [][Next]_vars

-----------------------------------------------------------------------------
(* Properties *)

Values ==
  {Free}
    \cup [k : {"processing"}, w : Workers, inc : Nat]
    \cup [k : {"indeterminate", "result"}, of : Attempts]
Pcs == {"unborn", "inspect", "reacquire", "holder", "steal", "work",
        "cache", "mark", "release", "clear", "answered", "gone"}
AllGaps == {"unlocked", "stolen", "rejected", "unmarked", "uncached", "unretracted",
            "expired", "died"}

TypeOK ==
  /\ cell \in Values
  /\ alive \in [Workers -> BOOLEAN]
  /\ up \in [Workers -> BOOLEAN]
  /\ inc \in [Workers -> Nat]
  /\ at \in [Attempts -> Workers \cup {None}]
  /\ pc \in [Attempts -> Pcs]
  /\ held \in [Attempts -> BOOLEAN]
  /\ raw \in [Attempts -> Values]
  /\ send \in [Attempts -> {"none", "wire", "parked", "sent", "failed"}]
  /\ marker \in [Attempts -> BOOLEAN]
  /\ known \in [Attempts -> BOOLEAN]
  /\ answer \in [Attempts -> Answers \cup {None}]
  /\ reserved \in BOOLEAN
  /\ gaps \subseteq AllGaps
  /\ left \in Nat

\* A running attempt that holds the key finds its own processing value there (or
\* the result it stored without learning so), and it is the only one in its
\* process; so says every write of withIdempotency, "only over your own marker,
\* or over nothing".  Neither attempts that run without a
\* lock, with the same value in the same process, nor late retractions, nor
\* attempts that inspect or reclaim the key take the lock from a live holder.
\* Only the steal from a process that the registry wrongly reports dead does.
HolderKeepsLock ==
  "stolen" \notin gaps =>
    \A a \in Attempts :
      held[a] /\ Running(a) =>
        /\ cell = Processing(at[a]) \/ (pc[a] = "release" /\ cell = Result(a))
        /\ \A b \in Attempts \ {a} : held[b] /\ Running(b) => at[b] # at[a]

\* One message per key, whatever the client retries and wherever: two attempts
\* have sent it only after one of the gaps of the code: an unlocked run, a live
\* holder reported dead, a send rejected after it went out (only timeouts count as
\* unknown outcomes, so its lock is released), a lock taken over from one that
\* could not mark its unknown outcome, a result that could not be stored, a TTL
\* that ended, a holder that died with a message out.  A reserved id is WhatsApp's
\* to deduplicate.
AtMostOnce ==
  ~reserved /\ gaps \subseteq {"unretracted"} =>
    Cardinality({a \in Attempts : send[a] = "sent"}) <= 1

\* Whatever the response tells the client is so: a 200 is of a message that is out,
\* the 404 and 503 that say "not sent" of one that never will be (a plain 500 says
\* neither).  "504 retry" without a reserved id: as long as the outcome is open,
\* the attempt's marker stands in the way of a retry.
AnswersTrue ==
  \A a \in Attempts :
    pc[a] \in {"answered", "clear"} =>
      CASE answer[a] = "200" -> send[a] = "sent"
        [] answer[a] = "200 cached" -> \E b \in Attempts : send[b] = "sent"
        [] answer[a] = "not sent" -> send[a] = "failed"
        [] answer[a] = "504 retry" /\ ~reserved ->
             \/ send[a] = "failed" \/ "expired" \in gaps
             \/ cell = Indeterminate(a)
        [] OTHER -> TRUE

\* What a step may do to a marker: only the attempt that wrote it, with proof that
\* its send never happened, or a step of no attempt takes it away.
SparesMarkers ==
  \A a \in Attempts :
    cell = Indeterminate(a) /\ cell' # cell =>
      \/ pc[a] = "clear" /\ known[a] /\ send[a] = "failed"
      \/ UNCHANGED pc

\* An outcome that is unknown stays so for everyone: nothing but the TTL or the
\* very attempt, with proof that its send never happened, removes a marker.
MarkerStands == [][SparesMarkers]_vars

\* A send that is proven not to have happened does not block its message for a
\* day: once its attempt is done the marker is gone, in whichever order marker
\* and proof arrived, unless Redis rejected one of the two commands.
Retracted ==
  \A a \in Attempts :
    known[a] /\ pc[a] = "answered" /\ "unretracted" \notin gaps =>
      cell # Indeterminate(a)
=============================================================================
