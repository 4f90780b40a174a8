------------------------------ MODULE SendStall ------------------------------
(***************************************************************************)
(* The send-stall watchdog of one phone on a cluster: handleSendStall, the *)
(* restart it asks the connections handler for, and the strikes in Redis   *)
(* that limit those restarts.                                              *)
(*                                                                         *)
(* An episode decides over several awaits whether to replace the socket.   *)
(* Recovery, an in-place reconnect, a POST /restart, a logout, a remote    *)
(* logged-out close and a takeover by another instance can land in any of  *)
(* them.  The strike is written before the restart is carried out and has  *)
(* to be taken back when the restart is called off.                        *)
(*                                                                         *)
(* Abstractions: the breaker is one flag, set when the streak is deep and  *)
(* long enough (SendBreaker has the rest); a backoff is over when its      *)
(* strike is in `served`; the 24 h expiry of the key is left out; a        *)
(* connection runs one episode at a time, since the next one needs a new   *)
(* streak of 90 s; restarts are enabled (without them an episode ends at   *)
(* its report).  Webhook reports are left out.                             *)
(***************************************************************************)
EXTENDS Integers, FiniteSets

CONSTANTS
  Conns,        \* the BaileysConnection objects this phone goes through
  Instances,
  None,
  CasAttempts,  \* CAS_ATTEMPTS
  MaxStrikes,   \* bound on the strikes written
  MaxEvents     \* bound on what happens around the episodes

Strike == [count: Nat, stamp: Nat, by: Conns]
Rollback == [prev: Strike \cup {None}, wrote: Strike]

ASSUME StallNoneAssumption ==
  None \notin Conns /\ None \notin Strike /\ None \notin Rollback
ASSUME StallBoundsAssumption ==
  CasAttempts \in Nat \ {0} /\ MaxStrikes \in Nat /\ MaxEvents \in Nat

VARIABLES
  conn,      \* the connections
  episode,   \* handleSendStall of each connection
  queued,    \* restarts waiting for the per-number slot, by their strike
  registry,  \* connections[phone] on each instance
  owner,     \* the instance that holds the lease
  strike,    \* the send-stall key in Redis
  served,    \* strikes whose backoff has run out
  written,   \* number of strikes written so far; stamps their values apart
  restarted, \* strikes whose restart was carried out
  wiped,     \* the strikes written before the last DEL of the key
  slotFree,  \* lastStallRestartAt is far enough back, per process
  events,    \* what has happened around the episodes so far
  gaps       \* gaps of the protocol met so far

stallVars == <<conn, episode, queued, registry, owner, strike, served, written,
               restarted, wiped, slotFree, events, gaps>>

NewConn(i, st) ==
  [inst |-> i, st |-> st, stalled |-> FALSE, silent |-> "no", pending |-> FALSE,
   ended |-> "no", rollback |-> None]

\* Stages of an episode; "unread" is an answer Redis still owes it.
Idle == [pc |-> "idle", fresh |-> FALSE, may |-> "unread", yield |-> "unread",
         prev |-> None, tries |-> 0]

ConnRec ==
  [inst: Instances, st: {"unborn", "down", "open", "gone"}, stalled: BOOLEAN,
   silent: {"no", "timed", "forever"}, pending: BOOLEAN,
   ended: {"no", "logout", "remote", "done"}, rollback: Rollback \cup {None}]
EpisodeRec ==
  [pc: {"idle", "lookup", "until", "count", "cas", "wrote", "wipe", "undo"},
   fresh: BOOLEAN, may: {"unread", "yes", "no"}, yield: {"unread", "yes", "no"},
   prev: Strike \cup {None}, tries: 0..(CasAttempts - 1)]

StallGaps == {"redis", "two restarts"}

\* Every variable has its type; no strike is tried more than CasAttempts times.
StallTypeOK ==
  /\ conn \in [Conns -> ConnRec]
  /\ episode \in [Conns -> EpisodeRec]
  /\ queued \in [Conns -> SUBSET Nat]
  /\ registry \in [Instances -> Conns \cup {None}]
  /\ owner \in Instances
  /\ strike \in Strike \cup {None}
  /\ served \subseteq Nat /\ restarted \subseteq Nat
  /\ written \in Nat /\ wiped \in Nat /\ events \in Nat
  /\ slotFree \in [Instances -> BOOLEAN]
  /\ gaps \subseteq StallGaps

StallInit ==
  \E i \in Instances, c \in Conns :
    /\ conn = [d \in Conns |-> NewConn(i, IF d = c THEN "open" ELSE "unborn")]
    /\ episode = [d \in Conns |-> Idle]
    /\ queued = [d \in Conns |-> {}]
    /\ registry = [j \in Instances |-> IF j = i THEN c ELSE None]
    /\ owner = i
    /\ strike = None
    /\ served = {} /\ restarted = {}
    /\ written = 0 /\ wiped = 0 /\ events = 0
    /\ slotFree = [j \in Instances |-> TRUE]
    /\ gaps = {}

-----------------------------------------------------------------------------
(* Helpers *)

Here(c) == conn[c].inst
Registered(c) == registry[Here(c)] = c
Discarded(c) == conn[c].st = "gone"
Ended(c) == conn[c].ended # "no"

\* The per-number slot of an instance is held while a logout is under way; a
\* remote logged-out close does not take it.
SlotBusy(i) == \E c \in Conns : Here(c) = i /\ conn[c].ended = "logout"

\* clearSendStallState
Healed(k) == [k EXCEPT !.stalled = FALSE, !.silent = "no", !.pending = FALSE]

\* isStallEpisodeCurrent
EpisodeCurrent(c) ==
  /\ conn[c].st = "open"
  /\ episode[c].fresh
  /\ conn[c].stalled

Count(s) == IF s = None THEN 0 ELSE s.count

\* canRestart
CanRestart == strike = None \/ strike.stamp \in served

Event ==
  /\ events < MaxEvents
  /\ events' = events + 1

Finish(c) == episode' = [episode EXCEPT ![c] = Idle]
Goto(c, pc) == episode' = [episode EXCEPT ![c].pc = pc]

\* An episode that ends without a verdict, and one whose verdict is a wait.
\* The first leaves the detector free to report, the second quiet for a while.
Silence(c, how) == conn' = [conn EXCEPT ![c].silent = how]
GiveUp(c, how) == Silence(c, IF EpisodeCurrent(c) THEN how ELSE "no") /\ Finish(c)

-----------------------------------------------------------------------------
(* handleSendStall *)

\* maybeReportSendStall, asked by every refused send and every missed deadline.
Ask(c) ==
  /\ conn[c].st = "open" /\ conn[c].stalled
  /\ conn[c].silent = "no" /\ ~conn[c].pending
  /\ episode[c].pc = "idle"
  /\ Silence(c, "forever")
  /\ episode' = [episode EXCEPT ![c] = [Idle EXCEPT !.pc = "lookup", !.fresh = TRUE]]
  /\ UNCHANGED <<queued, registry, owner, strike, served, written, restarted, wiped,
                 slotFree, events, gaps>>

ReadBackoff(c) ==
  /\ episode[c].pc = "lookup" /\ episode[c].may = "unread"
  /\ episode' = [episode EXCEPT ![c].may = IF CanRestart THEN "yes" ELSE "no"]
  /\ UNCHANGED <<conn, queued, registry, owner, strike, served, written, restarted,
                 wiped, slotFree, events, gaps>>

\* shouldYieldToLeaseOwner, read beside the backoff and again beside the
\* strike.  A lease that cannot be read is not somebody else's.
ReadLease(c) ==
  /\ episode[c].pc \in {"lookup", "count", "cas", "wrote"}
  /\ episode[c].yield = "unread"
  /\ \/ /\ episode' = [episode EXCEPT ![c].yield = IF owner = Here(c) THEN "no" ELSE "yes"]
        /\ UNCHANGED events
     \/ /\ Event
        /\ episode' = [episode EXCEPT ![c].yield = "no"]
  /\ UNCHANGED <<conn, queued, registry, owner, strike, served, written, restarted,
                 wiped, slotFree, gaps>>

\* The backoff, or the time it ends, cannot be read: quiet for a cooldown.
LookupFails_Mute(c) ==
  /\ episode[c].pc \in {"lookup", "until"}
  /\ Event
  /\ GiveUp(c, "forever")
  /\ UNCHANGED <<queued, registry, owner, strike, served, written, restarted, wiped,
                 slotFree, gaps>>
LookupFails(c) ==
  /\ episode[c].pc \in {"lookup", "until"}
  /\ Event
  /\ GiveUp(c, "timed")
  /\ UNCHANGED <<queued, registry, owner, strike, served, written, restarted, wiped,
                 slotFree, gaps>>

\* abort(): discard the socket and leave the registry.
Abort(c) ==
  /\ conn' = [conn EXCEPT ![c].st = "gone"]
  /\ registry' = [i \in Instances |-> IF registry[i] = c THEN None ELSE registry[i]]

Decided(c) == episode[c].pc = "lookup" /\ episode[c].may # "unread" /\ episode[c].yield # "unread"

DecideOver(c) ==
  /\ Decided(c)
  /\ ~EpisodeCurrent(c)
  /\ GiveUp(c, "no")
  /\ UNCHANGED <<queued, registry, owner, strike, served, written, restarted, wiped,
                 slotFree, events, gaps>>

DecideYield(c) ==
  /\ Decided(c) /\ EpisodeCurrent(c)
  /\ episode[c].yield = "yes"
  /\ Abort(c)
  /\ Finish(c)
  /\ UNCHANGED <<queued, owner, strike, served, written, restarted, wiped, slotFree,
                 events, gaps>>

\* claimStallRestartSlot, then restartRequested, then recordRestart.
DecideRestart(c) ==
  /\ Decided(c) /\ EpisodeCurrent(c)
  /\ episode[c].yield = "no" /\ episode[c].may = "yes"
  /\ IF slotFree[Here(c)]
     THEN /\ slotFree' = [slotFree EXCEPT ![Here(c)] = FALSE]
          /\ conn' = [conn EXCEPT ![c].pending = TRUE]
          /\ episode' = [episode EXCEPT ![c].pc = "count", ![c].yield = "unread"]
     ELSE /\ GiveUp(c, "no")
          /\ UNCHANGED slotFree
  /\ UNCHANGED <<queued, registry, owner, strike, served, written, restarted, wiped,
                 events, gaps>>

DecideWait(c) ==
  /\ Decided(c) /\ EpisodeCurrent(c)
  /\ episode[c].yield = "no" /\ episode[c].may = "no"
  /\ Goto(c, "until")
  /\ UNCHANGED <<conn, queued, registry, owner, strike, served, written, restarted,
                 wiped, slotFree, events, gaps>>

\* nextRestartAllowedAt: quiet until the backoff is over.
ReadUntil(c) ==
  /\ episode[c].pc = "until"
  /\ GiveUp(c, IF CanRestart THEN "no" ELSE "timed")
  /\ UNCHANGED <<queued, registry, owner, strike, served, written, restarted, wiped,
                 slotFree, events, gaps>>

\* recordRestart: GET, then the compare-and-set.
ReadStrike(c) ==
  /\ episode[c].pc = "count"
  /\ episode' = [episode EXCEPT ![c].prev = strike, ![c].pc = "cas"]
  /\ UNCHANGED <<conn, queued, registry, owner, strike, served, written, restarted,
                 wiped, slotFree, events, gaps>>

\* One more attempt after a swap that was lost.
MayRetry_OneMore(c) == episode[c].tries < CasAttempts
MayRetry(c) == episode[c].tries + 1 < CasAttempts

MyStrike(c) == [count |-> Count(episode[c].prev) + 1, stamp |-> written + 1, by |-> c]

SetStrike(c) ==
  /\ written < MaxStrikes
  /\ strike' = MyStrike(c)
  /\ written' = written + 1

SwapStrike(c) ==
  /\ episode[c].pc = "cas"
  /\ IF strike = episode[c].prev
     THEN /\ SetStrike(c)
          /\ conn' = [conn EXCEPT ![c].rollback = [prev |-> episode[c].prev, wrote |-> MyStrike(c)]]
          /\ Goto(c, "wrote")
     ELSE /\ MayRetry(c)
          /\ episode' = [episode EXCEPT ![c].pc = "count", ![c].tries = @ + 1]
          /\ UNCHANGED <<conn, strike, written>>
  /\ UNCHANGED <<queued, registry, owner, served, restarted, wiped, slotFree,
                 events, gaps>>

\* recordRestart throws: Redis fails, before or after it applied the script, or
\* every attempt was lost.  No restart without a strike.
RecordFails(c) ==
  /\ \/ /\ episode[c].pc \in {"count", "cas"}
        /\ Event
        /\ UNCHANGED <<strike, written>>
     \/ /\ episode[c].pc = "cas" /\ strike = episode[c].prev
        /\ Event
        /\ SetStrike(c)
     \/ /\ episode[c].pc = "cas" /\ strike # episode[c].prev
        /\ ~MayRetry(c)
        /\ UNCHANGED <<strike, written, events>>
  /\ conn' = [conn EXCEPT ![c].pending = FALSE,
                          ![c].silent = IF EpisodeCurrent(c) THEN "timed" ELSE "no"]
  /\ Finish(c)
  /\ gaps' = IF strike' # strike THEN gaps \cup {"redis"} ELSE gaps
  /\ UNCHANGED <<queued, registry, owner, served, restarted, wiped, slotFree>>

\* The strike is written and the lease read again: is the restart still wanted?
\* If not, its strike is deleted (the session is over) or taken back.
AfterWrite_TrustsClose(c) ==
  CASE Ended(c) -> "idle"
    [] ~Ended(c) /\ (Discarded(c) \/ episode[c].yield = "yes" \/ ~conn[c].pending) -> "undo"
    [] OTHER -> "restart"
AfterWrite(c) ==
  CASE Ended(c) -> "wipe"
    [] ~Ended(c) /\ (Discarded(c) \/ episode[c].yield = "yes" \/ ~conn[c].pending) -> "undo"
    [] OTHER -> "restart"

CallOff(c) ==
  /\ episode[c].pc = "wrote" /\ episode[c].yield # "unread"
  /\ AfterWrite(c) # "restart"
  /\ Goto(c, AfterWrite(c))
  /\ UNCHANGED <<conn, queued, registry, owner, strike, served, written, restarted,
                 wiped, slotFree, events, gaps>>

RequestRestart(c) ==
  /\ episode[c].pc = "wrote" /\ episode[c].yield # "unread"
  /\ AfterWrite(c) = "restart"
  /\ IF Registered(c) /\ conn[c].rollback # None
     THEN /\ queued' = [queued EXCEPT ![c] = @ \cup {conn[c].rollback.wrote.stamp}]
          /\ gaps' = IF queued[c] # {} THEN gaps \cup {"two restarts"} ELSE gaps
     ELSE UNCHANGED <<queued, gaps>>
  /\ Finish(c)
  /\ UNCHANGED <<conn, registry, owner, strike, served, written, restarted, wiped,
                 slotFree, events>>

\* clearSendStall of a session that is over; its failure is swallowed.
Wipe(c) ==
  /\ episode[c].pc = "wipe"
  /\ \/ /\ strike' = None /\ wiped' = written
        /\ UNCHANGED <<events, gaps>>
     \/ /\ Event /\ gaps' = gaps \cup {"redis"}
        /\ UNCHANGED <<strike, wiped>>
  /\ conn' = [conn EXCEPT ![c].rollback = None]
  /\ Finish(c)
  /\ UNCHANGED <<queued, registry, owner, served, written, restarted, slotFree>>

\* restoreState: put the previous value back, but only over one's own.
Restored_Blindly(r) == r.prev
Restored(r) == IF strike = r.wrote THEN r.prev ELSE strike

\* rollBackStallStrike, then the abort of a connection whose lease is gone.
Undo(c) ==
  /\ episode[c].pc = "undo"
  /\ \/ /\ strike' = IF conn[c].rollback = None THEN strike ELSE Restored(conn[c].rollback)
        /\ UNCHANGED <<events, gaps>>
     \/ /\ Event /\ gaps' = gaps \cup {"redis"}
        /\ UNCHANGED strike
  /\ IF episode[c].yield = "yes" /\ ~Discarded(c)
     THEN /\ conn' = [conn EXCEPT ![c].rollback = None, ![c].st = "gone"]
          /\ registry' = [i \in Instances |-> IF registry[i] = c THEN None ELSE registry[i]]
     ELSE /\ conn' = [conn EXCEPT ![c].rollback = None]
          /\ UNCHANGED registry
  /\ Finish(c)
  /\ UNCHANGED <<queued, owner, served, written, restarted, wiped, slotFree>>

-----------------------------------------------------------------------------
(* The restart, in the connections handler *)

\* connect, once the slot is free: the connection is still the registered one
\* and still wants its restart.
StillOurs(c) == Registered(c) /\ conn[c].pending

\* A new connection d replaces c on its instance, if d comes up.
ReplaceBy(c, d) ==
  /\ conn[d].st = "unborn"
  /\ conn' = [conn EXCEPT ![c].st = "gone", ![d] = NewConn(Here(c), "down")]
  /\ registry' = [registry EXCEPT ![Here(c)] = d]

Restart(c, s) ==
  /\ s \in queued[c] /\ ~SlotBusy(Here(c))
  /\ StillOurs(c)
  /\ \/ /\ \E d \in Conns : ReplaceBy(c, d)
        /\ UNCHANGED events
     \/ /\ Event
        /\ Abort(c)
  /\ restarted' = restarted \cup {s}
  /\ queued' = [queued EXCEPT ![c] = @ \ {s}]
  /\ UNCHANGED <<episode, owner, strike, served, written, wiped, slotFree, gaps>>

\* withdrawStallRestart: the restart was called off while it waited.  No new
\* episode is under way by then.
Withdraw(c, s) ==
  /\ s \in queued[c] /\ ~SlotBusy(Here(c))
  /\ ~StillOurs(c)
  /\ episode[c].pc = "idle"
  /\ queued' = [queued EXCEPT ![c] = @ \ {s}]
  /\ conn' = [conn EXCEPT ![c].pending = FALSE]
  /\ episode' = [episode EXCEPT ![c] = [Idle EXCEPT !.pc = IF Ended(c) /\ conn[c].rollback # None
                                                           THEN "wipe" ELSE "undo"]]
  /\ UNCHANGED <<registry, owner, strike, served, written, restarted, wiped,
                 slotFree, events, gaps>>

-----------------------------------------------------------------------------
(* What happens around it *)

\* The breaker opens and its streak is long enough.
Stalls(c) ==
  /\ Event
  /\ conn[c].st = "open" /\ ~conn[c].stalled
  /\ conn' = [conn EXCEPT ![c].stalled = TRUE]
  /\ UNCHANGED <<episode, queued, registry, owner, strike, served, written,
                 restarted, wiped, slotFree, gaps>>

\* A late success, or the release of the wedged key.
Recovers(c) ==
  /\ Event
  /\ conn[c].st \in {"down", "open"} /\ conn[c].stalled
  /\ conn' = [conn EXCEPT ![c] = Healed(@)]
  /\ UNCHANGED <<episode, queued, registry, owner, strike, served, written,
                 restarted, wiped, slotFree, gaps>>

Drops(c) ==
  /\ Event
  /\ conn[c].st = "open"
  /\ conn' = [conn EXCEPT ![c].st = "down"]
  /\ UNCHANGED <<episode, queued, registry, owner, strike, served, written,
                 restarted, wiped, slotFree, gaps>>

\* The socket reopens, in place: a new generation, a clean breaker.
Opens(c) ==
  /\ conn[c].st = "down"
  /\ conn' = [conn EXCEPT ![c] = [Healed(@) EXCEPT !.st = "open"]]
  /\ episode' = [episode EXCEPT ![c].fresh = FALSE]
  /\ UNCHANGED <<queued, registry, owner, strike, served, written, restarted, wiped,
                 slotFree, events, gaps>>

\* logout() under the slot, or close() on a remote loggedOut without it.
EndSession(c) ==
  /\ Event
  /\ Registered(c) /\ ~Discarded(c) /\ ~SlotBusy(Here(c))
  /\ \E how \in {"logout", "remote"} :
       conn' = [conn EXCEPT ![c].ended = how, ![c].st = "gone"]
  /\ UNCHANGED <<episode, queued, registry, owner, strike, served, written,
                 restarted, wiped, slotFree, gaps>>

\* The rest of close(): the backoff key goes, and the registry entry.
FinishClose(c) ==
  /\ conn[c].ended \in {"logout", "remote"}
  /\ \/ /\ strike' = None /\ wiped' = written
        /\ UNCHANGED <<events, gaps>>
     \/ /\ Event /\ gaps' = gaps \cup {"redis"}
        /\ UNCHANGED <<strike, wiped>>
  /\ conn' = [conn EXCEPT ![c].ended = "done"]
  /\ registry' = [i \in Instances |-> IF registry[i] = c THEN None ELSE registry[i]]
  /\ UNCHANGED <<episode, queued, owner, served, written, restarted, slotFree>>

\* POST /connections/:phone/restart
ForceRestart(c) ==
  /\ Event
  /\ Registered(c) /\ ~SlotBusy(Here(c))
  /\ \E d \in Conns : ReplaceBy(c, d)
  /\ UNCHANGED <<episode, queued, owner, strike, served, written, restarted, wiped,
                 slotFree, gaps>>

\* Another instance takes the lease by force and connects.
Takeover(i, d) ==
  /\ Event
  /\ owner # i /\ registry[i] = None /\ conn[d].st = "unborn"
  /\ owner' = i
  /\ conn' = [conn EXCEPT ![d] = NewConn(i, "down")]
  /\ registry' = [registry EXCEPT ![i] = d]
  /\ UNCHANGED <<episode, queued, strike, served, written, restarted, wiped,
                 slotFree, gaps>>

\* The renewal cycle of an instance that lost the lease discards its socket.
RenewDiscards(i) ==
  /\ owner # i /\ registry[i] # None /\ ~SlotBusy(i)
  /\ conn' = [conn EXCEPT ![registry[i]].st = "gone"]
  /\ registry' = [registry EXCEPT ![i] = None]
  /\ UNCHANGED <<episode, queued, owner, strike, served, written, restarted, wiped,
                 slotFree, events, gaps>>

\* Time: a backoff, a cooldown, the process-wide slot.
BackoffEnds ==
  /\ strike # None /\ strike.stamp \notin served
  /\ served' = served \cup {strike.stamp}
  /\ UNCHANGED <<conn, episode, queued, registry, owner, strike, written, restarted,
                 wiped, slotFree, events, gaps>>

SilenceEnds(c) ==
  /\ conn[c].silent = "timed"
  /\ Silence(c, "no")
  /\ UNCHANGED <<episode, queued, registry, owner, strike, served, written,
                 restarted, wiped, slotFree, events, gaps>>

SlotFrees(i) ==
  /\ ~slotFree[i]
  /\ slotFree' = [slotFree EXCEPT ![i] = TRUE]
  /\ UNCHANGED <<conn, episode, queued, registry, owner, strike, served, written,
                 restarted, wiped, events, gaps>>

EpisodeStep(c) ==
  \/ Ask(c) \/ ReadBackoff(c) \/ ReadLease(c) \/ LookupFails(c)
  \/ DecideOver(c) \/ DecideYield(c) \/ DecideRestart(c) \/ DecideWait(c) \/ ReadUntil(c)
  \/ ReadStrike(c) \/ SwapStrike(c) \/ RecordFails(c) \/ CallOff(c) \/ RequestRestart(c) \/ Wipe(c) \/ Undo(c)
  \/ \E s \in queued[c] : Restart(c, s) \/ Withdraw(c, s)

ConnStep(c) ==
  \/ Stalls(c) \/ Recovers(c) \/ Drops(c) \/ Opens(c)
  \/ EndSession(c) \/ FinishClose(c) \/ ForceRestart(c) \/ SilenceEnds(c)

StallNext ==
  \/ \E c \in Conns : EpisodeStep(c) \/ ConnStep(c)
  \/ \E i \in Instances : RenewDiscards(i) \/ SlotFrees(i) \/ \E d \in Conns : Takeover(i, d)
  \/ BackoffEnds

StallSpec == StallInit /\ [][StallNext]_stallVars

-----------------------------------------------------------------------------
(* Properties *)

\* Every restart carried out since the key was last deleted is still counted in
\* it, whatever another instance wrote or took back in between: a rollback never
\* erases a strike that was earned.  A connection remembers one strike to take
\* back: with two restarts waiting for the slot, the one that is called off may
\* take back the strike of the one that is not.
RestartsCounted ==
  "two restarts" \notin gaps =>
    Cardinality({s \in restarted : s > wiped}) <= Count(strike)

\* A session leaves no backoff behind: once its close is over and its episode
\* has ended, the strike in Redis is not one of its own, unless Redis failed.
NoBackoffAfterLogout ==
  \A c \in Conns :
    (/\ conn[c].ended = "done" /\ episode[c].pc = "idle" /\ queued[c] = {}
     /\ "redis" \notin gaps /\ strike # None)
      => strike.by # c

\* The detector is never deaf: a connection that is open, registered and
\* stalled, with no episode running and no restart asked for, is heard the next
\* time a send is refused or after a wait that ends.
NotDeaf ==
  \A c \in Conns :
    (/\ Registered(c) /\ conn[c].st = "open" /\ conn[c].stalled
     /\ episode[c].pc = "idle" /\ queued[c] = {})
      => conn[c].silent # "forever" /\ ~conn[c].pending
=============================================================================
