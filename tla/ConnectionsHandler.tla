--------------------------- MODULE ConnectionsHandler ---------------------------
(***************************************************************************)
(* src/baileys/connectionsHandler.ts: the connections of one process, seen *)
(* from one phone number.  Phone numbers only meet in logoutAll.           *)
(*                                                                         *)
(* A connection is a BaileysConnection object with an identity of its own: *)
(* it may lose the registry entry to another one and go on running, with a *)
(* reconnect or a teardown still awaiting something.  The per-phone slot   *)
(* (inFlightOps) keeps the operations that replace sockets apart; what the *)
(* connections do by themselves, and logoutAll, does not take the slot.    *)
(***************************************************************************)
EXTENDS Naturals, FiniteSets, FiniteSetsExt

CONSTANTS Conns,      \* bound: identities of connections, reused when garbage
          None,
          Calls,      \* identities of the calls made of the handler
          Kinds,      \* their kinds
          Mishaps,    \* what may happen to connections
          MaxMishaps  \* bound: how often

AllKinds == {"connect", "force", "discard", "logout", "logoutAll"}
AllMishaps == {"drop", "loggedOut", "wrongNumber", "stall",
               "spawnFails", "redialFails", "clearFails"}

ASSUME ConnsAssumption == Conns \subseteq Nat /\ Conns # {}
ASSUME NoneAssumption ==
  None \notin Conns /\ None \notin Calls /\ None \notin {"wrong", "watchdog"} \X Conns
ASSUME KindsAssumption == Kinds \subseteq AllKinds
ASSUME MishapsAssumption == Mishaps \subseteq AllMishaps /\ MaxMishaps \in Nat

VARIABLES
  entry,  \* connections[phone]: the registered connection, or None
  slot,   \* inFlightOps[phone]: the thread that holds it, or None
  conns,  \* conns[c]: the state of connection c
  creds,  \* Redis holds a session for the phone
  op,     \* op[t]: what thread t is doing
  left    \* mishaps that may still happen

vars == <<entry, slot, conns, creds, op, left>>

\* A connection asks the handler for its logout (wrong number) or its restart
\* (send-stall watchdog).
Threads == Calls \cup ({"wrong", "watchdog"} \X Conns)

\* sock: no socket object, one that is live, one that is closed.
\* busy: what an event handler of the connection awaits.
New == [sock |-> "none", discarded |-> FALSE, ended |-> FALSE, busy |-> "no"]

Unborn == [pc |-> "unborn"]
Idle == [pc |-> "idle"]
Resting(t) == IF t \in Calls THEN [pc |-> "done"] ELSE Idle
Active(t) == op[t].pc \notin {"unborn", "idle", "done"}

\* The phone has a live connection, or none and perhaps a stored session.
Init ==
  /\ entry \in {None, Min(Conns)}
  /\ slot = None
  /\ conns = [c \in Conns |-> IF c = entry THEN [New EXCEPT !.sock = "live"] ELSE New]
  /\ creds \in BOOLEAN /\ (entry # None => creds)
  /\ op = [t \in Threads |-> IF t \in Calls THEN Unborn ELSE Idle]
  /\ left = MaxMishaps

-----------------------------------------------------------------------------
(* Helpers *)

\* Nothing refers to connection c any more: its identity can be used again.
Garbage(c) ==
  /\ entry # c
  /\ conns[c].sock # "live" /\ conns[c].busy = "no"
  /\ \A t \in Threads : Active(t) => op[t].on # c
  /\ \A w \in {"wrong", "watchdog"} : ~Active(<<w, c>>)

Goto(t, pc) == op' = [op EXCEPT ![t].pc = pc]
Return(t) == op' = [op EXCEPT ![t] = Resting(t)]
Mishap(m) == m \in Mishaps /\ left > 0 /\ left' = left - 1

\* A thread that finds the slot free does not wait for the next event.
Settled == slot = None => \A t \in Threads : op[t].pc # "wait"

At(t, pc) == op[t].pc = pc /\ Settled

Waiting(t, kinds) == op[t].pc = "wait" /\ op[t].kind \in kinds /\ slot = None

\* connection.discard(): does nothing to one that is already discarded.
Discarded(conn) ==
  IF conn.discarded THEN conn ELSE [conn EXCEPT !.discarded = TRUE, !.sock = "none"]

\* The connections once the registered one, if any, is discarded.
EntryDiscarded ==
  [c \in Conns |-> IF c = entry THEN Discarded(conns[c]) ELSE conns[c]]

\* onConnectionClose: the entry goes if it is still this connection's.
Unregister(c) == entry' = IF entry = c THEN None ELSE entry

-----------------------------------------------------------------------------
(* connect *)

\* spawnConnection up to its await: whatever is registered is discarded, and a
\* new connection takes the entry.
Spawn(t) ==
  /\ \E c \in Conns : Garbage(c)
  /\ LET c == Min({k \in Conns : Garbage(k)})
     IN /\ conns' = [EntryDiscarded EXCEPT ![c] = New]
        /\ entry' = c
        /\ op' = [op EXCEPT ![t].pc = "spawning", ![t].on = c]
  /\ slot' = t

\* Once the slot is free.  A restart of the watchdog goes ahead if the stalled
\* connection is still registered and has not recovered; it and an import
\* replace what is registered; a connect uses it if it can.
Connect(t) ==
  /\ Waiting(t, {"connect", "force", "watchdog"})
  /\ \/ /\ op[t].kind = "watchdog" => entry = op[t].on
        /\ entry = None \/ op[t].kind # "connect"
        /\ Spawn(t)
     \/ /\ op[t].kind = "watchdog"  \* superseded, or recovered
        /\ Return(t)
        /\ UNCHANGED <<entry, slot, conns>>
     \/ /\ entry # None /\ op[t].kind = "connect"
        /\ op' = [op EXCEPT ![t].pc = "persist", ![t].on = entry]
        /\ UNCHANGED <<entry, slot, conns>>
  /\ UNCHANGED <<creds, left>>

\* connection.connect() is done.
Spawned(t) ==
  /\ At(t, "spawning")
  /\ conns' = IF conns[op[t].on].discarded THEN conns
              ELSE [conns EXCEPT ![op[t].on].sock = "live"]
  /\ creds' = TRUE
  /\ slot' = None
  /\ Return(t)
  /\ UNCHANGED <<entry, left>>

\* Bug: the slot is not given back.
SpawnFails_KeepsSlot(t) ==
  /\ At(t, "spawning") /\ Mishap("spawnFails")
  /\ Unregister(op[t].on)
  /\ conns' = [conns EXCEPT ![op[t].on] = Discarded(@)]
  /\ Return(t)
  /\ UNCHANGED <<slot, creds>>

\* connection.connect() rejects.
SpawnFails(t) ==
  /\ At(t, "spawning") /\ Mishap("spawnFails")
  /\ Unregister(op[t].on)
  /\ conns' = [conns EXCEPT ![op[t].on] = Discarded(@)]
  /\ slot' = None
  /\ Return(t)
  /\ UNCHANGED creds

\* A reused connection has stored its options.  One without a socket is evicted,
\* if it still is the entry, and the decision starts over; else the call ends, as
\* it does when the options cannot be stored.
Persisted(t) ==
  /\ At(t, "persist")
  /\ LET c == op[t].on
     IN \/ /\ Return(t)
           /\ UNCHANGED <<entry, conns>>
        \/ /\ conns[c].sock = "none"
           /\ conns' = IF entry = c THEN EntryDiscarded ELSE conns
           /\ Unregister(c)
           /\ op' = [op EXCEPT ![t].pc = "wait", ![t].on = None]
  /\ UNCHANGED <<slot, left, creds>>

-----------------------------------------------------------------------------
(* discardConnection, logout, requestLogout, logoutAll *)

Discard(t) ==
  /\ Waiting(t, {"discard"})
  /\ conns' = EntryDiscarded
  /\ entry' = None
  /\ Return(t)
  /\ UNCHANGED <<slot, left, creds>>

\* connection.logout() up to the WhatsApp call.
BeginLogout(t, c) ==
  /\ conns' = [conns EXCEPT ![c].discarded = TRUE, ![c].ended = TRUE]
  /\ op' = [op EXCEPT ![t].pc = "rpc", ![t].on = c]

\* Bug: a logout waits for the slot but does not take it.
Logout_NoSlot(t) ==
  /\ Waiting(t, {"logout", "wrong"})
  /\ \/ /\ entry = None \/ (op[t].kind = "wrong" /\ entry # op[t].on)
        /\ Return(t)
        /\ UNCHANGED conns
     \/ /\ entry # None
        /\ op[t].kind = "wrong" => entry = op[t].on
        /\ BeginLogout(t, entry)
  /\ UNCHANGED <<entry, slot, creds, left>>

\* logout rejects with nothing registered; a wrong-number logout leaves alone
\* any connection but its own.
Logout(t) ==
  /\ Waiting(t, {"logout", "wrong"})
  /\ \/ /\ entry = None \/ (op[t].kind = "wrong" /\ entry # op[t].on)
        /\ Return(t)
        /\ UNCHANGED <<slot, conns>>
     \/ /\ entry # None
        /\ op[t].kind = "wrong" => entry = op[t].on
        /\ BeginLogout(t, entry)
        /\ slot' = t
  /\ UNCHANGED <<entry, left, creds>>

\* logoutAll waits until no slot is taken, and takes none.
LogoutAll(t) ==
  /\ Waiting(t, {"logoutAll"})
  /\ \/ entry = None /\ Return(t) /\ UNCHANGED conns
     \/ entry # None /\ BeginLogout(t, entry)
  /\ UNCHANGED <<entry, slot, left, creds>>

\* WhatsApp has answered, or there was no socket to ask through; close() clears
\* the credentials, which may fail.  Redis executes the commands of a process in
\* the order they are sent.
RpcDone(t) ==
  /\ At(t, "rpc")
  /\ conns' = [conns EXCEPT ![op[t].on].sock = IF @ = "live" THEN "dead" ELSE @]
  /\ \/ creds' = FALSE /\ Goto(t, "clearing") /\ UNCHANGED left
     \/ Mishap("clearFails") /\ Goto(t, "failing") /\ UNCHANGED creds
  /\ UNCHANGED <<entry, slot>>

\* The credentials are cleared: close() unregisters the connection, and so does
\* the logout that holds the slot.  logoutAll still has the logouts of the other
\* phones to await.
Cleared(t) ==
  /\ At(t, "clearing")
  /\ conns' = [conns EXCEPT ![op[t].on].sock = "none"]
  /\ \/ /\ op[t].kind = "logoutAll"
        /\ Unregister(op[t].on)
        /\ Goto(t, "others") /\ UNCHANGED slot
     \/ /\ op[t].kind # "logoutAll"
        /\ entry' = None
        /\ slot' = None
        /\ Return(t)
  /\ UNCHANGED <<creds, left>>

\* The credentials could not be cleared: close() rejects half-way.
NotCleared(t) ==
  /\ At(t, "failing")
  /\ \/ op[t].kind = "logoutAll" /\ Goto(t, "others") /\ UNCHANGED slot
     \/ op[t].kind # "logoutAll" /\ slot' = None /\ Return(t)
  /\ UNCHANGED <<entry, conns, creds, left>>

\* this.connections = {}
Reset(t) ==
  /\ At(t, "others")
  /\ entry' = None
  /\ Return(t)
  /\ UNCHANGED <<slot, conns, left, creds>>

Call(t, kind) ==
  /\ op[t] = Unborn /\ Settled
  /\ op' = [op EXCEPT ![t] = [pc |-> "wait", kind |-> kind, on |-> None]]
  /\ UNCHANGED <<entry, slot, conns, left, creds>>

-----------------------------------------------------------------------------
(* What a connection does by itself *)

\* Its socket is live and its listeners are attached.
Listening(c) ==
  /\ conns[c].sock = "live" /\ ~conns[c].discarded
  /\ ~Active(<<"wrong", c>>)
  /\ Settled

\* abort(): the connection discards and unregisters itself.
Abort(c) ==
  /\ conns' = [conns EXCEPT ![c] = [Discarded(@) EXCEPT !.busy = "no"]]
  /\ Unregister(c)

\* The socket closes and can be reopened; an import cursor or the lease is
\* looked at first.
Drops(c) ==
  /\ Listening(c) /\ Mishap("drop")
  /\ conns' = [conns EXCEPT ![c].sock = "dead", ![c].busy = "closing"]
  /\ UNCHANGED <<entry, slot, op, creds>>

\* handleConnectionUpdate goes on: it yields to the lease's owner or gives up
\* after too many reconnects, or starts connect(), which a discarded connection
\* leaves at once.
Redials(c) ==
  /\ conns[c].busy = "closing" /\ Settled
  /\ \/ Abort(c)
     \/ /\ conns' = [conns EXCEPT ![c].sock = "none",
                       ![c].busy = IF conns[c].discarded THEN "no" ELSE "loading"]
        /\ UNCHANGED entry
  /\ UNCHANGED <<slot, op, left, creds>>

\* Bug: connect() does not look at isDiscarded after its awaits.
Redialled_NoCheck(c) ==
  /\ conns[c].busy = "loading" /\ Settled
  /\ conns' = [conns EXCEPT ![c].busy = "no", ![c].sock = "live"]
  /\ UNCHANGED <<entry, slot, op, left, creds>>

\* connect() has loaded what it needs; discarded meanwhile, it makes no socket.
Redialled(c) ==
  /\ conns[c].busy = "loading" /\ Settled
  /\ conns' = [conns EXCEPT ![c].busy = "no",
                            ![c].sock = IF conns[c].discarded THEN @ ELSE "live"]
  /\ UNCHANGED <<entry, slot, op, left, creds>>

\* Bug: the rejection is only logged.
RedialFails_Logged(c) ==
  /\ conns[c].busy = "loading" /\ Settled /\ Mishap("redialFails")
  /\ conns' = [conns EXCEPT ![c].busy = "no"]
  /\ UNCHANGED <<entry, slot, op, creds>>

\* reconnectInBackground's connect() rejects.
RedialFails(c) ==
  /\ conns[c].busy = "loading" /\ Settled /\ Mishap("redialFails")
  /\ \/ ~conns[c].discarded /\ Abort(c)
     \/ /\ conns[c].discarded
        /\ conns' = [conns EXCEPT ![c].busy = "no"]
        /\ UNCHANGED entry
  /\ UNCHANGED <<slot, op, creds>>

\* The device was unlinked: close(), outside any slot.
LoggedOut(c) ==
  /\ Listening(c) /\ Mishap("loggedOut")
  /\ \E fails \in {FALSE, "clearFails" \in Mishaps} :
       /\ conns' = [conns EXCEPT ![c] =
                     [sock |-> "dead", discarded |-> TRUE, ended |-> TRUE,
                      busy |-> IF fails THEN "failing" ELSE "clearing"]]
       /\ creds' = (creds /\ fails)
  /\ UNCHANGED <<entry, slot, op>>

Forgotten(c) ==
  /\ Settled
  /\ \/ /\ conns[c].busy = "clearing"
        /\ conns' = [conns EXCEPT ![c].sock = "none", ![c].busy = "no"]
        /\ Unregister(c)
     \/ /\ conns[c].busy = "failing"
        /\ conns' = [conns EXCEPT ![c].busy = "no"]
        /\ UNCHANGED entry
  /\ UNCHANGED <<slot, creds, op, left>>

Ask(w, c) ==
  /\ ~Active(<<w, c>>)
  /\ op' = [op EXCEPT ![<<w, c>>] = [pc |-> "wait", kind |-> w, on |-> c]]
  /\ UNCHANGED <<entry, slot, conns, creds>>

\* handleWrongPhoneNumber: no more events, and requestLogout.
WrongNumber(c) == Listening(c) /\ Mishap("wrongNumber") /\ Ask("wrong", c)

\* Bug: requestRestart is wrapped in the slot that its connect will wait for.
Stalls_TakesSlot(c) ==
  /\ Listening(c) /\ Mishap("stall") /\ entry = c
  /\ slot = None /\ slot' = <<"watchdog", c>>
  /\ op' = [op EXCEPT ![<<"watchdog", c>>] = [pc |-> "wait", kind |-> "watchdog", on |-> c]]
  /\ UNCHANGED <<entry, conns, creds>>

\* handleSendStall decides to restart and records its strike; the socket may have
\* dropped meanwhile.  requestRestart looks at the entry.
Stalls(c) ==
  /\ entry = c /\ ~conns[c].discarded
  /\ Listening(c) \/ conns[c].busy \in {"closing", "loading"}
  /\ Settled /\ Mishap("stall")
  /\ Ask("watchdog", c)

\* handleSendStall finds the lease elsewhere, or handleReconnecting has counted
\* too many attempts, with the socket still there: abort().
Yields(c) ==
  /\ Listening(c) /\ Mishap("drop")
  /\ Abort(c)
  /\ UNCHANGED <<slot, op, creds>>

-----------------------------------------------------------------------------

Step(t) ==
  \/ Connect(t) \/ Spawned(t) \/ Persisted(t) \/ Discard(t)
  \/ Logout(t) \/ RpcDone(t) \/ Cleared(t) \/ NotCleared(t)

Handle(c) == Redials(c) \/ Redialled(c) \/ Forgotten(c)

Environment ==
  \/ \E t \in Calls, kind \in Kinds : Call(t, kind)
  \/ \E t \in Threads : SpawnFails(t)
  \/ \E c \in Conns : Drops(c) \/ RedialFails(c) \/ LoggedOut(c) \/ WrongNumber(c)
                        \/ Stalls(c) \/ Yields(c)

Next ==
  \/ \E t \in Threads : Step(t)
  \/ \E c \in Conns : Handle(c)
  \/ Environment

Spec == Init /\ [][Next]_vars

\* With the administrator's bulk logout, which the slots do not keep apart from
\* the other operations.
BulkNext == Next \/ \E t \in Calls : LogoutAll(t) \/ Reset(t)
BulkSpec == Init /\ [][BulkNext]_vars

\* Every await ends: timers fire, Redis and WhatsApp answer or reject.
FairSpec ==
  /\ Spec
  /\ \A t \in Threads : WF_vars(Step(t))
  /\ \A c \in Conns : WF_vars(Handle(c))

-----------------------------------------------------------------------------
(* Properties *)

Op == [pc : {"wait", "spawning", "persist", "rpc", "clearing", "failing", "others"},
       kind : AllKinds \cup {"wrong", "watchdog"},
       on : Conns \cup {None}]

TypeOK ==
  /\ entry \in Conns \cup {None}
  /\ slot \in Threads \cup {None} /\ (slot # None => Active(slot))
  /\ conns \in [Conns -> [sock : {"none", "live", "dead"}, discarded : BOOLEAN,
                          ended : BOOLEAN, busy : {"no", "closing", "loading", "clearing", "failing"}]]
  /\ creds \in BOOLEAN
  /\ \A t \in Threads : IF Active(t) THEN op[t] \in Op ELSE op[t] \in {Unborn, Resting(t)}
  /\ left \in 0..MaxMishaps

Live(c) == conns[c].sock = "live"

\* Never two parallel sockets with the same identity, whatever calls and
\* background reconnects overlap: WhatsApp would kick them in turn.
OneSocket == \A c, d \in Conns : Live(c) /\ Live(d) => c = d

\* No orphan: a live socket belongs to the registered connection, the only one
\* that a discard, a logout or the shutdown can reach.
NoOrphan == \A c \in Conns : Live(c) => entry = c

\* Whatever holds the slot, waits for it or retries, every call returns: no
\* operation waits for a slot it holds itself, and no wake-up is lost.
CallsReturn == \A t \in Threads : Active(t) ~> ~Active(t)

\* No dark phone: a registered connection gets a live socket or leaves the
\* registry, for hasConnection() keeps claims away and the lease renewed.  (A
\* connection whose session has ended is excepted: its teardown may fail.)
EntryServes ==
  \A c \in Conns : entry = c /\ ~conns[c].ended ~> Live(c) \/ entry # c \/ conns[c].ended
==============================================================================
