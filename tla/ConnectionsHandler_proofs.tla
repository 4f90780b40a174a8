----------------------- MODULE ConnectionsHandler_proofs -----------------------
(***************************************************************************)
(* Theorems about ConnectionsHandler (Spec: without the bulk logout, which *)
(* does break NoOrphan) for any calls, kinds, mishaps and bounds.          *)
(***************************************************************************)
EXTENDS ConnectionsHandler, WellFoundedInduction, TLAPS

Connection == [sock : {"none", "live", "dead"}, discarded : BOOLEAN, ended : BOOLEAN,
               busy : {"no", "closing", "loading", "clearing", "failing"}]

Done == [pc |-> "done"]

\* What an operation does while it holds the slot: it replaces a connection, or
\* ends one.
Ending == {"rpc", "clearing", "failing"}
Holding == {"spawning"} \cup Ending

Doing(t, pcs) == op[t].pc \in pcs
Spawns(t, c) == op[t].pc = "spawning" /\ op[t].on = c

OpTypeOK == op \in [Threads -> Op \cup {Unborn, Idle, Done}]

\* One operation at a time is past the slot.
SlotHeld ==
  /\ \A t \in Threads : Doing(t, Holding) => slot = t
  /\ slot # None => Doing(slot, Holding)

\* Every operation past its wait is about a connection, and none is logoutAll's.
OpsAbout ==
  \A t \in Threads :
    /\ Doing(t, Holding \cup {"persist"}) => op[t].on \in Conns
    /\ Doing(t, Ending) => op[t].kind # "logoutAll"
    /\ op[t].pc # "others"

\* A connection that is being spawned has done nothing yet.
SpawnsFresh ==
  \A t \in Threads, c \in Conns :
    Spawns(t, c) => conns[c].sock = "none" /\ conns[c].busy = "no"

\* A connection that is being ended is not replaced meanwhile.
EndsOwn ==
  \A t \in Threads :
    Doing(t, Ending) => conns[op[t].on].discarded /\ entry \in {op[t].on, None}

\* A connection that is not discarded and that has a socket, awaits one or is being
\* spawned is the registered one.
Registered ==
  \A c \in Conns :
    (/\ ~conns[c].discarded
     /\ conns[c].sock # "none" \/ conns[c].busy # "no" \/ \E t \in Threads : Spawns(t, c))
      => entry = c

\* A live socket of a discarded connection is one whose logout is under way.
LogoutLeaves ==
  \A c \in Conns :
    conns[c].sock = "live" /\ conns[c].discarded
      => entry = c /\ \E t \in Threads : op[t].pc = "rpc" /\ op[t].on = c

\* Handlers that await something: no socket is live, and a teardown is of a
\* discarded connection.
HandlersQuiet ==
  \A c \in Conns :
    /\ conns[c].sock = "live" => conns[c].busy = "no"
    /\ conns[c].busy \in {"clearing", "failing"} => conns[c].discarded

\* NoOrphan is not inductive: it says nothing of the connections that are about to
\* open a socket, nor of what a holder of the slot relies on.
HandlerIInv ==
  /\ TypeOK /\ OpTypeOK
  /\ SlotHeld
  /\ OpsAbout
  /\ SpawnsFresh
  /\ EndsOwn
  /\ Registered
  /\ LogoutLeaves
  /\ HandlersQuiet

-----------------------------------------------------------------------------

Below == OpToRel(<, Nat)

LEMMA MinIsMember == \A S \in SUBSET Nat : S # {} => Min(S) \in S
  <1> SUFFICES ASSUME NEW S \in SUBSET Nat, S # {} PROVE Min(S) \in S
    OBVIOUS
  <1>1. IsWellFoundedOn(Below, Nat)
    BY NatLessThanWellFounded DEF Below
  <1>2. PICK x \in S : \A y \in S : <<y, x>> \notin Below
    BY <1>1, WFMin
  <1>3. \A y \in S : <<y, x>> \notin Below => ~(y < x)
    BY DEF Below, OpToRel
  <1>4. \A y \in S : ~(y < x)
    BY <1>2, <1>3
  <1>5. S \subseteq Nat
    OBVIOUS
  <1>6. \A y \in S : x =< y
    BY <1>4, <1>5
  <1> QED BY <1>6 DEF Min
-----------------------------------------------------------------------------
(* What the helpers do *)

\* One thread goes to another step, or rests.
LEMMA OpChanges ==
  ASSUME TypeOK, OpTypeOK, NEW t \in Threads, NEW r \in Op \cup {Resting(t)},
         op' = [op EXCEPT ![t] = r]
  PROVE  /\ op'[t] = r /\ \A u \in Threads \ {t} : op'[u] = op[u]
         /\ OpTypeOK'
         /\ \A u \in Threads : IF Active(u)' THEN op'[u] \in Op ELSE op'[u] \in {Unborn, Resting(u)}
  <1>1. op'[t] = r /\ \A u \in Threads \ {t} : op'[u] = op[u]
    BY DEF OpTypeOK
  <1>2. Resting(t) \in {Idle, Done}
    BY DEF Resting, Idle, Done
  <1>3. OpTypeOK'
    BY <1>2 DEF OpTypeOK
  <1>4. r \in Op => r.pc \notin {"unborn", "idle", "done"}
    BY DEF Op
  <1>5. r = Resting(t) => r.pc \in {"unborn", "idle", "done"}
    BY DEF Resting, Idle
  <1>6. ASSUME NEW u \in Threads
        PROVE  IF Active(u)' THEN op'[u] \in Op ELSE op'[u] \in {Unborn, Resting(u)}
    BY <1>1, <1>4, <1>5 DEF Active, TypeOK
  <1> QED BY <1>1, <1>3, <1>6

LEMMA GotoChanges ==
  ASSUME OpTypeOK, NEW t \in Threads, op[t] \in Op,
         NEW pc \in {"wait", "spawning", "persist", "rpc", "clearing", "failing"},
         Goto(t, pc)
  PROVE  \E r \in Op : /\ op' = [op EXCEPT ![t] = r]
                       /\ r.pc = pc /\ r.kind = op[t].kind /\ r.on = op[t].on
  <1> DEFINE r == [op[t] EXCEPT !.pc = pc]
  <1>1. r \in Op /\ r.pc = pc /\ r.kind = op[t].kind /\ r.on = op[t].on
    BY DEF Op
  <1>2. op' = [op EXCEPT ![t] = r]
    BY DEF Goto, OpTypeOK
  <1> HIDE DEF r
  <1> QED BY <1>1, <1>2

\* A thread under way has an operation.
LEMMA Working ==
  ASSUME TypeOK, NEW t \in Threads, op[t].pc \notin {"unborn", "idle", "done"}
  PROVE  op[t] \in Op
  BY DEF TypeOK, Active

LEMMA DiscardedFacts ==
  ASSUME NEW conn \in Connection
  PROVE  /\ Discarded(conn) \in Connection
         /\ Discarded(conn).discarded
         /\ conn.discarded => Discarded(conn) = conn
         /\ ~conn.discarded => Discarded(conn).sock = "none"
         /\ Discarded(conn).busy = conn.busy
         /\ conn.sock = "none" => Discarded(conn).sock = "none"
  BY DEF Discarded, Connection

LEMMA EntryDiscardedFacts ==
  ASSUME TypeOK
  PROVE  /\ EntryDiscarded \in [Conns -> Connection]
         /\ \A c \in Conns : c # entry => EntryDiscarded[c] = conns[c]
         /\ entry \in Conns => EntryDiscarded[entry] = Discarded(conns[entry])
  <1>1. conns \in [Conns -> Connection]
    BY DEF TypeOK, Connection
  <1>2. \A c \in Conns : Discarded(conns[c]) \in Connection
    BY <1>1, DiscardedFacts
  <1> QED BY <1>1, <1>2 DEF EntryDiscarded

LEMMA ConnsTyped == TypeOK => conns \in [Conns -> Connection]
  BY DEF TypeOK, Connection

LEMMA NoneApart == None \notin Conns /\ None \notin Threads
  BY NoneAssumption DEF Threads

LEMMA InitHandlerIInv == Init => HandlerIInv
  <1> SUFFICES ASSUME Init PROVE HandlerIInv
    OBVIOUS
  <1>1. Min(Conns) \in Conns
    BY MinIsMember, ConnsAssumption
  <1>2. entry \in Conns \cup {None}
    BY <1>1 DEF Init
  <1>3. \A c \in Conns : conns[c] = IF c = entry THEN [New EXCEPT !.sock = "live"] ELSE New
    BY DEF Init
  <1>4. conns \in [Conns -> Connection]
    BY DEF Init, New, Connection
  <1>5. \A t \in Threads : op[t] \in {Unborn, Resting(t)} /\ op[t] \in {Unborn, Idle}
    BY DEF Init, Resting
  <1>6. \A t \in Threads : op[t].pc \in {"unborn", "idle"}
    BY <1>5 DEF Unborn, Idle
  <1>7. TypeOK
    BY <1>2, <1>4, <1>5, <1>6, MishapsAssumption DEF Init, TypeOK, Active, Connection
  <1>8. OpTypeOK
    BY <1>5 DEF Init, OpTypeOK
  <1>9. SlotHeld /\ OpsAbout /\ SpawnsFresh /\ EndsOwn
    BY <1>6 DEF Init, SlotHeld, OpsAbout, SpawnsFresh, EndsOwn, Doing, Holding, Ending, Spawns
  <1>10. Registered /\ LogoutLeaves /\ HandlersQuiet
    BY <1>3, <1>6 DEF Registered, LogoutLeaves, HandlersQuiet, Spawns, New
  <1> QED BY <1>7, <1>8, <1>9, <1>10 DEF HandlerIInv
-----------------------------------------------------------------------------
(* Steps, by what they change *)

\* A thread that does not hold the slot goes to a step that does not take it.
LEMMA OpStep ==
  ASSUME HandlerIInv, UNCHANGED <<entry, slot, conns, creds>>, left' \in 0..MaxMishaps,
         NEW t \in Threads, op[t].pc \notin Holding,
         NEW r \in Op \cup {Resting(t)}, op' = [op EXCEPT ![t] = r],
         r.pc \in {"idle", "done", "wait", "persist"},
         r.pc = "persist" => r.on \in Conns
  PROVE  HandlerIInv'
  <1> USE DEF HandlerIInv
  <1>1. /\ op'[t] = r /\ \A u \in Threads \ {t} : op'[u] = op[u]
        /\ OpTypeOK'
        /\ \A u \in Threads : IF Active(u)' THEN op'[u] \in Op ELSE op'[u] \in {Unborn, Resting(u)}
    BY OpChanges
  <1>2. ~Doing(t, Holding)' /\ ~Doing(t, Ending)' /\ ~Doing(t, Holding)
        /\ \A c \in Conns : ~Spawns(t, c)' /\ ~Spawns(t, c)
    BY <1>1 DEF Doing, Holding, Ending, Spawns
  <1>3. \A u \in Threads \ {t} :
          /\ Doing(u, Holding)' = Doing(u, Holding) /\ Doing(u, Ending)' = Doing(u, Ending)
          /\ \A c \in Conns : Spawns(u, c)' = Spawns(u, c)
    BY <1>1 DEF Doing, Spawns
  <1>4. TypeOK'
    <2>1. slot # None => slot # t
      BY <1>2 DEF SlotHeld
    <2>2. slot # None => Active(slot)'
      BY <1>1, <2>1 DEF TypeOK, Active
    <2> QED BY <1>1, <2>2 DEF TypeOK
  <1>5. SlotHeld'
    BY <1>2, <1>3 DEF SlotHeld, TypeOK
  <1>6. OpsAbout'
    BY <1>1 DEF OpsAbout, Doing, Holding, Ending
  <1>7. SpawnsFresh'
    BY <1>2, <1>3 DEF SpawnsFresh
  <1>8. EndsOwn'
    BY <1>1, <1>2, <1>3 DEF EndsOwn
  <1>9. Registered'
    BY <1>2, <1>3 DEF Registered
  <1>10. LogoutLeaves'
    BY <1>1 DEF LogoutLeaves, Holding, Ending
  <1>11. HandlersQuiet'
    BY DEF HandlersQuiet
  <1> QED BY <1>1, <1>4, <1>5, <1>6, <1>7, <1>8, <1>9, <1>10, <1>11

\* A handler of connection c changes only that connection, which has a socket or
\* awaits one, and may take it off the registry.
LEMMA HandlerStep ==
  ASSUME HandlerIInv, UNCHANGED <<slot, op>>, creds' \in BOOLEAN, left' \in 0..MaxMishaps,
         NEW c \in Conns, NEW conn \in Connection, conns' = [conns EXCEPT ![c] = conn],
         conns[c].sock # "none" \/ conns[c].busy # "no",
         conns[c].sock = "live" => ~conns[c].discarded,
         conns[c].discarded => conn.discarded,
         conn.sock = "live" => ~conn.discarded /\ conn.busy = "no",
         conn.busy \in {"clearing", "failing"} => conn.discarded,
         entry' = entry \/ (Unregister(c) /\ conn.discarded)
  PROVE  HandlerIInv'
  <1> USE DEF HandlerIInv
  <1>1. conns' \in [Conns -> Connection] /\ conns'[c] = conn
        /\ \A d \in Conns \ {c} : conns'[d] = conns[d]
    BY ConnsTyped
  <1>2. \A t \in Threads : ~Spawns(t, c)
    BY DEF SpawnsFresh
  <1>3. entry' \in {entry, None} /\ (entry # c => entry' = entry)
        /\ (~conn.discarded => entry' = entry)
    BY DEF Unregister
  <1>4. TypeOK'
    BY <1>1, <1>3 DEF TypeOK, Connection, Active
  <1>5. OpTypeOK' /\ SlotHeld' /\ OpsAbout'
    BY DEF OpTypeOK, SlotHeld, OpsAbout, Doing
  <1>6. SpawnsFresh'
    BY <1>1, <1>2 DEF SpawnsFresh, Spawns
  <1>7. EndsOwn'
    <2> SUFFICES ASSUME NEW t \in Threads, Doing(t, Ending)
                 PROVE  conns'[op[t].on].discarded /\ entry' \in {op[t].on, None}
      BY DEF EndsOwn, Doing
    <2>1. op[t].on \in Conns
      BY DEF OpsAbout, Doing, Holding
    <2> QED BY <1>1, <1>3, <2>1 DEF EndsOwn
  <1>8. Registered'
    <2> SUFFICES ASSUME NEW d \in Conns, ~conns'[d].discarded,
                        conns'[d].sock # "none" \/ conns'[d].busy # "no"
                          \/ \E t \in Threads : Spawns(t, d)
                 PROVE  entry' = d
      BY DEF Registered, Spawns
    <2>1. CASE d = c
      BY <1>1, <1>3, <2>1 DEF Registered
    <2>2. CASE d # c
      BY <1>1, <1>3, <2>2 DEF Registered
    <2> QED BY <2>1, <2>2
  <1>9. LogoutLeaves'
    BY <1>1, <1>3 DEF LogoutLeaves
  <1>10. HandlersQuiet'
    BY <1>1 DEF HandlersQuiet
  <1> QED BY <1>4, <1>5, <1>6, <1>7, <1>8, <1>9, <1>10

-----------------------------------------------------------------------------
(* What a connection does by itself *)

LEMMA HandlersPreserve ==
  ASSUME HandlerIInv, NEW c \in Conns,
         \/ Drops(c) \/ Redials(c) \/ Redialled(c) \/ RedialFails(c)
         \/ LoggedOut(c) \/ Forgotten(c) \/ Yields(c)
  PROVE  HandlerIInv'
  <1> USE DEF HandlerIInv
  <1>1. conns[c] \in Connection /\ conns \in [Conns -> Connection]
    BY ConnsTyped
  <1>2. left \in 0..MaxMishaps /\ creds \in BOOLEAN /\ MaxMishaps \in Nat
    BY MishapsAssumption DEF TypeOK
  <1>3. \A m : Mishap(m) => left' \in 0..MaxMishaps
    BY <1>2 DEF Mishap
  <1>4. conns[c].busy # "no" => conns[c].sock # "live"
    BY DEF HandlersQuiet
  <1>5. conns[c].busy \in {"clearing", "failing"} => conns[c].discarded
    BY DEF HandlersQuiet
  <1> DEFINE conn == conns'[c]
             gone == [Discarded(conns[c]) EXCEPT !.busy = "no"]
  <1>6. gone \in Connection /\ gone.discarded /\ gone.busy = "no"
        /\ (gone.sock = "live" => conns[c].discarded /\ conns[c].sock = "live")
    BY <1>1, DiscardedFacts DEF Connection
  <1>7. Abort(c) => /\ conns' = [conns EXCEPT ![c] = gone]
                    /\ Unregister(c)
    BY <1>1 DEF Abort
  <1> HIDE DEF gone
  <1>8. CASE Drops(c)
    <2> DEFINE new == [conns[c] EXCEPT !.sock = "dead", !.busy = "closing"]
    <2>1. new \in Connection /\ new.sock = "dead" /\ new.busy = "closing"
          /\ new.discarded = conns[c].discarded
      BY <1>1 DEF Connection
    <2>2. conns' = [conns EXCEPT ![c] = new] /\ UNCHANGED <<entry, slot, op, creds>>
      BY <1>1, <1>8 DEF Drops
    <2>3. conns[c].sock = "live" /\ ~conns[c].discarded /\ left' \in 0..MaxMishaps
      BY <1>3, <1>8 DEF Drops, Listening
    <2> HIDE DEF new
    <2> QED BY <1>2, <2>1, <2>2, <2>3, HandlerStep
  <1>9. CASE Redials(c)
    <2>1. UNCHANGED <<slot, op, left, creds>> /\ conns[c].busy = "closing"
      BY <1>9 DEF Redials
    <2>2. CASE Abort(c)
      BY <1>2, <1>4, <1>6, <1>7, <2>1, <2>2, HandlerStep
    <2>3. CASE ~Abort(c)
      <3> DEFINE new == [conns[c] EXCEPT !.sock = "none",
                           !.busy = IF conns[c].discarded THEN "no" ELSE "loading"]
      <3>1. new \in Connection /\ new.sock = "none" /\ new.busy \in {"no", "loading"}
            /\ new.discarded = conns[c].discarded
        BY <1>1 DEF Connection
      <3>2. conns' = [conns EXCEPT ![c] = new] /\ UNCHANGED entry
        BY <1>1, <1>9, <2>3 DEF Redials
      <3> HIDE DEF new
      <3> QED BY <1>2, <1>4, <2>1, <3>1, <3>2, HandlerStep
    <2> QED BY <2>2, <2>3
  <1>10. CASE Redialled(c)
    <2> DEFINE new == [conns[c] EXCEPT !.busy = "no",
                         !.sock = IF conns[c].discarded THEN @ ELSE "live"]
    <2>1. new \in Connection /\ new.busy = "no" /\ new.discarded = conns[c].discarded
          /\ (conns[c].discarded => new.sock = conns[c].sock)
      BY <1>1 DEF Connection
    <2>2. conns' = [conns EXCEPT ![c] = new] /\ UNCHANGED <<entry, slot, op, left, creds>>
          /\ conns[c].busy = "loading"
      BY <1>1, <1>10 DEF Redialled
    <2> HIDE DEF new
    <2> QED BY <1>2, <1>4, <2>1, <2>2, HandlerStep
  <1>11. CASE RedialFails(c)
    <2>1. UNCHANGED <<slot, op, creds>> /\ conns[c].busy = "loading" /\ left' \in 0..MaxMishaps
      BY <1>3, <1>11 DEF RedialFails
    <2>2. CASE Abort(c)
      BY <1>2, <1>4, <1>6, <1>7, <2>1, <2>2, HandlerStep
    <2>3. CASE ~Abort(c)
      <3> DEFINE new == [conns[c] EXCEPT !.busy = "no"]
      <3>1. new \in Connection /\ new.busy = "no" /\ new.sock = conns[c].sock
            /\ new.discarded = conns[c].discarded
        BY <1>1 DEF Connection
      <3>2. conns' = [conns EXCEPT ![c] = new] /\ UNCHANGED entry
        BY <1>1, <1>11, <2>3 DEF RedialFails
      <3> HIDE DEF new
      <3> QED BY <1>2, <1>4, <2>1, <3>1, <3>2, HandlerStep
    <2> QED BY <2>2, <2>3
  <1>12. CASE LoggedOut(c)
    <2>1. PICK fails \in {FALSE, "clearFails" \in Mishaps} :
            /\ conns' = [conns EXCEPT ![c] =
                     [sock |-> "dead", discarded |-> TRUE, ended |-> TRUE,
                      busy |-> IF fails THEN "failing" ELSE "clearing"]]
            /\ creds' = (creds /\ fails)
      BY <1>12 DEF LoggedOut
    <2> DEFINE new == [sock |-> "dead", discarded |-> TRUE, ended |-> TRUE,
                       busy |-> IF fails THEN "failing" ELSE "clearing"]
    <2>2. new \in Connection /\ new.sock = "dead" /\ new.discarded
      BY DEF Connection
    <2>3. conns' = [conns EXCEPT ![c] = new] /\ UNCHANGED <<entry, slot, op>>
      BY <1>12, <2>1 DEF LoggedOut
    <2>4. creds' \in BOOLEAN
      BY <2>1
    <2>5. conns[c].sock = "live" /\ ~conns[c].discarded /\ left' \in 0..MaxMishaps
      BY <1>3, <1>12 DEF LoggedOut, Listening
    <2> HIDE DEF new
    <2> QED BY <2>2, <2>3, <2>4, <2>5, HandlerStep
  <1>13. CASE Forgotten(c)
    <2>1. UNCHANGED <<slot, creds, op, left>> /\ conns[c].discarded
          /\ conns[c].busy \in {"clearing", "failing"}
      BY <1>5, <1>13 DEF Forgotten
    <2> DEFINE forgotten == [conns[c] EXCEPT !.sock = "none", !.busy = "no"]
               kept == [conns[c] EXCEPT !.busy = "no"]
    <2>2. /\ forgotten \in Connection /\ forgotten.sock = "none" /\ forgotten.busy = "no"
          /\ forgotten.discarded = conns[c].discarded
          /\ kept \in Connection /\ kept.sock = conns[c].sock /\ kept.busy = "no"
          /\ kept.discarded = conns[c].discarded
      BY <1>1 DEF Connection
    <2>3. \/ conns' = [conns EXCEPT ![c] = forgotten] /\ Unregister(c)
          \/ conns' = [conns EXCEPT ![c] = kept] /\ UNCHANGED entry
      BY <1>1, <1>13 DEF Forgotten
    <2> HIDE DEF forgotten, kept
    <2> QED BY <1>2, <1>4, <2>1, <2>2, <2>3, HandlerStep
  <1>14. CASE Yields(c)
    <2>1. UNCHANGED <<slot, op, creds>> /\ conns[c].sock = "live" /\ ~conns[c].discarded
          /\ left' \in 0..MaxMishaps /\ Abort(c)
      BY <1>3, <1>14 DEF Yields, Listening
    <2> QED BY <1>2, <1>6, <1>7, <2>1, HandlerStep
  <1> QED BY <1>8, <1>9, <1>10, <1>11, <1>12, <1>13, <1>14
-----------------------------------------------------------------------------
(* Requests, and the operations that take the slot *)

LEMMA AskPreserves ==
  ASSUME HandlerIInv, NEW c \in Conns, WrongNumber(c) \/ Stalls(c)
  PROVE  HandlerIInv'
  <1>1. PICK w \in {"wrong", "watchdog"} : Ask(w, c)
    BY DEF WrongNumber, Stalls
  <1> DEFINE t == <<w, c>>
             r == [pc |-> "wait", kind |-> w, on |-> c]
  <1>2. t \in Threads
    BY DEF Threads
  <1>3. r \in Op /\ r.pc = "wait"
    BY DEF Op
  <1>4. op[t].pc \notin Holding
    BY <1>1 DEF Ask, Active, Holding, Ending
  <1>5. op' = [op EXCEPT ![t] = r] /\ UNCHANGED <<entry, slot, conns, creds>>
    BY <1>1 DEF Ask
  <1>6. left' \in 0..MaxMishaps
    BY MishapsAssumption DEF HandlerIInv, TypeOK, WrongNumber, Stalls, Mishap
  <1> HIDE DEF t, r
  <1> QED BY <1>2, <1>3, <1>4, <1>5, <1>6, OpStep

LEMMA CallPreserves ==
  ASSUME HandlerIInv, NEW t \in Calls, NEW kind \in Kinds, Call(t, kind)
  PROVE  HandlerIInv'
  <1> DEFINE r == [pc |-> "wait", kind |-> kind, on |-> None]
  <1>1. t \in Threads
    BY DEF Threads
  <1>2. r \in Op /\ r.pc = "wait"
    BY KindsAssumption DEF Op
  <1>3. op[t].pc \notin Holding
    BY DEF Call, Unborn, Holding, Ending
  <1>4. op' = [op EXCEPT ![t] = r] /\ UNCHANGED <<entry, slot, conns, creds>>
    BY DEF Call
  <1>5. left' \in 0..MaxMishaps
    BY DEF HandlerIInv, TypeOK, Call
  <1> HIDE DEF r
  <1> QED BY <1>1, <1>2, <1>3, <1>4, <1>5, OpStep

\* A thread that returns without having held the slot.
LEMMA ReturnPreserves ==
  ASSUME HandlerIInv, NEW t \in Threads, Return(t), op[t].pc \notin Holding,
         UNCHANGED <<entry, slot, conns, creds, left>>
  PROVE  HandlerIInv'
  <1>1. Resting(t).pc \in {"idle", "done"}
    BY DEF Resting, Idle
  <1>2. left' \in 0..MaxMishaps
    BY DEF HandlerIInv, TypeOK
  <1>3. op' = [op EXCEPT ![t] = Resting(t)]
    BY DEF Return
  <1> QED BY <1>1, <1>2, <1>3, OpStep

\* With the slot free nothing is past it: no connection is spawning or ending, and
\* a live socket is the registered connection's and not discarded.
LEMMA SlotFree ==
  ASSUME HandlerIInv, slot = None
  PROVE  /\ \A t \in Threads : ~Doing(t, Holding) /\ ~Doing(t, Ending)
         /\ \A t \in Threads, c \in Conns : ~Spawns(t, c)
         /\ \A c \in Conns : conns[c].sock = "live" => entry = c /\ ~conns[c].discarded
         /\ \A c \in Conns : ~conns[c].discarded /\ (conns[c].sock # "none" \/ conns[c].busy # "no")
                               => entry = c
  <1> USE DEF HandlerIInv
  <1>1. \A t \in Threads : ~Doing(t, Holding)
    BY NoneApart DEF SlotHeld
  <1>2. \A t \in Threads : ~Doing(t, Ending) /\ op[t].pc # "rpc"
    BY <1>1 DEF Doing, Holding, Ending
  <1>3. \A t \in Threads, c \in Conns : ~Spawns(t, c)
    BY <1>1 DEF Doing, Holding, Spawns
  <1>4. \A c \in Conns : conns[c].sock = "live" => ~conns[c].discarded
    BY <1>2 DEF LogoutLeaves
  <1>5. \A c \in Conns : ~conns[c].discarded /\ (conns[c].sock # "none" \/ conns[c].busy # "no")
                           => entry = c
    BY DEF Registered
  <1> QED BY <1>1, <1>2, <1>3, <1>4, <1>5

LEMMA SpawnPreserves ==
  ASSUME HandlerIInv, NEW t \in Threads, Spawn(t), op[t] \in Op, slot = None,
         ~Doing(t, Holding), UNCHANGED <<creds, left>>
  PROVE  HandlerIInv'
  <1> USE DEF HandlerIInv
  <1> DEFINE free == {k \in Conns : Garbage(k)}
             c == Min(free)
             r == [op[t] EXCEPT !.pc = "spawning", !.on = c]
  <1>1. c \in Conns /\ Garbage(c)
    <2>1. free # {} /\ free \in SUBSET Nat
      BY ConnsAssumption DEF Spawn
    <2>2. c \in free
      BY <2>1, MinIsMember
    <2> QED BY <2>2
  <1>2. /\ conns' = [EntryDiscarded EXCEPT ![c] = New]
        /\ entry' = c /\ slot' = t
        /\ op' = [op EXCEPT ![t].pc = "spawning", ![t].on = c]
    BY DEF Spawn
  <1> HIDE DEF free, c
  <1>3. r \in Op /\ r.pc = "spawning" /\ r.on = c
    BY <1>1 DEF Op
  <1>4. op' = [op EXCEPT ![t] = r]
    BY <1>2 DEF OpTypeOK
  <1> HIDE DEF r
  <1>5. /\ op'[t] = r /\ \A u \in Threads \ {t} : op'[u] = op[u]
        /\ OpTypeOK'
        /\ \A u \in Threads : IF Active(u)' THEN op'[u] \in Op ELSE op'[u] \in {Unborn, Resting(u)}
    BY <1>3, <1>4, OpChanges
  <1>6. New \in Connection
    BY DEF New, Connection
  <1>7. c # entry
    BY <1>1 DEF Garbage
  <1>8. /\ conns' \in [Conns -> Connection] /\ conns'[c] = New
        /\ \A d \in Conns \ {c, entry} : conns'[d] = conns[d]
        /\ entry \in Conns => conns'[entry] = Discarded(conns[entry])
    BY <1>1, <1>2, <1>6, <1>7, EntryDiscardedFacts
  <1>9. /\ \A u \in Threads : Doing(u, Holding)' <=> u = t
        /\ \A u \in Threads : ~Doing(u, Ending)' /\ op'[u].pc # "rpc"
        /\ \A u \in Threads, d \in Conns : Spawns(u, d)' => u = t /\ d = c
    BY <1>3, <1>5, SlotFree DEF Doing, Holding, Ending, Spawns
  <1>10. TypeOK'
    <2>1. Active(t)'
      BY <1>3, <1>5 DEF Active
    <2> QED BY <1>1, <1>2, <1>5, <1>8, <2>1 DEF TypeOK, Connection
  <1>11. SlotHeld'
    BY <1>2, <1>9 DEF SlotHeld
  <1>12. OpsAbout'
    BY <1>1, <1>3, <1>5, <1>9 DEF OpsAbout, Doing, Holding, Ending
  <1>13. SpawnsFresh'
    BY <1>8, <1>9 DEF SpawnsFresh, New
  <1>14. EndsOwn'
    BY <1>9 DEF EndsOwn
  <1>15. \A d \in Conns \ {c} : conns'[d].sock # "live" /\
           (conns'[d].discarded \/ (conns'[d].sock = "none" /\ conns'[d].busy = "no"))
    <2> SUFFICES ASSUME NEW d \in Conns, d # c
                 PROVE  conns'[d].sock # "live" /\
                   (conns'[d].discarded \/ (conns'[d].sock = "none" /\ conns'[d].busy = "no"))
      OBVIOUS
    <2>1. conns[d] \in Connection
      BY ConnsTyped
    <2>2. CASE d = entry
      BY <1>8, <2>1, <2>2, SlotFree, DiscardedFacts
    <2>3. CASE d # entry
      BY <1>8, <2>3, SlotFree
    <2> QED BY <2>2, <2>3
  <1>16. Registered'
    BY <1>2, <1>9, <1>15 DEF Registered
  <1>17. LogoutLeaves'
    BY <1>8, <1>15 DEF LogoutLeaves, New
  <1>18. HandlersQuiet'
    <2> SUFFICES ASSUME NEW d \in Conns
                 PROVE  /\ conns'[d].sock = "live" => conns'[d].busy = "no"
                        /\ conns'[d].busy \in {"clearing", "failing"} => conns'[d].discarded
      BY DEF HandlersQuiet
    <2>1. CASE d = c
      BY <1>8, <2>1 DEF New
    <2>2. CASE d # c
      BY <1>15, <2>2
    <2> QED BY <2>1, <2>2
  <1> QED BY <1>5, <1>10, <1>11, <1>12, <1>13, <1>14, <1>16, <1>17, <1>18

LEMMA ConnectPreserves ==
  ASSUME HandlerIInv, NEW t \in Threads, Connect(t)
  PROVE  HandlerIInv'
  <1>1. slot = None /\ op[t].pc = "wait" /\ UNCHANGED <<creds, left>>
    BY DEF Connect, Waiting
  <1>2. op[t] \in Op /\ op[t].pc \notin Holding /\ ~Doing(t, Holding)
    BY <1>1, Working DEF HandlerIInv, Holding, Ending, Doing
  <1>3. CASE Spawn(t)
    BY <1>1, <1>2, <1>3, SpawnPreserves
  <1>4. CASE Return(t) /\ UNCHANGED <<entry, slot, conns>>
    BY <1>1, <1>2, <1>4, ReturnPreserves
  <1>5. CASE /\ entry # None
             /\ op' = [op EXCEPT ![t].pc = "persist", ![t].on = entry]
             /\ UNCHANGED <<entry, slot, conns>>
    <2> DEFINE r == [op[t] EXCEPT !.pc = "persist", !.on = entry]
    <2>1. entry \in Conns /\ left' \in 0..MaxMishaps
      BY <1>1, <1>5 DEF HandlerIInv, TypeOK
    <2>2. r \in Op /\ r.pc = "persist" /\ r.on \in Conns
      BY <1>2, <2>1 DEF Op
    <2>3. op' = [op EXCEPT ![t] = r]
      BY <1>5 DEF HandlerIInv, OpTypeOK
    <2> HIDE DEF r
    <2> QED BY <1>1, <1>2, <1>5, <2>1, <2>2, <2>3, OpStep
  <1> QED BY <1>3, <1>4, <1>5 DEF Connect

\* The registered connection is evicted by a thread that does not hold the slot.
LEMMA EvictStep ==
  ASSUME HandlerIInv, NEW t \in Threads, op[t].pc \notin Holding,
         NEW r \in Op \cup {Resting(t)}, op' = [op EXCEPT ![t] = r],
         r.pc \in {"idle", "done", "wait"},
         entry \in Conns => conns[entry].sock # "live" \/ ~conns[entry].discarded,
         conns' = EntryDiscarded, entry' = None, UNCHANGED <<slot, creds, left>>
  PROVE  HandlerIInv'
  <1> USE DEF HandlerIInv
  <1>1. /\ op'[t] = r /\ \A u \in Threads \ {t} : op'[u] = op[u]
        /\ OpTypeOK'
        /\ \A u \in Threads : IF Active(u)' THEN op'[u] \in Op ELSE op'[u] \in {Unborn, Resting(u)}
    BY OpChanges
  <1>2. ~Doing(t, Holding)' /\ ~Doing(t, Ending)' /\ ~Doing(t, Holding)
        /\ \A c \in Conns : ~Spawns(t, c)'
    BY <1>1 DEF Doing, Holding, Ending, Spawns
  <1>3. \A u \in Threads \ {t} :
          /\ Doing(u, Holding)' = Doing(u, Holding) /\ Doing(u, Ending)' = Doing(u, Ending)
          /\ \A c \in Conns : Spawns(u, c)' = Spawns(u, c)
    BY <1>1 DEF Doing, Spawns
  <1>4. /\ conns' \in [Conns -> Connection]
        /\ \A c \in Conns : c # entry => conns'[c] = conns[c]
        /\ \A c \in Conns :
             /\ conns[c].discarded \/ c = entry => conns'[c].discarded
             /\ conns[c].sock = "none" => conns'[c].sock = "none"
             /\ conns'[c].busy = conns[c].busy
             /\ c = entry => conns'[c].sock # "live"
    <2>1. /\ conns' \in [Conns -> Connection]
          /\ \A c \in Conns : c # entry => conns'[c] = conns[c]
          /\ entry \in Conns => conns'[entry] = Discarded(conns[entry])
      BY EntryDiscardedFacts
    <2>2. \A c \in Conns : conns[c] \in Connection
      BY ConnsTyped
    <2> QED BY <2>1, <2>2, DiscardedFacts
  <1>5. TypeOK'
    <2>1. slot # None => Active(slot)'
      BY <1>1, <1>2 DEF TypeOK, Active, SlotHeld
    <2> QED BY <1>1, <1>4, <2>1 DEF TypeOK, Connection
  <1>6. SlotHeld'
    BY <1>2, <1>3 DEF SlotHeld, TypeOK
  <1>7. OpsAbout'
    BY <1>1 DEF OpsAbout, Doing, Holding, Ending
  <1>8. SpawnsFresh'
    BY <1>2, <1>3, <1>4 DEF SpawnsFresh
  <1>9. EndsOwn'
    <2> SUFFICES ASSUME NEW u \in Threads, Doing(u, Ending)'
                 PROVE  conns'[op'[u].on].discarded
      BY DEF EndsOwn
    <2>1. u # t /\ op'[u] = op[u] /\ Doing(u, Ending)
      BY <1>1, <1>2, <1>3
    <2>2. op[u].on \in Conns
      BY <2>1 DEF OpsAbout, Doing, Holding
    <2> QED BY <1>4, <2>1, <2>2 DEF EndsOwn
  <1>10. Registered'
    <2> SUFFICES ASSUME NEW c \in Conns, ~conns'[c].discarded,
                        conns'[c].sock # "none" \/ conns'[c].busy # "no"
                          \/ \E u \in Threads : Spawns(u, c)'
                 PROVE  FALSE
      BY DEF Registered
    <2>1. c # entry /\ conns'[c] = conns[c]
      BY <1>4
    <2>2. (\E u \in Threads : Spawns(u, c)') => \E u \in Threads : Spawns(u, c)
      BY <1>2, <1>3
    <2> QED BY <2>1, <2>2 DEF Registered
  <1>11. LogoutLeaves'
    <2> SUFFICES ASSUME NEW c \in Conns, conns'[c].sock = "live", conns'[c].discarded
                 PROVE  FALSE
      BY DEF LogoutLeaves
    <2> QED BY <1>4 DEF LogoutLeaves
  <1>12. HandlersQuiet'
    <2> SUFFICES ASSUME NEW c \in Conns
                 PROVE  /\ conns'[c].sock = "live" => conns'[c].busy = "no"
                        /\ conns'[c].busy \in {"clearing", "failing"} => conns'[c].discarded
      BY DEF HandlersQuiet
    <2> QED BY <1>4 DEF HandlersQuiet
  <1> QED BY <1>1, <1>5, <1>6, <1>7, <1>8, <1>9, <1>10, <1>11, <1>12

\* The thread that holds the slot gives it back; what it leaves of its connection
\* is registered, or no longer serves.
LEMMA ReleaseStep ==
  ASSUME HandlerIInv, NEW t \in Threads, Doing(t, Holding), Return(t), slot' = None,
         creds' \in BOOLEAN, left' \in 0..MaxMishaps,
         NEW c \in Conns, c = op[t].on,
         NEW conn \in Connection, conns' = [conns EXCEPT ![c] = conn],
         entry' = entry \/ (entry' = None /\ entry \in {c, None}),
         conn.discarded => conn.sock # "live",
         ~conn.discarded => (conn.sock = "none" /\ conn.busy = "no") \/ entry' = c,
         conn.sock = "live" => conn.busy = "no",
         conn.busy \in {"clearing", "failing"} => conn.discarded
  PROVE  HandlerIInv'
  <1> USE DEF HandlerIInv
  <1>1. op' = [op EXCEPT ![t] = Resting(t)] /\ Resting(t).pc \in {"idle", "done"}
    BY DEF Return, Resting, Idle
  <1>2. /\ op'[t] = Resting(t) /\ \A u \in Threads \ {t} : op'[u] = op[u]
        /\ OpTypeOK'
        /\ \A u \in Threads : IF Active(u)' THEN op'[u] \in Op ELSE op'[u] \in {Unborn, Resting(u)}
    BY <1>1, OpChanges
  <1>3. \A u \in Threads \ {t} : ~Doing(u, Holding)
    BY DEF SlotHeld
  <1>4. \A u \in Threads : ~Doing(u, Holding)'
    BY <1>1, <1>2, <1>3 DEF Doing, Holding, Ending
  <1>5. \A u \in Threads : /\ ~Doing(u, Ending)' /\ \A d \in Conns : ~Spawns(u, d)'
                           /\ op'[u].pc # "rpc"
    BY <1>4 DEF Doing, Holding, Ending, Spawns
  <1>6. conns' \in [Conns -> Connection] /\ conns'[c] = conn
        /\ \A d \in Conns \ {c} : conns'[d] = conns[d]
    BY ConnsTyped
  <1>7. \A d \in Conns \ {c} : ~(conns[d].sock = "live" /\ conns[d].discarded)
    BY <1>3 DEF LogoutLeaves, Doing, Holding, Ending
  <1>8. TypeOK'
    BY <1>2, <1>6 DEF TypeOK, Connection
  <1>9. SlotHeld' /\ SpawnsFresh' /\ EndsOwn'
    BY <1>4, <1>5 DEF SlotHeld, SpawnsFresh, EndsOwn
  <1>10. OpsAbout'
    <2>1. op'[t].pc \notin {"persist", "others"}
      BY <1>1, <1>2
    <2> QED BY <1>2, <1>4, <1>5, <2>1 DEF OpsAbout, Doing
  <1>11. Registered'
    <2> SUFFICES ASSUME NEW d \in Conns, ~conns'[d].discarded,
                        conns'[d].sock # "none" \/ conns'[d].busy # "no"
                 PROVE  entry' = d
      BY <1>5 DEF Registered
    <2>1. CASE d = c
      BY <1>6, <2>1
    <2>2. CASE d # c
      <3>1. entry = d
        BY <1>6, <2>2 DEF Registered
      <3> QED BY <2>2, <3>1, NoneApart
    <2> QED BY <2>1, <2>2
  <1>12. LogoutLeaves'
    BY <1>6, <1>7 DEF LogoutLeaves
  <1>13. HandlersQuiet'
    BY <1>6 DEF HandlersQuiet
  <1> QED BY <1>2, <1>8, <1>9, <1>10, <1>11, <1>12, <1>13

\* What the holder of the slot knows of its connection.
LEMMA HolderKnows ==
  ASSUME HandlerIInv, NEW t \in Threads, Doing(t, Holding)
  PROVE  /\ op[t].on \in Conns /\ op[t] \in Op
         /\ conns[op[t].on] \in Connection
         /\ op[t].pc = "spawning" => /\ conns[op[t].on].sock = "none"
                                     /\ conns[op[t].on].busy = "no"
                                     /\ ~conns[op[t].on].discarded => entry = op[t].on
         /\ op[t].pc # "spawning" => /\ conns[op[t].on].discarded
                                     /\ entry \in {op[t].on, None}
                                     /\ op[t].kind # "logoutAll"
         /\ op[t].pc # "rpc" => ~(conns[op[t].on].sock = "live" /\ conns[op[t].on].discarded)
  <1> USE DEF HandlerIInv
  <1>1. op[t].on \in Conns /\ conns[op[t].on] \in Connection
    BY ConnsTyped DEF OpsAbout, Doing
  <1>2. op[t] \in Op
    BY Working DEF Doing, Holding, Ending
  <1>3. op[t].pc = "spawning" =>
          /\ conns[op[t].on].sock = "none" /\ conns[op[t].on].busy = "no"
          /\ ~conns[op[t].on].discarded => entry = op[t].on
    BY <1>1 DEF SpawnsFresh, Registered, Spawns
  <1>4. op[t].pc # "spawning" => Doing(t, Ending)
    BY DEF Doing, Holding
  <1>5. \A u \in Threads : op[u].pc = "rpc" => u = t
    BY DEF SlotHeld, Doing, Holding, Ending
  <1>6. op[t].pc # "rpc" => ~(conns[op[t].on].sock = "live" /\ conns[op[t].on].discarded)
    BY <1>1, <1>5 DEF LogoutLeaves
  <1> QED BY <1>1, <1>2, <1>3, <1>4, <1>6 DEF EndsOwn, OpsAbout

LEMMA SpawnedPreserves ==
  ASSUME HandlerIInv, NEW t \in Threads, Spawned(t) \/ SpawnFails(t)
  PROVE  HandlerIInv'
  <1> DEFINE c == op[t].on
  <1>1. op[t].pc = "spawning" /\ Doing(t, Holding)
    BY DEF Spawned, SpawnFails, At, Doing, Holding
  <1>2. /\ c \in Conns /\ conns[c] \in Connection
        /\ conns[c].sock = "none" /\ conns[c].busy = "no"
        /\ ~conns[c].discarded => entry = c
    BY <1>1, HolderKnows
  <1>3. conns \in [Conns -> Connection]
    BY ConnsTyped DEF HandlerIInv
  <1>4. creds \in BOOLEAN /\ left \in 0..MaxMishaps /\ MaxMishaps \in Nat
    BY MishapsAssumption DEF HandlerIInv, TypeOK
  <1> HIDE DEF c
  <1>5. CASE Spawned(t)
    <2> DEFINE new == IF conns[c].discarded THEN conns[c] ELSE [conns[c] EXCEPT !.sock = "live"]
    <2>1. new \in Connection /\ new.discarded = conns[c].discarded /\ new.busy = "no"
          /\ (conns[c].discarded => new.sock = "none")
      BY <1>2 DEF Connection
    <2>2. conns' = [conns EXCEPT ![c] = new]
      BY <1>3, <1>5 DEF Spawned, c
    <2>3. Return(t) /\ slot' = None /\ creds' \in BOOLEAN /\ UNCHANGED <<entry, left>>
      BY <1>5 DEF Spawned
    <2> HIDE DEF new
    <2> QED BY <1>1, <1>2, <1>4, <2>1, <2>2, <2>3, ReleaseStep DEF c
  <1>6. CASE SpawnFails(t)
    <2>1. Discarded(conns[c]) \in Connection /\ Discarded(conns[c]).discarded
          /\ Discarded(conns[c]).sock = "none" /\ Discarded(conns[c]).busy = "no"
      BY <1>2, DiscardedFacts
    <2>2. conns' = [conns EXCEPT ![c] = Discarded(conns[c])] /\ Unregister(c)
      BY <1>3, <1>6 DEF SpawnFails, c
    <2>3. entry' = entry \/ (entry' = None /\ entry \in {c, None})
      BY <2>2 DEF Unregister
    <2>4. Return(t) /\ slot' = None /\ UNCHANGED creds /\ left' \in 0..MaxMishaps
      BY <1>4, <1>6 DEF SpawnFails, Mishap
    <2> QED BY <1>1, <1>2, <1>4, <2>1, <2>2, <2>3, <2>4, ReleaseStep DEF c
  <1> QED BY <1>5, <1>6

LEMMA EvictingPreserves ==
  ASSUME HandlerIInv, NEW t \in Threads, Persisted(t) \/ Discard(t)
  PROVE  HandlerIInv'
  <1>1. op[t].pc \in {"persist", "wait"} /\ op[t].pc \notin Holding
    BY DEF Persisted, Discard, At, Waiting, Holding, Ending
  <1>2. op[t] \in Op /\ UNCHANGED <<slot, creds, left>> /\ left' \in 0..MaxMishaps
    BY <1>1, Working DEF HandlerIInv, TypeOK, Persisted, Discard
  <1>3. Resting(t).pc \in {"idle", "done"}
    BY DEF Resting, Idle
  <1>4. CASE Discard(t)
    <2>1. entry \in Conns => conns[entry].sock # "live" \/ ~conns[entry].discarded
      BY <1>4, SlotFree DEF Discard, Waiting
    <2>2. conns' = EntryDiscarded /\ entry' = None /\ op' = [op EXCEPT ![t] = Resting(t)]
      BY <1>4 DEF Discard, Return
    <2> QED BY <1>1, <1>2, <1>3, <2>1, <2>2, EvictStep
  <1>5. CASE Persisted(t) /\ Return(t) /\ UNCHANGED <<entry, conns>>
    BY <1>1, <1>2, <1>5, ReturnPreserves
  <1>6. CASE Persisted(t) /\ ~(Return(t) /\ UNCHANGED <<entry, conns>>)
    <2> DEFINE r == [op[t] EXCEPT !.pc = "wait", !.on = None]
    <2>1. r \in Op /\ r.pc = "wait"
      BY <1>2 DEF Op
    <2>2. op' = [op EXCEPT ![t] = r]
      BY <1>6 DEF Persisted, HandlerIInv, OpTypeOK
    <2>3. op[t].on \in Conns /\ conns[op[t].on].sock = "none"
          /\ conns' = (IF entry = op[t].on THEN EntryDiscarded ELSE conns)
          /\ Unregister(op[t].on)
      BY <1>6 DEF Persisted, At, HandlerIInv, OpsAbout, Doing
    <2> HIDE DEF r
    <2>4. CASE entry = op[t].on
      <3>1. conns' = EntryDiscarded /\ entry' = None /\ conns[entry].sock # "live"
        BY <2>3, <2>4 DEF Unregister
      <3> QED BY <1>1, <1>2, <2>1, <2>2, <3>1, EvictStep
    <2>5. CASE entry # op[t].on
      <3>1. UNCHANGED <<entry, conns>>
        BY <2>3, <2>5 DEF Unregister
      <3> QED BY <1>1, <1>2, <2>1, <2>2, <3>1, OpStep
    <2> QED BY <2>4, <2>5
  <1> QED BY <1>4, <1>5, <1>6

\* From the slot being free to its being held by the logout of what is registered.
LEMMA LogoutPreserves ==
  ASSUME HandlerIInv, NEW t \in Threads, Logout(t)
  PROVE  HandlerIInv'
  <1> USE DEF HandlerIInv
  <1>1. /\ slot = None /\ op[t].pc = "wait" /\ op[t].kind \in {"logout", "wrong"}
        /\ UNCHANGED <<entry, left, creds>>
    BY DEF Logout, Waiting
  <1>2. op[t] \in Op /\ op[t].pc \notin Holding
    BY <1>1, Working DEF Holding, Ending
  <1>3. CASE Return(t) /\ UNCHANGED <<slot, conns>>
    BY <1>1, <1>2, <1>3, ReturnPreserves
  <1>4. CASE entry # None /\ BeginLogout(t, entry) /\ slot' = t
    <2> DEFINE r == [op[t] EXCEPT !.pc = "rpc", !.on = entry]
               new == [conns[entry] EXCEPT !.discarded = TRUE, !.ended = TRUE]
    <2>1. entry \in Conns /\ conns \in [Conns -> Connection] /\ conns[entry] \in Connection
      BY <1>4, ConnsTyped DEF TypeOK
    <2>2. r \in Op /\ r.pc = "rpc" /\ r.on = entry /\ r.kind # "logoutAll"
      BY <1>1, <1>2, <2>1 DEF Op
    <2>3. new \in Connection /\ new.discarded /\ new.sock = conns[entry].sock
          /\ new.busy = conns[entry].busy
      BY <2>1 DEF Connection
    <2>4. op' = [op EXCEPT ![t] = r]
      BY <1>4 DEF BeginLogout, OpTypeOK
    <2>5. conns' = [conns EXCEPT ![entry] = new]
      BY <1>4, <2>1 DEF BeginLogout
    <2> HIDE DEF r, new
    <2>6. /\ op'[t] = r /\ \A u \in Threads \ {t} : op'[u] = op[u]
          /\ OpTypeOK'
          /\ \A u \in Threads : IF Active(u)' THEN op'[u] \in Op ELSE op'[u] \in {Unborn, Resting(u)}
      BY <2>2, <2>4, OpChanges
    <2>7. conns' \in [Conns -> Connection] /\ conns'[entry] = new
          /\ \A d \in Conns \ {entry} : conns'[d] = conns[d]
      BY <2>1, <2>3, <2>5
    <2>8. /\ \A u \in Threads : Doing(u, Holding)' <=> u = t
          /\ \A u \in Threads : Doing(u, Ending)' => u = t
          /\ \A u \in Threads, d \in Conns : ~Spawns(u, d)'
      BY <1>1, <2>2, <2>6, SlotFree DEF Doing, Holding, Ending, Spawns
    <2>9. TypeOK'
      <3>1. Active(t)'
        BY <2>2, <2>6 DEF Active
      <3> QED BY <1>1, <1>4, <2>6, <2>7, <3>1 DEF TypeOK, Connection
    <2>10. SlotHeld'
      BY <1>4, <2>8 DEF SlotHeld
    <2>11. OpsAbout'
      BY <2>1, <2>2, <2>6, <2>8 DEF OpsAbout, Doing, Holding, Ending
    <2>12. SpawnsFresh'
      BY <2>8 DEF SpawnsFresh
    <2>13. EndsOwn'
      BY <1>1, <2>2, <2>3, <2>6, <2>7, <2>8 DEF EndsOwn
    <2>14. Registered'
      BY <1>1, <2>3, <2>7, <2>8 DEF Registered
    <2>15. LogoutLeaves'
      <3> SUFFICES ASSUME NEW d \in Conns, conns'[d].sock = "live", conns'[d].discarded
                   PROVE  entry' = d /\ \E u \in Threads : op'[u].pc = "rpc" /\ op'[u].on = d
        BY DEF LogoutLeaves
      <3>1. d = entry
        BY <1>1, <2>7, SlotFree
      <3> QED BY <1>1, <2>2, <2>6, <3>1
    <2>16. HandlersQuiet'
      BY <2>3, <2>7 DEF HandlersQuiet
    <2> QED BY <2>6, <2>9, <2>10, <2>11, <2>12, <2>13, <2>14, <2>15, <2>16
  <1> QED BY <1>3, <1>4 DEF Logout

LEMMA RpcDonePreserves ==
  ASSUME HandlerIInv, NEW t \in Threads, RpcDone(t)
  PROVE  HandlerIInv'
  <1> USE DEF HandlerIInv
  <1> DEFINE c == op[t].on
             new == [conns[c] EXCEPT !.sock = IF @ = "live" THEN "dead" ELSE @]
  <1>1. op[t].pc = "rpc" /\ Doing(t, Holding) /\ Doing(t, Ending) /\ UNCHANGED <<entry, slot>>
    BY DEF RpcDone, At, Doing, Holding, Ending
  <1>2. /\ c \in Conns /\ op[t] \in Op /\ conns[c] \in Connection
        /\ conns[c].discarded /\ entry \in {c, None} /\ op[t].kind # "logoutAll"
    BY <1>1, HolderKnows
  <1>3. new \in Connection /\ new.discarded /\ new.sock # "live" /\ new.busy = conns[c].busy
    BY <1>2 DEF Connection
  <1>4. conns' = [conns EXCEPT ![c] = new]
    BY <1>2 DEF RpcDone, TypeOK
  <1>5. creds' \in BOOLEAN /\ left' \in 0..MaxMishaps
    <2>1. left \in 0..MaxMishaps /\ creds \in BOOLEAN /\ MaxMishaps \in Nat
      BY MishapsAssumption DEF TypeOK
    <2>2. \/ creds' = FALSE /\ UNCHANGED left
          \/ UNCHANGED creds /\ left > 0 /\ left' = left - 1
      BY DEF RpcDone, Mishap
    <2>3. creds' \in BOOLEAN
      BY <2>1, <2>2, Zenon
    <2>4. left' \in 0..MaxMishaps
      BY <2>1, <2>2
    <2> QED BY <2>3, <2>4
  <1>6. PICK pc \in {"clearing", "failing"} : Goto(t, pc)
    BY DEF RpcDone
  <1>7. PICK r \in Op : /\ op' = [op EXCEPT ![t] = r]
                        /\ r.pc = pc /\ r.kind = op[t].kind /\ r.on = c
    BY <1>2, <1>6, GotoChanges
  <1> HIDE DEF c, new
  <1>8. /\ op'[t] = r /\ \A u \in Threads \ {t} : op'[u] = op[u]
        /\ OpTypeOK'
        /\ \A u \in Threads : IF Active(u)' THEN op'[u] \in Op ELSE op'[u] \in {Unborn, Resting(u)}
    BY <1>7, OpChanges
  <1>9. conns' \in [Conns -> Connection] /\ conns'[c] = new
        /\ \A d \in Conns \ {c} : conns'[d] = conns[d]
    BY <1>2, <1>3, <1>4, ConnsTyped
  <1>10. \A u \in Threads \ {t} : ~Doing(u, Holding)
    BY <1>1 DEF SlotHeld
  <1>11. /\ \A u \in Threads : Doing(u, Holding)' <=> u = t
         /\ \A u \in Threads : Doing(u, Ending)' => u = t
         /\ \A u \in Threads, d \in Conns : ~Spawns(u, d)'
    BY <1>6, <1>7, <1>8, <1>10 DEF Doing, Holding, Ending, Spawns
  <1>12. slot = t
    BY <1>1 DEF SlotHeld
  <1>13. TypeOK'
    <2>1. Active(t)'
      BY <1>6, <1>7, <1>8 DEF Active
    <2> QED BY <1>1, <1>5, <1>8, <1>9, <1>12, <2>1 DEF TypeOK, Connection
  <1>14. SlotHeld'
    BY <1>1, <1>11, <1>12 DEF SlotHeld
  <1>15. OpsAbout'
    <2> SUFFICES ASSUME NEW u \in Threads
                 PROVE  /\ Doing(u, Holding \cup {"persist"})' => op'[u].on \in Conns
                        /\ Doing(u, Ending)' => op'[u].kind # "logoutAll"
                        /\ op'[u].pc # "others"
      BY DEF OpsAbout
    <2>1. CASE u = t
      BY <1>2, <1>6, <1>7, <1>8, <2>1
    <2>2. CASE u # t
      BY <1>8, <2>2 DEF OpsAbout, Doing
    <2> QED BY <2>1, <2>2
  <1>16. SpawnsFresh'
    BY <1>11 DEF SpawnsFresh
  <1>17. EndsOwn'
    BY <1>1, <1>2, <1>3, <1>7, <1>8, <1>9, <1>11 DEF EndsOwn
  <1>18. Registered'
    BY <1>1, <1>3, <1>9, <1>11 DEF Registered
  <1>19. LogoutLeaves'
    <2> SUFFICES ASSUME NEW d \in Conns, conns'[d].sock = "live", conns'[d].discarded
                 PROVE  FALSE
      BY DEF LogoutLeaves
    <2>1. d # c /\ conns[d].sock = "live" /\ conns[d].discarded
      BY <1>3, <1>9
    <2>2. PICK u \in Threads : op[u].pc = "rpc" /\ op[u].on = d
      BY <2>1 DEF LogoutLeaves
    <2> QED BY <1>10, <2>1, <2>2 DEF Doing, Holding, Ending, c
  <1>20. HandlersQuiet'
    BY <1>3, <1>9 DEF HandlersQuiet
  <1> QED BY <1>8, <1>13, <1>14, <1>15, <1>16, <1>17, <1>18, <1>19, <1>20

LEMMA EndedPreserves ==
  ASSUME HandlerIInv, NEW t \in Threads, Cleared(t) \/ NotCleared(t)
  PROVE  HandlerIInv'
  <1> DEFINE c == op[t].on
  <1>1. op[t].pc \in {"clearing", "failing"} /\ Doing(t, Holding)
    BY DEF Cleared, NotCleared, At, Doing, Holding, Ending
  <1>2. /\ c \in Conns /\ conns[c] \in Connection /\ conns[c].discarded
        /\ entry \in {c, None} /\ op[t].kind # "logoutAll" /\ conns[c].sock # "live"
    BY <1>1, HolderKnows
  <1>3. conns \in [Conns -> Connection]
    BY ConnsTyped DEF HandlerIInv
  <1>4. creds' \in BOOLEAN /\ left' \in 0..MaxMishaps
    BY DEF HandlerIInv, TypeOK, Cleared, NotCleared
  <1>5. Return(t) /\ slot' = None
    BY <1>2 DEF Cleared, NotCleared
  <1> HIDE DEF c
  <1>6. CASE Cleared(t)
    <2> DEFINE new == [conns[c] EXCEPT !.sock = "none"]
    <2>1. new \in Connection /\ new.sock = "none" /\ new.discarded
      BY <1>2 DEF Connection
    <2>2. conns' = [conns EXCEPT ![c] = new] /\ entry' = None
      BY <1>2, <1>3, <1>6 DEF Cleared, c
    <2> HIDE DEF new
    <2> QED BY <1>1, <1>2, <1>4, <1>5, <2>1, <2>2, ReleaseStep DEF c
  <1>7. CASE NotCleared(t)
    <2>1. conns' = [conns EXCEPT ![c] = conns[c]] /\ UNCHANGED entry
      BY <1>3, <1>7 DEF NotCleared
    <2> QED BY <1>1, <1>2, <1>4, <1>5, <2>1, ReleaseStep DEF c
  <1> QED BY <1>6, <1>7

-----------------------------------------------------------------------------

LEMMA NextHandlerIInv == HandlerIInv /\ [Next]_vars => HandlerIInv'
  <1> SUFFICES ASSUME HandlerIInv, [Next]_vars PROVE HandlerIInv'
    OBVIOUS
  <1>1. CASE UNCHANGED vars
    BY <1>1 DEF vars, HandlerIInv, TypeOK, OpTypeOK, SlotHeld, OpsAbout, SpawnsFresh, EndsOwn,
       Registered, LogoutLeaves, HandlersQuiet, Doing, Spawns, Active
  <1>2. ASSUME NEW t \in Threads, Step(t)
        PROVE  HandlerIInv'
    BY <1>2, ConnectPreserves, SpawnedPreserves, EvictingPreserves, LogoutPreserves,
       RpcDonePreserves, EndedPreserves
    DEF Step
  <1>3. ASSUME NEW c \in Conns, Handle(c)
        PROVE  HandlerIInv'
    BY <1>3, HandlersPreserve DEF Handle
  <1>4. CASE Environment
    <2>1. ASSUME NEW t \in Calls, NEW kind \in Kinds, Call(t, kind)
          PROVE  HandlerIInv'
      BY <2>1, CallPreserves
    <2>2. ASSUME NEW t \in Threads, SpawnFails(t)
          PROVE  HandlerIInv'
      BY <2>2, SpawnedPreserves
    <2>3. ASSUME NEW c \in Conns, \/ Drops(c) \/ RedialFails(c) \/ LoggedOut(c) \/ WrongNumber(c)
                                  \/ Stalls(c) \/ Yields(c)
          PROVE  HandlerIInv'
      BY <2>3, HandlersPreserve, AskPreserves
    <2> QED BY <1>4, <2>1, <2>2, <2>3 DEF Environment
  <1> QED BY <1>1, <1>2, <1>3, <1>4 DEF Next

LEMMA HandlerIInvImplies == HandlerIInv => TypeOK /\ NoOrphan /\ OneSocket
  <1> SUFFICES ASSUME HandlerIInv PROVE TypeOK /\ NoOrphan /\ OneSocket
    OBVIOUS
  <1>1. NoOrphan
    BY DEF HandlerIInv, NoOrphan, Live, Registered, LogoutLeaves
  <1>2. OneSocket
    BY <1>1 DEF NoOrphan, OneSocket
  <1> QED BY <1>1, <1>2 DEF HandlerIInv

\* The inductive invariant holds of every behaviour without bulk logouts: who holds
\* the slot, and which connection may open a socket.
THEOREM HandlerInvariant == Spec => []HandlerIInv
  <1> QED BY InitHandlerIInv, NextHandlerIInv, PTL DEF Spec

\* Types of the registry, the slot, the connections and the operations under way.
THEOREM HandlerTypeCorrect == Spec => []TypeOK
  <1> QED BY HandlerInvariant, HandlerIInvImplies, PTL

\* However many calls, restarts and reconnects overlap, a live socket belongs to the
\* registered connection.
THEOREM NothingOrphaned == Spec => []NoOrphan
  <1> QED BY HandlerInvariant, HandlerIInvImplies, PTL

\* However many connections there have been, at most one has a live socket.
THEOREM OneSocketOnly == Spec => []OneSocket
  <1> QED BY HandlerInvariant, HandlerIInvImplies, PTL
================================================================================
