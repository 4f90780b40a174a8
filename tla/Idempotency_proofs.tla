-------------------------- MODULE Idempotency_proofs --------------------------
(***************************************************************************)
(* Theorems about Idempotency for any attempts, workers and disturbances.  *)
(***************************************************************************)
EXTENDS Idempotency, FiniteSetTheorems, TLAPS

\* An attempt that is being served is served by a worker that runs.
Served ==
  \A a \in Attempts :
    /\ pc[a] # "unborn" => at[a] \in Workers
    /\ pc[a] \notin {"unborn", "gone"} => up[at[a]]

\* Only a processing value is looked into and stolen.
Suspected == \A a \in Attempts : pc[a] \in {"holder", "steal"} => Is(raw[a], "processing")

\* Nothing is sent before the key was asked for, and a send known not to have
\* happened has not.
Phases ==
  \A a \in Attempts :
    /\ pc[a] \in {"unborn", "inspect", "reacquire", "holder", "steal"} => send[a] = "none"
    /\ pc[a] = "work" => send[a] = "wire"
    /\ known[a] => send[a] = "failed"
    /\ pc[a] = "clear" => known[a]

IInv ==
  /\ TypeOK
  /\ Served
  /\ Suspected
  /\ Phases
  /\ HolderKeepsLock

-----------------------------------------------------------------------------

LEMMA InitIInv == Init => IInv
  BY BoundsAssumption
  DEF Init, IInv, TypeOK, Values, Pcs, Answers, AllGaps, Served, Suspected, Phases,
      HolderKeepsLock, Running

\* A value a worker or an attempt writes is one the key may have.
LEMMA WrittenValues ==
  ASSUME TypeOK
  PROVE  /\ \A w \in Workers : Processing(w) \in Values
         /\ \A a \in Attempts : Indeterminate(a) \in Values /\ Result(a) \in Values
  BY DEF TypeOK, Values, Processing, Indeterminate, Result

LEMMA TypeStep == TypeOK /\ Served /\ [Next]_vars => TypeOK'
  <1> SUFFICES ASSUME TypeOK, Served, [Next]_vars PROVE TypeOK'
    OBVIOUS
  <1> USE DEF TypeOK, process, attempt
  <1>1. ASSUME NEW a \in Attempts, NEW w \in Workers, Acquire(a, w) PROVE TypeOK'
    <2>1. CASE cell = Free
      <3>1. Work(a, TRUE) /\ cell' = Processing(w) /\ UNCHANGED answer
        BY <1>1, <2>1 DEF Acquire
      <3>2. /\ held' \in [Attempts -> BOOLEAN] /\ pc' \in [Attempts -> Pcs]
            /\ send' \in [Attempts -> {"none", "wire", "parked", "sent", "failed"}]
        BY <3>1 DEF Work, Goto, Pcs
      <3>3. at' \in [Attempts -> Workers \cup {None}]
        BY <1>1 DEF Acquire, Acquiring
      <3> QED BY <1>1, <3>1, <3>2, <3>3, WrittenValues DEF Acquire
    <2>2. CASE cell # Free
      BY <1>1, <2>2 DEF Acquire, Acquiring, Goto, Refuse, Decide, Pcs, Answers
    <2> QED BY <2>1, <2>2
  <1>2. ASSUME NEW a \in Attempts, NEW w \in Workers, AcquireFails(a, w) PROVE TypeOK'
    BY <1>2, WrittenValues
    DEF AcquireFails, FailedOpen, Acquiring, Work, Goto, Disturb, Pcs, AllGaps
  <1>3. ASSUME NEW a \in Attempts, Inspect(a) PROVE TypeOK'
    <2>1. pc' \in [Attempts -> Pcs]
      BY <1>3 DEF Inspect, Goto, Refuse, Pcs
    <2>2. answer' \in [Attempts -> Answers \cup {None}]
      <3>1. CASE cell = Free \/ Suspect(a)
        BY <1>3, <3>1 DEF Inspect
      <3>2. CASE cell # Free /\ ~Suspect(a)
        BY <1>3, <3>2 DEF Inspect, Refuse, Decide, Answers, Values
      <3> QED BY <3>1, <3>2
    <2>3. raw' \in [Attempts -> Values]
      BY <1>3 DEF Inspect
    <2> QED BY <1>3, <2>1, <2>2, <2>3 DEF Inspect
  <1>4. ASSUME NEW a \in Attempts, CheckHolder(a) PROVE TypeOK'
    BY <1>4 DEF CheckHolder, Goto, Refuse, Decide, Pcs, Answers, Values
  <1>5. ASSUME NEW a \in Attempts, Steal(a) PROVE TypeOK'
    <2>1. at[a] \in Workers /\ raw' \in [Attempts -> Values]
      BY <1>5 DEF Steal, Served, Values
    <2>2. CASE cell = raw[a]
      <3>1. Work(a, TRUE) /\ cell' = Processing(at[a]) /\ UNCHANGED answer
        BY <1>5, <2>2 DEF Steal
      <3>2. /\ held' \in [Attempts -> BOOLEAN] /\ pc' \in [Attempts -> Pcs]
            /\ send' \in [Attempts -> {"none", "wire", "parked", "sent", "failed"}]
        BY <3>1 DEF Work, Goto, Pcs
      <3>3. gaps' \subseteq AllGaps
        BY <1>5, <2>2 DEF Steal, StealGaps, AllGaps
      <3> QED BY <1>5, <2>1, <3>1, <3>2, <3>3, WrittenValues DEF Steal
    <2>3. CASE cell # raw[a]
      BY <1>5, <2>1, <2>3 DEF Steal, Goto, Refuse, Decide, Pcs, Answers
    <2> QED BY <2>2, <2>3
  <1>6. ASSUME NEW a \in Attempts, LookupFails(a) PROVE TypeOK'
    <2>1. at[a] \in Workers /\ raw' \in [Attempts -> Values]
      BY <1>6 DEF LookupFails, Served, Values
    <2>2. cell' \in Values /\ gaps' \subseteq AllGaps
      BY <1>6, <2>1, WrittenValues DEF LookupFails, StealGaps, AllGaps
    <2>3. pc' \in [Attempts -> Pcs] /\ answer' \in [Attempts -> Answers \cup {None}]
      BY <1>6 DEF LookupFails, Goto, Refuse, Decide, Pcs, Answers
    <2>4. left' \in Nat
      <3>1. Disturb("redis")
        BY <1>6 DEF LookupFails
      <3> QED BY <3>1 DEF Disturb
    <2>5. UNCHANGED <<process, at, held, send, marker, known, reserved>>
      BY <1>6 DEF LookupFails
    <2> QED BY <2>1, <2>2, <2>3, <2>4, <2>5
  <1>7. ASSUME NEW a \in Attempts, Sends(a) \/ SendFails(a) \/ SendRejects(a) PROVE TypeOK'
    <2>1. send' \in [Attempts -> {"none", "wire", "parked", "sent", "failed"}]
          /\ pc' \in [Attempts -> Pcs] /\ answer' \in [Attempts -> Answers \cup {None}]
      BY <1>7 DEF Sends, SendFails, SendRejects, Goto, Decide, Pcs, Answers
    <2>2. gaps' \subseteq AllGaps /\ left' \in Nat
      <3>1. CASE gaps' = gaps \cup {"rejected"} /\ Disturb("redis")
        <4>1. gaps \subseteq AllGaps /\ "rejected" \in AllGaps /\ left \in Nat
          BY DEF AllGaps
        <4>2. left' \in Nat
          BY <3>1, <4>1 DEF Disturb
        <4> QED BY <3>1, <4>1, <4>2
      <3>2. CASE UNCHANGED <<gaps, left>>
        BY <3>2
      <3> QED BY <1>7, <3>1, <3>2 DEF Sends, SendFails, SendRejects
    <2>3. UNCHANGED <<cell, process, at, held, raw, marker, known, reserved>>
      BY <1>7 DEF Sends, SendFails, SendRejects
    <2> QED BY <2>1, <2>2, <2>3 DEF process
  <1>8. ASSUME NEW a \in Attempts, TimesOut(a) PROVE TypeOK'
    BY <1>8 DEF TimesOut, AfterTimeout, Goto, Decide, Pcs, Answers
  <1>9. ASSUME NEW a \in Attempts, NEW kind \in {"sent", "failed", "unproven"}, SettlesLate(a, kind)
        PROVE  TypeOK'
    <2>1. send' \in [Attempts -> {"none", "wire", "parked", "sent", "failed"}]
      BY <1>9 DEF SettlesLate, Outcome
    <2>2. known' \in [Attempts -> BOOLEAN]
      BY <1>9 DEF SettlesLate, Definite
    <2>3. pc' \in [Attempts -> Pcs] /\ marker' \in [Attempts -> BOOLEAN]
      BY <1>9 DEF SettlesLate, Goto, Pcs
    <2> QED BY <1>9, <2>1, <2>2, <2>3 DEF SettlesLate
  <1>10. ASSUME NEW a \in Attempts, Cache(a) \/ CacheFails(a) PROVE TypeOK'
    <2>1. cell' \in Values /\ gaps' \subseteq AllGaps
      BY <1>10, WrittenValues DEF Cache, CacheFails, AllGaps
    <2>2. pc' \in [Attempts -> Pcs] /\ left' \in Nat
      BY <1>10 DEF Cache, CacheFails, Disturb, Goto, Pcs
    <2> QED BY <1>10, <2>1, <2>2 DEF Cache, CacheFails
  <1>11. ASSUME NEW a \in Attempts, Mark(a) \/ MarkFails(a) PROVE TypeOK'
    <2>1. Marked(a, MayWrite(a)) \/ Marked(a, FALSE)
      BY <1>11 DEF Mark, MarkFails
    <2>2. /\ pc' \in [Attempts -> Pcs] /\ marker' \in [Attempts -> BOOLEAN]
          /\ answer' \in [Attempts -> Answers \cup {None}]
      BY <2>1 DEF Marked, MarkAnswer, RetractOnMark, MayWrite, Goto, Decide, Pcs, Answers
    <2>3. cell' \in Values
      BY <1>11, WrittenValues DEF Mark, MarkFails
    <2>4. gaps' \subseteq AllGaps
      BY <1>11 DEF Mark, MarkFails, AllGaps
    <2>5. left' \in Nat
      <3>1. UNCHANGED left \/ Disturb("redis")
        BY <1>11 DEF Mark, MarkFails
      <3> QED BY <3>1 DEF Disturb
    <2> QED BY <1>11, <2>2, <2>3, <2>4, <2>5 DEF Mark, MarkFails
  <1>12. ASSUME NEW a \in Attempts, Release(a) \/ ReleaseFails(a) PROVE TypeOK'
    BY <1>12 DEF Release, ReleaseFails, Disturb, Goto, Pcs, Values
  <1>13. ASSUME NEW a \in Attempts, Clear(a) \/ ClearFails(a) PROVE TypeOK'
    <2>1. cell' \in Values /\ gaps' \subseteq AllGaps
      BY <1>13 DEF Clear, ClearFails, Values, AllGaps
    <2>2. pc' \in [Attempts -> Pcs] /\ left' \in Nat
      BY <1>13 DEF Clear, ClearFails, Disturb, Goto, Pcs
    <2> QED BY <1>13, <2>1, <2>2 DEF Clear, ClearFails
  <1>14. ASSUME NEW w \in Workers, Crash(w) PROVE TypeOK'
    BY <1>14 DEF Crash, Disturb, Pcs, Values, AllGaps
  <1>15. ASSUME NEW w \in Workers, Restart(w) \/ RegistryExpires(w) \/ Heartbeat(w) PROVE TypeOK'
    <2>1. CASE Restart(w)
      BY <2>1 DEF Restart
    <2>2. CASE RegistryExpires(w)
      BY <2>2 DEF RegistryExpires, Disturb
    <2>3. CASE Heartbeat(w)
      BY <2>3 DEF Heartbeat
    <2> QED BY <1>15, <2>1, <2>2, <2>3
  <1>16. CASE Expire
    BY <1>16 DEF Expire, Values, AllGaps
  <1>17. CASE UNCHANGED vars
    BY <1>17 DEF vars
  <1> QED
    BY <1>1, <1>2, <1>3, <1>4, <1>5, <1>6, <1>7, <1>8, <1>9, <1>10, <1>11, <1>12, <1>13,
       <1>14, <1>15, <1>16, <1>17
    DEF Next, Step, Fails

-----------------------------------------------------------------------------

\* What a step does to the places of attempts: a request comes in at a running
\* worker, an attempt already served takes a step, or a process changes.
LEMMA ServedStep == IInv /\ [Next]_vars => Served'
  <1> SUFFICES ASSUME IInv, [Next]_vars PROVE Served'
    OBVIOUS
  <1> USE DEF IInv, TypeOK, Served, process, attempt
  <1>1. ASSUME NEW b \in Attempts, NEW w \in Workers, Acquire(b, w) \/ AcquireFails(b, w)
        PROVE  Served'
    <2>1. at' = [at EXCEPT ![b] = w] /\ up[w] /\ UNCHANGED up
      BY <1>1 DEF Acquire, AcquireFails, Acquiring
    <2>2. \A c \in Attempts \ {b} : pc'[c] = pc[c]
      BY <1>1 DEF Acquire, AcquireFails, FailedOpen, Work, Goto, Refuse
    <2> QED BY <2>1, <2>2
  <1>2. ASSUME NEW b \in Attempts, UNCHANGED <<at, up>>, pc[b] \notin {"unborn", "gone"},
               \A c \in Attempts \ {b} : pc'[c] = pc[c]
        PROVE  Served'
    BY <1>2
  <1>3. ASSUME NEW b \in Attempts, Inspect(b) \/ CheckHolder(b) \/ Steal(b) \/ LookupFails(b)
        PROVE  Served'
    BY <1>2, <1>3 DEF Inspect, CheckHolder, Steal, LookupFails, Work, Goto, Refuse
  <1>4. ASSUME NEW b \in Attempts, Sends(b) \/ SendFails(b) \/ SendRejects(b) \/ TimesOut(b)
        PROVE  Served'
    BY <1>2, <1>4 DEF Sends, SendFails, SendRejects, TimesOut, Goto
  <1>5. ASSUME NEW b \in Attempts, NEW kind \in {"sent", "failed", "unproven"}, SettlesLate(b, kind)
        PROVE  Served'
    <2>1. pc[b] \notin {"unborn", "gone"}
      BY <1>5 DEF SettlesLate, Phases
    <2> QED BY <1>2, <1>5, <2>1 DEF SettlesLate, Goto
  <1>6. ASSUME NEW b \in Attempts,
               \/ Cache(b) \/ CacheFails(b) \/ Mark(b) \/ MarkFails(b)
               \/ Release(b) \/ ReleaseFails(b) \/ Clear(b) \/ ClearFails(b)
        PROVE  Served'
    BY <1>2, <1>6
    DEF Cache, CacheFails, Mark, MarkFails, Marked, Release, ReleaseFails, Clear, ClearFails, Goto
  <1>7. ASSUME NEW w \in Workers, Crash(w) PROVE Served'
    BY <1>7 DEF Crash
  <1>8. ASSUME NEW w \in Workers, Restart(w) \/ RegistryExpires(w) \/ Heartbeat(w) PROVE Served'
    BY <1>8 DEF Restart, RegistryExpires, Heartbeat
  <1>9. CASE Expire \/ UNCHANGED vars
    BY <1>9 DEF Expire, vars
  <1> QED BY <1>1, <1>3, <1>4, <1>5, <1>6, <1>7, <1>8, <1>9 DEF Next, Step, Fails

LEMMA SuspectedStep == IInv /\ [Next]_vars => Suspected'
  <1> SUFFICES ASSUME IInv, [Next]_vars PROVE Suspected'
    OBVIOUS
  <1> USE DEF IInv, TypeOK, Suspected, process, attempt
  <1>1. ASSUME NEW b \in Attempts, Inspect(b) PROVE Suspected'
    BY <1>1 DEF Inspect, Suspect, Goto, Refuse
  <1>2. ASSUME NEW b \in Attempts, CheckHolder(b) \/ Steal(b) \/ LookupFails(b) PROVE Suspected'
    BY <1>2 DEF CheckHolder, Steal, LookupFails, Work, Goto, Refuse
  <1>3. ASSUME NEW b \in Attempts, NEW p \in Pcs \ {"holder", "steal"}, UNCHANGED raw,
               pc' = [pc EXCEPT ![b] = p] \/ UNCHANGED pc
        PROVE  Suspected'
    BY <1>3
  <1>4. ASSUME NEW b \in Attempts, NEW w \in Workers, Acquire(b, w) \/ AcquireFails(b, w)
        PROVE  Suspected'
    BY <1>3, <1>4 DEF Acquire, AcquireFails, FailedOpen, Work, Goto, Refuse, Pcs
  <1>5. ASSUME NEW b \in Attempts, Sends(b) \/ SendFails(b) \/ SendRejects(b) \/ TimesOut(b)
        PROVE  Suspected'
    BY <1>3, <1>5 DEF Sends, SendFails, SendRejects, TimesOut, AfterTimeout, Goto, Pcs
  <1>6. ASSUME NEW b \in Attempts, NEW kind \in {"sent", "failed", "unproven"}, SettlesLate(b, kind)
        PROVE  Suspected'
    BY <1>3, <1>6 DEF SettlesLate, Goto, Pcs
  <1>7. ASSUME NEW b \in Attempts,
               \/ Cache(b) \/ CacheFails(b) \/ Mark(b) \/ MarkFails(b)
               \/ Release(b) \/ ReleaseFails(b) \/ Clear(b) \/ ClearFails(b)
        PROVE  Suspected'
    BY <1>3, <1>7
    DEF Cache, CacheFails, Mark, MarkFails, Marked, Release, ReleaseFails, Clear, ClearFails,
        Goto, Pcs
  <1>8. ASSUME NEW w \in Workers, Crash(w) PROVE Suspected'
    BY <1>8 DEF Crash
  <1>9. ASSUME NEW w \in Workers, Restart(w) \/ RegistryExpires(w) \/ Heartbeat(w) PROVE Suspected'
    BY <1>9 DEF Restart, RegistryExpires, Heartbeat
  <1>10. CASE Expire \/ UNCHANGED vars
    BY <1>10 DEF Expire, vars
  <1> QED BY <1>1, <1>2, <1>4, <1>5, <1>6, <1>7, <1>8, <1>9, <1>10 DEF Next, Step, Fails

LEMMA PhasesStep == IInv /\ [Next]_vars => Phases'
  <1> SUFFICES ASSUME IInv, [Next]_vars PROVE Phases'
    OBVIOUS
  <1> USE DEF IInv, TypeOK, Phases, process, attempt
  <1>1. ASSUME NEW b \in Attempts, NEW w \in Workers, Acquire(b, w) PROVE Phases'
    <2>1. CASE cell = Free
      BY <1>1, <2>1 DEF Acquire, Acquiring, Work, Goto
    <2>2. CASE cell # Free
      BY <1>1, <2>2 DEF Acquire, Acquiring, Goto, Refuse
    <2> QED BY <2>1, <2>2
  <1>2. ASSUME NEW b \in Attempts, NEW w \in Workers, AcquireFails(b, w) PROVE Phases'
    BY <1>2 DEF AcquireFails, Acquiring, FailedOpen, Work, Goto
  <1>3. ASSUME NEW b \in Attempts, Inspect(b) \/ CheckHolder(b) \/ LookupFails(b) PROVE Phases'
    BY <1>3 DEF Inspect, CheckHolder, LookupFails, Goto, Refuse
  <1>4. ASSUME NEW b \in Attempts, Steal(b) PROVE Phases'
    BY <1>4 DEF Steal, Work, Goto, Refuse
  <1>5. ASSUME NEW b \in Attempts, Sends(b) \/ SendFails(b) \/ SendRejects(b) \/ TimesOut(b)
        PROVE  Phases'
    <2>1. /\ UNCHANGED <<cell, at, held, raw, marker, known>> /\ pc[b] = "work"
          /\ pc'[b] \in {"cache", "mark", "release"} /\ send'[b] # "none"
          /\ \A c \in Attempts \ {b} : pc'[c] = pc[c] /\ send'[c] = send[c]
      BY <1>5 DEF Sends, SendFails, SendRejects, TimesOut, AfterTimeout, Goto
    <2> QED BY <2>1
  <1>6. ASSUME NEW b \in Attempts, NEW kind \in {"sent", "failed", "unproven"}, SettlesLate(b, kind)
        PROVE  Phases'
    <2>1. known'[b] => send'[b] = "failed"
      BY <1>6 DEF SettlesLate, Outcome, Definite
    <2>2. pc'[b] \notin {"unborn", "inspect", "reacquire", "holder", "steal", "work"}
      BY <1>6 DEF SettlesLate, Goto
    <2>3. pc'[b] = "clear" => known'[b]
      BY <1>6 DEF SettlesLate, RetractOnVerdict, Goto
    <2>4. \A c \in Attempts \ {b} : pc'[c] = pc[c] /\ send'[c] = send[c] /\ known'[c] = known[c]
      BY <1>6 DEF SettlesLate, Goto
    <2> QED BY <2>1, <2>2, <2>3, <2>4
  <1>7. ASSUME NEW b \in Attempts, Mark(b) \/ MarkFails(b) PROVE Phases'
    BY <1>7 DEF Mark, MarkFails, Marked, RetractOnMark, Goto
  <1>8. ASSUME NEW b \in Attempts,
               \/ Cache(b) \/ CacheFails(b) \/ Release(b) \/ ReleaseFails(b)
               \/ Clear(b) \/ ClearFails(b)
        PROVE  Phases'
    BY <1>8 DEF Cache, CacheFails, Release, ReleaseFails, Clear, ClearFails, Goto
  <1>9. ASSUME NEW w \in Workers, Crash(w) PROVE Phases'
    BY <1>9 DEF Crash
  <1>10. ASSUME NEW w \in Workers, Restart(w) \/ RegistryExpires(w) \/ Heartbeat(w) PROVE Phases'
    BY <1>10 DEF Restart, RegistryExpires, Heartbeat
  <1>11. CASE Expire \/ UNCHANGED vars
    BY <1>11 DEF Expire, vars
  <1> QED BY <1>1, <1>2, <1>3, <1>4, <1>5, <1>6, <1>7, <1>8, <1>9, <1>10, <1>11 DEF Next, Step, Fails

-----------------------------------------------------------------------------

Holding(a) == held[a] /\ Running(a)

\* While nobody was robbed: a free key, and one that names neither a process nor
\* a result, has no holder, and the holder a processing value names is alone.
LEMMA HolderAlone ==
  ASSUME IInv, "stolen" \notin gaps
  PROVE  /\ (cell = Free \/ \E c \in Attempts : cell = Indeterminate(c))
              => \A b \in Attempts : ~Holding(b)
         /\ \A a, b \in Attempts :
              (Holding(a) /\ cell = Processing(at[a]) /\ Holding(b)) => a = b
  <1> USE DEF IInv
  <1>1. \A a \in Attempts : Holding(a) =>
          /\ cell = Processing(at[a]) \/ cell = Result(a)
          /\ \A b \in Attempts \ {a} : Holding(b) => at[b] # at[a]
    BY DEF HolderKeepsLock, Holding
  <1>2. \A a \in Attempts : Holding(a) => at[a] \in Workers
    BY DEF Served, Holding, Running
  <1>3. \A a \in Attempts : Holding(a) => cell # Free /\ cell.k \in {"processing", "result"}
    <2> TAKE a \in Attempts
    <2> HAVE Holding(a)
    <2>1. CASE cell = Processing(at[a])
      BY <1>2, <2>1, FreeAssumption DEF Processing, TypeOK
    <2>2. CASE cell = Result(a)
      BY <2>2, FreeAssumption DEF Result
    <2> QED BY <1>1, <2>1, <2>2
  <1>4. (\E c \in Attempts : cell = Indeterminate(c)) => cell.k = "indeterminate"
    BY DEF Indeterminate
  <1>5. ASSUME NEW a \in Attempts, NEW b \in Attempts,
               Holding(a), cell = Processing(at[a]), Holding(b)
        PROVE  a = b
    <2>1. cell = Processing(at[b])
      BY <1>1, <1>5 DEF Processing, Result
    <2>2. at[a] = at[b]
      BY <1>5, <2>1 DEF Processing
    <2> QED BY <1>1, <1>5, <2>2
  <1> QED BY <1>3, <1>4, <1>5

\* A gap that was met is remembered.
LEMMA GapsStay == [Next]_vars => gaps \subseteq gaps'
  <1> SUFFICES ASSUME [Next]_vars PROVE gaps \subseteq gaps'
    OBVIOUS
  <1>1. ASSUME NEW a \in Attempts, Step(a) PROVE gaps \subseteq gaps'
    BY <1>1
    DEF Step, Acquire, Inspect, CheckHolder, Steal, Sends, SendFails, SendRejects, TimesOut, SettlesLate,
        Cache, Mark, Release, Clear
  <1>2. ASSUME NEW a \in Attempts, Fails(a) PROVE gaps \subseteq gaps'
    BY <1>2
    DEF Fails, AcquireFails, LookupFails, CacheFails, MarkFails, ReleaseFails, ClearFails
  <1>3. ASSUME NEW w \in Workers, Crash(w) \/ Restart(w) \/ RegistryExpires(w) \/ Heartbeat(w)
        PROVE  gaps \subseteq gaps'
    BY <1>3 DEF Crash, Restart, RegistryExpires, Heartbeat
  <1>4. CASE Expire \/ UNCHANGED vars
    BY <1>4 DEF Expire, vars
  <1> QED BY <1>1, <1>2, <1>3, <1>4 DEF Next

LEMMA HolderStep == IInv /\ [Next]_vars => HolderKeepsLock'
  <1> SUFFICES ASSUME IInv, [Next]_vars, "stolen" \notin gaps'
               PROVE  \A a \in Attempts : Holding(a)' =>
                        /\ \/ cell' = Processing(at[a])'
                           \/ pc'[a] = "release" /\ cell' = Result(a)
                        /\ \A b \in Attempts \ {a} : Holding(b)' => at'[b] # at'[a]
    BY DEF HolderKeepsLock, Holding, Result
  <1> DEFINE Keeps == \A a \in Attempts : Holding(a)' =>
                        /\ \/ cell' = Processing(at[a])'
                           \/ pc'[a] = "release" /\ cell' = Result(a)
                        /\ \A b \in Attempts \ {a} : Holding(b)' => at'[b] # at'[a]
  <1> HIDE DEF Keeps
  <1> USE DEF IInv, TypeOK, process, attempt
  <1>1. "stolen" \notin gaps
    BY GapsStay
  \* The step makes no holder and leaves the key, and the holders' values, alone.
  <1>2. ASSUME UNCHANGED cell,
               \A a \in Attempts : Holding(a)' =>
                 /\ Holding(a) /\ at'[a] = at[a] /\ inc'[at[a]] = inc[at[a]]
                 /\ pc[a] = "release" => pc'[a] = "release"
        PROVE  Keeps
    <2>1. \A a \in Attempts : Holding(a)' => Processing(at[a])' = Processing(at[a])
      BY <1>2 DEF Processing
    <2> QED BY <1>1, <1>2, <2>1 DEF HolderKeepsLock, Holding, Keeps
  \* The step leaves one holder at most, with its value under the key.
  <1>3. ASSUME NEW a \in Attempts, \A b \in Attempts \ {a} : ~Holding(b)',
               Holding(a)' => \/ cell' = Processing(at[a])'
                              \/ pc'[a] = "release" /\ cell' = Result(a)
        PROVE  Keeps
    BY <1>3 DEF Keeps
  <1>4. ASSUME NEW a \in Attempts, NEW w \in Workers, Acquire(a, w) PROVE Keeps
    <2>1. \A b \in Attempts \ {a} : Holding(b)' => Holding(b)
      BY <1>4 DEF Acquire, Holding, Running, Work, Goto, Refuse
    <2>2. CASE cell = Free
      <3>1. \A b \in Attempts \ {a} : ~Holding(b)'
        BY <1>1, <2>1, <2>2, HolderAlone
      <3>2. cell' = Processing(at[a])'
        BY <1>4, <2>2 DEF Acquire, Acquiring, Processing
      <3> QED BY <1>3, <3>1, <3>2
    <2>3. CASE cell # Free
      <3>1. ~Holding(a)' /\ UNCHANGED <<cell, inc>> /\ \A b \in Attempts \ {a} : at'[b] = at[b] /\ pc'[b] = pc[b]
        BY <1>4, <2>3 DEF Acquire, Acquiring, Holding, Running, Goto, Refuse
      <3> QED BY <1>2, <2>1, <3>1
    <2> QED BY <2>2, <2>3
  <1>5. ASSUME NEW a \in Attempts, NEW w \in Workers, AcquireFails(a, w) PROVE Keeps
    <2>1. /\ ~Holding(a)' /\ UNCHANGED inc
          /\ \A b \in Attempts \ {a} : at'[b] = at[b] /\ pc'[b] = pc[b] /\ (Holding(b)' => Holding(b))
      BY <1>5 DEF AcquireFails, FailedOpen, Acquiring, Holding, Running, Work, Goto
    <2>2. CASE UNCHANGED cell
      BY <1>2, <2>1, <2>2
    <2>3. CASE cell = Free
      BY <1>1, <1>3, <2>1, <2>3, HolderAlone
    <2> QED BY <1>5, <2>2, <2>3 DEF AcquireFails
  <1>6. ASSUME NEW a \in Attempts, Inspect(a) \/ CheckHolder(a) \/ Sends(a) \/ SendFails(a) \/ SendRejects(a) \/ TimesOut(a)
        PROVE  Keeps
    <2>1. UNCHANGED <<cell, at, held, inc>>
      BY <1>6 DEF Inspect, CheckHolder, Sends, SendFails, SendRejects, TimesOut
    <2>2. Running(a)' => pc[a] = "work"
      BY <1>6 DEF Inspect, CheckHolder, Sends, SendFails, SendRejects, Goto, Refuse, Running, TimesOut
    <2>3. \A b \in Attempts \ {a} : pc'[b] = pc[b]
      BY <1>6 DEF Inspect, CheckHolder, Sends, SendFails, SendRejects, TimesOut, Goto, Refuse
    <2> QED BY <1>2, <2>1, <2>2, <2>3 DEF Holding, Running
  <1>7. ASSUME NEW a \in Attempts, NEW kind \in {"sent", "failed", "unproven"}, SettlesLate(a, kind)
        PROVE  Keeps
    <2>1. UNCHANGED <<cell, at, held, inc>>
      BY <1>7 DEF SettlesLate
    <2>2. UNCHANGED pc \/ pc' = [pc EXCEPT ![a] = "clear"]
      BY <1>7 DEF SettlesLate, Goto
    <2> QED BY <1>2, <2>1, <2>2 DEF Holding, Running
  \* A value that is looked into and names no working holder has none.
  <1>8. ASSUME NEW a \in Attempts, pc[a] = "steal", cell = raw[a], ~HolderWorks(cell)
        PROVE  \A b \in Attempts : ~Holding(b)
    <2>1. \A b \in Attempts : cell # Result(b)
      BY <1>8 DEF Suspected, Is, Result
    <2> QED BY <1>1, <1>8, <2>1 DEF HolderKeepsLock, HolderWorks, Holding
  <1>9. ASSUME NEW a \in Attempts, Steal(a) PROVE Keeps
    <2>1. /\ UNCHANGED <<at, inc>>
          /\ \A b \in Attempts \ {a} : pc'[b] = pc[b] /\ (Holding(b)' => Holding(b))
      BY <1>9 DEF Steal, Holding, Running, Work, Goto, Refuse
    <2>2. CASE cell = raw[a]
      <3>1. ~HolderWorks(cell) /\ pc[a] = "steal" /\ cell' = Processing(at[a])
        BY <1>9, <2>2 DEF Steal, StealGaps
      <3>2. \A b \in Attempts \ {a} : ~Holding(b)'
        BY <1>8, <2>1, <2>2, <3>1
      <3>3. cell' = Processing(at[a])'
        BY <2>1, <3>1 DEF Processing
      <3> QED BY <1>3, <3>2, <3>3
    <2>3. CASE cell # raw[a]
      <3>1. ~Holding(a)' /\ UNCHANGED cell
        BY <1>9, <2>3 DEF Steal, Holding, Running, Goto, Refuse
      <3> QED BY <1>2, <2>1, <3>1
    <2> QED BY <2>2, <2>3
  <1>10. ASSUME NEW a \in Attempts, LookupFails(a) PROVE Keeps
    <2>1. /\ UNCHANGED <<at, inc>> /\ ~Holding(a)'
          /\ \A b \in Attempts \ {a} : pc'[b] = pc[b] /\ (Holding(b)' => Holding(b))
      BY <1>10 DEF LookupFails, Holding, Running, Goto, Refuse
    <2>2. CASE UNCHANGED cell
      BY <1>2, <2>1, <2>2
    <2>3. CASE cell' # cell
      <3>1. ~HolderWorks(cell) /\ pc[a] = "steal" /\ cell = raw[a]
        BY <1>10, <2>3 DEF LookupFails, StealGaps
      <3>2. \A b \in Attempts \ {a} : ~Holding(b)'
        BY <1>8, <2>1, <3>1
      <3> QED BY <1>3, <2>1, <3>2
    <2> QED BY <2>2, <2>3
  \* Who may write over the key, or release it, shares it with nobody.
  <1>11. ASSUME NEW a \in Attempts, Running(a), MayWrite(a) \/ MayRelease(a)
         PROVE  \A b \in Attempts \ {a} : ~Holding(b)
    BY <1>1, <1>11, HolderAlone DEF MayWrite, MayRelease, Holding
  <1>12. ASSUME NEW a \in Attempts, Cache(a) \/ CacheFails(a) PROVE Keeps
    <2>1. /\ UNCHANGED <<at, inc, held>> /\ Running(a) /\ pc[a] = "cache"
          /\ \A b \in Attempts \ {a} : pc'[b] = pc[b] /\ (Holding(b)' => Holding(b))
      BY <1>12 DEF Cache, CacheFails, Holding, Running, Goto
    <2>2. CASE UNCHANGED cell
      BY <1>2, <2>1, <2>2 DEF Holding
    <2>3. CASE cell' # cell
      <3>1. MayWrite(a) /\ cell' = Result(a)
        BY <1>12, <2>3 DEF Cache, CacheFails
      <3>2. Holding(a)' => pc'[a] = "release"
        BY <1>12, <3>1 DEF Cache, CacheFails, Goto, Holding, Running
      <3>3. \A b \in Attempts \ {a} : ~Holding(b)'
        BY <1>11, <2>1, <3>1
      <3> QED BY <1>3, <3>1, <3>2, <3>3
    <2> QED BY <2>2, <2>3
  <1>13. ASSUME NEW a \in Attempts, Mark(a) \/ MarkFails(a) \/ Release(a) \/ ReleaseFails(a)
         PROVE  Keeps
    <2>1. /\ UNCHANGED <<at, inc, held>> /\ Running(a) /\ ~Holding(a)'
          /\ \A b \in Attempts \ {a} : pc'[b] = pc[b] /\ (Holding(b)' => Holding(b))
      BY <1>13 DEF Mark, MarkFails, Marked, Release, ReleaseFails, Holding, Running, Goto
    <2>2. CASE UNCHANGED cell
      BY <1>2, <2>1, <2>2
    <2>3. CASE cell' # cell
      <3>1. MayWrite(a) \/ MayRelease(a)
        BY <1>13, <2>3 DEF Mark, MarkFails, Release, ReleaseFails
      <3>2. \A b \in Attempts \ {a} : ~Holding(b)'
        BY <1>11, <2>1, <3>1
      <3> QED BY <1>3, <2>1, <3>2
    <2> QED BY <2>2, <2>3
  <1>14. ASSUME NEW a \in Attempts, Clear(a) \/ ClearFails(a) PROVE Keeps
    <2>1. /\ UNCHANGED <<at, inc, held>> /\ ~Holding(a)'
          /\ \A b \in Attempts \ {a} : pc'[b] = pc[b] /\ (Holding(b)' => Holding(b))
      BY <1>14 DEF Clear, ClearFails, Holding, Running, Goto
    <2>2. CASE UNCHANGED cell
      BY <1>2, <2>1, <2>2
    <2>3. CASE cell' # cell
      <3>1. cell = Indeterminate(a)
        BY <1>14, <2>3 DEF Clear, ClearFails
      <3>2. \A b \in Attempts \ {a} : ~Holding(b)'
        BY <1>1, <2>1, <3>1, HolderAlone
      <3> QED BY <1>3, <2>1, <3>2
    <2> QED BY <2>2, <2>3
  <1>15. ASSUME NEW w \in Workers, Crash(w) PROVE Keeps
    BY <1>2, <1>15 DEF Crash, Holding, Running
  <1>16. ASSUME NEW w \in Workers, Restart(w) PROVE Keeps
    <2>1. \A b \in Attempts : Holding(b) => at[b] \in Workers /\ at[b] # w
      BY <1>16 DEF Restart, Served, Holding, Running
    <2> QED BY <1>2, <1>16, <2>1 DEF Restart, Holding, Running
  <1>17. ASSUME NEW w \in Workers, RegistryExpires(w) \/ Heartbeat(w) PROVE Keeps
    BY <1>2, <1>17 DEF RegistryExpires, Heartbeat, Holding, Running
  <1>18. ASSUME Expire PROVE Keeps
    <2>1. \A b \in Attempts : ~Holding(b)
      BY <1>1, <1>18 DEF Expire, HolderKeepsLock, HolderWorks, Holding
    <2>2. \A b \in Attempts : ~Holding(b)'
      BY <1>18, <2>1 DEF Expire, Holding, Running
    <2> QED BY <2>2 DEF Keeps
  <1>19. ASSUME UNCHANGED vars PROVE Keeps
    <2>1. UNCHANGED <<cell, at, inc, held, pc>>
      BY <1>19 DEF vars
    <2> QED BY <1>2, <2>1 DEF Holding, Running
  <1>20. Keeps
    BY <1>4, <1>5, <1>6, <1>7, <1>9, <1>10, <1>12, <1>13, <1>14, <1>15, <1>16, <1>17, <1>18, <1>19
    DEF Next, Step, Fails
  <1> QED BY <1>20 DEF Keeps

LEMMA NextIInv == IInv /\ [Next]_vars => IInv'
  BY TypeStep, ServedStep, SuspectedStep, PhasesStep, HolderStep DEF IInv

THEOREM Invariant == Spec => []IInv
  BY InitIInv, NextIInv, PTL DEF Spec

-----------------------------------------------------------------------------

\* Every variable keeps its type, for any number of attempts and workers: what is
\* under the key is a value one of them wrote.
THEOREM TypeCorrect == Spec => []TypeOK
  <1>1. IInv => TypeOK
    BY DEF IInv
  <1> QED BY <1>1, Invariant, PTL

\* However many clients retry and workers restart, only the registry losing sight
\* of a live process can take the key from an attempt that works under it.
THEOREM LockIsKept == Spec => []HolderKeepsLock
  <1>1. IInv => HolderKeepsLock
    BY DEF IInv
  <1> QED BY <1>1, Invariant, PTL

\* Only a retraction on proof, and the TTL, take a marker away.
LEMMA MarkerStep ==
  ASSUME IInv, Next, NEW a \in Attempts, cell = Indeterminate(a), cell' # cell
  PROVE  (pc[a] = "clear" /\ known[a] /\ send[a] = "failed") \/ Expire
  <1>1. cell # Free /\ ~Is(cell, "processing")
    BY FreeAssumption DEF Indeterminate, Is
  <1>2. \A w \in Workers : cell # Processing(w)
    BY DEF Indeterminate, Processing
  <1>3. \A b \in Attempts : pc[b] \notin {"unborn", "gone"} => ~MayRelease(b) /\ ~MayWrite(b)
    BY <1>1, <1>2 DEF MayRelease, MayWrite, IInv, Served
  <1>4. \A b \in Attempts : cell = Indeterminate(b) => a = b
    BY DEF Indeterminate
  <1>5. ASSUME NEW b \in Attempts, NEW w \in Workers, Acquire(b, w) \/ AcquireFails(b, w)
        PROVE  FALSE
    BY <1>1, <1>5 DEF Acquire, AcquireFails
  <1>6. ASSUME NEW b \in Attempts, Steal(b) \/ LookupFails(b)
        PROVE  FALSE
    BY <1>1, <1>6 DEF Steal, LookupFails, IInv, Suspected
  <1>7. ASSUME NEW b \in Attempts,
               \/ Cache(b) \/ CacheFails(b) \/ Mark(b) \/ MarkFails(b)
               \/ Release(b) \/ ReleaseFails(b)
        PROVE  FALSE
    BY <1>3, <1>7 DEF Cache, CacheFails, Mark, MarkFails, Release, ReleaseFails
  <1>8. ASSUME NEW b \in Attempts, Clear(b) \/ ClearFails(b)
        PROVE  pc[a] = "clear" /\ known[a] /\ send[a] = "failed"
    BY <1>4, <1>8 DEF Clear, ClearFails, IInv, Phases
  <1>9. ASSUME NEW b \in Attempts,
               \/ Inspect(b) \/ CheckHolder(b) \/ Sends(b) \/ SendFails(b) \/ SendRejects(b) \/ TimesOut(b)
               \/ \E kind \in {"sent", "failed", "unproven"} : SettlesLate(b, kind)
        PROVE  FALSE
    BY <1>9 DEF Inspect, CheckHolder, Sends, SendFails, SendRejects, TimesOut, SettlesLate
  <1>10. ASSUME NEW w \in Workers, Crash(w) \/ Restart(w) \/ RegistryExpires(w) \/ Heartbeat(w)
         PROVE  FALSE
    BY <1>10 DEF Crash, Restart, RegistryExpires, Heartbeat
  <1> QED BY <1>5, <1>6, <1>7, <1>8, <1>9, <1>10 DEF Next, Step, Fails

\* A marker goes away with its TTL, or is taken away by the attempt that knows its
\* send never happened.
THEOREM MarkersStand == Spec => MarkerStands
  <1>1. IInv /\ [Next]_vars => [SparesMarkers]_vars
    BY MarkerStep DEF SparesMarkers, Expire, attempt
  <1> QED BY <1>1, Invariant, PTL DEF MarkerStands, Spec

-----------------------------------------------------------------------------
(* What becomes of the message *)

\* The message of attempt a is out, or may be.
Out(a) == send[a] \in {"wire", "parked", "sent"}

\* Something under the key stands for a message that is out: its holder, its marker,
\* its result, or, when the marker could not be written, the lock that was left.
Writing(a) == pc[a] \in {"work", "cache", "mark"}
Covered(a) ==
  \/ held[a] /\ Writing(a)
  \/ ~Writing(a) /\ cell \in {Indeterminate(a), Result(a)}
  \/ /\ held[a] /\ ~Running(a) /\ Is(cell, "processing") /\ cell.w = at[a]
     /\ \A b \in Attempts : ~Holding(b)

Gapless == ~reserved /\ gaps \subseteq {"unretracted"}

\* As long as none of the gaps was met, one message is out at most, and it is covered.
OneOut ==
  Gapless => \A a \in Attempts : Out(a) => Covered(a) /\ \A b \in Attempts \ {a} : ~Out(b)

\* A send under way belongs to an attempt at work.
OnTheWire == \A a \in Attempts : send[a] = "wire" => pc[a] = "work"

\* What an attempt tells the client, or is about to, is so.
Told ==
  \A a \in Attempts :
    /\ cell = Result(a) \/ pc[a] = "cache" \/ answer[a] = "200" => send[a] = "sent"
    /\ answer[a] = "200 cached" => \E b \in Attempts : send[b] = "sent"
    /\ answer[a] = "not sent" => send[a] = "failed"
    /\ pc[a] = "mark" \/ (answer[a] = "504 retry" /\ ~reserved) =>
         send[a] \in {"parked", "sent", "failed"}
    /\ pc[a] \in {"cache", "release"} => reserved \/ answer[a] # "504 retry"

\* A marker awaits the proof that its send never happened, or its retraction.
Retractable ==
  "unretracted" \notin gaps =>
    \A a \in Attempts :
      cell = Indeterminate(a) =>
        \/ pc[a] \in {"clear", "gone"}
        \/ pc[a] = "answered" /\ marker[a] /\ ~known[a]

MInv == OneOut /\ OnTheWire /\ Told /\ AnswersTrue /\ Retractable

\* A send that was settled stays as it was.
LEMMA SettledStay ==
  ASSUME IInv, [Next]_vars, NEW a \in Attempts, send[a] \in {"sent", "failed"}
  PROVE  send'[a] = send[a]
  <1> USE DEF IInv, TypeOK, Phases
  <1>1. ASSUME NEW b \in Attempts, NEW w \in Workers, Acquire(b, w) \/ AcquireFails(b, w)
        PROVE  send'[a] = send[a]
    BY <1>1 DEF Acquire, AcquireFails, FailedOpen, Acquiring, Work
  <1>2. ASSUME NEW b \in Attempts,
               \/ Inspect(b) \/ CheckHolder(b) \/ Steal(b) \/ LookupFails(b)
               \/ Sends(b) \/ SendFails(b) \/ SendRejects(b) \/ TimesOut(b)
        PROVE  send'[a] = send[a]
    BY <1>2 DEF Inspect, CheckHolder, Steal, LookupFails, Work, Sends, SendFails, SendRejects, TimesOut
  <1>3. ASSUME NEW b \in Attempts, NEW kind \in {"sent", "failed", "unproven"}, SettlesLate(b, kind)
        PROVE  send'[a] = send[a]
    BY <1>3 DEF SettlesLate
  <1>4. ASSUME NEW b \in Attempts,
               \/ Cache(b) \/ CacheFails(b) \/ Mark(b) \/ MarkFails(b)
               \/ Release(b) \/ ReleaseFails(b) \/ Clear(b) \/ ClearFails(b)
        PROVE  send'[a] = send[a]
    BY <1>4 DEF Cache, CacheFails, Mark, MarkFails, Release, ReleaseFails, Clear, ClearFails
  <1>5. ASSUME NEW w \in Workers, Crash(w) PROVE send'[a] = send[a]
    BY <1>5 DEF Crash
  <1>6. ASSUME NEW w \in Workers, Restart(w) \/ RegistryExpires(w) \/ Heartbeat(w)
        PROVE  send'[a] = send[a]
    BY <1>6 DEF Restart, RegistryExpires, Heartbeat, attempt
  <1>7. CASE Expire \/ UNCHANGED vars
    BY <1>7 DEF Expire, vars, attempt
  <1> QED BY <1>1, <1>2, <1>3, <1>4, <1>5, <1>6, <1>7 DEF Next, Step, Fails

\* Results and markers are put under the key by their own attempts only.
LEMMA KeyStep ==
  ASSUME IInv, [Next]_vars, NEW a \in Attempts
  PROVE  /\ cell' = Result(a) => cell = Result(a) \/ pc[a] = "cache"
         /\ cell' = Indeterminate(a) => cell = Indeterminate(a) \/ pc[a] = "mark"
  <1> DEFINE Goal == /\ cell' = Result(a) => cell = Result(a) \/ pc[a] = "cache"
                     /\ cell' = Indeterminate(a) => cell = Indeterminate(a) \/ pc[a] = "mark"
  <1>1. ASSUME NEW w, cell' = Processing(w) \/ cell' = Free PROVE Goal
    BY <1>1, FreeAssumption DEF Processing, Result, Indeterminate
  <1>2. ASSUME NEW b \in Attempts, NEW w \in Workers, Acquire(b, w) \/ AcquireFails(b, w)
        PROVE  Goal
    BY <1>1, <1>2 DEF Acquire, AcquireFails
  <1>3. ASSUME NEW b \in Attempts, Steal(b) \/ LookupFails(b)
        PROVE  Goal
    BY <1>1, <1>3 DEF Steal, LookupFails
  <1>4. ASSUME NEW b \in Attempts,
               \/ Inspect(b) \/ CheckHolder(b) \/ Sends(b) \/ SendFails(b) \/ SendRejects(b) \/ TimesOut(b)
               \/ \E kind \in {"sent", "failed", "unproven"} : SettlesLate(b, kind)
        PROVE  Goal
    BY <1>4 DEF Inspect, CheckHolder, Sends, SendFails, SendRejects, TimesOut, SettlesLate
  <1>5. ASSUME NEW b \in Attempts, Cache(b) \/ CacheFails(b) \/ Mark(b) \/ MarkFails(b)
        PROVE  Goal
    <2>1. \/ cell' = cell
          \/ cell' = Result(b) /\ pc[b] = "cache"
          \/ cell' = Indeterminate(b) /\ pc[b] = "mark"
      BY <1>5 DEF Cache, CacheFails, Mark, MarkFails
    <2>2. /\ Result(a) = Result(b) => a = b
          /\ Indeterminate(a) = Indeterminate(b) => a = b
          /\ Result(a) # Indeterminate(b) /\ Indeterminate(a) # Result(b)
      BY DEF Result, Indeterminate
    <2> QED BY <2>1, <2>2
  <1>6. ASSUME NEW b \in Attempts, Release(b) \/ ReleaseFails(b) \/ Clear(b) \/ ClearFails(b)
        PROVE  Goal
    BY <1>1, <1>6 DEF Release, ReleaseFails, Clear, ClearFails
  <1>7. ASSUME NEW w \in Workers, Crash(w) \/ Restart(w) \/ RegistryExpires(w) \/ Heartbeat(w)
        PROVE  Goal
    BY <1>7 DEF Crash, Restart, RegistryExpires, Heartbeat
  <1>8. ASSUME Expire \/ UNCHANGED vars PROVE Goal
    BY <1>1, <1>8 DEF Expire, vars
  <1> HIDE DEF Goal
  <1>9. Goal
    BY <1>2, <1>3, <1>4, <1>5, <1>6, <1>7, <1>8 DEF Next, Step, Fails
  <1> QED BY <1>9 DEF Goal

LEMMA OnTheWireStep == IInv /\ OnTheWire /\ [Next]_vars => OnTheWire'
  <1> SUFFICES ASSUME IInv, OnTheWire, [Next]_vars PROVE OnTheWire'
    OBVIOUS
  <1> USE DEF IInv, TypeOK, OnTheWire
  <1>1. ASSUME NEW b \in Attempts, NEW w \in Workers, Acquire(b, w) \/ AcquireFails(b, w)
        PROVE  OnTheWire'
    BY <1>1 DEF Acquire, AcquireFails, FailedOpen, Acquiring, Work, Goto, Refuse
  <1>2. ASSUME NEW b \in Attempts,
               Inspect(b) \/ CheckHolder(b) \/ Steal(b) \/ LookupFails(b)
        PROVE  OnTheWire'
    BY <1>2 DEF Inspect, CheckHolder, Steal, LookupFails, Work, Goto, Refuse
  <1>3. ASSUME NEW b \in Attempts, Sends(b) \/ SendFails(b) \/ SendRejects(b) \/ TimesOut(b)
        PROVE  OnTheWire'
    BY <1>3 DEF Sends, SendFails, SendRejects, TimesOut, Goto
  <1>4. ASSUME NEW b \in Attempts, NEW kind \in {"sent", "failed", "unproven"}, SettlesLate(b, kind)
        PROVE  OnTheWire'
    <2>1. send'[b] # "wire" /\ \A c \in Attempts \ {b} : send'[c] = send[c] /\ pc'[c] = pc[c]
      BY <1>4 DEF SettlesLate, Outcome, Goto
    <2> QED BY <2>1
  <1>5. ASSUME NEW b \in Attempts,
               \/ Cache(b) \/ CacheFails(b) \/ Mark(b) \/ MarkFails(b)
               \/ Release(b) \/ ReleaseFails(b) \/ Clear(b) \/ ClearFails(b)
        PROVE  OnTheWire'
    <2>1. pc[b] \in {"cache", "mark", "release", "clear"} /\ UNCHANGED send
          /\ \A c \in Attempts \ {b} : pc'[c] = pc[c]
      BY <1>5 DEF Cache, CacheFails, Mark, MarkFails, Marked, Release, ReleaseFails, Clear,
                  ClearFails, Goto
    <2> QED BY <2>1
  <1>6. ASSUME NEW w \in Workers, Crash(w) PROVE OnTheWire'
    BY <1>6 DEF Crash
  <1>7. ASSUME NEW w \in Workers, Restart(w) \/ RegistryExpires(w) \/ Heartbeat(w)
        PROVE  OnTheWire'
    BY <1>7 DEF Restart, RegistryExpires, Heartbeat, attempt
  <1>8. CASE Expire \/ UNCHANGED vars
    BY <1>8 DEF Expire, vars, attempt
  <1> QED BY <1>1, <1>2, <1>3, <1>4, <1>5, <1>6, <1>7, <1>8 DEF Next, Step, Fails

\* What an attempt tells is settled before it tells it.
LEMMA ToldStep == IInv /\ Told /\ [Next]_vars => Told'
  <1> SUFFICES ASSUME IInv, Told, [Next]_vars PROVE Told'
    OBVIOUS
  <1> DEFINE Says(a) ==
    /\ pc[a] = "cache" \/ answer[a] = "200" => send[a] = "sent"
    /\ answer[a] = "not sent" => send[a] = "failed"
    /\ pc[a] = "mark" \/ (answer[a] = "504 retry" /\ ~reserved) =>
         send[a] \in {"parked", "sent", "failed"}
    /\ pc[a] \in {"cache", "release"} => reserved \/ answer[a] # "504 retry"
  <1> DEFINE Cached(a) == answer'[a] = "200 cached" =>
               answer[a] = "200 cached" \/ \E b \in Attempts : cell = Result(b)
  <1>0. \A a \in Attempts : Says(a)
    BY DEF Told
  <1> USE DEF IInv, TypeOK, Phases
  <1>1. ASSUME NEW b \in Attempts, NEW w \in Workers, Acquire(b, w) \/ AcquireFails(b, w)
        PROVE  \A a \in Attempts : Says(a)' /\ Cached(a)
    <2>1. \A a \in Attempts \ {b} : UNCHANGED <<pc[a], send[a], answer[a], reserved>>
      BY <1>1 DEF Acquire, AcquireFails, FailedOpen, Work, Goto, Refuse, Decide
    <2>2. pc'[b] \in {"work", "inspect", "answered"}
      BY <1>1 DEF Acquire, AcquireFails, FailedOpen, Work, Goto, Refuse
    <2>3. UNCHANGED reserved /\ (answer'[b] = answer[b] \/ answer'[b] = "409 processing")
      BY <1>1 DEF Acquire, AcquireFails, Refuse, Decide
    <2>4. send'[b] \in {send[b], "wire"} /\ send[b] = "none"
      BY <1>1 DEF Acquire, AcquireFails, FailedOpen, Acquiring, Work
    <2> QED BY <1>0, <2>1, <2>2, <2>3, <2>4
  <1>2. ASSUME NEW b \in Attempts, Inspect(b) \/ CheckHolder(b) \/ Steal(b) \/ LookupFails(b)
        PROVE  \A a \in Attempts : Says(a)' /\ Cached(a)
    <2>1. \A a \in Attempts \ {b} : UNCHANGED <<pc[a], send[a], answer[a], reserved>>
      BY <1>2 DEF Inspect, CheckHolder, Steal, LookupFails, Work, Goto, Refuse, Decide
    <2>2. pc'[b] \in {"work", "reacquire", "holder", "steal", "answered"}
      BY <1>2 DEF Inspect, CheckHolder, Steal, LookupFails, Work, Goto, Refuse
    <2>3. /\ UNCHANGED reserved
          /\ \/ answer'[b] = answer[b]
             \/ answer'[b] \in {"409 processing", "409 indeterminate"}
             \/ answer'[b] = "200 cached" /\ \E a \in Attempts : cell = Result(a)
      <3>1. CASE Inspect(b)
        <4>1. UNCHANGED answer \/ (cell # Free /\ ~Suspect(b))
          BY <1>2, <3>1 DEF Inspect
        <4>2. CASE cell # Free /\ ~Suspect(b)
          <5>1. cell.k \in {"processing", "indeterminate", "result"}
                /\ (cell.k = "result" => \E a \in Attempts : cell = Result(a))
            BY <4>2 DEF Values, Result
          <5> QED BY <3>1, <4>2, <5>1 DEF Inspect, Refuse, Decide
        <4> QED BY <3>1, <4>1, <4>2 DEF Inspect
      <3>2. CASE CheckHolder(b) \/ Steal(b) \/ LookupFails(b)
        BY <3>2 DEF CheckHolder, Steal, LookupFails, Refuse, Decide
      <3> QED BY <1>2, <3>1, <3>2
    <2>4. send'[b] \in {send[b], "wire"} /\ send[b] = "none"
      BY <1>2 DEF Inspect, CheckHolder, Steal, LookupFails, Work
    <2> QED BY <1>0, <2>1, <2>2, <2>3, <2>4
  <1>3. ASSUME NEW b \in Attempts, Sends(b) \/ SendFails(b) \/ SendRejects(b) \/ TimesOut(b)
        PROVE  \A a \in Attempts : Says(a)' /\ Cached(a)
    <2>1. UNCHANGED reserved /\ \A a \in Attempts \ {b} : UNCHANGED <<pc[a], send[a], answer[a]>>
      BY <1>3 DEF Sends, SendFails, SendRejects, TimesOut, Goto, Decide
    <2>2. \/ pc'[b] = "cache" /\ send'[b] = "sent" /\ answer'[b] = "200"
          \/ pc'[b] = "release" /\ send'[b] = "failed" /\ answer'[b] = "not sent"
          \/ pc'[b] = "release" /\ answer'[b] = "500"
          \/ /\ pc'[b] = (IF reserved THEN "release" ELSE "mark")
             /\ send'[b] = "parked" /\ answer'[b] = "504 retry"
      BY <1>3 DEF Sends, SendFails, SendRejects, TimesOut, AfterTimeout, Goto, Decide
    <2> QED BY <1>0, <2>1, <2>2
  <1>4. ASSUME NEW b \in Attempts, NEW kind \in {"sent", "failed", "unproven"}, SettlesLate(b, kind)
        PROVE  \A a \in Attempts : Says(a)' /\ Cached(a)
    <2>1. send[b] = "parked" /\ send'[b] \in {"sent", "failed"}
          /\ (pc'[b] = pc[b] \/ pc'[b] = "clear") /\ UNCHANGED <<answer, reserved>>
          /\ \A a \in Attempts \ {b} : pc'[a] = pc[a] /\ send'[a] = send[a]
      BY <1>4 DEF SettlesLate, Outcome, Goto
    <2> QED BY <1>0, <2>1
  <1>5. ASSUME NEW b \in Attempts, Cache(b) \/ CacheFails(b)
        PROVE  \A a \in Attempts : Says(a)' /\ Cached(a)
    <2>1. UNCHANGED <<send, answer, reserved>> /\ pc[b] = "cache" /\ pc'[b] \in {"answered", "release"}
          /\ \A a \in Attempts \ {b} : pc'[a] = pc[a]
      BY <1>5 DEF Cache, CacheFails, Goto
    <2> QED BY <1>0, <2>1
  <1>6. ASSUME NEW b \in Attempts, Mark(b) \/ MarkFails(b)
        PROVE  \A a \in Attempts : Says(a)' /\ Cached(a)
    <2>1. pc[b] = "mark" /\ UNCHANGED <<send, reserved>> /\ pc'[b] \in {"clear", "answered"}
          /\ answer'[b] \in {"504 retry", "504 unprotected"}
          /\ \A a \in Attempts \ {b} : pc'[a] = pc[a] /\ answer'[a] = answer[a]
      BY <1>6 DEF Mark, MarkFails, Marked, MarkAnswer, Goto, Decide
    <2> QED BY <1>0, <2>1
  <1>7. ASSUME NEW b \in Attempts, Release(b) \/ ReleaseFails(b) \/ Clear(b) \/ ClearFails(b)
        PROVE  \A a \in Attempts : Says(a)' /\ Cached(a)
    <2>1. UNCHANGED <<send, answer, reserved>> /\ pc'[b] = "answered"
          /\ \A a \in Attempts \ {b} : pc'[a] = pc[a]
      BY <1>7 DEF Release, ReleaseFails, Clear, ClearFails, Goto
    <2> QED BY <1>0, <2>1
  <1>8. ASSUME NEW w \in Workers, Crash(w)
        PROVE  \A a \in Attempts : Says(a)' /\ Cached(a)
    <2>1. UNCHANGED <<answer, reserved>>
      BY <1>8 DEF Crash
    <2>2. \A a \in Attempts :
            \/ pc'[a] = pc[a] /\ send'[a] = send[a]
            \/ pc'[a] = "gone" /\ send'[a] = send[a]
            \/ pc'[a] = "gone" /\ send[a] \in {"wire", "parked"} /\ send'[a] \in {"sent", "failed"}
      BY <1>8 DEF Crash
    <2> QED BY <1>0, <2>1, <2>2
  <1>9. ASSUME NEW w \in Workers, Restart(w) \/ RegistryExpires(w) \/ Heartbeat(w)
        PROVE  \A a \in Attempts : Says(a)' /\ Cached(a)
    <2>1. UNCHANGED <<pc, send, answer, reserved>>
      BY <1>9 DEF Restart, RegistryExpires, Heartbeat, attempt
    <2> QED BY <1>0, <2>1
  <1>10. ASSUME Expire \/ UNCHANGED vars
         PROVE  \A a \in Attempts : Says(a)' /\ Cached(a)
    <2>1. UNCHANGED <<pc, send, answer, reserved>>
      BY <1>10 DEF Expire, vars, attempt
    <2> QED BY <1>0, <2>1
  <1> HIDE DEF Says, Cached
  <1>11. \A a \in Attempts : Says(a)' /\ Cached(a)
    BY <1>1, <1>2, <1>3, <1>4, <1>5, <1>6, <1>7, <1>8, <1>9, <1>10 DEF Next, Step, Fails
  <1>12. \A a \in Attempts : cell' = Result(a) => send'[a] = "sent"
    BY KeyStep, SettledStay DEF Told
  <1>13. \A a \in Attempts : (cell = Result(a))' <=> cell' = Result(a)
    BY DEF Result
  <1>14. \A a \in Attempts : answer'[a] = "200 cached" => \E b \in Attempts : send'[b] = "sent"
    BY <1>11, SettledStay DEF Told, Cached
  <1> QED BY <1>11, <1>12, <1>13, <1>14 DEF Says, Told

LEMMA ReservedStays == [Next]_vars => UNCHANGED reserved
  <1> SUFFICES ASSUME [Next]_vars PROVE UNCHANGED reserved
    OBVIOUS
  <1>1. ASSUME NEW a \in Attempts, Step(a) \/ Fails(a) PROVE UNCHANGED reserved
    BY <1>1
    DEF Step, Acquire, Inspect, CheckHolder, Steal, Sends, SendFails, SendRejects, TimesOut, SettlesLate,
        Cache, Mark, Release, Clear, Fails, AcquireFails, LookupFails, CacheFails, MarkFails,
        ReleaseFails, ClearFails
  <1>2. ASSUME NEW w \in Workers, Crash(w) \/ Restart(w) \/ RegistryExpires(w) \/ Heartbeat(w)
        PROVE  UNCHANGED reserved
    BY <1>2 DEF Crash, Restart, RegistryExpires, Heartbeat
  <1>3. CASE Expire \/ UNCHANGED vars
    BY <1>3 DEF Expire, vars
  <1> QED BY <1>1, <1>2, <1>3 DEF Next

\* A response that invites a retry keeps the marker that stands in its way.
LEMMA AnswersStep == IInv /\ Told /\ AnswersTrue /\ [Next]_vars => AnswersTrue'
  <1> SUFFICES ASSUME IInv, Told, AnswersTrue, [Next]_vars PROVE AnswersTrue'
    OBVIOUS
  <1> DEFINE Done(a) == pc[a] \in {"answered", "clear"}
             Begins(a) == Done(a)' /\ answer'[a] = "504 retry" =>
                            \/ Done(a) /\ answer[a] = "504 retry"
                            \/ send'[a] = "failed" \/ cell' = Indeterminate(a) \/ reserved
  <1> USE DEF IInv, TypeOK, Phases
  <1>1. ASSUME NEW b \in Attempts, NEW w \in Workers, Acquire(b, w) \/ AcquireFails(b, w)
        PROVE  \A a \in Attempts : Begins(a)
    BY <1>1 DEF Acquire, AcquireFails, FailedOpen, Work, Goto, Refuse, Decide
  <1>2. ASSUME NEW b \in Attempts, Inspect(b) \/ CheckHolder(b) \/ Steal(b) \/ LookupFails(b)
        PROVE  \A a \in Attempts : Begins(a)
    <2>1. \A a \in Attempts \ {b} : UNCHANGED <<pc[a], answer[a]>>
      BY <1>2 DEF Inspect, CheckHolder, Steal, LookupFails, Work, Goto, Refuse, Decide
    <2>2. CASE Inspect(b)
      <3>1. CASE cell # Free /\ ~Suspect(b)
        <4>1. cell.k \in {"processing", "indeterminate", "result"}
          BY <3>1 DEF Values
        <4>2. answer'[b] # "504 retry"
          BY <2>2, <3>1, <4>1 DEF Inspect, Refuse, Decide
        <4> QED BY <2>1, <4>2
      <3>2. CASE cell = Free \/ Suspect(b)
        BY <2>1, <2>2, <3>2 DEF Inspect, Goto
      <3> QED BY <3>1, <3>2
    <2>3. CASE CheckHolder(b) \/ Steal(b) \/ LookupFails(b)
      BY <2>1, <2>3 DEF CheckHolder, Steal, LookupFails, Work, Goto, Refuse, Decide
    <2> QED BY <1>2, <2>2, <2>3
  <1>3. ASSUME NEW b \in Attempts, Sends(b) \/ SendFails(b) \/ SendRejects(b) \/ TimesOut(b)
        PROVE  \A a \in Attempts : Begins(a)
    <2>1. ~Done(b)' /\ \A a \in Attempts \ {b} : UNCHANGED <<pc[a], answer[a]>>
      BY <1>3 DEF Sends, SendFails, SendRejects, TimesOut, AfterTimeout, Goto, Decide
    <2> QED BY <2>1
  <1>4. ASSUME NEW b \in Attempts, NEW kind \in {"sent", "failed", "unproven"}, SettlesLate(b, kind)
        PROVE  \A a \in Attempts : Begins(a)
    <2>1. UNCHANGED answer /\ \A a \in Attempts \ {b} : pc'[a] = pc[a]
      BY <1>4 DEF SettlesLate, Goto
    <2>2. pc'[b] = pc[b] \/ send'[b] = "failed"
      BY <1>4 DEF SettlesLate, RetractOnVerdict, Definite, Outcome, Goto
    <2> QED BY <2>1, <2>2
  <1>5. ASSUME NEW b \in Attempts,
               Cache(b) \/ CacheFails(b) \/ Release(b) \/ ReleaseFails(b) \/ Clear(b) \/ ClearFails(b)
        PROVE  \A a \in Attempts : Begins(a)
    <2>1. UNCHANGED answer /\ pc[b] \in {"cache", "release", "clear"}
          /\ \A a \in Attempts \ {b} : pc'[a] = pc[a]
      BY <1>5 DEF Cache, CacheFails, Release, ReleaseFails, Clear, ClearFails, Goto
    <2> QED BY <2>1 DEF Told
  <1>6. ASSUME NEW b \in Attempts, Mark(b) \/ MarkFails(b)
        PROVE  \A a \in Attempts : Begins(a)
    <2>1. UNCHANGED send /\ \A a \in Attempts \ {b} : pc'[a] = pc[a] /\ answer'[a] = answer[a]
      BY <1>6 DEF Mark, MarkFails, Marked, Goto, Decide
    <2>2. answer'[b] = "504 retry" => known[b] \/ cell' = Indeterminate(b)
      BY <1>6 DEF Mark, MarkFails, Marked, MarkAnswer, Decide
    <2> QED BY <2>1, <2>2
  <1>7. ASSUME NEW w \in Workers, Crash(w)
        PROVE  \A a \in Attempts : Begins(a)
    <2>1. UNCHANGED answer /\ \A a \in Attempts : pc'[a] \in {pc[a], "gone"}
      BY <1>7 DEF Crash
    <2> QED BY <2>1
  <1>8. ASSUME NEW w \in Workers, Restart(w) \/ RegistryExpires(w) \/ Heartbeat(w)
        PROVE  \A a \in Attempts : Begins(a)
    BY <1>8 DEF Restart, RegistryExpires, Heartbeat, attempt
  <1>9. ASSUME Expire \/ UNCHANGED vars
        PROVE  \A a \in Attempts : Begins(a)
    BY <1>9 DEF Expire, vars, attempt
  <1> HIDE DEF Begins
  <1>10. \A a \in Attempts : Begins(a)
    BY <1>1, <1>2, <1>3, <1>4, <1>5, <1>6, <1>7, <1>8, <1>9 DEF Next, Step, Fails
  <1>11. ASSUME NEW a \in Attempts, Done(a)', answer'[a] = "504 retry", ~reserved, ~reserved'
         PROVE  send'[a] = "failed" \/ "expired" \in gaps' \/ cell' = Indeterminate(a)
    <2>1. CASE ~(Done(a) /\ answer[a] = "504 retry")
      BY <1>10, <1>11, <2>1 DEF Begins
    <2>2. CASE Done(a) /\ answer[a] = "504 retry"
      <3>1. send[a] = "failed" \/ "expired" \in gaps \/ cell = Indeterminate(a)
        BY <1>11, <2>2 DEF AnswersTrue
      <3>2. send[a] \in {"parked", "sent", "failed"}
        BY <1>11, <2>2 DEF Told
      <3>3. CASE cell = Indeterminate(a) /\ cell' # cell /\ Expire
        BY <3>2, <3>3, SettledStay DEF Expire
      <3>4. CASE cell = Indeterminate(a) /\ cell' # cell /\ ~Expire
        <4>1. Next
          BY <3>4 DEF vars
        <4> QED BY <3>4, <4>1, MarkerStep, SettledStay
      <3>5. CASE cell = Indeterminate(a) /\ cell' = cell
        BY <3>5
      <3>6. CASE send[a] = "failed" \/ "expired" \in gaps
        BY <3>6, SettledStay, GapsStay
      <3> QED BY <3>1, <3>3, <3>4, <3>5, <3>6
    <2> QED BY <2>1, <2>2
  <1>12. Told'
    BY ToldStep
  <1>13. UNCHANGED reserved
    BY ReservedStays
  <1>14. \A a \in Attempts : (cell = Indeterminate(a))' <=> cell' = Indeterminate(a)
    BY DEF Indeterminate
  <1> QED BY <1>11, <1>12, <1>13, <1>14 DEF AnswersTrue, Told

\* A marker is retracted by whichever comes second, the proof or the marker.
LEMMA RetractableStep == IInv /\ Retractable /\ [Next]_vars => Retractable'
  <1> SUFFICES ASSUME IInv, Retractable, [Next]_vars, "unretracted" \notin gaps',
                      NEW a \in Attempts, cell' = Indeterminate(a)
               PROVE  \/ pc'[a] \in {"clear", "gone"}
                      \/ pc'[a] = "answered" /\ marker'[a] /\ ~known'[a]
    BY DEF Retractable, Indeterminate
  <1> DEFINE Stands == \/ pc[a] \in {"clear", "gone"}
                       \/ pc[a] = "answered" /\ marker[a] /\ ~known[a]
             StandsNext == \/ pc'[a] \in {"clear", "gone"}
                           \/ pc'[a] = "answered" /\ marker'[a] /\ ~known'[a]
  <1> USE DEF IInv, TypeOK
  <1>0. /\ cell' # Free /\ \A w \in Workers : cell' # Processing(w)
        /\ \A b \in Attempts : cell' # Result(b)
    BY FreeAssumption DEF Indeterminate, Processing, Result
  <1>1. cell = Indeterminate(a) => Stands
    BY GapsStay DEF Retractable
  <1>2. cell = Indeterminate(a) \/ pc[a] = "mark"
    BY KeyStep
  <1>3. ASSUME NEW b \in Attempts, Mark(b) \/ MarkFails(b) PROVE StandsNext
    <2>1. CASE b = a
      <3>1. cell # Indeterminate(a)
        BY <1>1, <1>3, <2>1 DEF Mark, MarkFails
      <3>2. Marked(a, TRUE) /\ UNCHANGED known
        BY <1>3, <2>1, <3>1 DEF Mark, MarkFails
      <3> QED BY <3>2 DEF Marked, RetractOnMark, Goto
    <2>2. CASE b # a
      <3>1. cell = Indeterminate(a)
        BY <1>3, <2>2 DEF Mark, MarkFails, Indeterminate
      <3>2. pc'[a] = pc[a] /\ marker'[a] = marker[a] /\ UNCHANGED known
        BY <1>3, <2>2 DEF Mark, MarkFails, Marked, Goto
      <3> QED BY <1>1, <3>1, <3>2
    <2> QED BY <2>1, <2>2
  <1>4. ASSUME NEW b \in Attempts, NEW kind \in {"sent", "failed", "unproven"}, SettlesLate(b, kind)
        PROVE  StandsNext
    <2>1. cell = Indeterminate(a)
      BY <1>4 DEF SettlesLate
    <2>2. CASE b = a
      <3>1. CASE RetractOnVerdict(a, kind)
        <4>1. pc' = [pc EXCEPT ![a] = "clear"]
          BY <1>4, <2>2, <3>1 DEF SettlesLate, Goto
        <4> QED BY <4>1
      <3>2. CASE ~RetractOnVerdict(a, kind)
        <4>1. pc'[a] = pc[a] /\ marker'[a] = marker[a] /\ known'[a] = Definite(kind)
          BY <1>4, <2>2, <3>2 DEF SettlesLate
        <4> QED BY <1>1, <2>1, <3>2, <4>1 DEF RetractOnVerdict
      <3> QED BY <3>1, <3>2
    <2>3. CASE b # a
      <3>1. pc'[a] = pc[a] /\ marker'[a] = marker[a] /\ known'[a] = known[a]
        BY <1>4, <2>3 DEF SettlesLate, Goto
      <3> QED BY <1>1, <2>1, <3>1
    <2> QED BY <2>2, <2>3
  <1>5. ASSUME NEW b \in Attempts, Clear(b) \/ ClearFails(b) PROVE StandsNext
    <2>1. CASE b = a
      BY <1>5, <2>1, FreeAssumption DEF Clear, ClearFails, Indeterminate, Values
    <2>2. CASE b # a
      <3>1. pc'[a] = pc[a] /\ UNCHANGED <<marker, known>> /\ pc[b] = "clear"
        BY <1>5, <2>2 DEF Clear, ClearFails, Goto
      <3>2. cell = Indeterminate(a)
        BY <1>5, FreeAssumption DEF Clear, ClearFails, Indeterminate
      <3> QED BY <1>1, <3>1, <3>2
    <2> QED BY <2>1, <2>2
  \* Nothing else of an attempt that has its marker there changes.
  <1>6. ASSUME cell' = cell, pc[a] \in {"clear", "gone", "answered"} => pc'[a] \in {pc[a], "gone"},
               UNCHANGED <<marker, known>>
        PROVE  StandsNext
    BY <1>1, <1>6
  <1>7. ASSUME NEW b \in Attempts, NEW w \in Workers, Acquire(b, w) \/ AcquireFails(b, w)
        PROVE  StandsNext
    <2>1. /\ UNCHANGED <<marker, known>> /\ pc[b] \in {"unborn", "reacquire"}
          /\ \A c \in Attempts \ {b} : pc'[c] = pc[c]
          /\ cell' = cell \/ cell' = Processing(w)
      BY <1>7 DEF Acquire, AcquireFails, FailedOpen, Acquiring, Work, Goto, Refuse
    <2> QED BY <1>0, <1>6, <2>1
  <1>8. ASSUME NEW b \in Attempts,
               \/ Inspect(b) \/ CheckHolder(b) \/ Steal(b) \/ LookupFails(b)
               \/ Sends(b) \/ SendFails(b) \/ SendRejects(b) \/ TimesOut(b)
        PROVE  StandsNext
    <2>1. /\ UNCHANGED <<marker, known>> /\ pc[b] \in {"inspect", "holder", "steal", "work"}
          /\ \A c \in Attempts \ {b} : pc'[c] = pc[c]
      BY <1>8 DEF Inspect, CheckHolder, Steal, LookupFails, Sends, SendFails, SendRejects, TimesOut,
                  Work, Goto, Refuse
    <2>2. cell' = cell \/ cell' = Processing(at[b])
      BY <1>8 DEF Inspect, CheckHolder, Steal, LookupFails, Sends, SendFails, SendRejects, TimesOut
    <2>3. at[b] \in Workers
      BY <2>1 DEF Served
    <2> QED BY <1>0, <1>6, <2>1, <2>2, <2>3
  <1>9. ASSUME NEW b \in Attempts, Cache(b) \/ CacheFails(b) \/ Release(b) \/ ReleaseFails(b)
        PROVE  StandsNext
    <2>1. /\ UNCHANGED <<marker, known>> /\ pc[b] \in {"cache", "release"}
          /\ \A c \in Attempts \ {b} : pc'[c] = pc[c]
      BY <1>9 DEF Cache, CacheFails, Release, ReleaseFails, Goto
    <2>2. cell' = cell \/ cell' = Free \/ cell' = Result(b)
      BY <1>9 DEF Cache, CacheFails, Release, ReleaseFails
    <2> QED BY <1>0, <1>6, <2>1, <2>2
  <1>10. ASSUME NEW w \in Workers, Crash(w) PROVE StandsNext
    BY <1>6, <1>10 DEF Crash
  <1>11. ASSUME NEW w \in Workers, Restart(w) \/ RegistryExpires(w) \/ Heartbeat(w)
         PROVE  StandsNext
    BY <1>6, <1>11 DEF Restart, RegistryExpires, Heartbeat, attempt
  <1>12. ASSUME Expire \/ UNCHANGED vars PROVE StandsNext
    BY <1>0, <1>6, <1>12 DEF Expire, vars, attempt
  <1> HIDE DEF StandsNext
  <1>13. StandsNext
    BY <1>3, <1>4, <1>5, <1>7, <1>8, <1>9, <1>10, <1>11, <1>12 DEF Next, Step, Fails
  <1> QED BY <1>13 DEF StandsNext

\* Without a gap, a key that is free or has been looked into stands for no message.
LEMMA NoneOut ==
  ASSUME IInv, OneOut, OnTheWire, Gapless,
         \/ cell = Free
         \/ Is(cell, "processing") /\ ~HolderWorks(cell) /\ ~LeftUnmarked(cell)
         \/ \E b \in Attempts : cell = Indeterminate(b) /\ send[b] = "failed"
  PROVE  \A a \in Attempts : ~Out(a)
  <1> SUFFICES ASSUME NEW a \in Attempts, Out(a) PROVE FALSE
    OBVIOUS
  <1> USE DEF IInv
  <1>1. Covered(a)
    BY DEF OneOut
  <1>2. CASE held[a] /\ Writing(a)
    <2>1. Holding(a) /\ cell = Processing(at[a])
      BY <1>2 DEF HolderKeepsLock, Holding, Writing, Running, Gapless
    <2>2. HolderWorks(cell)
      BY <2>1 DEF HolderWorks, Holding
    <2>3. cell # Free
      <3>1. at[a] \in Workers
        BY <1>2 DEF Served, Writing
      <3> QED BY <2>1, <3>1, FreeAssumption DEF Processing, TypeOK
    <2>4. \A b \in Attempts : cell # Indeterminate(b)
      BY <2>1 DEF Processing, Indeterminate
    <2> QED BY <2>2, <2>3, <2>4
  <1>3. CASE cell \in {Indeterminate(a), Result(a)}
    <2>1. cell # Free /\ ~Is(cell, "processing")
      BY <1>3, FreeAssumption DEF Indeterminate, Result, Is
    <2>2. \A b \in Attempts : cell = Indeterminate(b) => a = b
      BY <1>3 DEF Indeterminate, Result
    <2> QED BY <2>1, <2>2 DEF Out
  <1>4. CASE held[a] /\ ~Running(a) /\ Is(cell, "processing") /\ cell.w = at[a]
    <2>1. send[a] # "wire"
      BY <1>4 DEF OnTheWire, Running
    <2>2. LeftUnmarked(cell)
      BY <1>4, <2>1 DEF LeftUnmarked, Out
    <2>3. cell # Free /\ \A b \in Attempts : cell # Indeterminate(b)
      BY <1>4 DEF Is, Indeterminate
    <2> QED BY <2>2, <2>3
  <1> QED BY <1>1, <1>2, <1>3, <1>4 DEF Covered

\* Whoever may write over the key, or release it, writes over no other message.
LEMMA WriterOut ==
  ASSUME IInv, OneOut, OnTheWire, Gapless, NEW a \in Attempts, Running(a),
         MayWrite(a) \/ MayRelease(a), NEW b \in Attempts, Out(b)
  PROVE  a = b /\ held[b] /\ Writing(b)
  <1> USE DEF IInv
  <1>1. Covered(b) /\ cell # Free
    BY NoneOut DEF OneOut
  <1>2. Holding(a) /\ cell = Processing(at[a])
    BY <1>1 DEF MayWrite, MayRelease, Holding
  <1>3. cell \notin {Indeterminate(b), Result(b)}
    BY <1>2 DEF Processing, Indeterminate, Result
  <1>4. held[b] /\ Writing(b)
    BY <1>1, <1>2, <1>3 DEF Covered
  <1>5. Holding(b)
    BY <1>4 DEF Holding, Writing, Running
  <1> QED BY <1>2, <1>4, <1>5, HolderAlone DEF Gapless

\* An attempt at work whose message is out has the key.
LEMMA WritingHas ==
  ASSUME IInv, OneOut, Gapless, NEW a \in Attempts, Writing(a), Out(a)
  PROVE  held[a] /\ cell = Processing(at[a]) /\ MayWrite(a)
  <1>1. held[a]
    BY DEF OneOut, Covered, Writing, Running
  <1>2. cell = Processing(at[a])
    BY <1>1 DEF IInv, HolderKeepsLock, Writing, Running, Gapless
  <1> QED BY <1>1, <1>2 DEF MayWrite

LEMMA OneOutStep == IInv /\ OneOut /\ OnTheWire /\ [Next]_vars => OneOut'
  <1> SUFFICES ASSUME IInv, OneOut, OnTheWire, [Next]_vars, Gapless'
               PROVE  OneOut'
    BY DEF OneOut
  <1> DEFINE Goal == \A a \in Attempts : Out(a)' => Covered(a)' /\ \A b \in Attempts \ {a} : ~Out(b)'
  <1> USE DEF IInv, TypeOK
  <1>1. Gapless
    BY GapsStay, ReservedStays DEF Gapless
  <1>2. \A a \in Attempts : Out(a) => Covered(a) /\ \A b \in Attempts \ {a} : ~Out(b)
    BY <1>1 DEF OneOut
  \* A step that leaves the key alone and sends nothing.
  <1>3. ASSUME cell' = cell, \A b \in Attempts : Holding(b)' => Holding(b),
               \A a \in Attempts : Out(a)' =>
                 /\ Out(a) /\ held'[a] = held[a] /\ at'[a] = at[a]
                 /\ Writing(a)' <=> Writing(a)
                 /\ Running(a)' => Running(a)
        PROVE  Goal
    <2> SUFFICES ASSUME NEW a \in Attempts, Out(a)' PROVE Covered(a)'
      BY <1>2, <1>3
    <2>1. Covered(a)
      BY <1>2, <1>3
    <2>2. (Is(cell, "processing") /\ cell.w = at[a])' <=> Is(cell, "processing") /\ cell.w = at[a]
      BY <1>3 DEF Is
    <2>3. (cell \in {Indeterminate(a), Result(a)})' <=> cell \in {Indeterminate(a), Result(a)}
      BY <1>3 DEF Indeterminate, Result
    <2> QED BY <1>3, <2>1, <2>2, <2>3 DEF Covered
  \* A step after which at most one message is out, and that one is covered.
  <1>4. ASSUME NEW a \in Attempts, \A b \in Attempts \ {a} : ~Out(b)', Out(a)' => Covered(a)'
        PROVE  Goal
    BY <1>4
  <1>5. ASSUME NEW a \in Attempts, NEW w \in Workers, Acquire(a, w) PROVE Goal
    <2>1. /\ \A b \in Attempts \ {a} : /\ pc'[b] = pc[b] /\ held'[b] = held[b]
                                       /\ at'[b] = at[b] /\ send'[b] = send[b]
          /\ pc[a] \in {"unborn", "reacquire"}
      BY <1>5 DEF Acquire, Acquiring, Work, Goto, Refuse
    <2>2. CASE cell = Free
      <3>1. \A b \in Attempts \ {a} : ~Out(b)'
        BY <1>1, <2>1, <2>2, NoneOut DEF Out
      <3>2. held'[a] /\ pc'[a] = "work"
        BY <1>5, <2>2 DEF Acquire, Work, Goto
      <3>3. Covered(a)'
        BY <3>2 DEF Covered, Writing
      <3> QED BY <1>4, <3>1, <3>3
    <2>3. CASE cell # Free
      <3>1. cell' = cell /\ UNCHANGED send /\ pc'[a] \in {"inspect", "answered"}
        BY <1>5, <2>3 DEF Acquire, Goto, Refuse
      <3>2. send[a] = "none"
        BY <2>1 DEF Phases
      <3> QED BY <1>3, <2>1, <3>1, <3>2 DEF Holding, Out, Writing, Running
    <2> QED BY <2>2, <2>3
  <1>6. ASSUME NEW a \in Attempts, NEW w \in Workers, AcquireFails(a, w) PROVE FALSE
    BY <1>6 DEF AcquireFails, Gapless
  <1>7. ASSUME NEW a \in Attempts, Inspect(a) \/ CheckHolder(a) PROVE Goal
    <2>1. /\ UNCHANGED <<cell, send, held, at>> /\ pc[a] \in {"inspect", "holder"}
          /\ pc'[a] \in {"reacquire", "holder", "steal", "answered"}
          /\ \A b \in Attempts \ {a} : pc'[b] = pc[b]
      BY <1>7 DEF Inspect, CheckHolder, Goto, Refuse
    <2> QED BY <1>3, <2>1 DEF Holding, Out, Writing, Running
  \* Who steals without a gap robs nobody.
  <1>8. ASSUME NEW a \in Attempts, pc[a] = "steal", cell = raw[a], gaps' = gaps \cup StealGaps(cell)
        PROVE  \A b \in Attempts : ~Out(b)
    <2>1. Is(cell, "processing")
      BY <1>8 DEF Suspected
    <2>2. ~HolderWorks(cell) /\ ~LeftUnmarked(cell)
      BY <1>8 DEF Gapless, StealGaps
    <2> QED BY <1>1, <2>1, <2>2, NoneOut
  <1>9. ASSUME NEW a \in Attempts, Steal(a) PROVE Goal
    <2>1. /\ \A b \in Attempts \ {a} : pc'[b] = pc[b] /\ held'[b] = held[b] /\ send'[b] = send[b]
          /\ pc[a] = "steal" /\ UNCHANGED at
      BY <1>9 DEF Steal, Work, Goto, Refuse
    <2>2. CASE cell = raw[a]
      <3>1. \A b \in Attempts \ {a} : ~Out(b)'
        BY <1>8, <1>9, <2>1, <2>2 DEF Steal, Out
      <3>2. held'[a] /\ pc'[a] = "work"
        BY <1>9, <2>2 DEF Steal, Work, Goto
      <3>3. Covered(a)'
        BY <3>2 DEF Covered, Writing
      <3> QED BY <1>4, <3>1, <3>3
    <2>3. CASE cell # raw[a]
      <3>1. UNCHANGED <<cell, send, held>> /\ pc'[a] = "answered"
        BY <1>9, <2>3 DEF Steal, Goto, Refuse
      <3> QED BY <1>3, <2>1, <3>1 DEF Holding, Out, Writing, Running
    <2> QED BY <2>2, <2>3
  <1>10. ASSUME NEW a \in Attempts, LookupFails(a) PROVE Goal
    <2>1. /\ \A b \in Attempts \ {a} : pc'[b] = pc[b]
          /\ pc[a] \in {"inspect", "holder", "steal"} /\ pc'[a] = "answered"
          /\ UNCHANGED <<held, send, at>>
      BY <1>10 DEF LookupFails, Goto, Refuse
    <2>2. CASE cell' = cell
      BY <1>3, <2>1, <2>2 DEF Holding, Out, Writing, Running
    <2>3. CASE cell' # cell
      <3>1. pc[a] = "steal" /\ cell = raw[a] /\ gaps' = gaps \cup StealGaps(cell)
        BY <1>10, <2>3 DEF LookupFails
      <3> QED BY <1>8, <2>1, <3>1 DEF Out
    <2> QED BY <2>2, <2>3
  <1>11. ASSUME NEW a \in Attempts, Sends(a) \/ SendFails(a) \/ SendRejects(a) \/ TimesOut(a) PROVE Goal
    <2>1. /\ UNCHANGED <<cell, held, at>> /\ pc[a] = "work" /\ send[a] = "wire"
          /\ \A b \in Attempts \ {a} : pc'[b] = pc[b] /\ send'[b] = send[b]
      BY <1>11 DEF Sends, SendFails, SendRejects, TimesOut, Goto, Phases
    <2>2. \/ pc'[a] \in {"cache", "mark"}
          \/ pc'[a] = "release" /\ send'[a] = "failed"
      <3>1. CASE Sends(a) \/ SendFails(a) \/ TimesOut(a)
        BY <1>1, <3>1 DEF Sends, SendFails, TimesOut, AfterTimeout, Goto, Gapless
      \* A message rejected after it went out leaves its gap.
      <3>2. CASE SendRejects(a)
        <4>1. "rejected" \notin gaps'
          BY DEF Gapless
        <4> QED BY <3>2, <4>1 DEF SendRejects, Goto
      <3> QED BY <1>11, <3>1, <3>2
    <2> QED BY <1>3, <2>1, <2>2 DEF Holding, Out, Writing, Running
  <1>12. ASSUME NEW a \in Attempts, NEW kind \in {"sent", "failed", "unproven"}, SettlesLate(a, kind)
         PROVE  Goal
    <2>1. /\ UNCHANGED <<cell, held, at>> /\ send[a] = "parked"
          /\ \A b \in Attempts \ {a} : pc'[b] = pc[b] /\ send'[b] = send[b]
      BY <1>12 DEF SettlesLate, Goto
    <2>2. \/ pc'[a] = pc[a]
          \/ pc'[a] = "clear" /\ send'[a] = "failed"
      BY <1>12 DEF SettlesLate, RetractOnVerdict, Definite, Outcome, Goto
    <2> QED BY <1>3, <2>1, <2>2 DEF Holding, Out, Writing, Running
  <1>13. ASSUME NEW a \in Attempts, Cache(a) \/ CacheFails(a) PROVE Goal
    <2>1. /\ UNCHANGED <<held, at, send>> /\ pc[a] = "cache" /\ pc'[a] \in {"answered", "release"}
          /\ \A b \in Attempts \ {a} : pc'[b] = pc[b]
      BY <1>13 DEF Cache, CacheFails, Goto
    <2>2. CASE MayWrite(a) /\ cell' = Result(a)
      <3>1. \A b \in Attempts \ {a} : ~Out(b)'
        BY <1>1, <2>1, <2>2, WriterOut DEF Out, Running
      <3>2. Covered(a)'
        BY <2>1, <2>2 DEF Covered, Writing, Result
      <3> QED BY <1>4, <3>1, <3>2
    <2>3. CASE ~MayWrite(a) /\ cell' = cell
      <3>1. ~Out(a)
        BY <1>1, <2>1, <2>3, WritingHas DEF Writing
      <3> QED BY <1>3, <2>1, <2>3, <3>1 DEF Holding, Out, Writing, Running
    <2>4. "uncached" \notin gaps'
      BY DEF Gapless
    <2> QED BY <1>13, <2>2, <2>3, <2>4 DEF Cache, CacheFails
  <1>14. ASSUME NEW a \in Attempts, Mark(a) \/ MarkFails(a) PROVE Goal
    <2>1. /\ UNCHANGED <<held, at, send>> /\ pc[a] = "mark" /\ pc'[a] \in {"answered", "clear"}
          /\ \A b \in Attempts \ {a} : pc'[b] = pc[b]
      BY <1>14 DEF Mark, MarkFails, Marked, Goto
    <2>2. CASE MayWrite(a) /\ cell' = Indeterminate(a)
      <3>1. \A b \in Attempts \ {a} : ~Out(b)'
        BY <1>1, <2>1, <2>2, WriterOut DEF Out, Running
      <3>2. Covered(a)'
        BY <2>1, <2>2 DEF Covered, Writing, Indeterminate
      <3> QED BY <1>4, <3>1, <3>2
    <2>3. CASE cell' = cell
      <3>1. CASE Out(a)
        <4>1. held[a] /\ cell = Processing(at[a])
          BY <1>1, <2>1, <3>1, WritingHas DEF Writing
        <4>2. \A b \in Attempts \ {a} : ~Holding(b)
          BY <1>1, <2>1, <4>1, HolderAlone DEF Holding, Running, Gapless
        <4>3. Is(cell, "processing") /\ cell.w = at[a]
          <5>1. at[a] \in Workers
            BY <2>1 DEF Served
          <5> QED BY <4>1, <5>1, FreeAssumption DEF Processing, Is
        <4>4. \A b \in Attempts : ~Holding(b)'
          BY <2>1, <4>2 DEF Holding, Running
        <4>5. Covered(a)'
          BY <2>1, <2>3, <4>1, <4>3, <4>4 DEF Covered, Running, Is
        <4>6. \A b \in Attempts \ {a} : ~Out(b)'
          BY <1>2, <2>1, <3>1 DEF Out
        <4> QED BY <1>4, <4>5, <4>6
      <3>2. CASE ~Out(a)
        BY <1>3, <2>1, <2>3, <3>2 DEF Holding, Out, Writing, Running
      <3> QED BY <3>1, <3>2
    <2> QED BY <1>14, <2>2, <2>3 DEF Mark, MarkFails
  <1>15. ASSUME NEW a \in Attempts, Release(a) \/ ReleaseFails(a) PROVE Goal
    <2>1. /\ UNCHANGED <<held, at, send>> /\ pc[a] = "release" /\ pc'[a] = "answered"
          /\ \A b \in Attempts \ {a} : pc'[b] = pc[b]
      BY <1>15 DEF Release, ReleaseFails, Goto
    <2>2. CASE cell' = cell
      BY <1>3, <2>1, <2>2 DEF Holding, Out, Writing, Running
    <2>3. CASE MayRelease(a)
      <3>1. \A b \in Attempts : ~Out(b)
        BY <1>1, <2>1, <2>3, WriterOut DEF Writing, Running
      <3> QED BY <2>1, <3>1 DEF Out
    <2> QED BY <1>15, <2>2, <2>3 DEF Release, ReleaseFails
  <1>16. ASSUME NEW a \in Attempts, Clear(a) \/ ClearFails(a) PROVE Goal
    <2>1. /\ UNCHANGED <<held, at, send>> /\ pc[a] = "clear" /\ pc'[a] = "answered"
          /\ \A b \in Attempts \ {a} : pc'[b] = pc[b]
      BY <1>16 DEF Clear, ClearFails, Goto
    <2>2. CASE cell' = cell
      BY <1>3, <2>1, <2>2 DEF Holding, Out, Writing, Running
    <2>3. CASE cell = Indeterminate(a)
      <3>1. \A b \in Attempts : ~Out(b)
        BY <1>1, <2>1, <2>3, NoneOut DEF Phases
      <3> QED BY <2>1, <3>1 DEF Out
    <2> QED BY <1>16, <2>2, <2>3 DEF Clear, ClearFails
  <1>17. ASSUME NEW w \in Workers, Crash(w) PROVE Goal
    <2>1. UNCHANGED <<cell, held, at>>
      BY <1>17 DEF Crash
    <2>5. \A a \in Attempts : pc'[a] = IF at[a] = w THEN "gone" ELSE pc[a]
      BY <1>17 DEF Crash
    <2>2. \A a \in Attempts : Out(a)' => Out(a)
      BY <1>17 DEF Crash, Out
    <2>3. \A a \in Attempts : at[a] = w /\ Running(a) => ~Out(a)'
      <3>1. "died" \notin gaps'
        BY DEF Gapless
      <3>2. \A a \in Attempts : at[a] = w /\ Running(a) => send'[a] # "sent"
        BY <1>17, <3>1 DEF Crash
      <3>3. \A a \in Attempts : at[a] = w => send'[a] \notin {"wire", "parked"}
        BY <1>17 DEF Crash
      <3> QED BY <3>2, <3>3 DEF Out
    <2> QED BY <1>3, <2>1, <2>2, <2>3, <2>5 DEF Holding, Writing, Running
  <1>18. ASSUME NEW w \in Workers, Restart(w) \/ RegistryExpires(w) \/ Heartbeat(w) PROVE Goal
    <2>1. UNCHANGED <<cell, pc, held, at, send>>
      BY <1>18 DEF Restart, RegistryExpires, Heartbeat, attempt
    <2> QED BY <1>3, <2>1 DEF Holding, Out, Writing, Running
  <1>19. ASSUME Expire PROVE Goal
    <2>1. UNCHANGED <<pc, send>> /\ "expired" \notin gaps'
      BY <1>19 DEF Expire, attempt, Gapless
    <2>2. \A a \in Attempts : send[a] \notin {"parked", "sent"}
      BY <1>19, <2>1 DEF Expire
    <2>3. \A a \in Attempts : send[a] # "wire"
      <3> SUFFICES ASSUME NEW a \in Attempts, send[a] = "wire" PROVE FALSE
        OBVIOUS
      <3>1. Writing(a) /\ Out(a)
        BY DEF OnTheWire, Writing, Out
      <3>2. HolderWorks(cell)
        BY <1>1, <3>1, WritingHas DEF HolderWorks, Writing, Running
      <3> QED BY <1>19, <3>2 DEF Expire
    <2> QED BY <2>1, <2>2, <2>3 DEF Out
  <1>20. ASSUME UNCHANGED vars PROVE Goal
    <2>1. UNCHANGED <<cell, pc, held, at, send>>
      BY <1>20 DEF vars, attempt
    <2> QED BY <1>3, <2>1 DEF Holding, Out, Writing, Running
  <1> HIDE DEF Goal
  <1>21. Goal
    BY <1>5, <1>6, <1>7, <1>9, <1>10, <1>11, <1>12, <1>13, <1>14, <1>15, <1>16, <1>17, <1>18,
       <1>19, <1>20 DEF Next, Step, Fails
  <1> QED BY <1>21 DEF Goal, OneOut

LEMMA InitMInv == Init => MInv
  <1> SUFFICES ASSUME Init PROVE MInv
    OBVIOUS
  <1>1. \A a \in Attempts : cell # Result(a) /\ cell # Indeterminate(a)
    BY FreeAssumption DEF Init, Result, Indeterminate
  <1>2. \A a \in Attempts : send[a] = "none" /\ pc[a] = "unborn" /\ answer[a] = None
    BY DEF Init
  <1>3. None \notin {"200", "200 cached", "not sent", "504 retry"}
    BY NoneAssumption DEF Answers
  <1>4. OneOut /\ OnTheWire /\ AnswersTrue
    BY <1>2 DEF OneOut, Out, OnTheWire, AnswersTrue
  <1>5. Told /\ Retractable
    BY <1>1, <1>2, <1>3 DEF Told, Retractable
  <1> QED BY <1>4, <1>5 DEF MInv

LEMMA NextMInv == IInv /\ MInv /\ [Next]_vars => MInv'
  BY OneOutStep, OnTheWireStep, ToldStep, AnswersStep, RetractableStep DEF MInv

THEOREM MessageInvariant == Spec => [](IInv /\ MInv)
  BY InitIInv, NextIInv, InitMInv, NextMInv, PTL DEF Spec

\* However many retries, workers and mishaps there are: as long as none of the gaps
\* was met, one attempt at a key has sent its message, at most.
THEOREM AtMostOnceSent == Spec => []AtMostOnce
  <1>1. OneOut => AtMostOnce
    <2> SUFFICES ASSUME OneOut, Gapless
                 PROVE  Cardinality({a \in Attempts : send[a] = "sent"}) <= 1
      BY DEF AtMostOnce, Gapless
    <2> DEFINE sent == {a \in Attempts : send[a] = "sent"}
    <2>1. \A a, b \in sent : a = b
      BY DEF OneOut, Out
    <2>2. sent = {} \/ \E a : sent = {a}
      BY <2>1
    <2>3. Cardinality(sent) \in {0, 1}
      BY <2>2, FS_EmptySet, FS_Singleton, Zenon
    <2> QED BY <2>3
  <1> QED BY <1>1, MessageInvariant, PTL DEF MInv

\* Whatever the client is told of its send is so, in every order of timeouts, late
\* outcomes, crashes and retries; a 504 leaves the marker standing as long as the
\* send may yet go out.
THEOREM AnswersAreTrue == Spec => []AnswersTrue
  <1>1. MInv => AnswersTrue
    BY DEF MInv
  <1> QED BY <1>1, MessageInvariant, PTL

\* Once an attempt that knows its send never happened is done, its marker is gone,
\* whether the marker or the proof came first.
THEOREM RetractedOnProof == Spec => []Retracted
  <1>1. MInv => Retracted
    BY DEF MInv, Retractable, Retracted
  <1> QED BY <1>1, MessageInvariant, PTL
=============================================================================
