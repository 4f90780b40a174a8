------------------------------- MODULE MCSession -------------------------------
(***************************************************************************)
(* One TLC run for the four protocols a connection takes part in that share *)
(* no state: the send breaker, the stall watchdog, the auth state and the   *)
(* delivery of edits.  `focus` says which of them moves; the others stay at *)
(* an initial state, so the run has the sum of their states.                *)
(***************************************************************************)
EXTENDS SendBreaker, SendStall, AuthState, EditDelivery, TLC

CONSTANTS
  c1,     \* the connection that is there at the start
  w1,     \* the instance that holds the lease at the start
  m1, m2  \* two edited messages

VARIABLE focus

Event3(kind, orig, at) == [kind |-> kind, target |-> m1, orig |-> orig, at |-> at]

\* A live edit of a message, with or without its original.
NewEdits(m) == {e \in EventsOf(m, {1}) : e.at = 1 /\ e.kind # "dump"}

\* An original and two edits of one message, in the orders and over the channels
\* they can take; and one event about each of two messages, the second a live edit.
MCTraffic ==
  {<<a, b, c>> :
     a \in {Event3("live", TRUE, 0), Event3("dump", TRUE, 0),
            Event3("dump", TRUE, 1), Event3("live", FALSE, 2)},
     b \in {Event3("live", FALSE, 1), Event3("plain", FALSE, 1), Event3("live", TRUE, 2)},
     c \in {Event3("live", FALSE, 1), Event3("live", FALSE, 2),
            Event3("plain", FALSE, 2), Event3("live", TRUE, 0)}}
  \cup {<<a, b>> : a \in EventsOf(m1, {1}), b \in NewEdits(m2)}

\* Connections and instances are interchangeable: one initial state stands for all.
FirstConn == registry[owner] = c1 /\ owner = w1
FirstOwner == lease.owner = w1
IdleTraffic ==
  /\ event = <<Event3("live", TRUE, 0), Event3("live", FALSE, 1), Event3("live", FALSE, 1)>>
  /\ filed = {}

\* Every property of the run is a safety property, so this symmetry is sound.
LaterConns == Permutations(Conns \ {c1})

SessionInit ==
  /\ focus \in {"breaker", "stall", "auth", "edits"}
  /\ BreakerInit
  /\ StallInit /\ FirstConn
  /\ AuthInit /\ FirstOwner
  /\ EditInit /\ (focus # "edits" => IdleTraffic)

SessionNext ==
  /\ UNCHANGED focus
  /\ \/ /\ focus = "breaker" /\ BreakerNext
        /\ UNCHANGED <<stallVars, authVars, editVars>>
     \/ /\ focus = "stall" /\ StallNext
        /\ UNCHANGED <<breakerVars, authVars, editVars>>
     \/ /\ focus = "auth" /\ AuthNext
        /\ UNCHANGED <<breakerVars, stallVars, editVars>>
     \/ /\ focus = "edits" /\ EditNext
        /\ UNCHANGED <<breakerVars, stallVars, authVars>>
=============================================================================
