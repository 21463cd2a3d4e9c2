---------------------------- MODULE TransportSpec ----------------------------
(***************************************************************************)
(* What the status of a transport node promises, without threads, jobs,    *)
(* frames or the switch: the comments of node/transport_node.c (235-240,   *)
(* 410-413, 445-448) read as one state machine.  TransportNode implements  *)
(* it.                                                                     *)
(***************************************************************************)
EXTENDS Naturals

CONSTANT Limit  \* ticks that PREFORWARDING lasts without a complete-flush-fdb

VARIABLES running,  \* there is a process
          state,    \* "UP", "DOWN" or "PREFORWARDING"
          preport,  \* the port that came back last, or "none"
          by,       \* the thread that last changed the state, or "none"
          silent    \* ticks since PREFORWARDING began, 0 in the other states

vars == <<running, state, preport, by, silent>>

Fresh == state = "UP" /\ preport = "none" /\ by = "none" /\ silent = 0

Init == running = FALSE /\ Fresh

Start == ~running /\ running' = TRUE /\ Fresh'
Stop  == running /\ running' = FALSE /\ UNCHANGED <<state, preport, by, silent>>

\* The links as the node finds them.
Look ==
  /\ running /\ by = "none"
  /\ state' \in {"UP", "DOWN"} /\ by' = "detect"
  /\ UNCHANGED <<running, preport, silent>>

LinkDown ==
  /\ running /\ by # "none" /\ state = "UP"
  /\ state' = "DOWN" /\ by' = "detect"
  /\ UNCHANGED <<running, preport, silent>>

LinkBack(p) ==
  /\ running /\ by # "none" /\ state = "DOWN"
  /\ state' = "PREFORWARDING" /\ preport' = p /\ by' = "detect"
  /\ UNCHANGED <<running, silent>>

\* A complete-flush-fdb has come round, or complete woke up without one.
Complete ==
  /\ running /\ state = "PREFORWARDING"
  /\ state' = "UP" /\ by' = "complete" /\ silent' = 0
  /\ UNCHANGED <<running, preport>>

Tick ==
  /\ running /\ state = "PREFORWARDING" /\ silent < Limit
  /\ silent' = silent + 1 /\ UNCHANGED <<running, state, preport, by>>

\* One tick more than Limit: the only change of the check thread.
Expire ==
  /\ running /\ state = "PREFORWARDING" /\ silent = Limit
  /\ state' = "UP" /\ by' = "check" /\ silent' = 0
  /\ UNCHANGED <<running, preport>>

Next ==
  \/ Start \/ Stop \/ Look \/ LinkDown \/ (\E p \in {"main", "second"} : LinkBack(p))
  \/ Complete \/ Tick \/ Expire

Spec == Init /\ [][Next]_vars

\* The clock ticks on: PREFORWARDING does not last.
Liveness == WF_vars(Tick \/ Expire)

=============================================================================
