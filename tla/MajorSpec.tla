------------------------------ MODULE MajorSpec ------------------------------
(***************************************************************************)
(* What the status of a major node promises, without threads, jobs, frames *)
(* or the switch: the comments over the handlers of node/major_node.c read *)
(* as one state machine.  MajorNode implements it.                         *)
(***************************************************************************)
EXTENDS Naturals

CONSTANT Limit  \* silent ticks a COMPLETE ring tolerates

VARIABLES running,  \* there is a process
          state,    \* "COMPLETE" or "FAILED"
          by,       \* the thread that last changed the state, or "none"
          silent    \* in COMPLETE: ticks since the last hello came round

vars == <<running, state, by, silent>>

Init == running = FALSE /\ state = "FAILED" /\ by = "none" /\ silent = 0

Start ==
  /\ ~running /\ running' = TRUE
  /\ state' = "FAILED" /\ by' = "none" /\ silent' = 0

Stop  == running /\ running' = FALSE /\ UNCHANGED <<state, by, silent>>

\* A hello that came all the way round.
HelloBack ==
  /\ running
  /\ state' = "COMPLETE" /\ silent' = 0
  /\ by' = IF state = "FAILED" THEN "recv" ELSE by
  /\ UNCHANGED running

\* A transport node reports a broken link.
LinkDown ==
  /\ running /\ state = "COMPLETE"
  /\ state' = "FAILED" /\ by' = "recv" /\ silent' = 0 /\ UNCHANGED running

Tick ==
  /\ running /\ state = "COMPLETE" /\ silent < Limit
  /\ silent' = silent + 1 /\ UNCHANGED <<running, state, by>>

\* One tick more than Limit without a hello: the only step of the check thread
\* that changes the state.
Expire ==
  /\ running /\ state = "COMPLETE" /\ silent = Limit
  /\ state' = "FAILED" /\ by' = "check" /\ silent' = 0 /\ UNCHANGED running

Next == Start \/ Stop \/ HelloBack \/ LinkDown \/ Tick \/ Expire

Spec == Init /\ [][Next]_vars

\* The clock ticks on: a silent COMPLETE ring does not stay COMPLETE.
Liveness == WF_vars(Tick \/ Expire)

=============================================================================
