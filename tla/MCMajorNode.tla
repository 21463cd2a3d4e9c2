----------------------------- MODULE MCMajorNode -----------------------------
(***************************************************************************)
(* What a comment of node/major_node.c says of the major node, stated on   *)
(* MajorNode as the comment states it, without the reservations of         *)
(* PortFollowsStatus.  The code does not keep this promise.                *)
(***************************************************************************)
EXTENDS MajorNode

\* Lines 343-344: a hello from the second port in the failed state leads to
\* the complete state with the second port blocked.  Broken by a hello that
\* arrives while check_hello_thread still releases the port.
CompleteMeansBlocked ==
  (by # "none" /\ "faulted" \notin history /\ Quiet
   /\ phase # "off" /\ status = "COMPLETE") => Blocked

=============================================================================
