--------------------------- MODULE MCTransportNode ---------------------------
(***************************************************************************)
(* What the comments of node/transport_node.c say of the node, stated on   *)
(* TransportNode as the comments state it.  The code does not keep these   *)
(* promises.                                                               *)
(***************************************************************************)
EXTENDS TransportNode

VARIABLE fault   \* a register access of some job has failed

\* TransportNode with the history variable, for a process that is not ended.
MCInit == Init /\ fault = FALSE
MCNext ==
  /\ Next
  /\ StayUp
  /\ fault' = (fault \/ \E w \in Worker : stage[w] = "vlan" /\ MoreEntries(w)
                                            /\ stage'[w] # "vlan")
MCSpec == MCInit /\ [][MCNext]_<<vars, fault>>

\* Lines 410-413: the node goes from PREFORWARDING to UP and opens the port.
\* Broken by a job of complete or check that opens the port before the block
\* that detect has under way is done: the node is UP and the port stays closed.
UpMeansOpen ==
  (~fault /\ Quiet /\ status = "UP") => \A p \in Port : Forwards(p)

\* Lines 236-237: in UP, a port going down leads to DOWN.  Broken by a port
\* that goes down again in PREFORWARDING.
UpMeansLinksUp ==
  (stage["detect"] = "idle" /\ status = "UP") => seen = Port

=============================================================================
