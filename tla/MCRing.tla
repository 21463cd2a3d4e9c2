------------------------------- MODULE MCRing -------------------------------
(***************************************************************************)
(* The ring with the first and the last port number that can be given.     *)
(***************************************************************************)
EXTENDS Ring, FiniteSets

PortNumbers == [in |-> 28, out |-> 1]

\* A bound: links change and frames are lost while few frames are under way.
Busy == 3

MCNext ==
  \/ NodeStep
  \/ Cardinality(wire) <= Busy /\ \E l \in Link : LinkFails(l) \/ LinkReturns(l)
  \/ Cardinality(wire) <= Busy /\ \E f \in wire : FrameLost(f)

MCSpec == Init /\ [][MCNext]_vars
=============================================================================
