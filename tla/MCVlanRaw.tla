------------------------------ MODULE MCVlanRaw ------------------------------
(***************************************************************************)
(* What the comments of kit/vlan_raw.c say of its two operations, stated   *)
(* without the reservation that calls do not overlap.                      *)
(***************************************************************************)
EXTENDS VlanRaw

\* Lines 50 and 71: a call adds ports to a VLAN, or removes ports from one.
\* Broken by two overlapping calls: one stores the port set of the other, so
\* that ports nobody named join or leave a VLAN.  (The port of the CPU is left out:
\* every call adds it, alone or not.)
OnlyNamedPortsChange ==
  [][\A v \in Vid, p \in Low \union High :
        ((p \in table[v].bits) # (p \in table'[v].bits)) =>
           \E c \in Caller : pc[c] # "idle" /\ call[c].vid = v /\ p \in call[c].ports]_vars

=============================================================================
