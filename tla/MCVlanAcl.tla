----------------------------- MODULE MCVlanAcl ------------------------------
(***************************************************************************)
(* Two components that share no register, in one run: the VLAN table as    *)
(* kit/vlan_raw.c reaches it, and the ACL rules of the driver.  A behaviour*)
(* moves one of the two and the other stays as it is.                      *)
(***************************************************************************)
EXTENDS VlanRaw, AclRules

VARIABLE moves

allVars == <<vars, aclVars, moves>>

MCInit ==
  /\ Init /\ AclInit
  /\ moves \in {"vlan", "acl"}
  /\ moves = "acl" => table = [v \in Vid |-> [bits |-> {}, rest |-> "other"]]

VlanMove == moves = "vlan" /\ Next /\ UNCHANGED <<aclVars, moves>>
AclMove  == moves = "acl" /\ AclNext /\ UNCHANGED <<vars, moves>>

MCNext == VlanMove \/ AclMove

MCSpec == MCInit /\ [][MCNext]_allVars
=============================================================================
