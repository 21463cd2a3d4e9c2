---------------------------- MODULE VlanSettings ----------------------------
(***************************************************************************)
(* The VLAN settings beside the table of VLANs, and those of the ACL       *)
(* beside the table of rules (ip1829func.c).  These commands number the    *)
(* ports from 0.                                                           *)
(***************************************************************************)
EXTENDS SwitchRegs

Port0 == {p - 1 : p \in Ports}

-----------------------------------------------------------------------------
(* What VLANs are made of.                                                 *)

VlanEgressFrame ==
  {Kept(<<"VlanEgressFrame">>, Run(2, Page2.EGRESS_CFG + 1, 13, 3), Word(3))}

VlanTagging == {OnOff(<<"VlanTagging">>, 2, Page2.VLANCFG, 3)}

(* VLANs of tags or of ports, in two bits of which one is read back.       *)
VlanType ==
  LET bits == Run(2, Page2.VLANCFG, 0, 2)
  IN  {[name |-> <<"VlanType">>, get |-> <<bits[2]>>, bars |-> {},
        options |-> {[Writing(bits, {}, {b \in {1, 2} : 1 \in x}) EXCEPT !.says = x] :
                       x \in {{}, {1}}}]}

-----------------------------------------------------------------------------
(* Groups of ports.  VlanGroup joins a set of ports with one another, or   *)
(* parts them; VlanPortMember sets the group of one port.                  *)

GroupOf(port) == Page2.VLANGROUP + 2 * port

VlanGroup ==
  LET bits(p, q) == UNION {{Run(2, GroupOf(i), j, 1)[1] : j \in {p, q}} :
                             i \in {p, q}}
      Join(p, q) == [on |-> bits(p, q), off |-> {}, says |-> {}]
      Part(p, q) == [on |-> {}, off |-> bits(p, q), says |-> {}]
  IN  UNION {{WriteOnly(<<"VlanGroup", p, q>>, {Join(p, q), Part(p, q)}) :
                q \in {r \in Port0 : p <= r}} : p \in Port0}

VlanPortMember ==
  {Kept(<<"VlanPortMember", p>>, TwoRegs(2, GroupOf(p)), Word(29)) : p \in Port0}

-----------------------------------------------------------------------------
(* Double tags.                                                            *)

VlanQinQPType ==
  {Kept(<<"VlanQinQPType">>, Run(7, Page7.QINQEGTYPELEN, 0, 16), Word(16))}

(* A mask selects the ports that are written: here all of them.            *)
MemberMap(family, page, reg) == {Kept(<<family>>, TwoRegs(page, reg), Word(29))}

VlanQinQPAddtag == MemberMap("VlanQinQPAddtag", 7, Page7.QINQ_ADDTAG)
VlanQinQPRmvtag == MemberMap("VlanQinQPRmvtag", 7, Page7.QINQ_RMVTAG)
VlanQinQPRxdet  == MemberMap("VlanQinQPRxdet", 7, Page7.QINQ_DET_RX)

(* The same bit of a register for each of the 29 ports.                    *)
BitOfEach(page, reg, at) == [b \in 1..29 |-> <<page, reg + b - 1, at>>]

VlanQinQPKeep ==
  {Kept(<<"VlanQinQPKeep">>, BitOfEach(7, Page7.QINQ_P_DATA, 12), Word(29))}

(* An index of 6 bits; a mark put at bit 8 is masked off again.            *)
VlanQinQPIndex ==
  {Kept(<<"VlanQinQPIndex", p>>, Run(7, Page7.QINQ_P_DATA + p, 0, 6), Word(6)) :
     p \in Port0}

VlanQinQIndex ==
  {Kept(<<"VlanQinQIndex", i>>, Run(7, Page7.QINQ_DATA + i, 0, 16), Word(16)) :
     i \in {0, 1, 63}}

-----------------------------------------------------------------------------
(* Ports: tags added and removed, uplinks, what is let in and out.         *)

VlanPortAddtag       == MemberMap("VlanPortAddtag", 2, Page2.ADDTAG)
VlanPortRmvtag       == MemberMap("VlanPortRmvtag", 2, Page2.RMVTAG)
VlanPortExclusive    == MemberMap("VlanPortExclusive", 2, Page2.EXCLUSIVE)
VlanPortIngressCheck == MemberMap("VlanPortIngressCheck", 2, Page2.INGRESS_CHK)

(* A bug to be caught: the whole second register is written.               *)
VlanPortEgressWide == {WholeMap(<<"VlanPortEgress">>, 2, Page2.EGRESS_CFG, 29)}

(* The upper bits of the second register are those of VlanEgressFrame.     *)
VlanPortEgress ==
  {Kept(<<"VlanPortEgress">>, Run(2, Page2.EGRESS_CFG, 0, 29), Word(29))}

(* Setting the uplinks enables them.                                       *)
VlanPortUplink ==
  LET map == Run(2, Page2.UPLINK, 0, 30)
  IN  {[name |-> <<"VlanPortUplink">>, get |-> SubSeq(map, 1, 29), bars |-> {},
        options |-> {[Writing(map, {}, x \cup {30}) EXCEPT !.says = x] :
                       x \in Word(29)}]}

VlanPortForce ==
  {Kept(<<"VlanPortForce">>, BitOfEach(2, Page2.PVIDCFG, 15), Word(29))}

VlanPortVid ==
  {Kept(<<"VlanPortVid", p>>, Run(2, Page2.PVIDCFG + p, 0, 12), Word(12)) :
     p \in Port0}

VlanPortIngressFrame ==
  {Kept(<<"VlanPortIngressFrame", p>>, Run(2, Page2.INGRESS_FRAME, 2 * p, 2),
        Word(2)) : p \in Port0}

-----------------------------------------------------------------------------
(* The four protocol VLANs, two registers each.                            *)

Protocols == 1..4

ProtocolReg(i) == Page2.PROTOCOL_CFG + 2 * (i - 1)

VlanProtocolType ==
  {Kept(<<"VlanProtocolType", i>>, Run(2, ProtocolReg(i), 0, 16), Word(16)) :
     i \in Protocols}

VlanProtocolVid ==
  {Kept(<<"VlanProtocolVid", i>>, Run(2, ProtocolReg(i) + 1, 0, 12), Word(12)) :
     i \in Protocols}

VlanProtocolMode ==
  {Kept(<<"VlanProtocolMode", i>>, Run(2, ProtocolReg(i) + 1, 12, 2), Word(2)) :
     i \in Protocols}

VlanProtocolClear ==
  {WriteOnly(<<"VlanProtocolClear", i>>,
             {Writing(Run(2, ProtocolReg(i), 0, 32), {}, {})}) : i \in Protocols}

-----------------------------------------------------------------------------
(* What the actions of the ACL refer to.                                   *)

AclFunctionEn == {OnOff(<<"AclFunctionEn">>, 1, Page1.MISCCFG, 0)}

(* A rate is kept in units of 1.28, or of 20 with the eighth bit, rounded  *)
(* up.  163, the last that is tried in the small unit, rounds up to 128    *)
(* units, which is the eighth bit and nothing else.                        *)
AclRate(rate) ==
  IF rate > 163 THEN 128 + (100 * rate + 1999) \div 2000
                ELSE (100 * rate + 127) \div 128

AclBW ==
  {Kept(<<"AclBW", i>>, Run(2, Page2.ACL_BW, 8 * i, 8),
        Codes({AclRate(r) : r \in {0, 1, 162, 163, 164, 1000}})) : i \in {0, 1, 15}}

AclDscp ==
  {Kept(<<"AclDscp", i>>, Run(7, Page7.DSCP_REMARKING, 8 * i, 8), Word(8)) :
     i \in {0, 1, 7}}

AclVlanGroup ==
  {Kept(<<"AclVlanGroup", i>>, Run(2, Page2.ACL_VLAN, 32 * i, 32), Word(32)) :
     i \in {0, 1, 31}}

(* Fifteen bits each, two of them in two registers: the odd one begins in  *)
(* the last bit of the first register.  The first registers are those of   *)
(* the protocol VLANs.                                                     *)
AclVidRemark ==
  {Kept(<<"AclVidRemark", i>>,
        IF i % 2 = 0 THEN Run(2, Page2.ACL_VID_REMARK + i, 0, 15)
                     ELSE Run(2, Page2.ACL_VID_REMARK + i - 1, 15, 15),
        Word(15)) : i \in {0, 1, 7, 8, 31}}
=============================================================================
