--------------------------- MODULE CaptureSettings --------------------------
(***************************************************************************)
(* The settings by which the switch takes frames out of the stream: to the *)
(* CPU, to all ports or nowhere, by layer 2 and layer 3 protocol, by IPv6  *)
(* header, by TCP or UDP port and TCP flags, by IGMP type and by the table *)
(* of known addresses, IMP (ip1829func.c).                                 *)
(***************************************************************************)
EXTENDS SwitchRegs

Forward == 0
AllPort == 1
ToCpu   == 2
Drop    == 3

(* A field of n bits for each index i, the first at bit 0 of reg.          *)
EachField(family, page, reg, n, indices, values) ==
  {Kept(<<family, i>>, Run(page, reg, n * i, n), values) : i \in indices}

-----------------------------------------------------------------------------
(* Layer 2 protocols, 0 BPDU to 9 group 3; they cannot go to all ports.    *)
L2CapAct ==
  EachField("L2CapAct", 0, Page0.L2FRAMEGETCTRL, 2, {0, 7, 8, 9},
            Codes({Forward, ToCpu, Drop}))

(* Frames for the switch itself, and what of them the CPU is spared.       *)
CapInBand == {OnOff(<<"CapInBand">>, 0, Page0.MACBEHAVIOR, 6)}

CapInBandRestrict ==
  {OnOff(<<"CapInBandRestrict">>, 0, Page0.INBANDRESTRICT + 1, 15)}

CapInBandRestrictCfg ==
  EachField("CapInBandRestrictCfg", 0, Page0.INBANDRESTRICT, 1,
            Edges(0, 30), {{}, {1}})

(* The address of the switch, its first bytes in the last register.        *)
CapSwitchMac == {Kept(<<"CapSwitchMac">>, Run(0, Page0.MACADDRESS, 0, 48), Word(48))}

(* Layer 3 protocols: ICMP, TCP, UDP, OSPF, two of the user, other IPv4.   *)
L3Tcp == 1
L3Udp == 2
L3Usr1 == 4

L3Places(ptcl) == Run(0, Page0.L3FRAMEGETCTRL, 2 * ptcl, 2)

CapL3Act ==
  {Kept(<<"CapL3Act", i>>, L3Places(i), Codes(Forward..Drop)) : i \in 0..6}

CapL3User ==
  {Kept(<<"CapL3User", i>>, Run(0, Page0.L3USERDEF, 8 * (i - L3Usr1), 8),
        Word(8)) : i \in {L3Usr1, L3Usr1 + 1}}

CapEtherUser ==
  {Kept(<<"CapEtherUser">>, Run(0, Page0.ETHERUSERDEF, 0, 16), Word(16))}

-----------------------------------------------------------------------------
(* IPv6 headers: fragment, encapsulation, authentication, ICMPv6, MLD,     *)
(* NDP, two headers of the user, two ICMPv6 types of the user.             *)

USER1 == 6
USER2 == 7

CapIpv6TcpUdpEnable     == {OnOff(<<"CapIpv6TcpUdpEnable">>, 0, Page0.IPV6RLTCFG, 0)}
CapIpv6TcpUdpFlagEnable == {OnOff(<<"CapIpv6TcpUdpFlagEnable">>, 0, Page0.IPV6RLTCFG, 1)}
CapIpv6ToAllPortsHigh   == {OnOff(<<"CapIpv6ToAllPortsHigh">>, 0, Page0.IPV6RLTCFG, 8)}
CapIpv6ToCpuHigh        == {OnOff(<<"CapIpv6ToCpuHigh">>, 0, Page0.IPV6RLTCFG, 9)}

(* Whether the search for an upper protocol stops at a header.  The bit of *)
(* the second header of the user is also that of CapIpv6ToAllPortsHigh.    *)
CapIpv6StopFinding ==
  {OnOff(<<"CapIpv6StopFinding", h>>, 0, Page0.IPV6RLTCFG,
         IF h <= 2 THEN 5 - h ELSE h + 1) : h \in {0, 1, 2, USER1, USER2}}

CapIpv6Act ==
  EachField("CapIpv6Act", 0, Page0.IPV6RLTFWD, 2, 0..9, Codes(Forward..Drop))

CapIpv6User ==
  {Kept(<<"CapIpv6User", h>>, Run(0, Page0.IPV6NXHEADUSER, 8 * (h - USER1), 8),
        Word(8)) : h \in {USER1, USER2}}

CapIcmpv6User ==
  EachField("CapIcmpv6User", 0, Page0.ICMPV6TYPEUSER, 8, 0..3, Word(8))

-----------------------------------------------------------------------------
(* TCP and UDP ports: fifteen known ones and five of the user.             *)

TcpUdp == {0, 3, 4, 15, 16, 19}

CosTcpUdpUserDefine ==
  EachField("CosTcpUdpUserDefine", 0, Page0.TCPUDPUSERDEF, 16, {0, 1, 7}, Word(16))

(* A queue from 0 to 7, or 9 to the CPU, 10 dropped, 11 to all ports.      *)
CosTcpUdpQueue ==
  EachField("CosTcpUdpQueue", 0, Page0.TCPUDPPRICFG, 4, TcpUdp, Codes({0, 7, 9, 11}))

CosTcpUdpEnable == EachPort("CosTcpUdpEnable", 0, Page0.TCPUDFUNCEN)

(* Refused while every frame of the protocol is dropped.                   *)
CosUnlessDropped(family, reg, l3) ==
  LET bit(i) == Run(0, reg, i, 1)
  IN  {Setting(<<family, i>>, bit(i), bit(i), {}, {Places(L3Places(l3))},
               {{}, {1}}) : i \in TcpUdp}

CosTcpEnable == CosUnlessDropped("CosTcpEnable", Page0.TCPCHECKEN, L3Tcp)
CosUdpEnable == CosUnlessDropped("CosUdpEnable", Page0.UDPCHECKEN, L3Udp)

-----------------------------------------------------------------------------
(* Four combinations of TCP flags.                                         *)

Flags == 0..3

CosTcpFlagDropNull   == {OnOff(<<"CosTcpFlagDropNull">>, 0, Page0.TCPFLGCFGGLB, 0)}
CosTcpFlagDropAllset == {OnOff(<<"CosTcpFlagDropAllset">>, 0, Page0.TCPFLGCFGGLB, 1)}

(* Four bits are accepted and eight written.  The get command puts what it *)
(* reads where the caller put the index, not into the answer.              *)
CosTcpFlag ==
  {Setting(<<"CosTcpFlag", i>>, Run(0, Page0.TCPFLGCFG + i, 0, 8), << >>,
           {}, {}, Word(4)) : i \in Flags}

CosTcpFlagAct ==
  LET field(i) == Run(0, Page0.TCPFLGCFG + i, 12, 2)
  IN  {Setting(<<"CosTcpFlagAct", i>>, field(i), field(i), {},
               {Places(L3Places(L3Tcp))}, Codes(0..3)) : i \in Flags}

CosTcpFlagPort ==
  {Kept(<<"CosTcpFlagPort", i>>, TwoRegs(0, Page0.TCPFLGPORTEN + 2 * i),
        Word(29)) : i \in Flags}

-----------------------------------------------------------------------------
(* IGMP.                                                                   *)

IGMPSnooping   == {OnOff(<<"IGMPSnooping">>, 1, Page1.IGMPSNOP, 0)}
IGMPMctByCPU   == {OnOff(<<"IGMPMctByCPU">>, 1, Page1.IGMPSNOP, 1)}
IGMPGroupAgain == {OnOff(<<"IGMPGroupAgain">>, 1, Page1.IGMPSNOP, 5)}
IGMPRltByCPU   == {OnOff(<<"IGMPRltByCPU">>, 1, Page1.IGMPSNOP, 13)}

(* Query, leave, unregistered data and undefined packets have four bits    *)
(* for the ways they are forwarded; report, specific query and registered  *)
(* data have a fifth, for the members of the group, in the next register.  *)
IGMPPktForward ==
  {Kept(<<"IGMPPktForward", t>>, Run(1, Page1.IGMPPKTFWD, t, 4), Word(4)) :
     t \in {0, 4, 8, 12}}
  \cup
  {Kept(<<"IGMPPktForward", t>>, Run(1, Page1.IGMPPKTFWD + 1, t - 1, 5), Word(5)) :
     t \in {1, 6, 11}}

(* The ports that lead to routers.                                         *)
IGMPRlt == EachPort("IGMPRlt", 1, Page1.ROUTLIST)

IGMPHashMethod == {OnOff(<<"IGMPHashMethod">>, 1, Page1.IGMPPKTFWD + 1, 15)}

(* The same field as the action for the MLD header.                        *)
IGMPMldRule == {Kept(<<"IGMPMldRule">>, Run(0, Page0.IPV6RLTFWD, 8, 2), Word(2))}

-----------------------------------------------------------------------------
(* IMP.                                                                    *)

ImpMode       == {OnOff(<<"ImpMode">>, 2, Page2.IMPCFG + 1, 13)}
ImpPassNullIP == {OnOff(<<"ImpPassNullIP">>, 2, Page2.IMPCFG + 1, 14)}
ImpHash       == {OnOff(<<"ImpHash">>, 2, Page2.IMPCFG + 1, 15)}
ImpPort       == EachPort("ImpPort", 2, Page2.IMPCFG)
=============================================================================
