------------------------- MODULE SwitchSettingsProofs -------------------------
(***************************************************************************)
(* Every setting of the switch driver stays what it was set to: proved for *)
(* all ports at once, and for any order of any number of commands.         *)
(*                                                                         *)
(* The argument is a register map, Owners: for every place the names of    *)
(* the settings that have it.  The map is what a data sheet of the chip    *)
(* would print; the code has no such table, only the arithmetic of two     *)
(* hundred functions.  Of each command it is shown that it writes no place *)
(* that the map gives to others, and that its get command reads none but   *)
(* its own, unless the other is a companion or a clash.  Two commands then *)
(* cannot meet, and no pair of commands has to be looked at.               *)
(***************************************************************************)
EXTENDS SwitchSettings, TLAPS

-----------------------------------------------------------------------------
(* Whose the places are.                                                    *)

\* The number of bit at of a register, the bits of a page being counted on
\* from register to register.
Bit(reg, at) == 16 * reg + at

\* n places from a bit of a register on.
Field(reg, at, n) == Bit(reg, at) .. (Bit(reg, at) + n - 1)

\* One of the fields of n bits that follow one another from a register on,
\* counted from first.
Each(family, reg, n, first, x) ==
  {<<family, (x - Bit(reg, 0)) \div n + first>>}

\* Fields of three bits, five to a register.
FifthOf(reg, x) ==
  5 * ((x - Bit(reg, 0)) \div 16) + ((x - Bit(reg, 0)) % 16) \div 3

(* The register map: the settings whose commands write place x of a page.  *)
(* Places that no command writes may be given to any neighbour.            *)
Page0Captures(x) ==
  IF x < Bit(\h02, 0) THEN {<<"CapInBand">>}
  ELSE IF x < Bit(\h04, 0) THEN {<<"JumboPktFunc">>}
  ELSE IF x < Bit(\h08, 0) THEN Each("L2CapAct", \h06, 2, 0, x)
  ELSE IF x < Bit(\h09, 0) THEN Each("CapL3Act", \h08, 2, 0, x)
  ELSE IF x < Bit(\h0A, 0) THEN Each("CapL3User", \h09, 8, 4, x)
  ELSE IF x < Bit(\h12, 0) THEN Each("CosTcpUdpUserDefine", \h0A, 16, 0, x)
  ELSE IF x < Bit(\h19, 0) THEN Each("CosTcpUdpQueue", \h12, 4, 0, x)
  ELSE IF x < Bit(\h1B, 0) THEN Each("CosTcpUdpEnable", \h19, 1, 1, x)
  ELSE IF x < Bit(\h1D, 0) THEN Each("COSTCPUDPPort", \h1B, 1, 1, x)
  ELSE IF x < Bit(\h1F, 0) THEN Each("CosTcpEnable", \h1D, 1, 0, x)
  ELSE IF x < Bit(\h21, 0) THEN Each("CosUdpEnable", \h1F, 1, 0, x)
  ELSE IF x < Bit(\h22, 15) THEN Each("CapInBandRestrictCfg", \h21, 1, 0, x)
  ELSE IF x < Bit(\h23, 0) THEN {<<"CapInBandRestrict">>}
  ELSE {<<"CapEtherUser">>}

Page0Priorities(x) ==
  IF x < Bit(\h33, 8) THEN Each("BpduPortAct", \h30, 2, 1, x)
  ELSE IF x < Bit(\h3A, 0) THEN {<<"BpduCapMode">>}
  ELSE IF x < Bit(\h40, 0) THEN {<<"COSPhsicalPort", FifthOf(\h3A, x) + 1>>}
  ELSE IF x < Bit(\h41, 14) THEN Each("COS8021P", \h40, 1, 1, x)
  ELSE IF x < Bit(\h42, 0) THEN {<<"QOS8021PEdtion">>}
  ELSE IF x < Bit(\h44, 0) THEN Each("COSDSCP", \h42, 1, 1, x)
  ELSE IF x < Bit(\h45, 9) THEN {<<"QOSDSCPBaseDSCP", e>> : e \in 1..8}
  ELSE IF x < Bit(\h46, 0) THEN {<<"QOSDSCPBaseNoMatchAction">>}
  ELSE IF x < Bit(\h4A, 0) THEN {<<"QOSDSCPBaseDSCP", e>> : e \in 1..8}
  ELSE IF x < Bit(\h4C, 0) THEN Each("COSMACAddress", \h4A, 1, 1, x)
  ELSE IF x < Bit(\h4E, 0) THEN Each("COSVID", \h4C, 1, 1, x)
  ELSE IF x < Bit(\h50, 0) THEN Each("COSIPAddress", \h4E, 1, 1, x)
  ELSE IF x < Bit(\h52, 0) THEN Each("COSIGMP", \h50, 1, 1, x)
  ELSE IF x < Bit(\h54, 0) THEN Each("COSACL", \h52, 1, 1, x)
  ELSE IF x < Bit(\h5C, 0) THEN {<<"8021xFunc">>}
  ELSE {<<"CapSwitchMac">>}

Page0Loops(x) ==
  IF x < Bit(\h6C, 13) THEN {<<"LdFunc">>}
  ELSE IF x < Bit(\h6C, 14) THEN {<<"LdTimeUnit">>}
  ELSE IF x < Bit(\h6C, 15) THEN {<<"LdSMACB40">>}
  ELSE IF x < Bit(\h6D, 0) THEN {<<"LdRerandom">>}
  ELSE IF x < Bit(\h6D, 8) THEN {<<"LdPktSendTimer">>}
  ELSE IF x < Bit(\h6E, 0) THEN {<<"LdBlockReleaseTimer">>}
  ELSE IF x < Bit(\h71, 0) THEN {<<"LdDMAC">>}
  ELSE IF x < Bit(\h72, 0) THEN {<<"LdEtherType">>}
  ELSE IF x < Bit(\h73, 0) THEN {<<"LdSubType">>}
  ELSE IF x < Bit(\h74, 0) THEN {<<"LdDeviceID">>}
  ELSE IF x < Bit(\h74, 1) THEN {<<"CosTcpFlagDropNull">>}
  ELSE IF x < Bit(\h75, 0) THEN {<<"CosTcpFlagDropAllset">>}
  ELSE IF x < Bit(\h7B, 0)
       THEN IF x % 16 < 8 THEN Each("CosTcpFlag", \h75, 16, 0, x)
                          ELSE Each("CosTcpFlagAct", \h75, 16, 0, x)
  ELSE IF x < Bit(\h83, 0) THEN Each("CosTcpFlagPort", \h7B, 32, 0, x)
  ELSE IF x < Bit(\h84, 13) THEN {<<"EocFunc">>}
  ELSE IF x < Bit(\h84, 14) THEN {<<"EocClrBlockWhenRcvGood">>}
  ELSE IF x < Bit(\h84, 15) THEN {<<"EocReleaseTime">>}
  ELSE {<<"EocBlockClr">>}

Page0Ipv6(x) ==
  IF x < Bit(\hA4, 0) THEN Each("BandwidthIngressRate", \h87, 16, 1, x)
  ELSE IF x < Bit(\hA4, 1) THEN {<<"PtpEnable">>}
  ELSE IF x < Bit(\hA7, 0) THEN {<<"PtpToCpu">>}
  ELSE IF x < Bit(\hA7, 1) THEN {<<"CapIpv6TcpUdpEnable">>}
  ELSE IF x < Bit(\hA7, 3) THEN {<<"CapIpv6TcpUdpFlagEnable">>}
  ELSE IF x < Bit(\hA7, 6) THEN {<<"CapIpv6StopFinding", Bit(\hA7, 5) - x>>}
  ELSE IF x < Bit(\hA7, 8) THEN {<<"CapIpv6StopFinding", 6>>}
  ELSE IF x < Bit(\hA7, 9)
       THEN {<<"CapIpv6StopFinding", 7>>, <<"CapIpv6ToAllPortsHigh">>}
  ELSE IF x < Bit(\hA8, 0) THEN {<<"CapIpv6ToCpuHigh">>}
  ELSE IF x < Bit(\hAA, 0)
       THEN Each("CapIpv6Act", \hA8, 2, 0, x) \cup {<<"IGMPMldRule">>}
  ELSE IF x < Bit(\hAB, 0) THEN Each("CapIpv6User", \hAA, 8, 6, x)
  ELSE IF x < Bit(\hAD, 0) THEN Each("CapIcmpv6User", \hAB, 8, 0, x)
  ELSE IF x < Bit(\hAF, 0) THEN {<<"WolFunc">>}
  ELSE IF x < Bit(\hAF, 5) THEN {<<"WolIPThreshold">>}
  ELSE IF x < Bit(\hAF, 7) THEN {<<"WolIPUnit">>}
  ELSE IF x < Bit(\hAF, 8) THEN {<<"WolWakeIfTxGetAnyPkt">>}
  ELSE IF x < Bit(\hAF, 9) THEN {<<"WolWakeIfRxGetAnyPkt">>}
  ELSE IF x < Bit(\hAF, 10) THEN {<<"WolMode">>}
  ELSE IF x < Bit(\hAF, 11) THEN {<<"WolWakeIfMatchAcl2Cpu">>}
  ELSE IF x < Bit(\hB0, 0) THEN {<<"WolInterrupt">>}
  ELSE Each("WolStatusInSlaveMode", \hB0, 1, 1, x)

Page1Learning(x) ==
  IF x < Bit(\h01, 15) THEN {<<"LutAgingTime">>}
  ELSE IF x < Bit(\h02, 0) THEN {<<"LutAgingTimeEnable">>}
  ELSE IF x < Bit(\h02, 2) THEN {<<"LutLearningMode">>}
  ELSE IF x < Bit(\h02, 3) THEN {<<"LutLearningNullSA">>}
  ELSE IF x < Bit(\h02, 4) THEN {<<"LutHashingAlgorithm">>}
  ELSE IF x < Bit(\h02, 7) THEN {<<"LutUnknownSARule">>, <<"LutBindingEnable">>}
  ELSE IF x < Bit(\h03, 0) THEN {<<"LutLearnPktDropByVlanIgsChk">>}
  ELSE IF x < Bit(\h05, 0) THEN Each("SMACLearning", \h03, 1, 1, x)
  ELSE IF x < Bit(\h07, 0) THEN Each("SMACLrnCntCtrl", \h05, 1, 1, x)
  ELSE {<<"SMACLrnThreshold">>}

Page1Storms(x) ==
  IF x < Bit(\h0D, 8) THEN {<<"StormThreshold", s>> : s \in {1, 2, 4}}
  ELSE IF x < Bit(\h0D, 10) THEN {<<"StormCntrClrPeriod", s>> : s \in {1, 2, 4}}
  ELSE IF x < Bit(\h0D, 11) THEN {<<"StormBlockFrm2Cpu", s>> : s \in {1, 2}}
  ELSE IF x < Bit(\h0D, 12) THEN {<<"MStormNBlockIpPkt">>}
  ELSE IF x < Bit(\h0E, 0) THEN {<<"MStormIgnr01005EXXXXXX">>}
  ELSE IF x < Bit(\h10, 0) THEN {<<"StormFunc", 1>>}
  ELSE IF x < Bit(\h12, 0) THEN {<<"StormFunc", 2>>}
  ELSE IF x < Bit(\h14, 0) THEN {<<"StormFunc", 4>>}
  ELSE IF x < Bit(\h14, 8) THEN {<<"StormThreshold", 8>>}
  ELSE IF x < Bit(\h14, 10) THEN {<<"StormCntrClrPeriod", 8>>}
  ELSE IF x < Bit(\h14, 11) THEN {<<"StormBlockFrm2Cpu", 8>>}
  ELSE IF x < Bit(\h15, 0) THEN {<<"StormDropInterrupt", 8>>}
  ELSE IF x < Bit(\h17, 0) THEN {<<"StormFunc", 8>>}
  ELSE IF x < Bit(\h17, 8) THEN {<<"StormThreshold", 16>>}
  ELSE IF x < Bit(\h17, 10) THEN {<<"StormCntrClrPeriod", 16>>}
  ELSE IF x < Bit(\h18, 0) THEN {<<"StormDropInterrupt", 16>>}
  ELSE {<<"StormFunc", 16>>}

Page1Trunks(x) ==
  IF x < Bit(\h1C, 3) THEN {<<"TrunkHashMthd">>}
  ELSE IF x < Bit(\h1C, 4) THEN {<<"TrunkHashMthdSeq">>}
  ELSE IF x < Bit(\h1C, 5) THEN {<<"CpuNCareTrunkAndVlan">>}
  ELSE IF x < Bit(\h1C, 8) THEN Each("TrunkGrpCombine", \h1C, 1, 0, x)
  ELSE IF x < Bit(\h1D, 8) THEN {<<"TrunkMbr", x - Bit(\h1C, 8) + 1>>}
  ELSE IF x < Bit(\h1E, 0) THEN {<<"TrunkMbr", x - Bit(\h1D, 8) + 25>>}
  ELSE IF x < Bit(\h1F, 13) THEN {<<"SnifferDestGrp1">>}
  ELSE IF x < Bit(\h1F, 15) THEN {<<"S1Method">>}
  ELSE IF x < Bit(\h20, 0) THEN {<<"S1PktModify">>}
  ELSE IF x < Bit(\h21, 13) THEN {<<"SnifferDestGrp2">>}
  ELSE IF x < Bit(\h21, 14) THEN {<<"S2LTT4Grp1">>}
  ELSE IF x < Bit(\h22, 0) THEN {<<"S2LTT4Grp2">>}
  ELSE IF x < Bit(\h24, 0) THEN {<<"SnifferSrc">>}
  ELSE IF x < Bit(\h24, 1) THEN {<<"AclFunctionEn">>}
  ELSE IF x < Bit(\h24, 5) THEN {<<"LdFunc">>}
  ELSE IF x < Bit(\h24, 6) THEN {<<"S1TM4CpuSTag">>}
  ELSE IF x < Bit(\h24, 7) THEN {<<"S1TM4Acl2Cpu">>}
  ELSE {<<"S1TM4Pkt2MPort">>}

Page1Groups(x) ==
  IF x < Bit(\h29, 1) THEN {<<"IGMPSnooping">>}
  ELSE IF x < Bit(\h29, 2) THEN {<<"IGMPMctByCPU">>}
  ELSE IF x < Bit(\h29, 13) THEN {<<"IGMPGroupAgain">>}
  ELSE IF x < Bit(\h2A, 0) THEN {<<"IGMPRltByCPU">>}
  ELSE IF x < Bit(\h2B, 0)
       THEN {<<"IGMPPktForward", 4 * ((x - Bit(\h2A, 0)) \div 4)>>}
  ELSE IF x < Bit(\h2B, 15)
       THEN {<<"IGMPPktForward", 5 * ((x - Bit(\h2B, 0)) \div 5) + 1>>}
  ELSE IF x < Bit(\h2C, 0) THEN {<<"IGMPHashMethod">>}
  ELSE IF x < Bit(\h57, 0) THEN Each("IGMPRlt", \h2C, 1, 1, x)
  ELSE {<<"StpPortState", (x - Bit(\h57, 0)) \div 64 + 1,
          ((x - Bit(\h57, 0)) % 64) \div 2 + 1>>}
       \cup Each("StpAllPortsState", \h57, 64, 1, x)

Page2Vlans(x) ==
  IF x < Bit(\h02, 13) THEN Each("ImpPort", \h01, 1, 1, x)
  ELSE IF x < Bit(\h02, 14) THEN {<<"ImpMode">>}
  ELSE IF x < Bit(\h02, 15) THEN {<<"ImpPassNullIP">>}
  ELSE IF x < Bit(\h06, 0) THEN {<<"ImpHash">>}
  ELSE IF x < Bit(\h06, 3) THEN {<<"VlanType">>}
  ELSE IF x < Bit(\h06, 6) THEN {<<"VlanTagging">>}
  ELSE IF x < Bit(\h09, 0) THEN {<<"MstpFunc">>}
  ELSE IF x < Bit(\h0B, 0) THEN {<<"VlanPortIngressCheck">>}
  ELSE IF x < Bit(\h0F, 0) THEN Each("VlanPortIngressFrame", \h0B, 2, 0, x)
  ELSE IF x < Bit(\h10, 13) THEN {<<"VlanPortEgress">>}
  ELSE IF x < Bit(\h13, 0) THEN {<<"VlanEgressFrame">>}
  ELSE IF x < Bit(\h30, 0)
       THEN IF x % 16 < 15 THEN Each("VlanPortVid", \h13, 16, 0, x)
                           ELSE {<<"VlanPortForce">>}
  ELSE Each("VlanPortMember", \h30, 32, 0, x)
       \cup {<<"VlanGroup", p, q>> : p \in 0..28, q \in 0..28}

\* The registers of the protocol VLANs and those of the remarks of the ACL.
Page2Remarks(x) ==
  LET pair == (x - Bit(\h6A, 0)) \div 32
      at == (x - Bit(\h6A, 0)) % 32
  IN  {<<"AclVidRemark", IF at < 15 THEN 2 * pair ELSE 2 * pair + 1>>,
       <<"VlanProtocolClear", pair + 1>>}
      \cup (IF at < 16 THEN {<<"VlanProtocolType", pair + 1>>}
            ELSE IF at < 28 THEN {<<"VlanProtocolVid", pair + 1>>}
            ELSE {<<"VlanProtocolMode", pair + 1>>})

Page2Members(x) ==
  IF x < Bit(\hCA, 0) THEN Each("AclVlanGroup", \h8A, 32, 0, x)
  ELSE IF x < Bit(\hCC, 0) THEN {<<"VlanPortExclusive">>}
  ELSE IF x < Bit(\hCE, 0) THEN {<<"VlanPortAddtag">>}
  ELSE IF x < Bit(\hD0, 0) THEN {<<"VlanPortRmvtag">>}
  ELSE IF x < Bit(\hD9, 0) THEN {<<"VlanPortUplink">>}
  ELSE Each("AclBW", \hD9, 8, 0, x)

\* A map of the ports that the command of all link settings writes too.
Linked(family, reg, first, x) ==
  Each(family, reg, 1, first, x) \cup Each("PortLinkStatus", reg, 1, first, x)

Page3Links(x) ==
  IF x < Bit(\h03, 0) THEN Linked("PortAN", \h01, 1, x)
  ELSE IF x < Bit(\h04, 0) THEN Linked("PortSpeed", \h03, 25, x)
  ELSE IF x < Bit(\h06, 0) THEN Linked("PortSpeed", \h04, 1, x)
  ELSE IF x < Bit(\h08, 0) THEN Linked("PortDuplex", \h06, 1, x)
  ELSE IF x < Bit(\h0A, 0) THEN Linked("PortPause", \h08, 1, x)
  ELSE IF x < Bit(\h0C, 0) THEN Linked("PortAsymPause", \h0A, 1, x)
  ELSE IF x < Bit(\h0E, 0) THEN Each("PortBackpressure", \h0C, 1, 1, x)
  ELSE IF x < Bit(\h5C, 0) THEN Each("PortPowerDown", \h0E, 1, 1, x)
  ELSE IF x < Bit(\h66, 0) THEN Each("PortForceLink", \h5C, 1, 1, x)
  ELSE Each("PortUniDirection", \h66, 1, 1, x)

\* Eight queues of a port, five in its first register and three in its second.
Remapped(reg, first, x) ==
  {<<"QOSRemap", (x - Bit(reg, 0)) \div 32 + 1,
     5 * (((x - Bit(reg, 0)) % 32) \div 16) + ((x - Bit(reg, 0)) % 16) \div 3
       + first>>}

Page7Tags(x) ==
  IF x < Bit(\h03, 0) THEN {<<"VlanQinQPRmvtag">>}
  ELSE IF x < Bit(\h05, 0) THEN {<<"VlanQinQPAddtag">>}
  ELSE IF x < Bit(\h09, 0) THEN {<<"VlanQinQPRxdet">>}
  ELSE IF x < Bit(\h0A, 0) THEN {<<"VlanQinQPType">>}
  ELSE IF x < Bit(\h4A, 0) THEN Each("VlanQinQIndex", \h0A, 16, 0, x)
  ELSE IF x < Bit(\h67, 0)
       THEN IF x % 16 < 12 THEN Each("VlanQinQPIndex", \h4A, 16, 0, x)
                           ELSE {<<"VlanQinQPKeep">>}
  ELSE Each("AclDscp", \h67, 8, 0, x)

\* The fields of the mode register of a group of ports, up to bit 7.
Modes(group, reg, x) ==
  IF x < Bit(reg, 3) THEN {<<"QOSMode", group>>}
  ELSE IF x < Bit(reg, 5) THEN {<<"QOSUnit", group>>}
  ELSE IF x < Bit(reg, 7) THEN {<<"QOSMethod", group>>}
  ELSE {}

\* One of the bytes of the queues of a group of ports.
QueueOf(family, group, reg, x) ==
  {<<family, group, (x - Bit(reg, 0)) \div 8>>}

Page8Queues(x) ==
  IF x < Bit(\h01, 15) THEN Modes(0, \h01, x)
  ELSE IF x < Bit(\h02, 0)
       THEN {<<"QOSRatioValue0Def">>, <<"QOSMethod", 0>>, <<"QOSMethod", 1>>}
  ELSE IF x < Bit(\h0A, 0) THEN QueueOf("QOSWeight", 0, \h02, x)
  ELSE IF x < Bit(\h14, 0) THEN QueueOf("QOSMaxBandwidth", 0, \h0A, x)
  ELSE IF x < Bit(\h55, 0) THEN Remapped(\h14, 8, x)
  ELSE IF x < Bit(\h64, 0) THEN Each("QOSSBMDBM", \h55, 8, 1, x)
  ELSE IF x < Bit(\h66, 0)
       THEN Each("QOSDBMEn", \h64, 1, 1, x)
            \cup {<<"QOSMethod", 0>>, <<"QOSMethod", 1>>}
  ELSE IF x < Bit(\h66, 8) THEN {<<"QOSAgingTime">>}
  ELSE IF x < Bit(\h67, 0) THEN {<<"QOSFastAging">>}
  ELSE Each("QOSAgingFunction", \h67, 8, 1, x)

Page8Groups(x) ==
  IF x < Bit(\h76, 9) THEN Modes(1, \h76, x)
  ELSE IF x < Bit(\h77, 0) THEN {<<"QOSGroupBEn">>}
  ELSE IF x < Bit(\h79, 0) THEN Each("QOSmodeGroupMember", \h77, 1, 1, x)
  ELSE IF x < Bit(\h81, 0) THEN QueueOf("QOSWeight", 1, \h79, x)
  ELSE IF x < Bit(\h85, 0) THEN QueueOf("QOSMaxBandwidth", 1, \h81, x)
  ELSE IF x < Bit(\hB1, 0)
       THEN Each("BandwidthEgressRate", \h85, 16, 1, x)
            \cup Each("QOSEgressControl", \h85, 16, 1, x)
            \cup Each("GetQOSEgressControl", \h85, 16, 1, x)
  ELSE {<<"BandwidthEgressPeriod">>}

PageCTags(x) ==
  IF x < Bit(\h03, 1) THEN {<<"CpuPortLink">>}
  ELSE IF x < Bit(\h04, 0) THEN {<<"STagFunc">>}
  ELSE {<<"STagTypeLen">>}

OwnersAt(page, x) ==
  CASE page = 0 -> IF x < Bit(\h30, 0) THEN Page0Captures(x)
                   ELSE IF x < Bit(\h6B, 0) THEN Page0Priorities(x)
                   ELSE IF x < Bit(\h87, 0) THEN Page0Loops(x)
                   ELSE Page0Ipv6(x)
    [] page = 1 -> IF x < Bit(\h0D, 0) THEN Page1Learning(x)
                   ELSE IF x < Bit(\h1C, 0) THEN Page1Storms(x)
                   ELSE IF x < Bit(\h29, 0) THEN Page1Trunks(x)
                   ELSE Page1Groups(x)
    [] page = 2 -> IF x < Bit(\h6A, 0) THEN Page2Vlans(x)
                   ELSE IF x < Bit(\h8A, 0) THEN Page2Remarks(x)
                   ELSE Page2Members(x)
    [] page = 3 -> Page3Links(x)
    [] page = 6 -> Remapped(\h24, 0, x)
    [] page = 7 -> Page7Tags(x)
    [] page = 8 -> IF x < Bit(\h76, 0) THEN Page8Queues(x) ELSE Page8Groups(x)
    [] page = 12 -> PageCTags(x)
    [] OTHER -> {}

Owners(place) == OwnersAt(place[1], Bit(place[2], place[3]))

-----------------------------------------------------------------------------
(* What the proof needs of a setting: its set command writes only places   *)
(* that are its own; what its get command reads is its own or nobody's but *)
(* for the settings it is not independent of; and the get command finds    *)
(* there what the set command was given.                                   *)
Owns(m, place) == m \in Owners(place)

Apart(m, place) == \A k \in Owners(place) : k = m \/ Disturbs(k, m)

Stays(s) == \A o \in s.options : \A place \in o.on \cup o.off : Owns(s.name, place)

Returned(get, o) ==
  /\ o.says \subseteq DOMAIN get
  /\ \A b \in o.says : get[b] \in o.on
  /\ \A b \in DOMAIN get \ o.says :
       get[b] \notin o.on /\ (get[b] \in o.off \/ Owners(get[b]) = {})

Found(s) ==
  /\ \A b \in DOMAIN s.get : Apart(s.name, s.get[b])
  /\ \A o \in s.options : Returned(s.get, o)

Good(s) == Stays(s) /\ (s.get = << >> \/ s.name[1] \in Misread \/ Found(s))

\* The same, of n places from a bit of a register on: a name is among those
\* that have them, or has them apart from all others.
Among(m, page, reg, at, n) ==
  \A x \in Field(reg, at, n) : m \in OwnersAt(page, x)

Alone(m, page, reg, at, n) ==
  \A x \in Field(reg, at, n) :
    /\ m \in OwnersAt(page, x)
    /\ \A k \in OwnersAt(page, x) : k = m \/ Disturbs(k, m)

\* And of any places.
Distinct(bits) == \A b, c \in DOMAIN bits : bits[b] = bits[c] => b = c

Held(m, bits) == \A b \in DOMAIN bits : Owns(m, bits[b]) /\ Apart(m, bits[b])

-----------------------------------------------------------------------------
(* Places and values.                                                       *)

\* Place b of a run is bit at + b - 1, counted from the first register on.
LEMMA RunBits ==
  ASSUME NEW page, NEW reg \in Nat, NEW at \in Nat, NEW n \in Nat
  PROVE  /\ DOMAIN Run(page, reg, at, n) = 1..n
         /\ \A b \in 1..n :
              LET place == Run(page, reg, at, n)[b]
              IN  /\ place[1] = page
                  /\ place[2] \in Nat /\ place[3] \in 0..15
                  /\ Bit(place[2], place[3]) = Bit(reg, at) + b - 1
<1>1. ASSUME NEW b \in 1..n
      PROVE  LET y == at + b - 1
             IN  /\ y \div 16 \in Nat /\ y % 16 \in 0..15
                 /\ 16 * (reg + y \div 16) + (y % 16) = 16 * reg + at + b - 1
  <2> DEFINE y == at + b - 1
  <2>1. y \in Nat
    OBVIOUS
  <2> HIDE DEF y
  <2>2. y \div 16 \in Nat /\ y % 16 \in 0..15 /\ 16 * (y \div 16) + (y % 16) = y
    BY <2>1
  <2>3. 16 * (reg + y \div 16) + (y % 16) = 16 * reg + y
    BY <2>1, <2>2
  <2>4. QED
    BY <2>2, <2>3 DEF y
<1>2. QED
  BY <1>1 DEF Run, Bit

\* The places of a run differ.
LEMMA RunDistinct ==
  ASSUME NEW page, NEW reg \in Nat, NEW at \in Nat, NEW n \in Nat
  PROVE  Distinct(Run(page, reg, at, n))
<1> DEFINE run == Run(page, reg, at, n)
<1>1. DOMAIN run = 1..n
  BY RunBits
<1>2. ASSUME NEW b \in 1..n, NEW c \in 1..n, run[b] = run[c]
      PROVE  b = c
  <2>1. Bit(run[b][2], run[b][3]) = Bit(reg, at) + b - 1
    BY RunBits
  <2>2. Bit(run[c][2], run[c][3]) = Bit(reg, at) + c - 1
    BY RunBits
  <2>3. Bit(reg, at) + b - 1 = Bit(reg, at) + c - 1 /\ Bit(reg, at) \in Nat
    BY <1>2, <2>1, <2>2 DEF Bit
  <2>4. QED
    BY <2>3
<1>3. QED
  BY <1>1, <1>2 DEF Distinct

\* The number of one bit of a run.
LEMMA RunBitAt ==
  ASSUME NEW page, NEW reg \in Nat, NEW at \in Nat, NEW n \in Nat, NEW b \in 1..n
  PROVE  Bit(Run(page, reg, at, n)[b][2], Run(page, reg, at, n)[b][3])
           = Bit(reg, at) + b - 1
BY RunBits

\* Two runs of one page have a place in common only if a number is.
LEMMA RunsMeet ==
  ASSUME NEW page, NEW reg \in Nat, NEW at \in Nat, NEW n \in Nat,
         NEW reg2 \in Nat, NEW at2 \in Nat, NEW n2 \in Nat,
         NEW b \in 1..n, NEW c \in 1..n2,
         Run(page, reg, at, n)[b] = Run(page, reg2, at2, n2)[c]
  PROVE  Bit(reg, at) + b = Bit(reg2, at2) + c
<1> DEFINE run == Run(page, reg, at, n)
           run2 == Run(page, reg2, at2, n2)
<1>1. Bit(run[b][2], run[b][3]) = Bit(reg, at) + b - 1
  BY RunBitAt
<1>2. Bit(run2[c][2], run2[c][3]) = Bit(reg2, at2) + c - 1
  BY RunBitAt
<1>3. Bit(reg, at) \in Nat /\ Bit(reg2, at2) \in Nat
  BY DEF Bit
<1>4. QED
  BY <1>1, <1>2, <1>3

\* A run inside the stretch of a setting is its own.
LEMMA RunAmong ==
  ASSUME NEW m, NEW page, NEW reg \in Nat, NEW at \in Nat, NEW n \in Nat,
         Among(m, page, reg, at, n)
  PROVE  \A b \in 1..n : Owns(m, Run(page, reg, at, n)[b])
<1>1. SUFFICES ASSUME NEW b \in 1..n
               PROVE  Owns(m, Run(page, reg, at, n)[b])
  OBVIOUS
<1>2. Bit(reg, at) + b - 1 \in Field(reg, at, n)
  BY DEF Field, Bit
<1>3. QED
  BY <1>2, RunBits DEF Owns, Owners, Among

\* A run that a setting has to itself is its own and undisturbed.
LEMMA RunHeld ==
  ASSUME NEW m, NEW page, NEW reg \in Nat, NEW at \in Nat, NEW n \in Nat,
         Alone(m, page, reg, at, n)
  PROVE  Held(m, Run(page, reg, at, n))
<1>1. SUFFICES ASSUME NEW b \in 1..n
               PROVE  /\ Owns(m, Run(page, reg, at, n)[b])
                      /\ Apart(m, Run(page, reg, at, n)[b])
  BY RunBits DEF Held
<1>2. Bit(reg, at) + b - 1 \in Field(reg, at, n)
  BY DEF Field, Bit
<1>3. QED
  BY <1>2, RunBits DEF Owns, Apart, Owners, Alone

\* Numbers below 2^n, the weight of bit n + 1, have n bits.
Small(S, n) == \A v \in S : v \in Nat /\ v < Weights[n + 1]

HaveBits(codes, n) == codes \subseteq SUBSET (1..n)

LEMMA CodesFit ==
  ASSUME NEW S, NEW n \in 1..15, Small(S, n)
  PROVE  HaveBits(Codes(S), n)
<1>1. ASSUME NEW v \in S, NEW b \in 1..16, b > n
      PROVE  (v \div Weights[b]) % 2 = 0
  <2> DEFINE up == Weights[n + 1]
             w  == Weights[b]
  <2>1. v \in Nat /\ v < up
    BY DEF Small
  <2>2. up \in Nat /\ w \in Nat \ {0} /\ up <= w
    BY <1>1 DEF Weights
  <2> HIDE DEF up, w
  <2>3. v < w
    BY <2>1, <2>2
  <2>4. v \div w = 0
    BY <2>1, <2>2, <2>3
  <2>5. (v \div w) % 2 = 0
    BY <2>4
  <2>6. QED
    BY <2>5 DEF w
<1>2. \A x \in Codes(S) : \E v \in S : x = {b \in 1..16 : (v \div Weights[b]) % 2 = 1}
  BY DEF Codes
<1>3. ASSUME NEW v \in S
      PROVE  {b \in 1..16 : (v \div Weights[b]) % 2 = 1} \subseteq 1..n
  <2>1. ASSUME NEW b \in 1..16, (v \div Weights[b]) % 2 = 1
        PROVE  b \in 1..n
    <3>1. ~ (b > n)
      BY <1>1, <2>1
    <3>2. QED
      BY <3>1
  <2>2. QED
    BY <2>1
<1>4. QED
  BY <1>2, <1>3 DEF HaveBits

\* The same for the widths at hand.
LEMMA TwoBits ==
  ASSUME NEW S, \A v \in S : v \in Nat /\ v < 4
  PROVE  Codes(S) \subseteq SUBSET (1..2)
<1>1. Small(S, 2)
  <2>1. Weights[2 + 1] = 4
    BY DEF Weights
  <2>2. QED
    BY <2>1 DEF Small
<1>2. HaveBits(Codes(S), 2)
  <2>1. 2 \in 1..15
    OBVIOUS
  <2>2. QED
    BY <1>1, <2>1, CodesFit
<1>3. QED
  BY <1>2 DEF HaveBits

LEMMA ThreeBits ==
  ASSUME NEW S, \A v \in S : v \in Nat /\ v < 8
  PROVE  Codes(S) \subseteq SUBSET (1..3)
<1>1. Small(S, 3)
  <2>1. Weights[3 + 1] = 8
    BY DEF Weights
  <2>2. QED
    BY <2>1 DEF Small
<1>2. HaveBits(Codes(S), 3)
  <2>1. 3 \in 1..15
    OBVIOUS
  <2>2. QED
    BY <1>1, <2>1, CodesFit
<1>3. QED
  BY <1>2 DEF HaveBits

LEMMA FourBits ==
  ASSUME NEW S, \A v \in S : v \in Nat /\ v < 16
  PROVE  Codes(S) \subseteq SUBSET (1..4)
<1>1. Small(S, 4)
  <2>1. Weights[4 + 1] = 16
    BY DEF Weights
  <2>2. QED
    BY <2>1 DEF Small
<1>2. HaveBits(Codes(S), 4)
  <2>1. 4 \in 1..15
    OBVIOUS
  <2>2. QED
    BY <1>1, <2>1, CodesFit
<1>3. QED
  BY <1>2 DEF HaveBits

LEMMA EightBits ==
  ASSUME NEW S, \A v \in S : v \in Nat /\ v < 256
  PROVE  Codes(S) \subseteq SUBSET (1..8)
<1>1. Small(S, 8)
  <2>1. Weights[8 + 1] = 256
    BY DEF Weights
  <2>2. QED
    BY <2>1 DEF Small
<1>2. HaveBits(Codes(S), 8)
  <2>1. 8 \in 1..15
    OBVIOUS
  <2>2. QED
    BY <1>1, <2>1, CodesFit
<1>3. QED
  BY <1>2 DEF HaveBits

LEMMA FourteenBits ==
  ASSUME NEW S, \A v \in S : v \in Nat /\ v < 16384
  PROVE  Codes(S) \subseteq SUBSET (1..14)
<1>1. Small(S, 14)
  <2>1. Weights[14 + 1] = 16384
    BY DEF Weights
  <2>2. QED
    BY <2>1 DEF Small
<1>2. HaveBits(Codes(S), 14)
  <2>1. 14 \in 1..15
    OBVIOUS
  <2>2. QED
    BY <1>1, <2>1, CodesFit
<1>3. QED
  BY <1>2 DEF HaveBits

LEMMA FifteenBits ==
  ASSUME NEW S, \A v \in S : v \in Nat /\ v < 32768
  PROVE  Codes(S) \subseteq SUBSET (1..15)
<1>1. Small(S, 15)
  <2>1. Weights[15 + 1] = 32768
    BY DEF Weights
  <2>2. QED
    BY <2>1 DEF Small
<1>2. HaveBits(Codes(S), 15)
  <2>1. 15 \in 1..15
    OBVIOUS
  <2>2. QED
    BY <1>1, <2>1, CodesFit
<1>3. QED
  BY <1>2 DEF HaveBits

-----------------------------------------------------------------------------
(* The kinds of settings.                                                   *)

\* A setting that is read back where it is written.
LEMMA SettingGood ==
  ASSUME NEW m, NEW bits, NEW wiped, NEW bars, NEW values,
         Distinct(bits), Held(m, bits), values \subseteq SUBSET DOMAIN bits,
         \A place \in wiped : Owns(m, place) /\ place \notin Places(bits)
  PROVE  Good(Setting(m, bits, bits, wiped, bars, values))
<1> DEFINE s == Setting(m, bits, bits, wiped, bars, values)
<1>1. /\ s.name = m /\ s.get = bits
      /\ s.options = {Writing(bits, wiped, x) : x \in values}
  BY DEF Setting
<1>2. ASSUME NEW x \in values
      PROVE  /\ \A place \in Writing(bits, wiped, x).on \cup Writing(bits, wiped, x).off :
                  Owns(m, place)
             /\ Returned(bits, Writing(bits, wiped, x))
  BY DEF Writing, Returned, Held, Distinct, Places
<1>3. Stays(s)
  BY <1>1, <1>2 DEF Stays
<1>4. Found(s)
  BY <1>1, <1>2 DEF Found, Held
<1>5. QED
  BY <1>3, <1>4 DEF Good

\* A field that is written and read as it is, refused by other settings.
LEMMA BarredGood ==
  ASSUME NEW m, NEW page, NEW reg \in Nat, NEW at \in Nat, NEW n \in Nat,
         NEW values, NEW bars, Alone(m, page, reg, at, n),
         values \subseteq SUBSET (1..n)
  PROVE  Good(Setting(m, Run(page, reg, at, n), Run(page, reg, at, n), {},
                      bars, values))
<1> DEFINE bits == Run(page, reg, at, n)
<1>1. Distinct(bits) /\ Held(m, bits) /\ values \subseteq SUBSET DOMAIN bits
  BY RunBits, RunDistinct, RunHeld
<1> HIDE DEF bits
<1>2. Good(Setting(m, bits, bits, {}, bars, values))
  BY <1>1, SettingGood
<1>3. QED
  BY <1>2 DEF bits

\* The same without a refusal.
LEMMA KeptGood ==
  ASSUME NEW m, NEW page, NEW reg \in Nat, NEW at \in Nat, NEW n \in Nat,
         NEW values, Alone(m, page, reg, at, n), values \subseteq SUBSET (1..n)
  PROVE  Good(Kept(m, Run(page, reg, at, n), values))
BY BarredGood DEF Kept

\* A field that takes every value of its width.
LEMMA WordGood ==
  ASSUME NEW m, NEW page, NEW reg \in Nat, NEW at \in Nat, NEW n \in Nat \ {0},
         Alone(m, page, reg, at, n)
  PROVE  Good(Kept(m, Run(page, reg, at, n), Word(n)))
<1>1. Word(n) \subseteq SUBSET (1..n)
  BY DEF Word
<1>2. QED
  BY <1>1, KeptGood

\* A single bit.
LEMMA OnOffGood ==
  ASSUME NEW m, NEW page, NEW reg \in Nat, NEW at \in Nat,
         Alone(m, page, reg, at, 1)
  PROVE  Good(OnOff(m, page, reg, at))
<1>1. {{}, {1}} \subseteq SUBSET (1..1)
  OBVIOUS
<1>2. QED
  BY <1>1, KeptGood DEF OnOff

\* One place for each port.
PortsAlone(family, page, reg) ==
  \A p \in 1..29 : Alone(<<family, p>>, page, reg, p - 1, 1)

\* A bit of each port, in a map of two registers.
LEMMA EachPortGood ==
  ASSUME NEW family, NEW page, NEW reg \in Nat, PortsAlone(family, page, reg)
  PROVE  \A s \in EachPort(family, page, reg) : Good(s)
<1>1. SUFFICES ASSUME NEW p \in 1..29
               PROVE  Good(Kept(<<family, p>>,
                                PortBit(page, reg, p), {{}, {1}}))
  BY PortsAssumption DEF EachPort
<1>2. Alone(<<family, p>>, page, reg, p - 1, 1) /\ p - 1 \in Nat
  <2>1. Alone(<<family, p>>, page, reg, p - 1, 1)
    BY Zenon DEF PortsAlone
  <2>2. p - 1 \in Nat
    OBVIOUS
  <2>3. QED
    BY <2>1, <2>2
<1>3. Good(OnOff(<<family, p>>, page, reg, p - 1))
  BY <1>2, OnOffGood
<1>4. QED
  BY <1>3 DEF OnOff, PortBit

\* A map of ports in two registers, the unused bits of which are wiped.
LEMMA WholeMapGood ==
  ASSUME NEW m, NEW page, NEW reg \in Nat, NEW n \in 1..32,
         Alone(m, page, reg, 0, 32)
  PROVE  Good(WholeMap(m, page, reg, n))
<1> DEFINE bits == Run(page, reg, 0, n)
           wiped == Places(TwoRegs(page, reg)) \ Places(bits)
<1>1. Alone(m, page, reg, 0, n)
  BY DEF Alone, Field, Bit
<1>2. Distinct(bits) /\ Held(m, bits) /\ DOMAIN bits = 1..n
  BY <1>1, RunBits, RunDistinct, RunHeld
<1>3. Held(m, TwoRegs(page, reg))
  BY RunHeld DEF TwoRegs
<1>4. \A place \in wiped : Owns(m, place) /\ place \notin Places(bits)
  BY <1>3 DEF Held, Places
<1>5. Word(n) \subseteq SUBSET (1..n)
  BY DEF Word
<1> HIDE DEF bits, wiped
<1>6. Good(Setting(m, bits, bits, wiped, {}, Word(n)))
  BY <1>2, <1>4, <1>5, SettingGood
<1>7. QED
  BY <1>6 DEF WholeMap, bits, wiped

\* A setting that has no get command, or one that answers something else.
LEMMA WriteGood ==
  ASSUME NEW s, Stays(s), s.get = << >> \/ s.name[1] \in Misread
  PROVE  Good(s)
BY DEF Good

\* The words of k bits are values of a field of n bits.
LEMMA WordFits ==
  ASSUME NEW n \in Nat, NEW k \in 1..n
  PROVE  Word(k) \subseteq SUBSET (1..n)
BY DEF Word

\* A field that takes only the values of its first k bits.
LEMMA PartGood ==
  ASSUME NEW m, NEW page, NEW reg \in Nat, NEW at \in Nat, NEW n \in Nat,
         NEW k \in 1..n, Alone(m, page, reg, at, n)
  PROVE  Good(Kept(m, Run(page, reg, at, n), Word(k)))
BY WordFits, KeptGood

\* A map of the 29 ports of which all 32 bits are read and written.
LEMMA MapGood ==
  ASSUME NEW m, NEW page, NEW reg \in Nat, Alone(m, page, reg, 0, 32)
  PROVE  Good(Kept(m, TwoRegs(page, reg), Word(29)))
BY PartGood DEF TwoRegs

\* A field for each index.
FieldsAlone(family, page, reg, n, indices) ==
  \A i \in indices : Alone(<<family, i>>, page, reg, n * i, n)

\* A row of fields of the same width, one for each index.
LEMMA EachFieldGood ==
  ASSUME NEW family, NEW page, NEW reg \in Nat, NEW n \in Nat,
         NEW indices \in SUBSET Nat, NEW values \in SUBSET SUBSET (1..n),
         FieldsAlone(family, page, reg, n, indices)
  PROVE  \A s \in EachField(family, page, reg, n, indices, values) : Good(s)
<1>1. SUFFICES ASSUME NEW i \in indices
               PROVE  Good(Kept(<<family, i>>,
                                Run(page, reg, n * i, n), values))
  BY DEF EachField
<1>2. n * i \in Nat
  OBVIOUS
<1>3. Alone(<<family, i>>, page, reg, n * i, n)
  BY DEF FieldsAlone
<1>4. QED
  BY <1>2, <1>3, KeptGood

\* A setting written at put and read at a part of it, the first k places.
LEMMA PrefixGood ==
  ASSUME NEW m, NEW put, NEW get, NEW n \in Nat, NEW k \in 1..n, NEW values,
         NEW bars, Distinct(put), Held(m, put), DOMAIN put = 1..n,
         DOMAIN get = 1..k, \A b \in 1..k : get[b] = put[b],
         values \subseteq SUBSET (1..k)
  PROVE  Good(Setting(m, put, get, {}, bars, values))
<1> DEFINE s == Setting(m, put, get, {}, bars, values)
<1>1. /\ s.name = m /\ s.get = get
      /\ s.options = {Writing(put, {}, x) : x \in values}
  BY DEF Setting
<1>2. ASSUME NEW x \in values
      PROVE  /\ \A place \in Writing(put, {}, x).on \cup Writing(put, {}, x).off :
                  Owns(m, place)
             /\ Returned(get, Writing(put, {}, x))
  BY DEF Writing, Returned, Held, Distinct
<1>3. Stays(s)
  BY <1>1, <1>2 DEF Stays
<1>4. Found(s)
  BY <1>1, <1>2 DEF Found, Held
<1>5. QED
  BY <1>3, <1>4 DEF Good

\* The first k places of a run are those of the shorter one.
LEMMA RunPrefix ==
  ASSUME NEW page, NEW reg \in Nat, NEW at \in Nat, NEW n \in Nat, NEW k \in 1..n
  PROVE  LET get == SubSeq(Run(page, reg, at, n), 1, k)
         IN  /\ DOMAIN get = 1..k
             /\ \A b \in 1..k : get[b] = Run(page, reg, at, n)[b]
BY DEF Run

\* Settings that are only written.
PortsAmong(family, page, reg) ==
  \A p \in 1..29 : Among(<<family, p>>, page, reg, p - 1, 1)

\* The bit of a port is inside the map of its family.
LEMMA PortStays ==
  ASSUME NEW family, NEW page, NEW reg \in Nat, PortsAmong(family, page, reg),
         NEW p \in 1..29
  PROVE  \A place \in Places(PortBit(page, reg, p)) : Owns(<<family, p>>, place)
<1>1. p - 1 \in Nat /\ Among(<<family, p>>, page, reg, p - 1, 1)
  <2>1. Among(<<family, p>>, page, reg, p - 1, 1)
    BY Zenon DEF PortsAmong
  <2>2. p - 1 \in Nat
    OBVIOUS
  <2>3. QED
    BY <2>1, <2>2
<1>2. QED
  BY <1>1, RunBits, RunAmong DEF Places, PortBit

\* A bit of each port that no get command reads.
LEMMA ForcedGood ==
  ASSUME NEW family, NEW page, NEW reg \in Nat, PortsAmong(family, page, reg)
  PROVE  \A s \in Forced(family, page, reg) : Good(s)
<1>1. SUFFICES ASSUME NEW p \in 1..29
               PROVE  Good(WriteOnly(<<family, p>>,
                        {Writing(PortBit(page, reg, p), {}, x) : x \in {{}, {1}}}))
  BY PortsAssumption DEF Forced
<1>2. DOMAIN PortBit(page, reg, p) = {1}
  BY DEF PortBit, Run
<1>3. \A place \in Places(PortBit(page, reg, p)) : Owns(<<family, p>>, place)
  BY PortStays
<1>4. QED
  BY <1>2, <1>3, WriteGood DEF WriteOnly, Stays, Writing, Places

\* What a set command turns on or off in a run is its own.
LEMMA WritingStays ==
  ASSUME NEW m, NEW page, NEW reg \in Nat, NEW at \in Nat, NEW n \in Nat,
         Among(m, page, reg, at, n), NEW x \in SUBSET (1..n)
  PROVE  \A place \in Writing(Run(page, reg, at, n), {}, x).on
                     \cup Writing(Run(page, reg, at, n), {}, x).off : Owns(m, place)
BY RunBits, RunAmong DEF Writing

\* A field of which the get command does not find what was set.
LEMMA SetGood ==
  ASSUME NEW m, NEW page, NEW reg \in Nat, NEW at \in Nat, NEW n \in Nat,
         NEW get, NEW values \in SUBSET SUBSET (1..n),
         Among(m, page, reg, at, n), get = << >> \/ m[1] \in Misread
  PROVE  Good(Setting(m, Run(page, reg, at, n), get, {}, {}, values))
<1>1. Stays(Setting(m, Run(page, reg, at, n), get, {}, {}, values))
  BY WritingStays DEF Stays, Setting
<1>2. QED
  BY <1>1, WriteGood DEF Setting

\* A command that writes one value into a field.
LEMMA WriteOnlyGood ==
  ASSUME NEW m, NEW page, NEW reg \in Nat, NEW at \in Nat, NEW n \in Nat,
         NEW x \in SUBSET (1..n), Among(m, page, reg, at, n)
  PROVE  Good(WriteOnly(m, {Writing(Run(page, reg, at, n), {}, x)}))
<1>1. Stays(WriteOnly(m, {Writing(Run(page, reg, at, n), {}, x)}))
  BY WritingStays DEF Stays, WriteOnly
<1>2. QED
  BY <1>1, WriteGood DEF WriteOnly

\* What the command of the speed writes, for a name that has its places.
LEMMA SpeedsStay ==
  ASSUME NEW m, NEW p \in Ports, Among(m, 3, Page3.SP, p - 1, 1),
         p >= 25 => Among(m, 3, Page3.SPG, p - 25, 1), NEW c \in SpeedCodes(p)
  PROVE  \A place \in Speeds(p)[c].on \cup Speeds(p)[c].off : Owns(m, place)
<1> DEFINE giga == Places(Run(3, Page3.SPG, p - 25, 1))
           fast == Places(PortBit(3, Page3.SP, p))
<1>1. \A place \in fast : Owns(m, place)
  <2>1. p - 1 \in Nat /\ Page3.SP \in Nat
    BY PortsAssumption DEF Page3
  <2>2. QED
    BY <2>1, RunBits, RunAmong DEF PortBit, Places
<1>2. p >= 25 => \A place \in giga : Owns(m, place)
  <2>1. p >= 25 => p - 25 \in Nat
    BY PortsAssumption
  <2>2. QED
    BY <2>1, RunBits, RunAmong DEF Places, Page3
<1>3. /\ \A place \in Speeds(p)[c].on : place \in fast \/ (p >= 25 /\ place \in giga)
      /\ \A place \in Speeds(p)[c].off : place \in fast \/ (p >= 25 /\ place \in giga)
  BY PortsAssumption DEF Speeds, SpeedCodes
<1>4. QED
  BY <1>1, <1>2, <1>3

\* The register of a storm's threshold.
LEMMA StormPlaces ==
  /\ DOMAIN StormConfig = {1, 2, 4, 8, 16}
  /\ StormConfig[1] = \h0D /\ StormConfig[2] = \h0D /\ StormConfig[4] = \h0D
  /\ StormConfig[8] = \h14 /\ StormConfig[16] = \h17
BY DEF StormConfig, BCST, MCST, DLF, ARP, ICMP, Page1


\* The same bit of the register of each port.
LEMMA BitOfEachGood ==
  ASSUME NEW m, NEW page, NEW reg \in Nat, NEW at \in 0..15,
         \A b \in 1..29 : Alone(m, page, reg + b - 1, at, 1)
  PROVE  Good(Kept(m, BitOfEach(page, reg, at), Word(29)))
<1> DEFINE bits == BitOfEach(page, reg, at)
<1>1. DOMAIN bits = 1..29 /\ \A b \in 1..29 : bits[b] = <<page, reg + b - 1, at>>
  BY DEF BitOfEach
<1> HIDE DEF bits
<1>2. Distinct(bits)
  BY <1>1 DEF Distinct
<1>3. ASSUME NEW b \in 1..29
      PROVE  Owns(m, bits[b]) /\ Apart(m, bits[b])
  <2>1. Bit(reg + b - 1, at) \in Field(reg + b - 1, at, 1)
    BY DEF Field, Bit
  <2>2. bits[b][1] = page /\ bits[b][2] = reg + b - 1 /\ bits[b][3] = at
    BY <1>1
  <2>3. QED
    BY <2>1, <2>2 DEF Owns, Apart, Owners, Alone
<1>4. Held(m, bits)
  BY <1>1, <1>3 DEF Held
<1>5. Word(29) \subseteq SUBSET DOMAIN bits
  BY <1>1 DEF Word
<1>6. Good(Setting(m, bits, bits, {}, {}, Word(29)))
  BY <1>2, <1>4, <1>5, SettingGood
<1>7. QED
  BY <1>6 DEF Kept, bits

\* Port numbers as the code counts them, from 0.
LEMMA PortsFromZero == Port0 \subseteq 0..28
BY PortsAssumption DEF Port0

\* Place at of a pair of registers of the protocol VLANs.
LEMMA RemarkOwners ==
  ASSUME NEW pair \in Nat, pair < 16, NEW at \in 0..31
  PROVE  OwnersAt(2, Bit(\h6A, 0) + 32 * pair + at) =
           {<<"AclVidRemark", IF at < 15 THEN 2 * pair ELSE 2 * pair + 1>>,
            <<"VlanProtocolClear", pair + 1>>}
           \cup (IF at < 16 THEN {<<"VlanProtocolType", pair + 1>>}
                 ELSE IF at < 28 THEN {<<"VlanProtocolVid", pair + 1>>}
                 ELSE {<<"VlanProtocolMode", pair + 1>>})
<1> DEFINE x == Bit(\h6A, 0) + 32 * pair + at
<1>1. /\ x \in Nat /\ x >= Bit(\h6A, 0) /\ x < Bit(\h8A, 0)
      /\ (x - Bit(\h6A, 0)) \div 32 = pair /\ (x - Bit(\h6A, 0)) % 32 = at
  BY DEF Bit
<1> HIDE DEF x
<1>2. OwnersAt(2, x) = Page2Remarks(x)
  BY <1>1 DEF OwnersAt, Bit
<1>3. Page2Remarks(x) =
        {<<"AclVidRemark", IF at < 15 THEN 2 * pair ELSE 2 * pair + 1>>,
         <<"VlanProtocolClear", pair + 1>>}
        \cup (IF at < 16 THEN {<<"VlanProtocolType", pair + 1>>}
              ELSE IF at < 28 THEN {<<"VlanProtocolVid", pair + 1>>}
              ELSE {<<"VlanProtocolMode", pair + 1>>})
  BY <1>1 DEF Page2Remarks
<1>4. QED
  BY <1>2, <1>3 DEF x

\* The names found in these registers are not independent.
LEMMA RemarksDisturb ==
  \A i, j : \A f \in {"VlanProtocolType", "VlanProtocolVid", "VlanProtocolMode"} :
    /\ Disturbs(<<"AclVidRemark", i>>, <<f, j>>)
    /\ Disturbs(<<f, j>>, <<"AclVidRemark", i>>)
    /\ Disturbs(<<"VlanProtocolClear", i>>, <<f, j>>)
    /\ Disturbs(<<"VlanProtocolClear", j>>, <<"AclVidRemark", i>>)
BY DEF Disturbs, Companions, Clashes


\* Field i of a row of fields of three bits, five to a register.
LEMMA FifthPlaces ==
  ASSUME NEW reg \in Nat, NEW i \in Nat,
         NEW x \in Field(reg + i \div 5, 3 * (i % 5), 3)
  PROVE  /\ x \in Nat /\ FifthOf(reg, x) = i
         /\ x >= Bit(reg, 0) + 16 * (i \div 5) + 3 * (i % 5)
         /\ x < Bit(reg, 0) + 16 * (i \div 5) + 3 * (i % 5) + 3
<1> DEFINE d == i \div 5
           r == i % 5
           y == x - Bit(reg, 0)
           c == y - 16 * d - 3 * r
<1>1. d \in Nat /\ r \in 0..4 /\ 5 * d + r = i
  OBVIOUS
<1> HIDE DEF d, r
<1>2. y = 16 * d + 3 * r + c /\ c \in 0..2 /\ y \in Nat /\ x = Bit(reg, 0) + y
  BY <1>1 DEF Field, Bit, d, r
<1> HIDE DEF y, c
<1>3. 3 * r + c \in 0..14 /\ (3 * r + c) \div 3 = r
  BY <1>1, <1>2
<1>4. y \div 16 = d /\ y % 16 = 3 * r + c
  BY <1>1, <1>2, <1>3
<1>5. FifthOf(reg, x) = 5 * (y \div 16) + (y % 16) \div 3
  BY DEF FifthOf, y
<1>6. QED
  BY <1>1, <1>2, <1>3, <1>4, <1>5 DEF Bit, d, r

\* The rates of ports are numbers of 14 bits.
LEMMA RatesFit ==
  ASSUME NEW p
  PROVE  Codes({0, 1, TopRate(p)}) \subseteq SUBSET (1..14)
<1> DEFINE rates == {0, 1, TopRate(p)}
<1>1. \A v \in rates : v \in Nat /\ v < 16384
  BY DEF TopRate
<1> HIDE DEF rates
<1>2. Codes(rates) \subseteq SUBSET (1..14)
  BY <1>1, FourteenBits
<1>3. QED
  BY <1>2 DEF rates

\* Three families write the registers of the rates at which ports send.
LEMMA EgressOwners ==
  ASSUME NEW p \in Ports,
         NEW family \in {"BandwidthEgressRate", "QOSEgressControl",
                         "GetQOSEgressControl"}
  PROVE  Among(<<family, p>>, 8, Page8.EGRESS_RATE_CTRL + p - 1, 0, 16)
<1>1. ASSUME NEW x \in Field(Page8.EGRESS_RATE_CTRL + p - 1, 0, 16)
      PROVE  OwnersAt(8, x) = {<<"BandwidthEgressRate", p>>,
               <<"QOSEgressControl", p>>, <<"GetQOSEgressControl", p>>}
  <2>1. /\ x \in Nat /\ x >= Bit(\h85, 0) /\ x < Bit(\hB1, 0)
        /\ (x - Bit(\h85, 0)) \div 16 + 1 = p
    BY PortsAssumption DEF Field, Bit, Page8
  <2>2. OwnersAt(8, x) = Page8Groups(x)
    BY <2>1 DEF OwnersAt, Bit
  <2>3. QED
    BY <2>1, <2>2 DEF Page8Groups, Each, Bit
<1>2. QED
  BY <1>1 DEF Among

-----------------------------------------------------------------------------
(* The commands, group by group as in SwitchSettings.                       *)

\* The ports themselves: most of these commands only write.
LEMMA SmiGood == \A s \in SmiCommands : Good(s)
<1>1. \A s \in PortAN : Good(s)
  <2>1. PortsAmong("PortAN", 3, Page3.AN)
    BY DEF PortsAmong, Among, Field, Bit, OwnersAt, Page3Links, Linked, Each,
       Page3
  <2>2. QED
    BY <2>1, ForcedGood DEF PortAN, Page3
<1>2. \A s \in PortSpeed : Good(s)
  <2>1. ASSUME NEW p \in Ports
        PROVE  Good(WriteOnly(<<"PortSpeed", p>>,
                              {Speeds(p)[c] : c \in SpeedCodes(p)}))
    <3>1. /\ Among(<<"PortSpeed", p>>, 3, Page3.SP, p - 1, 1)
          /\ p >= 25 => Among(<<"PortSpeed", p>>, 3, Page3.SPG, p - 25, 1)
      BY PortsAssumption
         DEF Among, Field, Bit, OwnersAt, Page3Links, Linked, Each, Page3
    <3>2. QED
      BY <3>1, SpeedsStay, WriteGood DEF Stays, WriteOnly
  <2>2. QED
    BY <2>1 DEF PortSpeed
<1>3. \A s \in PortDuplex : Good(s)
  <2>1. PortsAmong("PortDuplex", 3, Page3.DUPLEX)
    BY DEF PortsAmong, Among, Field, Bit, OwnersAt, Page3Links, Linked, Each,
       Page3
  <2>2. QED
    BY <2>1, ForcedGood DEF PortDuplex, Page3
<1>4. \A s \in PortPause : Good(s)
  <2>1. PortsAmong("PortPause", 3, Page3.PAUSE)
    BY DEF PortsAmong, Among, Field, Bit, OwnersAt, Page3Links, Linked, Each,
       Page3
  <2>2. QED
    BY <2>1, ForcedGood DEF PortPause, Page3
<1>5. \A s \in PortAsymPause : Good(s)
  <2>1. PortsAmong("PortAsymPause", 3, Page3.ASPAUSE)
    BY DEF PortsAmong, Among, Field, Bit, OwnersAt, Page3Links, Linked, Each,
       Page3
  <2>2. QED
    BY <2>1, ForcedGood DEF PortAsymPause, Page3
<1>6. \A s \in PortLinkStatus : Good(s)
  <2> DEFINE maps == {Page3.AN, Page3.DUPLEX, Page3.PAUSE, Page3.ASPAUSE}
             bits(p) == UNION {Places(PortBit(3, m, p)) : m \in maps}
             All(p, c, x) ==
               [on   |-> Speeds(p)[c].on \cup (IF x THEN bits(p) ELSE {}),
                off  |-> Speeds(p)[c].off \cup (IF x THEN {} ELSE bits(p)),
                says |-> {}]
             options(p) == {All(p, c, x) : c \in SpeedCodes(p), x \in BOOLEAN}
  <2>1. ASSUME NEW p \in Ports
        PROVE  Good(WriteOnly(<<"PortLinkStatus", p>>, options(p)))
    <3>1. /\ Among(<<"PortLinkStatus", p>>, 3, Page3.SP, p - 1, 1)
          /\ p >= 25 => Among(<<"PortLinkStatus", p>>, 3, Page3.SPG, p - 25, 1)
      BY PortsAssumption
         DEF Among, Field, Bit, OwnersAt, Page3Links, Linked, Each, Page3
    <3>2. /\ PortsAmong("PortLinkStatus", 3, Page3.AN)
          /\ PortsAmong("PortLinkStatus", 3, Page3.DUPLEX)
          /\ PortsAmong("PortLinkStatus", 3, Page3.PAUSE)
          /\ PortsAmong("PortLinkStatus", 3, Page3.ASPAUSE)
      <4>1. PortsAmong("PortLinkStatus", 3, Page3.AN)
        BY DEF PortsAmong, Among, Field, Bit, OwnersAt, Page3Links, Linked,
           Each, Page3
      <4>2. PortsAmong("PortLinkStatus", 3, Page3.DUPLEX)
        BY DEF PortsAmong, Among, Field, Bit, OwnersAt, Page3Links, Linked,
           Each, Page3
      <4>3. PortsAmong("PortLinkStatus", 3, Page3.PAUSE)
        BY DEF PortsAmong, Among, Field, Bit, OwnersAt, Page3Links, Linked,
           Each, Page3
      <4>4. PortsAmong("PortLinkStatus", 3, Page3.ASPAUSE)
        BY DEF PortsAmong, Among, Field, Bit, OwnersAt, Page3Links, Linked,
           Each, Page3
      <4>5. QED
        BY <4>1, <4>2, <4>3, <4>4
    <3>3. \A m \in maps :
            \A place \in Places(PortBit(3, m, p)) : Owns(<<"PortLinkStatus", p>>, place)
      <4>1. \A m \in maps : m \in Nat /\ PortsAmong("PortLinkStatus", 3, m)
        BY <3>2 DEF Page3
      <4>2. p \in 1..29
        BY PortsAssumption
      <4>3. QED
        BY <4>1, <4>2, PortStays
    <3>4. \A c \in SpeedCodes(p) :
            \A place \in Speeds(p)[c].on \cup Speeds(p)[c].off :
              Owns(<<"PortLinkStatus", p>>, place)
      BY <3>1, SpeedsStay
    <3>5. \A c \in SpeedCodes(p), x \in BOOLEAN :
            \A place \in All(p, c, x).on \cup All(p, c, x).off :
              Owns(<<"PortLinkStatus", p>>, place)
      BY <3>3, <3>4
    <3> HIDE DEF All
    <3>6. QED
      BY <3>5, WriteGood DEF Stays, WriteOnly
  <2>2. PortLinkStatus =
          {WriteOnly(<<"PortLinkStatus", p>>, options(p)) : p \in Ports}
    BY DEF PortLinkStatus
  <2> HIDE DEF options
  <2>3. QED
    BY <2>1, <2>2
<1>7. \A s \in PortBackpressure : Good(s)
  <2>1. PortsAlone("PortBackpressure", 3, Page3.BPRESS)
    BY DEF PortsAlone, Alone, Field, Bit, OwnersAt, Page3Links, Each, Page3
  <2>2. QED
    BY <2>1, EachPortGood DEF PortBackpressure, Page3
<1>8. \A s \in PortPowerDown : Good(s)
  <2>1. PortsAlone("PortPowerDown", 3, Page3.POWERDOWN)
    BY DEF PortsAlone, Alone, Field, Bit, OwnersAt, Page3Links, Each, Page3
  <2>2. QED
    BY <2>1, EachPortGood DEF PortPowerDown, Page3
<1>9. \A s \in PortForceLink : Good(s)
  <2>1. PortsAlone("PortForceLink", 3, Page3.FORCELINK)
    BY DEF PortsAlone, Alone, Field, Bit, OwnersAt, Page3Links, Each, Page3
  <2>2. QED
    BY <2>1, EachPortGood DEF PortForceLink, Page3
<1>10. \A s \in PortUniDirection : Good(s)
  <2>1. PortsAlone("PortUniDirection", 3, Page3.UNIDIRECT)
    BY DEF PortsAlone, Alone, Field, Bit, OwnersAt, Page3Links, Each, Page3
  <2>2. QED
    BY <2>1, EachPortGood DEF PortUniDirection, Page3
<1>11. QED
  BY <1>1, <1>2, <1>3, <1>4, <1>5, <1>6, <1>7, <1>8, <1>9, <1>10 DEF
     SmiCommands

\* The learning of MAC addresses.
LEMMA LutGood == \A s \in LutCommands : Good(s)
<1>1. \A s \in SMACLearning : Good(s)
  <2>1. PortsAlone("SMACLearning", 1, Page1.SRCLEARNEN)
    BY DEF PortsAlone, Alone, Field, Bit, OwnersAt, Page1Learning, Each, Page1
  <2>2. QED
    BY <2>1, EachPortGood DEF SMACLearning, Page1
<1>2. \A s \in SMACLrnCntCtrl : Good(s)
  <2>1. PortsAlone("SMACLrnCntCtrl", 1, Page1.SRCLEARNCNT)
    BY DEF PortsAlone, Alone, Field, Bit, OwnersAt, Page1Learning, Each, Page1
  <2>2. QED
    BY <2>1, EachPortGood DEF SMACLrnCntCtrl, Page1
<1>3. \A s \in SMACLrnThreshold : Good(s)
  <2>1. Alone(<<"SMACLrnThreshold">>, 1, Page1.SRCLCNTTHRESH, 0, 16)
    BY DEF Alone, Field, Bit, OwnersAt, Page1Learning, Page1
  <2>2. QED
    BY <2>1, PartGood DEF SMACLrnThreshold, Page1
<1>4. \A s \in LutAgingTime : Good(s)
  <2>1. Codes({0, 1, 1191}) \subseteq SUBSET (1..15)
    <3>1. \A v \in {0, 1, 1191} : v \in Nat /\ v < 32768
      OBVIOUS
    <3>2. QED
      BY <3>1, FifteenBits
  <2>2. Alone(<<"LutAgingTime">>, 1, Page1.LUTAGINGTIME, 0, 15)
    BY DEF Alone, Field, Bit, OwnersAt, Page1Learning, Page1
  <2>3. QED
    BY <2>2, <2>1, KeptGood DEF LutAgingTime, Page1
<1>5. \A s \in LutAgingTimeEnable : Good(s)
  <2>1. Alone(<<"LutAgingTimeEnable">>, 1, Page1.LUTAGINGTIME, 15, 1)
    BY DEF Alone, Field, Bit, OwnersAt, Page1Learning, Page1
  <2>2. QED
    BY <2>1, OnOffGood DEF LutAgingTimeEnable, Page1
<1>6. \A s \in LutLearningNullSA : Good(s)
  <2>1. Alone(<<"LutLearningNullSA">>, 1, Page1.SRCLEARNCFG, 2, 1)
    BY DEF Alone, Field, Bit, OwnersAt, Page1Learning, Page1
  <2>2. QED
    BY <2>1, OnOffGood DEF LutLearningNullSA, Page1
<1>7. \A s \in LutHashingAlgorithm : Good(s)
  <2>1. Alone(<<"LutHashingAlgorithm">>, 1, Page1.SRCLEARNCFG, 3, 1)
    BY DEF Alone, Field, Bit, OwnersAt, Page1Learning, Page1
  <2>2. QED
    BY <2>1, OnOffGood DEF LutHashingAlgorithm, Page1
<1>8. \A s \in LutBindingEnable : Good(s)
  <2>1. Codes({1, 2}) \subseteq SUBSET (1..2)
    <3>1. \A v \in {1, 2} : v \in Nat /\ v < 4
      OBVIOUS
    <3>2. QED
      BY <3>1, TwoBits
  <2>2. Disturbs(<<"LutUnknownSARule">>, <<"LutBindingEnable">>)
    BY DEF Disturbs, Companions, Clashes
  <2>3. Alone(<<"LutBindingEnable">>, 1, Page1.SRCLEARNCFG, 5, 2)
    BY <2>2 DEF Alone, Field, Bit, OwnersAt, Page1Learning, Page1
  <2>4. QED
    BY <2>3, <2>1, KeptGood DEF LutBindingEnable, Page1
<1>9. \A s \in LutLearnPktDropByVlanIgsChk : Good(s)
  <2>1. Alone(<<"LutLearnPktDropByVlanIgsChk">>, 1, Page1.SRCLEARNCFG, 7, 1)
    BY DEF Alone, Field, Bit, OwnersAt, Page1Learning, Page1
  <2>2. QED
    BY <2>1, OnOffGood DEF LutLearnPktDropByVlanIgsChk, Page1
<1>10. \A s \in LutLearningMode : Good(s)
  <2>1. Codes({0, 1, 3}) \subseteq SUBSET (1..2)
    <3>1. \A v \in {0, 1, 3} : v \in Nat /\ v < 4
      OBVIOUS
    <3>2. QED
      BY <3>1, TwoBits
  <2>2. Alone(<<"LutLearningMode">>, 1, Page1.SRCLEARNCFG, 0, 2)
    BY DEF Alone, Field, Bit, OwnersAt, Page1Learning, Page1
  <2>3. QED
    BY <2>2, <2>1, KeptGood DEF LutLearningMode, Page1
<1>11. \A s \in LutUnknownSARule : Good(s)
  <2>1. Codes({0, 1, 2}) \subseteq SUBSET (1..2)
    <3>1. \A v \in {0, 1, 2} : v \in Nat /\ v < 4
      OBVIOUS
    <3>2. QED
      BY <3>1, TwoBits
  <2>2. Disturbs(<<"LutBindingEnable">>, <<"LutUnknownSARule">>)
    BY DEF Disturbs, Companions, Clashes
  <2>3. Alone(<<"LutUnknownSARule">>, 1, Page1.SRCLEARNCFG, 4, 2)
    BY <2>2 DEF Alone, Field, Bit, OwnersAt, Page1Learning, Page1
  <2>4. QED
    BY <2>3, <2>1, KeptGood DEF LutUnknownSARule, Page1
<1>12. QED
  BY <1>1, <1>2, <1>3, <1>4, <1>5, <1>6, <1>7, <1>8, <1>9, <1>10, <1>11 DEF
     LutCommands

\* Copies of frames.
LEMMA SnifferGood == \A s \in SnifferCommands : Good(s)
<1>1. \A s \in SnifferSrc : Good(s)
  <2>1. Alone(<<"SnifferSrc">>, 1, Page1.SNIFSRC, 0, 32)
    BY DEF Alone, Field, Bit, OwnersAt, Page1Trunks, Page1
  <2>2. QED
    BY <2>1, WholeMapGood DEF SnifferSrc, Page1
<1>2. \A s \in SnifferDestGrp1 : Good(s)
  <2>1. Alone(<<"SnifferDestGrp1">>, 1, Page1.SNIFDEST, 0, 29)
    BY DEF Alone, Field, Bit, OwnersAt, Page1Trunks, Page1
  <2>2. QED
    BY <2>1, WordGood DEF SnifferDestGrp1, Page1
<1>3. \A s \in SnifferDestGrp2 : Good(s)
  <2>1. Alone(<<"SnifferDestGrp2">>, 1, Page1.SNIF2DEST, 0, 29)
    BY DEF Alone, Field, Bit, OwnersAt, Page1Trunks, Page1
  <2>2. QED
    BY <2>1, WordGood DEF SnifferDestGrp2, Page1
<1>4. \A s \in S1Method : Good(s)
  <2>1. Alone(<<"S1Method">>, 1, Page1.SNIFDEST + 1, 13, 2)
    BY DEF Alone, Field, Bit, OwnersAt, Page1Trunks, Page1
  <2>2. QED
    BY <2>1, WordGood DEF S1Method, Page1
<1>5. \A s \in S1PktModify : Good(s)
  <2>1. Alone(<<"S1PktModify">>, 1, Page1.SNIFDEST + 1, 15, 1)
    BY DEF Alone, Field, Bit, OwnersAt, Page1Trunks, Page1
  <2>2. QED
    BY <2>1, OnOffGood DEF S1PktModify, Page1
<1>6. \A s \in S1TM4CpuSTag : Good(s)
  <2>1. Alone(<<"S1TM4CpuSTag">>, 1, Page1.MISCCFG, 5, 1)
    BY DEF Alone, Field, Bit, OwnersAt, Page1Trunks, Page1
  <2>2. QED
    BY <2>1, OnOffGood DEF S1TM4CpuSTag, Page1
<1>7. \A s \in S1TM4Acl2Cpu : Good(s)
  <2>1. Alone(<<"S1TM4Acl2Cpu">>, 1, Page1.MISCCFG, 6, 1)
    BY DEF Alone, Field, Bit, OwnersAt, Page1Trunks, Page1
  <2>2. QED
    BY <2>1, OnOffGood DEF S1TM4Acl2Cpu, Page1
<1>8. \A s \in S1TM4Pkt2MPort : Good(s)
  <2>1. Alone(<<"S1TM4Pkt2MPort">>, 1, Page1.MISCCFG, 7, 1)
    BY DEF Alone, Field, Bit, OwnersAt, Page1Trunks, Page1
  <2>2. QED
    BY <2>1, OnOffGood DEF S1TM4Pkt2MPort, Page1
<1>9. \A s \in S2LTT4Grp1 : Good(s)
  <2>1. Alone(<<"S2LTT4Grp1">>, 1, Page1.SNIF2DEST + 1, 13, 1)
    BY DEF Alone, Field, Bit, OwnersAt, Page1Trunks, Page1
  <2>2. QED
    BY <2>1, OnOffGood DEF S2LTT4Grp1, Page1
<1>10. \A s \in S2LTT4Grp2 : Good(s)
  <2>1. Alone(<<"S2LTT4Grp2">>, 1, Page1.SNIF2DEST + 1, 14, 1)
    BY DEF Alone, Field, Bit, OwnersAt, Page1Trunks, Page1
  <2>2. QED
    BY <2>1, OnOffGood DEF S2LTT4Grp2, Page1
<1>11. QED
  BY <1>1, <1>2, <1>3, <1>4, <1>5, <1>6, <1>7, <1>8, <1>9, <1>10 DEF
     SnifferCommands

\* Storms: three of the five kinds share a register of the threshold.
LEMMA StormGood == \A s \in StormCommands : Good(s)
<1>1. \A s \in StormFunc : Good(s)
  <2>1. /\ Alone(<<"StormFunc", 1>>, 1, Page1.BSTORMEN, 0, 32)
        /\ Alone(<<"StormFunc", 2>>, 1, Page1.MSTORMEN, 0, 32)
        /\ Alone(<<"StormFunc", 4>>, 1, Page1.DLFSTORMEN, 0, 32)
        /\ Alone(<<"StormFunc", 8>>, 1, Page1.ARPSTORMEN, 0, 32)
        /\ Alone(<<"StormFunc", 16>>, 1, Page1.ICMPSTORMEN, 0, 32)
    BY DEF Alone, Field, Bit, OwnersAt, Page1Storms, Page1
  <2> DEFINE enabled ==
               [s \in {BCST, MCST, DLF, ARP, ICMP} |->
                  CASE s = BCST -> Page1.BSTORMEN
                    [] s = MCST -> Page1.MSTORMEN
                    [] s = DLF  -> Page1.DLFSTORMEN
                    [] s = ARP  -> Page1.ARPSTORMEN
                    [] s = ICMP -> Page1.ICMPSTORMEN]
  <2>2. /\ DOMAIN enabled = {1, 2, 4, 8, 16}
        /\ enabled[1] = Page1.BSTORMEN /\ enabled[2] = Page1.MSTORMEN
        /\ enabled[4] = Page1.DLFSTORMEN /\ enabled[8] = Page1.ARPSTORMEN
        /\ enabled[16] = Page1.ICMPSTORMEN
    BY DEF BCST, MCST, DLF, ARP, ICMP
  <2> HIDE DEF enabled
  <2>3. \A s \in DOMAIN enabled :
          Alone(<<"StormFunc", s>>, 1, enabled[s], 0, 32) /\ enabled[s] \in Nat
    BY <2>1, <2>2 DEF Page1
  <2>4. \A s \in DOMAIN enabled :
          Good(Kept(<<"StormFunc", s>>, TwoRegs(1, enabled[s]), Word(29)))
    BY <2>3, MapGood, Zenon
  <2>5. QED
    BY <2>4 DEF StormFunc, enabled
<1>2. \A s \in StormThreshold : Good(s)
  <2>1. \A s, t : Disturbs(<<"StormThreshold", s>>, <<"StormThreshold", t>>)
    BY DEF Disturbs, Companions, Clashes
  <2>2. \A x \in Field(\h0D, 0, 8) :
          OwnersAt(1, x) = {<<"StormThreshold", s>> : s \in {1, 2, 4}}
    BY DEF Field, Bit, OwnersAt, Page1Storms
  <2>3. \A s \in {1, 2, 4} : Alone(<<"StormThreshold", s>>, 1, \h0D, 0, 8)
    BY <2>1, <2>2, Zenon DEF Alone
  <2>4. /\ Alone(<<"StormThreshold", 8>>, 1, \h14, 0, 8)
        /\ Alone(<<"StormThreshold", 16>>, 1, \h17, 0, 8)
    BY DEF Alone, Field, Bit, OwnersAt, Page1Storms
  <2>5. \A s \in {1, 2, 4, 8, 16} :
          /\ Alone(<<"StormThreshold", s>>, 1, StormConfig[s], 0, 8)
          /\ StormConfig[s] \in Nat
    BY <2>3, <2>4, StormPlaces
  <2>6. QED
    BY <2>5, StormPlaces, WordGood DEF StormThreshold
<1>3. \A s \in StormCntrClrPeriod : Good(s)
  <2>1. \A s, t :
          Disturbs(<<"StormCntrClrPeriod", s>>, <<"StormCntrClrPeriod", t>>)
    BY DEF Disturbs, Companions, Clashes
  <2>2. \A x \in Field(\h0D, 8, 2) :
          OwnersAt(1, x) = {<<"StormCntrClrPeriod", s>> : s \in {1, 2, 4}}
    BY DEF Field, Bit, OwnersAt, Page1Storms
  <2>3. \A s \in {1, 2, 4} : Alone(<<"StormCntrClrPeriod", s>>, 1, \h0D, 8, 2)
    BY <2>1, <2>2, Zenon DEF Alone
  <2>4. /\ Alone(<<"StormCntrClrPeriod", 8>>, 1, \h14, 8, 2)
        /\ Alone(<<"StormCntrClrPeriod", 16>>, 1, \h17, 8, 2)
    BY DEF Alone, Field, Bit, OwnersAt, Page1Storms
  <2>5. \A s \in {1, 2, 4, 8, 16} :
          /\ Alone(<<"StormCntrClrPeriod", s>>, 1, StormConfig[s], 8, 2)
          /\ StormConfig[s] \in Nat
    BY <2>3, <2>4, StormPlaces
  <2>6. QED
    BY <2>5, StormPlaces, WordGood DEF StormCntrClrPeriod
<1>4. \A s \in StormBlockFrm2Cpu : Good(s)
  <2>1. \A s, t :
          Disturbs(<<"StormBlockFrm2Cpu", s>>, <<"StormBlockFrm2Cpu", t>>)
    BY DEF Disturbs, Companions, Clashes
  <2>2. \A x \in Field(\h0D, 10, 1) :
          OwnersAt(1, x) = {<<"StormBlockFrm2Cpu", s>> : s \in {1, 2}}
    BY DEF Field, Bit, OwnersAt, Page1Storms
  <2>3. \A s \in {1, 2} : Alone(<<"StormBlockFrm2Cpu", s>>, 1, \h0D, 10, 1)
    BY <2>1, <2>2, Zenon DEF Alone
  <2>4. Alone(<<"StormBlockFrm2Cpu", 8>>, 1, \h14, 10, 1)
    BY DEF Alone, Field, Bit, OwnersAt, Page1Storms
  <2>5. \A s \in {1, 2, 8} :
          /\ Alone(<<"StormBlockFrm2Cpu", s>>, 1, StormConfig[s], 10, 1)
          /\ StormConfig[s] \in Nat
    BY <2>3, <2>4, StormPlaces
  <2>6. QED
    BY <2>5, StormPlaces, OnOffGood DEF StormBlockFrm2Cpu, BCST, MCST, ARP
<1>5. \A s \in StormDropInterrupt : Good(s)
  <2>1. /\ Among(<<"StormDropInterrupt", 8>>, 1, StormConfig[8], 11, 1)
        /\ Among(<<"StormDropInterrupt", 16>>, 1, StormConfig[16], 10, 1)
    BY StormPlaces DEF Among, Field, Bit, OwnersAt, Page1Storms
  <2>2. {{}, {1}} \in SUBSET SUBSET (1..1)
    OBVIOUS
  <2> DEFINE at == [s \in {ARP, ICMP} |-> IF s = ARP THEN 11 ELSE 10]
  <2>3. DOMAIN at = {8, 16} /\ at[8] = 11 /\ at[16] = 10
    BY DEF ARP, ICMP
  <2> HIDE DEF at
  <2>4. \A s \in DOMAIN at :
          Good(Setting(<<"StormDropInterrupt", s>>,
                       Run(1, StormConfig[s], at[s], 1),
                       Run(1, 0, at[s], 1), {}, {}, {{}, {1}}))
    BY <2>1, <2>2, <2>3, StormPlaces, SetGood DEF Misread
  <2>5. QED
    BY <2>4 DEF StormDropInterrupt, at
<1>6. \A s \in MStormNBlockIpPkt : Good(s)
  <2>1. Alone(<<"MStormNBlockIpPkt">>, 1, Page1.BSTORMTHRESH, 11, 1)
    BY DEF Alone, Field, Bit, OwnersAt, Page1Storms, Page1
  <2>2. QED
    BY <2>1, OnOffGood DEF MStormNBlockIpPkt, Page1
<1>7. \A s \in MStormIgnr01005EXXXXXX : Good(s)
  <2>1. Alone(<<"MStormIgnr01005EXXXXXX">>, 1, Page1.BSTORMTHRESH, 12, 1)
    BY DEF Alone, Field, Bit, OwnersAt, Page1Storms, Page1
  <2>2. QED
    BY <2>1, OnOffGood DEF MStormIgnr01005EXXXXXX, Page1
<1>8. QED
  BY <1>1, <1>2, <1>3, <1>4, <1>5, <1>6, <1>7 DEF StormCommands

\* Loops: the switch of LdFunc is on another page than its map.
LEMMA LoopGood == \A s \in LoopCommands : Good(s)
<1>1. \A s \in EocFunc : Good(s)
  <2>1. Alone(<<"EocFunc">>, 0, Page0.EOCCFG, 0, 29)
    BY DEF Alone, Field, Bit, OwnersAt, Page0Loops, Page0
  <2>2. QED
    BY <2>1, WordGood DEF EocFunc, Page0
<1>2. \A s \in EocReleaseTime : Good(s)
  <2>1. Alone(<<"EocReleaseTime">>, 0, Page0.EOCCFG + 1, 14, 1)
    BY DEF Alone, Field, Bit, OwnersAt, Page0Loops, Page0
  <2>2. QED
    BY <2>1, OnOffGood DEF EocReleaseTime, Page0
<1>3. \A s \in EocBlockClr : Good(s)
  <2>1. Among(<<"EocBlockClr">>, 0, Page0.EOCCFG + 1, 15, 1)
    BY DEF Among, Field, Bit, OwnersAt, Page0Loops, Page0
  <2>2. QED
    BY <2>1, WriteOnlyGood DEF EocBlockClr, Page0
<1>4. \A s \in EocClrBlockWhenRcvGood : Good(s)
  <2>1. Alone(<<"EocClrBlockWhenRcvGood">>, 0, Page0.EOCCFG + 1, 13, 1)
    BY DEF Alone, Field, Bit, OwnersAt, Page0Loops, Page0
  <2>2. QED
    BY <2>1, OnOffGood DEF EocClrBlockWhenRcvGood, Page0
<1>5. \A s \in LdFunc : Good(s)
  <2>1. /\ Alone(<<"LdFunc">>, 1, Page1.MISCCFG, 3, 1)
        /\ Alone(<<"LdFunc">>, 0, Page0.LDCONFIG, 0, 29)
    BY DEF Alone, Field, Bit, OwnersAt, Page0Loops, Page1Trunks, Page0, Page1
  <2> DEFINE switch == Run(1, Page1.MISCCFG, 3, 1)
             map == Run(0, Page0.LDCONFIG, 0, 29)
             bits == switch \o map
  <2>2. /\ DOMAIN bits = 1..30
        /\ bits[1] = switch[1]
        /\ \A b \in 2..30 : bits[b] = map[b - 1]
    BY DEF Run
  <2>3. Held(<<"LdFunc">>, switch) /\ Held(<<"LdFunc">>, map) /\ Distinct(map)
    BY <2>1, RunHeld, RunDistinct DEF Page0, Page1
  <2>4. /\ DOMAIN switch = 1..1 /\ DOMAIN map = 1..29
        /\ switch[1][1] = 1 /\ \A b \in 1..29 : map[b][1] = 0
    BY DEF Run
  <2> HIDE DEF switch, map, bits
  <2>5. Held(<<"LdFunc">>, bits)
    BY <2>2, <2>3, <2>4 DEF Held
  <2>6. Distinct(bits)
    BY <2>2, <2>3, <2>4 DEF Distinct
  <2>7. Word(30) \subseteq SUBSET DOMAIN bits
    BY <2>2 DEF Word
  <2>8. Good(Setting(<<"LdFunc">>, bits, bits, {}, {}, Word(30)))
    BY <2>5, <2>6, <2>7, SettingGood
  <2>9. QED
    BY <2>8 DEF LdFunc, Kept, bits, map, switch
<1>6. \A s \in LdTimeUnit : Good(s)
  <2>1. Alone(<<"LdTimeUnit">>, 0, Page0.LDCONFIG + 1, 13, 1)
    BY DEF Alone, Field, Bit, OwnersAt, Page0Loops, Page0
  <2>2. QED
    BY <2>1, OnOffGood DEF LdTimeUnit, Page0
<1>7. \A s \in LdPktSendTimer : Good(s)
  <2>1. Alone(<<"LdPktSendTimer">>, 0, Page0.LDTIMER, 0, 8)
    BY DEF Alone, Field, Bit, OwnersAt, Page0Loops, Page0
  <2>2. QED
    BY <2>1, WordGood DEF LdPktSendTimer, Page0
<1>8. \A s \in LdBlockReleaseTimer : Good(s)
  <2>1. Alone(<<"LdBlockReleaseTimer">>, 0, Page0.LDTIMER, 8, 8)
    BY DEF Alone, Field, Bit, OwnersAt, Page0Loops, Page0
  <2>2. QED
    BY <2>1, WordGood DEF LdBlockReleaseTimer, Page0
<1>9. \A s \in LdSMACB40 : Good(s)
  <2>1. Alone(<<"LdSMACB40">>, 0, Page0.LDCONFIG + 1, 14, 1)
    BY DEF Alone, Field, Bit, OwnersAt, Page0Loops, Page0
  <2>2. QED
    BY <2>1, OnOffGood DEF LdSMACB40, Page0
<1>10. \A s \in LdRerandom : Good(s)
  <2>1. Alone(<<"LdRerandom">>, 0, Page0.LDCONFIG + 1, 15, 1)
    BY DEF Alone, Field, Bit, OwnersAt, Page0Loops, Page0
  <2>2. QED
    BY <2>1, OnOffGood DEF LdRerandom, Page0
<1>11. \A s \in LdDMAC : Good(s)
  <2>1. Alone(<<"LdDMAC">>, 0, Page0.LDDA, 0, 48)
    BY DEF Alone, Field, Bit, OwnersAt, Page0Loops, Page0
  <2>2. QED
    BY <2>1, WordGood DEF LdDMAC, Page0
<1>12. \A s \in LdEtherType : Good(s)
  <2>1. Alone(<<"LdEtherType">>, 0, Page0.LDETYPE, 0, 16)
    BY DEF Alone, Field, Bit, OwnersAt, Page0Loops, Page0
  <2>2. QED
    BY <2>1, WordGood DEF LdEtherType, Page0
<1>13. \A s \in LdSubType : Good(s)
  <2>1. Alone(<<"LdSubType">>, 0, Page0.LDSUBTYPE, 0, 16)
    BY DEF Alone, Field, Bit, OwnersAt, Page0Loops, Page0
  <2>2. QED
    BY <2>1, WordGood DEF LdSubType, Page0
<1>14. \A s \in LdDeviceID : Good(s)
  <2>1. Alone(<<"LdDeviceID">>, 0, Page0.LDDEVID, 0, 16)
    BY DEF Alone, Field, Bit, OwnersAt, Page0Loops, Page0
  <2>2. QED
    BY <2>1, WordGood DEF LdDeviceID, Page0
<1>15. QED
  BY <1>1, <1>2, <1>3, <1>4, <1>5, <1>6, <1>7, <1>8, <1>9, <1>10, <1>11,
     <1>12, <1>13, <1>14 DEF LoopCommands

\* Waking the host: most of these get commands answer something else.
LEMMA WolGood == \A s \in WolCommands : Good(s)
<1>1. \A s \in WolFunc : Good(s)
  <2> DEFINE low == Run(0, Page0.WOLEN, 0, 16)
             Last(x) == {b \in 1..16 : b + 16 \in x}
             option(x) == [Writing(low, {}, Last(x)) EXCEPT !.says = x]
  <2>1. Among(<<"WolFunc">>, 0, Page0.WOLEN, 0, 16)
    BY DEF Among, Field, Bit, OwnersAt, Page0Ipv6, Page0
  <2>2. \A x : \A place \in Writing(low, {}, Last(x)).on \cup Writing(low, {}, Last(x)).off :
          Owns(<<"WolFunc">>, place)
    <3>1. \A x : Last(x) \in SUBSET (1..16)
      OBVIOUS
    <3> HIDE DEF Last
    <3>2. \A y \in SUBSET (1..16) :
            \A place \in Writing(low, {}, y).on \cup Writing(low, {}, y).off :
              Owns(<<"WolFunc">>, place)
      BY <2>1, WritingStays DEF Page0
    <3>3. QED
      BY <3>1, <3>2
  <2>3. \A x :
          \A place \in option(x).on \cup option(x).off : Owns(<<"WolFunc">>, place)
    BY <2>2 DEF Writing
  <2>4. QED
    BY <2>3, WriteGood DEF WolFunc, Stays, Misread
<1>2. \A s \in WolMode : Good(s)
  <2>1. Alone(<<"WolMode">>, 0, Page0.WOLCFG, 9, 1)
    BY DEF Alone, Field, Bit, OwnersAt, Page0Ipv6, Page0
  <2>2. QED
    BY <2>1, OnOffGood DEF WolMode, Page0
<1>3. \A s \in WolInterrupt : Good(s)
  <2>1. Alone(<<"WolInterrupt">>, 0, Page0.WOLCFG, 11, 1)
    BY DEF Alone, Field, Bit, OwnersAt, Page0Ipv6, Page0
  <2>2. QED
    BY <2>1, OnOffGood DEF WolInterrupt, Page0
<1>4. \A s \in WolIPUnit : Good(s)
  <2>1. Alone(<<"WolIPUnit">>, 0, Page0.WOLCFG, 5, 2)
    BY DEF Alone, Field, Bit, OwnersAt, Page0Ipv6, Page0
  <2>2. QED
    BY <2>1, WordGood DEF WolIPUnit, Page0
<1>5. \A s \in WolIPThreshold : Good(s)
  <2>1. Alone(<<"WolIPThreshold">>, 0, Page0.WOLCFG, 0, 5)
    BY DEF Alone, Field, Bit, OwnersAt, Page0Ipv6, Page0
  <2>2. QED
    BY <2>1, WordGood DEF WolIPThreshold, Page0
<1>6. \A s \in WolStatusInSlaveMode : Good(s)
  <2>1. \A p \in Ports :
          Among(<<"WolStatusInSlaveMode", p>>, 0, Page0.WOLMODECTRL, p - 1, 1)
    BY PortsAssumption DEF Among, Field, Bit, OwnersAt, Page0Ipv6, Each, Page0
  <2>2. \A p \in Ports : p - 1 \in Nat
    BY PortsAssumption
  <2>3. \A p \in Ports :
          Good(WriteOnly(<<"WolStatusInSlaveMode", p>>,
            {Writing(PortBit(0, Page0.WOLMODECTRL, p), {}, {1})}))
    <3>1. Page0.WOLMODECTRL \in Nat /\ {1} \in SUBSET (1..1)
      BY DEF Page0
    <3>2. QED
      BY <2>1, <2>2, <3>1, WriteOnlyGood, Zenon DEF PortBit
  <2>4. QED
    BY <2>3 DEF WolStatusInSlaveMode
<1>7. \A s \in WolWakeIfTxGetAnyPkt : Good(s)
  <2>1. Among(<<"WolWakeIfTxGetAnyPkt">>, 0, Page0.WOLCFG, 7, 1)
    BY DEF Among, Field, Bit, OwnersAt, Page0Ipv6, Page0
  <2>2. {{}, {1}} \in SUBSET SUBSET (1..1)
    OBVIOUS
  <2>3. QED
    BY <2>1, <2>2, SetGood DEF WolWakeIfTxGetAnyPkt, WakeIf, Misread, Page0
<1>8. \A s \in WolWakeIfRxGetAnyPkt : Good(s)
  <2>1. Among(<<"WolWakeIfRxGetAnyPkt">>, 0, Page0.WOLCFG, 8, 1)
    BY DEF Among, Field, Bit, OwnersAt, Page0Ipv6, Page0
  <2>2. {{}, {1}} \in SUBSET SUBSET (1..1)
    OBVIOUS
  <2>3. QED
    BY <2>1, <2>2, SetGood DEF WolWakeIfRxGetAnyPkt, WakeIf, Misread, Page0
<1>9. \A s \in WolWakeIfMatchAcl2Cpu : Good(s)
  <2>1. Alone(<<"WolWakeIfMatchAcl2Cpu">>, 0, Page0.WOLCFG, 10, 1)
    BY DEF Alone, Field, Bit, OwnersAt, Page0Ipv6, Page0
  <2>2. QED
    BY <2>1, OnOffGood DEF WolWakeIfMatchAcl2Cpu, Page0
<1>10. QED
  BY <1>1, <1>2, <1>3, <1>4, <1>5, <1>6, <1>7, <1>8, <1>9 DEF WolCommands

\* Frames that are captured; two settings of IPv6 share a bit.
LEMMA CapGood == \A s \in CapCommands : Good(s)
<1>1. \A s \in L2CapAct : Good(s)
  <2>1. FieldsAlone("L2CapAct", 0, Page0.L2FRAMEGETCTRL, 2, {0, 7, 8, 9})
    BY DEF FieldsAlone, Alone, Field, Bit, OwnersAt, Page0Captures, Each,
       Page0
  <2>2. Codes({Forward, ToCpu, Drop}) \in SUBSET SUBSET (1..2)
    <3>1. \A v \in {Forward, ToCpu, Drop} : v \in Nat /\ v < 4
      BY DEF Forward, AllPort, ToCpu, Drop
    <3>2. QED
      BY <3>1, TwoBits
  <2>3. QED
    BY <2>1, <2>2, EachFieldGood DEF L2CapAct, Page0
<1>2. \A s \in CapInBand : Good(s)
  <2>1. Alone(<<"CapInBand">>, 0, Page0.MACBEHAVIOR, 6, 1)
    BY DEF Alone, Field, Bit, OwnersAt, Page0Captures, Page0
  <2>2. QED
    BY <2>1, OnOffGood DEF CapInBand, Page0
<1>3. \A s \in CapInBandRestrict : Good(s)
  <2>1. Alone(<<"CapInBandRestrict">>, 0, Page0.INBANDRESTRICT + 1, 15, 1)
    BY DEF Alone, Field, Bit, OwnersAt, Page0Captures, Page0
  <2>2. QED
    BY <2>1, OnOffGood DEF CapInBandRestrict, Page0
<1>4. \A s \in CapInBandRestrictCfg : Good(s)
  <2>1. Edges(0, 30) \in SUBSET (0..30)
    BY DEF Edges
  <2>2. FieldsAlone("CapInBandRestrictCfg", 0, Page0.INBANDRESTRICT, 1, 0..30)
    BY DEF FieldsAlone, Alone, Field, Bit, OwnersAt, Page0Captures, Each, Page0
  <2>3. FieldsAlone("CapInBandRestrictCfg", 0, Page0.INBANDRESTRICT, 1, Edges(0, 30))
    BY <2>1, <2>2 DEF FieldsAlone
  <2>4. Edges(0, 30) \in SUBSET Nat /\ {{}, {1}} \in SUBSET SUBSET (1..1)
    BY <2>1
  <2>5. QED
    BY <2>3, <2>4, EachFieldGood DEF CapInBandRestrictCfg, Page0
<1>5. \A s \in CapSwitchMac : Good(s)
  <2>1. Alone(<<"CapSwitchMac">>, 0, Page0.MACADDRESS, 0, 48)
    BY DEF Alone, Field, Bit, OwnersAt, Page0Priorities, Page0
  <2>2. QED
    BY <2>1, WordGood DEF CapSwitchMac, Page0
<1>6. \A s \in CapL3Act : Good(s)
  <2>1. Codes(Forward..Drop) \subseteq SUBSET (1..2)
    <3>1. \A v \in Forward..Drop : v \in Nat /\ v < 4
      BY DEF Forward, Drop
    <3>2. QED
      BY <3>1, TwoBits
  <2>2. \A i \in 0..6 :
          Alone(<<"CapL3Act", i>>, 0, Page0.L3FRAMEGETCTRL, 2 * i, 2)
    BY DEF Alone, Field, Bit, OwnersAt, Page0Captures, Each, Page0
  <2>3. QED
    BY <2>2, <2>1, KeptGood DEF CapL3Act, L3Places, Page0
<1>7. \A s \in CapL3User : Good(s)
  <2>1. /\ Alone(<<"CapL3User", 4>>, 0, Page0.L3USERDEF, 0, 8)
        /\ Alone(<<"CapL3User", 5>>, 0, Page0.L3USERDEF, 8, 8)
    BY DEF Alone, Field, Bit, OwnersAt, Page0Captures, Each, Page0
  <2>2. QED
    BY <2>1, WordGood DEF CapL3User, L3Usr1, Page0
<1>8. \A s \in CapEtherUser : Good(s)
  <2>1. Alone(<<"CapEtherUser">>, 0, Page0.ETHERUSERDEF, 0, 16)
    BY DEF Alone, Field, Bit, OwnersAt, Page0Captures, Page0
  <2>2. QED
    BY <2>1, WordGood DEF CapEtherUser, Page0
<1>9. \A s \in CapIpv6TcpUdpEnable : Good(s)
  <2>1. Alone(<<"CapIpv6TcpUdpEnable">>, 0, Page0.IPV6RLTCFG, 0, 1)
    BY DEF Alone, Field, Bit, OwnersAt, Page0Ipv6, Page0
  <2>2. QED
    BY <2>1, OnOffGood DEF CapIpv6TcpUdpEnable, Page0
<1>10. \A s \in CapIpv6TcpUdpFlagEnable : Good(s)
  <2>1. Alone(<<"CapIpv6TcpUdpFlagEnable">>, 0, Page0.IPV6RLTCFG, 1, 1)
    BY DEF Alone, Field, Bit, OwnersAt, Page0Ipv6, Page0
  <2>2. QED
    BY <2>1, OnOffGood DEF CapIpv6TcpUdpFlagEnable, Page0
<1>11. \A s \in CapIpv6StopFinding : Good(s)
  <2>1. \A h :
          Disturbs(<<"CapIpv6ToAllPortsHigh">>, <<"CapIpv6StopFinding", h>>)
    BY DEF Disturbs, Companions, Clashes
  <2>2. \A h \in {0, 1, 2, USER1, USER2} :
          Alone(<<"CapIpv6StopFinding", h>>, 0, Page0.IPV6RLTCFG, (IF h <= 2 THEN 5 - h ELSE h + 1), 1)
    BY <2>1 DEF Alone, Field, Bit, OwnersAt, Page0Ipv6, USER1, USER2, Page0
  <2>3. QED
    BY <2>2, OnOffGood DEF CapIpv6StopFinding, USER1, USER2, Page0
<1>12. \A s \in CapIpv6ToAllPortsHigh : Good(s)
  <2>1. \A h :
          Disturbs(<<"CapIpv6StopFinding", h>>, <<"CapIpv6ToAllPortsHigh">>)
    BY DEF Disturbs, Companions, Clashes
  <2>2. Alone(<<"CapIpv6ToAllPortsHigh">>, 0, Page0.IPV6RLTCFG, 8, 1)
    BY <2>1 DEF Alone, Field, Bit, OwnersAt, Page0Ipv6, Page0
  <2>3. QED
    BY <2>2, OnOffGood DEF CapIpv6ToAllPortsHigh, Page0
<1>13. \A s \in CapIpv6ToCpuHigh : Good(s)
  <2>1. Alone(<<"CapIpv6ToCpuHigh">>, 0, Page0.IPV6RLTCFG, 9, 1)
    BY DEF Alone, Field, Bit, OwnersAt, Page0Ipv6, Page0
  <2>2. QED
    BY <2>1, OnOffGood DEF CapIpv6ToCpuHigh, Page0
<1>14. \A s \in CapIpv6Act : Good(s)
  <2>1. \A i : Disturbs(<<"IGMPMldRule">>, <<"CapIpv6Act", i>>)
    BY DEF Disturbs, Companions, Clashes
  <2>2. FieldsAlone("CapIpv6Act", 0, Page0.IPV6RLTFWD, 2, 0..9)
    BY <2>1 DEF FieldsAlone, Alone, Field, Bit, OwnersAt, Page0Ipv6, Each,
       Page0
  <2>3. Codes(Forward..Drop) \in SUBSET SUBSET (1..2)
    <3>1. \A v \in Forward..Drop : v \in Nat /\ v < 4
      BY DEF Forward, Drop
    <3>2. QED
      BY <3>1, TwoBits
  <2>4. QED
    BY <2>2, <2>3, EachFieldGood DEF CapIpv6Act, Page0
<1>15. \A s \in CapIpv6User : Good(s)
  <2>1. \A h \in {USER1, USER2} :
          Alone(<<"CapIpv6User", h>>, 0, Page0.IPV6NXHEADUSER, 8 * (h - USER1), 8)
    BY DEF Alone, Field, Bit, OwnersAt, Page0Ipv6, Each, USER1, USER2, Page0
  <2>2. QED
    BY <2>1, WordGood DEF CapIpv6User, USER1, USER2, Page0
<1>16. \A s \in CapIcmpv6User : Good(s)
  <2>1. FieldsAlone("CapIcmpv6User", 0, Page0.ICMPV6TYPEUSER, 8, 0..3)
    BY DEF FieldsAlone, Alone, Field, Bit, OwnersAt, Page0Ipv6, Each,
       Page0
  <2>2. Word(8) \in SUBSET SUBSET (1..8)
    BY WordFits
  <2>3. QED
    BY <2>1, <2>2, EachFieldGood DEF CapIcmpv6User, Page0
<1>17. QED
  BY <1>1, <1>2, <1>3, <1>4, <1>5, <1>6, <1>7, <1>8, <1>9, <1>10, <1>11,
     <1>12, <1>13, <1>14, <1>15, <1>16 DEF CapCommands

\* The CPU port, the service tag, time stamps, long frames, 802.1x.
LEMMA MiscGood == \A s \in MiscCommands : Good(s)
<1>1. \A s \in CpuPortLink : Good(s)
  <2>1. Alone(<<"CpuPortLink">>, 12, PageC.CPUMODE, 0, 1)
    BY DEF Alone, Field, Bit, OwnersAt, PageCTags, PageC
  <2>2. QED
    BY <2>1, OnOffGood DEF CpuPortLink, PageC
<1>2. \A s \in STagFunc : Good(s)
  <2>1. Alone(<<"STagFunc">>, 12, PageC.CPUMODE, 1, 1)
    BY DEF Alone, Field, Bit, OwnersAt, PageCTags, PageC
  <2>2. QED
    BY <2>1, OnOffGood DEF STagFunc, PageC
<1>3. \A s \in STagTypeLen : Good(s)
  <2>1. Alone(<<"STagTypeLen">>, 12, PageC.SPTAG, 0, 16)
    BY DEF Alone, Field, Bit, OwnersAt, PageCTags, PageC
  <2>2. QED
    BY <2>1, WordGood DEF STagTypeLen, PageC
<1>4. \A s \in PtpEnable : Good(s)
  <2>1. Alone(<<"PtpEnable">>, 0, Page0.PTPCFG, 0, 1)
    BY DEF Alone, Field, Bit, OwnersAt, Page0Ipv6, Page0
  <2>2. QED
    BY <2>1, OnOffGood DEF PtpEnable, Page0
<1>5. \A s \in PtpToCpu : Good(s)
  <2>1. Alone(<<"PtpToCpu">>, 0, Page0.PTPCFG, 5, 1)
    BY DEF Alone, Field, Bit, OwnersAt, Page0Ipv6, Page0
  <2>2. QED
    BY <2>1, OnOffGood DEF PtpToCpu, Page0
<1>6. \A s \in JumboPktFunc : Good(s)
  <2>1. Alone(<<"JumboPktFunc">>, 0, Page0.JUMBO, 0, 32)
    BY DEF Alone, Field, Bit, OwnersAt, Page0Captures, Page0
  <2>2. QED
    BY <2>1, WholeMapGood DEF JumboPktFunc, Page0
<1>7. \A s \in Func8021x : Good(s)
  <2>1. Alone(<<"8021xFunc">>, 0, Page0.PORTLOCKEN, 0, 32)
    BY DEF Alone, Field, Bit, OwnersAt, Page0Priorities, Page0
  <2>2. QED
    BY <2>1, WholeMapGood DEF Func8021x, Page0
<1>8. QED
  BY <1>1, <1>2, <1>3, <1>4, <1>5, <1>6, <1>7 DEF MiscCommands

\* The places of page 2 below register 6A belong to the VLAN settings.
LEMMA VlansOfPage2 ==
  \A x : x < Bit(\h6A, 0) => OwnersAt(2, x) = Page2Vlans(x)
BY DEF OwnersAt

\* The registers of the VLAN settings on page 2.
LEMMA Page2Regs ==
  /\ Page2.IMPCFG = \h01 /\ Page2.VLANCFG = \h06 /\ Page2.INGRESS_CHK = \h09
  /\ Page2.INGRESS_FRAME = \h0B /\ Page2.EGRESS_CFG = \h0F
  /\ Page2.PVIDCFG = \h13 /\ Page2.VLANGROUP = \h30
BY DEF Page2

\* A field there is one setting's alone when all its places are.
LEMMA VlansAlone ==
  ASSUME NEW m, NEW reg, NEW at, NEW n,
         \A x \in Field(reg, at, n) : x < Bit(\h6A, 0) /\ Page2Vlans(x) = {m}
  PROVE  Alone(m, 2, reg, at, n)
BY VlansOfPage2 DEF Alone

\* The settings that write the members of a port's group: the port's own and that
\* of every pair of ports.
OwnersOfGroup(port) ==
  {<<"VlanPortMember", port>>}
    \cup {<<"VlanGroup", p, q>> : p \in 0..28, q \in 0..28}

\* They are the owners of all places of the group.
LEMMA MembersOfPage2 ==
  ASSUME NEW i \in 0..28, NEW at \in 0..31, NEW n \in Nat, at + n <= 32,
         NEW x \in Field(GroupOf(i), at, n)
  PROVE  OwnersAt(2, x) = OwnersOfGroup(i)
<1>1. /\ x \in Nat /\ Bit(\h30, 0) <= x /\ x < Bit(\h6A, 0)
      /\ (x - Bit(\h30, 0)) \div 32 + 0 = i
  BY Page2Regs DEF Field, Bit, GroupOf
<1>2. OwnersAt(2, x) = Page2Vlans(x)
  BY <1>1, VlansOfPage2
<1>3. Page2Vlans(x) = Each("VlanPortMember", \h30, 32, 0, x)
                      \cup {<<"VlanGroup", p, q>> : p \in 0..28, q \in 0..28}
  BY <1>1 DEF Page2Vlans, Bit
<1>4. QED
  BY <1>1, <1>2, <1>3 DEF Each, OwnersOfGroup

\* Spanning trees: all ports of one at once, or one port of one.
LEMMA StpGood == \A s \in StpCommands : Good(s)
<1>1. \A s \in MstpFunc : Good(s)
  <2>1. Alone(<<"MstpFunc">>, 2, Page2.VLANCFG, 6, 1)
    <3>1. \A x \in Field(Page2.VLANCFG, 6, 1) :
            x < Bit(\h6A, 0) /\ Page2Vlans(x) = {<<"MstpFunc">>}
      BY Page2Regs DEF Field, Bit, Page2Vlans
    <3>2. QED
      BY <3>1, VlansAlone
  <2>2. QED
    BY <2>1, OnOffGood DEF MstpFunc, Page2
<1>2. \A s \in BpduCapMode : Good(s)
  <2>1. Alone(<<"BpduCapMode">>, 0, Page0.BPDUPORTCAPCFG + 3, 8, 1)
    BY DEF Alone, Field, Bit, OwnersAt, Page0Priorities, Page0
  <2>2. QED
    BY <2>1, OnOffGood DEF BpduCapMode, Page0
<1>3. \A s \in BpduPortAct : Good(s)
  <2>1. \A p \in Ports \ {29} :
          Among(<<"BpduPortAct", p>>, 0, Page0.BPDUPORTCAPCFG, 2 * (p - 1), 2)
    BY PortsAssumption
       DEF Among, Field, Bit, OwnersAt, Page0Priorities, Each, Page0
  <2>2. \A p \in Ports \ {29} : 2 * (p - 1) \in Nat
    BY PortsAssumption
  <2>3. Codes({0, 2, 3}) \in SUBSET SUBSET (1..2)
    <3>1. \A v \in {0, 2, 3} : v \in Nat /\ v < 4
      OBVIOUS
    <3>2. QED
      BY <3>1, TwoBits
  <2>4. Page0.BPDUPORTCAPCFG \in Nat
    BY DEF Page0
  <2>5. \A p \in Ports \ {29} :
          Good(Setting(<<"BpduPortAct", p>>,
                       PortPair(0, Page0.BPDUPORTCAPCFG, p),
                       << >>, {}, {}, Codes({0, 2, 3})))
    BY <2>1, <2>2, <2>3, <2>4, SetGood, Zenon DEF PortPair
  <2>6. QED
    BY <2>5 DEF BpduPortAct
<1>4. \A s \in StpPortState : Good(s)
  <2>1. \A f, p, h :
          Disturbs(<<"StpAllPortsState", h>>, <<"StpPortState", f, p>>)
    BY DEF Disturbs, Companions, Clashes
  <2>2. \A f \in Fids, p \in Ports \ {29} :
          \A x \in Field(StpFid(f), 2 * (p - 1), 2) :
            OwnersAt(1, x) = {<<"StpPortState", f, p>>, <<"StpAllPortsState", f>>}
    BY PortsAssumption
       DEF Fids, StpFid, Field, Bit, OwnersAt, Page1Groups, Each, Page1
  <2>3. \A f \in Fids, p \in Ports \ {29} :
          /\ Alone(<<"StpPortState", f, p>>, 1, StpFid(f), 2 * (p - 1), 2)
          /\ StpFid(f) \in Nat /\ 2 * (p - 1) \in Nat
    BY <2>1, <2>2, PortsAssumption DEF Alone, Fids, StpFid, Page1
  <2>4. ASSUME NEW f \in Fids, NEW p \in Ports \ {29}
        PROVE  Good(Kept(<<"StpPortState", f, p>>,
                         PortPair(1, StpFid(f), p), Word(2)))
    BY <2>3, WordGood DEF PortPair
  <2>5. \A s \in StpPortState :
          \E f \in Fids, p \in Ports \ {29} :
            s = Kept(<<"StpPortState", f, p>>, PortPair(1, StpFid(f), p), Word(2))
    BY DEF StpPortState
  <2>6. QED
    BY <2>4, <2>5
<1>5. \A s \in StpAllPortsState : Good(s)
  <2> DEFINE ports(f) == Run(1, StpFid(f), 0, 56)
             cpu(f) == Run(1, StpFid(f), 56, 2)
             rest(f) == Run(1, StpFid(f), 58, 6)
             All(f, x) ==
               [on   |-> Writing(ports(f), {}, x).on \cup Places(cpu(f)),
                off  |-> Writing(ports(f), Places(rest(f)), x).off,
                says |-> x]
             setting1(f) ==
               [name |-> <<"StpAllPortsState", f>>, get |-> ports(f),
                bars |-> {}, options |-> {All(f, x) : x \in Word(56)}]
  <2>1. \A f, p, h :
          Disturbs(<<"StpPortState", f, p>>, <<"StpAllPortsState", h>>)
    BY DEF Disturbs, Companions, Clashes
  <2>2. \A f \in Fids : \A x \in Field(StpFid(f), 0, 64) :
          \E p : OwnersAt(1, x) = {<<"StpPortState", f, p>>, <<"StpAllPortsState", f>>}
    <3>1. ASSUME NEW f \in Fids, NEW x \in Field(StpFid(f), 0, 64)
          PROVE  /\ x \in Nat /\ x >= Bit(\h57, 0)
                 /\ (x - Bit(\h57, 0)) \div 64 + 1 = f
      BY DEF Fids, StpFid, Field, Bit, Page1
    <3>2. ASSUME NEW x \in Nat, x >= Bit(\h57, 0)
          PROVE  OwnersAt(1, x) =
                   {<<"StpPortState", (x - Bit(\h57, 0)) \div 64 + 1,
                      ((x - Bit(\h57, 0)) % 64) \div 2 + 1>>,
                    <<"StpAllPortsState", (x - Bit(\h57, 0)) \div 64 + 1>>}
      BY <3>2 DEF Bit, OwnersAt, Page1Groups, Each
    <3>3. ASSUME NEW f \in Fids, NEW x \in Field(StpFid(f), 0, 64)
          PROVE  OwnersAt(1, x) =
                   {<<"StpPortState", f, ((x - Bit(\h57, 0)) % 64) \div 2 + 1>>,
                    <<"StpAllPortsState", f>>}
      BY <3>1, <3>2
    <3>4. QED
      BY <3>3
  <2>3. ASSUME NEW f \in Fids
        PROVE  Good(setting1(f))
    <3>1. StpFid(f) \in Nat
      BY DEF Fids, StpFid, Page1
    <3>2. \A x \in Field(StpFid(f), 0, 64) :
            /\ <<"StpAllPortsState", f>> \in OwnersAt(1, x)
            /\ \A k \in OwnersAt(1, x) :
                 k = <<"StpAllPortsState", f>>
                 \/ Disturbs(k, <<"StpAllPortsState", f>>)
      BY <2>1, <2>2
    <3>3. /\ Alone(<<"StpAllPortsState", f>>, 1, StpFid(f), 0, 56)
          /\ Among(<<"StpAllPortsState", f>>, 1, StpFid(f), 56, 2)
          /\ Among(<<"StpAllPortsState", f>>, 1, StpFid(f), 58, 6)
      BY <3>1, <3>2 DEF Alone, Among, Field, Bit
    <3>4. Held(<<"StpAllPortsState", f>>, ports(f)) /\ Distinct(ports(f))
      BY <3>1, <3>3, RunHeld, RunDistinct
    <3>5. DOMAIN ports(f) = 1..56 /\ DOMAIN cpu(f) = 1..2 /\ DOMAIN rest(f) = 1..6
      BY DEF Run
    <3>6. /\ \A b \in 1..2 : Owns(<<"StpAllPortsState", f>>, cpu(f)[b])
          /\ \A b \in 1..6 : Owns(<<"StpAllPortsState", f>>, rest(f)[b])
      BY <3>1, <3>3, RunAmong
    <3>7. \A b \in 1..56 : ports(f)[b] \notin Places(cpu(f))
      BY <3>1, <3>5, RunsMeet DEF Places, Bit
    <3> HIDE DEF ports, cpu, rest
    <3>8. ASSUME NEW x \in SUBSET (1..56)
          PROVE  /\ \A place \in All(f, x).on \cup All(f, x).off :
                      Owns(<<"StpAllPortsState", f>>, place)
                 /\ Returned(ports(f), All(f, x))
      <4>1. /\ All(f, x).on = {ports(f)[b] : b \in x} \cup Places(cpu(f))
            /\ All(f, x).off = {ports(f)[b] : b \in (1..56) \ x} \cup Places(rest(f))
            /\ All(f, x).says = x
        BY <3>5 DEF Writing
      <4>2. /\ \A place \in Places(cpu(f)) : Owns(<<"StpAllPortsState", f>>, place)
            /\ \A place \in Places(rest(f)) : Owns(<<"StpAllPortsState", f>>, place)
        BY <3>5, <3>6 DEF Places
      <4> HIDE DEF All
      <4>3. \A place \in All(f, x).on \cup All(f, x).off :
              Owns(<<"StpAllPortsState", f>>, place)
        BY <3>4, <3>5, <4>1, <4>2 DEF Held
      <4>4. Returned(ports(f), All(f, x))
        <5>1. x \subseteq DOMAIN ports(f) /\ \A b \in x : ports(f)[b] \in All(f, x).on
          BY <3>5, <4>1
        <5>2. ASSUME NEW b \in DOMAIN ports(f) \ x
              PROVE  ports(f)[b] \in All(f, x).off /\ ports(f)[b] \notin All(f, x).on
          <6>1. \A c \in x : ports(f)[c] # ports(f)[b]
            BY <3>4, <5>1 DEF Distinct
          <6>2. QED
            BY <3>5, <3>7, <4>1, <6>1
        <5>3. QED
          BY <4>1, <5>1, <5>2 DEF Returned
      <4>5. QED
        BY <4>3, <4>4
    <3>9. Word(56) \subseteq SUBSET (1..56)
      BY WordFits
    <3>10. \A b \in DOMAIN ports(f) :
             Apart(<<"StpAllPortsState", f>>, ports(f)[b])
      BY <3>4 DEF Held
    <3> HIDE DEF All
    <3>11. QED
      BY <3>8, <3>9, <3>10 DEF Good, Stays, Found
  <2>4. StpAllPortsState = {setting1(f) : f \in Fids}
    BY DEF StpAllPortsState
  <2> HIDE DEF setting1
  <2>5. QED
    BY <2>3, <2>4
<1>6. QED
  BY <1>1, <1>2, <1>3, <1>4, <1>5 DEF StpCommands

\* Trunks: the last members are in another register than the first.
LEMMA TrunkGood == \A s \in TrunkCommands : Good(s)
<1>1. \A s \in TrunkHashMthd : Good(s)
  <2>1. Alone(<<"TrunkHashMthd">>, 1, Page1.TRUNKCFG, 0, 3)
    BY DEF Alone, Field, Bit, OwnersAt, Page1Trunks, Page1
  <2>2. QED
    BY <2>1, WordGood DEF TrunkHashMthd, Page1
<1>2. \A s \in TrunkHashMthdSeq : Good(s)
  <2>1. Alone(<<"TrunkHashMthdSeq">>, 1, Page1.TRUNKCFG, 3, 1)
    BY DEF Alone, Field, Bit, OwnersAt, Page1Trunks, Page1
  <2>2. QED
    BY <2>1, OnOffGood DEF TrunkHashMthdSeq, Page1
<1>3. \A s \in CpuNCareTrunkAndVlan : Good(s)
  <2>1. Alone(<<"CpuNCareTrunkAndVlan">>, 1, Page1.TRUNKCFG, 4, 1)
    BY DEF Alone, Field, Bit, OwnersAt, Page1Trunks, Page1
  <2>2. QED
    BY <2>1, OnOffGood DEF CpuNCareTrunkAndVlan, Page1
<1>4. \A s \in TrunkGrpCombine : Good(s)
  <2>1. \A g \in 5..7 : Alone(<<"TrunkGrpCombine", g>>, 1, Page1.TRUNKCFG, g, 1)
    BY DEF Alone, Field, Bit, OwnersAt, Page1Trunks, Each, Page1
  <2>2. QED
    BY <2>1, OnOffGood DEF TrunkGrpCombine, Page1
<1>5. \A s \in TrunkMbr : Good(s)
  <2> DEFINE reg(p) == Page1.TRUNKCFG + (IF p < 9 THEN 0 ELSE 1)
             at(p) == IF p < 9 THEN p + 7 ELSE IF p < 17 THEN p - 9 ELSE p - 17
  <2>1. \A p \in 1..29 : p < 17 \/ p \in 25..28 =>
          /\ Alone(<<"TrunkMbr", p>>, 1, reg(p), at(p), 1)
          /\ reg(p) \in Nat /\ at(p) \in Nat
    BY DEF Alone, Field, Bit, OwnersAt, Page1Trunks, Page1
  <2> HIDE DEF reg, at
  <2>2. \A p \in 1..29 : p < 17 \/ p \in 25..28 =>
          Good(OnOff(<<"TrunkMbr", p>>, 1, reg(p), at(p)))
    BY <2>1, OnOffGood
  <2>3. QED
    BY <2>2, PortsAssumption DEF TrunkMbr, reg, at
<1>6. QED
  BY <1>1, <1>2, <1>3, <1>4, <1>5 DEF TrunkCommands

\* IGMP snooping: packets of four kinds in fields of four and of five bits.
LEMMA IgmpGood == \A s \in IgmpCommands : Good(s)
<1>1. \A s \in IGMPSnooping : Good(s)
  <2>1. Alone(<<"IGMPSnooping">>, 1, Page1.IGMPSNOP, 0, 1)
    BY DEF Alone, Field, Bit, OwnersAt, Page1Groups, Page1
  <2>2. QED
    BY <2>1, OnOffGood DEF IGMPSnooping, Page1
<1>2. \A s \in IGMPMctByCPU : Good(s)
  <2>1. Alone(<<"IGMPMctByCPU">>, 1, Page1.IGMPSNOP, 1, 1)
    BY DEF Alone, Field, Bit, OwnersAt, Page1Groups, Page1
  <2>2. QED
    BY <2>1, OnOffGood DEF IGMPMctByCPU, Page1
<1>3. \A s \in IGMPGroupAgain : Good(s)
  <2>1. Alone(<<"IGMPGroupAgain">>, 1, Page1.IGMPSNOP, 5, 1)
    BY DEF Alone, Field, Bit, OwnersAt, Page1Groups, Page1
  <2>2. QED
    BY <2>1, OnOffGood DEF IGMPGroupAgain, Page1
<1>4. \A s \in IGMPRltByCPU : Good(s)
  <2>1. Alone(<<"IGMPRltByCPU">>, 1, Page1.IGMPSNOP, 13, 1)
    BY DEF Alone, Field, Bit, OwnersAt, Page1Groups, Page1
  <2>2. QED
    BY <2>1, OnOffGood DEF IGMPRltByCPU, Page1
<1>5. \A s \in IGMPPktForward : Good(s)
  <2>1. \A t \in {0, 4, 8, 12} :
          Alone(<<"IGMPPktForward", t>>, 1, Page1.IGMPPKTFWD, t, 4)
    BY DEF Alone, Field, Bit, OwnersAt, Page1Groups, Page1
  <2>2. \A t \in {1, 6, 11} :
          Alone(<<"IGMPPktForward", t>>, 1, Page1.IGMPPKTFWD + 1, t - 1, 5)
    BY DEF Alone, Field, Bit, OwnersAt, Page1Groups, Page1
  <2>3. QED
    BY <2>1, <2>2, WordGood DEF IGMPPktForward, Page1
<1>6. \A s \in IGMPRlt : Good(s)
  <2>1. PortsAlone("IGMPRlt", 1, Page1.ROUTLIST)
    BY DEF PortsAlone, Alone, Field, Bit, OwnersAt, Page1Groups, Each, Page1
  <2>2. QED
    BY <2>1, EachPortGood DEF IGMPRlt, Page1
<1>7. \A s \in IGMPHashMethod : Good(s)
  <2>1. Alone(<<"IGMPHashMethod">>, 1, Page1.IGMPPKTFWD + 1, 15, 1)
    BY DEF Alone, Field, Bit, OwnersAt, Page1Groups, Page1
  <2>2. QED
    BY <2>1, OnOffGood DEF IGMPHashMethod, Page1
<1>8. \A s \in IGMPMldRule : Good(s)
  <2>1. \A i : Disturbs(<<"CapIpv6Act", i>>, <<"IGMPMldRule">>)
    BY DEF Disturbs, Companions, Clashes
  <2>2. Alone(<<"IGMPMldRule">>, 0, Page0.IPV6RLTFWD, 8, 2)
    BY <2>1 DEF Alone, Field, Bit, OwnersAt, Page0Ipv6, Each, Page0
  <2>3. QED
    BY <2>2, WordGood DEF IGMPMldRule, Page0
<1>9. QED
  BY <1>1, <1>2, <1>3, <1>4, <1>5, <1>6, <1>7, <1>8 DEF IgmpCommands

\* Bindings of addresses to ports.
LEMMA ImpGood == \A s \in ImpCommands : Good(s)
<1>1. \A s \in ImpMode : Good(s)
  <2>1. Alone(<<"ImpMode">>, 2, Page2.IMPCFG + 1, 13, 1)
    <3>1. \A x \in Field(Page2.IMPCFG + 1, 13, 1) :
            x < Bit(\h6A, 0) /\ Page2Vlans(x) = {<<"ImpMode">>}
      BY Page2Regs DEF Field, Bit, Page2Vlans
    <3>2. QED
      BY <3>1, VlansAlone
  <2>2. QED
    BY <2>1, OnOffGood DEF ImpMode, Page2
<1>2. \A s \in ImpPassNullIP : Good(s)
  <2>1. Alone(<<"ImpPassNullIP">>, 2, Page2.IMPCFG + 1, 14, 1)
    <3>1. \A x \in Field(Page2.IMPCFG + 1, 14, 1) :
            x < Bit(\h6A, 0) /\ Page2Vlans(x) = {<<"ImpPassNullIP">>}
      BY Page2Regs DEF Field, Bit, Page2Vlans
    <3>2. QED
      BY <3>1, VlansAlone
  <2>2. QED
    BY <2>1, OnOffGood DEF ImpPassNullIP, Page2
<1>3. \A s \in ImpHash : Good(s)
  <2>1. Alone(<<"ImpHash">>, 2, Page2.IMPCFG + 1, 15, 1)
    <3>1. \A x \in Field(Page2.IMPCFG + 1, 15, 1) :
            x < Bit(\h6A, 0) /\ Page2Vlans(x) = {<<"ImpHash">>}
      BY Page2Regs DEF Field, Bit, Page2Vlans
    <3>2. QED
      BY <3>1, VlansAlone
  <2>2. QED
    BY <2>1, OnOffGood DEF ImpHash, Page2
<1>4. \A s \in ImpPort : Good(s)
  <2>1. PortsAlone("ImpPort", 2, Page2.IMPCFG)
    <3>1. ASSUME NEW p \in 1..29
          PROVE  Alone(<<"ImpPort", p>>, 2, Page2.IMPCFG, p - 1, 1)
      <4>1. ASSUME NEW x \in Field(Page2.IMPCFG, p - 1, 1)
            PROVE  x < Bit(\h6A, 0) /\ Page2Vlans(x) = {<<"ImpPort", p>>}
        <5>1. /\ x < Bit(\h02, 13) /\ x < Bit(\h6A, 0)
              /\ (x - Bit(\h01, 0)) \div 1 + 1 = p
          BY Page2Regs DEF Field, Bit
        <5>2. Page2Vlans(x) = Each("ImpPort", \h01, 1, 1, x)
          BY <5>1 DEF Page2Vlans
        <5>3. QED
          BY <5>1, <5>2 DEF Each
      <4>2. QED
        BY <4>1, VlansAlone
    <3>2. QED
      BY <3>1 DEF PortsAlone
  <2>2. QED
    BY <2>1, EachPortGood DEF ImpPort, Page2
<1>5. QED
  BY <1>1, <1>2, <1>3, <1>4 DEF ImpCommands

\* Classes of service of TCP and UDP.
LEMMA CosGood == \A s \in CosCommands : Good(s)
<1>1. \A s \in CosTcpUdpUserDefine : Good(s)
  <2>1. FieldsAlone("CosTcpUdpUserDefine", 0, Page0.TCPUDPUSERDEF, 16, 0..7)
    BY DEF FieldsAlone, Alone, Field, Bit, OwnersAt, Page0Captures, Each, Page0
  <2>2. FieldsAlone("CosTcpUdpUserDefine", 0, Page0.TCPUDPUSERDEF, 16, {0, 1, 7})
    BY <2>1 DEF FieldsAlone
  <2>3. Word(16) \in SUBSET SUBSET (1..16)
    BY WordFits
  <2>4. QED
    BY <2>2, <2>3, EachFieldGood DEF CosTcpUdpUserDefine, Page0
<1>2. \A s \in CosTcpUdpQueue : Good(s)
  <2>1. FieldsAlone("CosTcpUdpQueue", 0, Page0.TCPUDPPRICFG, 4, TcpUdp)
    BY DEF FieldsAlone, Alone, Field, Bit, OwnersAt, Page0Captures, Each,
       TcpUdp, Page0
  <2>2. Codes({0, 7, 9, 11}) \in SUBSET SUBSET (1..4) /\ TcpUdp \in SUBSET Nat
    <3>1. \A v \in {0, 7, 9, 11} : v \in Nat /\ v < 16
      OBVIOUS
    <3>2. Codes({0, 7, 9, 11}) \in SUBSET SUBSET (1..4)
      BY <3>1, FourBits
    <3>3. QED
      BY <3>2 DEF TcpUdp
  <2>3. QED
    BY <2>1, <2>2, EachFieldGood DEF CosTcpUdpQueue, Page0
<1>3. \A s \in CosTcpUdpEnable : Good(s)
  <2>1. PortsAlone("CosTcpUdpEnable", 0, Page0.TCPUDFUNCEN)
    BY DEF PortsAlone, Alone, Field, Bit, OwnersAt, Page0Captures, Each, Page0
  <2>2. QED
    BY <2>1, EachPortGood DEF CosTcpUdpEnable, Page0
<1>4. \A s \in CosTcpEnable : Good(s)
  <2>1. \A i \in TcpUdp :
          Alone(<<"CosTcpEnable", i>>, 0, Page0.TCPCHECKEN, i, 1) /\ i \in Nat
    BY DEF Alone, Field, Bit, OwnersAt, Page0Captures, Each, TcpUdp, Page0
  <2>2. {{}, {1}} \subseteq SUBSET (1..1)
    OBVIOUS
  <2>3. Page0.TCPCHECKEN \in Nat
    BY DEF Page0
  <2>4. \A i \in TcpUdp : \A bars :
          Good(Setting(<<"CosTcpEnable", i>>, Run(0, Page0.TCPCHECKEN, i, 1),
                       Run(0, Page0.TCPCHECKEN, i, 1), {}, bars, {{}, {1}}))
    BY <2>1, <2>2, <2>3, BarredGood
  <2>5. QED
    BY <2>4 DEF CosTcpEnable, CosUnlessDropped
<1>5. \A s \in CosUdpEnable : Good(s)
  <2>1. \A i \in TcpUdp :
          Alone(<<"CosUdpEnable", i>>, 0, Page0.UDPCHECKEN, i, 1) /\ i \in Nat
    BY DEF Alone, Field, Bit, OwnersAt, Page0Captures, Each, TcpUdp, Page0
  <2>2. {{}, {1}} \subseteq SUBSET (1..1)
    OBVIOUS
  <2>3. Page0.UDPCHECKEN \in Nat
    BY DEF Page0
  <2>4. \A i \in TcpUdp : \A bars :
          Good(Setting(<<"CosUdpEnable", i>>, Run(0, Page0.UDPCHECKEN, i, 1),
                       Run(0, Page0.UDPCHECKEN, i, 1), {}, bars, {{}, {1}}))
    BY <2>1, <2>2, <2>3, BarredGood
  <2>5. QED
    BY <2>4 DEF CosUdpEnable, CosUnlessDropped
<1>6. \A s \in CosTcpFlagDropNull : Good(s)
  <2>1. Alone(<<"CosTcpFlagDropNull">>, 0, Page0.TCPFLGCFGGLB, 0, 1)
    BY DEF Alone, Field, Bit, OwnersAt, Page0Loops, Page0
  <2>2. QED
    BY <2>1, OnOffGood DEF CosTcpFlagDropNull, Page0
<1>7. \A s \in CosTcpFlagDropAllset : Good(s)
  <2>1. Alone(<<"CosTcpFlagDropAllset">>, 0, Page0.TCPFLGCFGGLB, 1, 1)
    BY DEF Alone, Field, Bit, OwnersAt, Page0Loops, Page0
  <2>2. QED
    BY <2>1, OnOffGood DEF CosTcpFlagDropAllset, Page0
<1>8. \A s \in CosTcpFlag : Good(s)
  <2>1. \A i \in Flags :
          Among(<<"CosTcpFlag", i>>, 0, Page0.TCPFLGCFG + i, 0, 8)
    BY DEF Among, Field, Bit, OwnersAt, Page0Loops, Each, Flags, Page0
  <2>2. /\ Word(4) \in SUBSET SUBSET (1..8)
        /\ \A i \in Flags : Page0.TCPFLGCFG + i \in Nat
    BY WordFits DEF Flags, Page0
  <2>3. \A i \in Flags :
          Good(Setting(<<"CosTcpFlag", i>>, Run(0, Page0.TCPFLGCFG + i, 0, 8),
                       << >>, {}, {}, Word(4)))
    BY <2>1, <2>2, SetGood, Zenon
  <2>4. QED
    BY <2>3 DEF CosTcpFlag
<1>9. \A s \in CosTcpFlagAct : Good(s)
  <2>1. \A i \in Flags :
          Alone(<<"CosTcpFlagAct", i>>, 0, Page0.TCPFLGCFG + i, 12, 2)
    BY DEF Alone, Field, Bit, OwnersAt, Page0Loops, Each, Flags, Page0
  <2>2. /\ Codes(0..3) \subseteq SUBSET (1..2)
        /\ \A i \in Flags : Page0.TCPFLGCFG + i \in Nat
    <3>1. \A v \in 0..3 : v \in Nat /\ v < 4
      OBVIOUS
    <3>2. Codes(0..3) \subseteq SUBSET (1..2)
      BY <3>1, TwoBits
    <3>3. QED
      BY <3>2 DEF Flags, Page0
  <2>3. \A i \in Flags :
          Good(Setting(<<"CosTcpFlagAct", i>>,
                       Run(0, Page0.TCPFLGCFG + i, 12, 2),
                       Run(0, Page0.TCPFLGCFG + i, 12, 2), {},
                       {Places(L3Places(L3Tcp))}, Codes(0..3)))
    BY <2>1, <2>2, BarredGood, Zenon
  <2>4. QED
    BY <2>3 DEF CosTcpFlagAct
<1>10. \A s \in CosTcpFlagPort : Good(s)
  <2>1. \A i \in Flags :
          Alone(<<"CosTcpFlagPort", i>>, 0, Page0.TCPFLGPORTEN + 2 * i, 0, 32)
    BY DEF Alone, Field, Bit, OwnersAt, Page0Loops, Each, Flags, Page0
  <2>2. \A i \in Flags : Page0.TCPFLGPORTEN + 2 * i \in Nat
    BY DEF Flags, Page0
  <2>3. \A i \in Flags :
          Good(Kept(<<"CosTcpFlagPort", i>>,
                    TwoRegs(0, Page0.TCPFLGPORTEN + 2 * i), Word(29)))
    BY <2>1, <2>2, MapGood, Zenon
  <2>4. QED
    BY <2>3 DEF CosTcpFlagPort
<1>11. QED
  BY <1>1, <1>2, <1>3, <1>4, <1>5, <1>6, <1>7, <1>8, <1>9, <1>10 DEF
     CosCommands

\* VLANs: groups, uplinks, double tags, and the protocol VLANs, whose
\* registers the ACL has too.
LEMMA VlanGood == \A s \in VlanCommands : Good(s)
<1>1. \A s \in VlanEgressFrame : Good(s)
  <2>1. Alone(<<"VlanEgressFrame">>, 2, Page2.EGRESS_CFG + 1, 13, 3)
    <3>1. \A x \in Field(Page2.EGRESS_CFG + 1, 13, 3) :
            x < Bit(\h6A, 0) /\ Page2Vlans(x) = {<<"VlanEgressFrame">>}
      BY Page2Regs DEF Field, Bit, Page2Vlans
    <3>2. QED
      BY <3>1, VlansAlone
  <2>2. QED
    BY <2>1, WordGood DEF VlanEgressFrame, Page2
<1>2. \A s \in VlanTagging : Good(s)
  <2>1. Alone(<<"VlanTagging">>, 2, Page2.VLANCFG, 3, 1)
    <3>1. \A x \in Field(Page2.VLANCFG, 3, 1) :
            x < Bit(\h6A, 0) /\ Page2Vlans(x) = {<<"VlanTagging">>}
      BY Page2Regs DEF Field, Bit, Page2Vlans
    <3>2. QED
      BY <3>1, VlansAlone
  <2>2. QED
    BY <2>1, OnOffGood DEF VlanTagging, Page2
<1>3. \A s \in VlanType : Good(s)
  <2> DEFINE bits == Run(2, Page2.VLANCFG, 0, 2)
             option(x) == [Writing(bits, {}, {b \in {1, 2} : 1 \in x}) EXCEPT !.says = x]
             s1 == [name |-> <<"VlanType">>, get |-> <<bits[2]>>, bars |-> {},
                    options |-> {option(x) : x \in {{}, {1}}}]
  <2>1. Alone(<<"VlanType">>, 2, Page2.VLANCFG, 0, 2)
    <3>1. \A x \in Field(Page2.VLANCFG, 0, 2) :
            x < Bit(\h6A, 0) /\ Page2Vlans(x) = {<<"VlanType">>}
      BY Page2Regs DEF Field, Bit, Page2Vlans
    <3>2. QED
      BY <3>1, VlansAlone
  <2>2. Held(<<"VlanType">>, bits) /\ DOMAIN bits = 1..2
    <3>1. Page2.VLANCFG \in Nat
      BY DEF Page2
    <3>2. Held(<<"VlanType">>, bits)
      BY <2>1, <3>1, RunHeld
    <3>3. DOMAIN bits = 1..2
      BY DEF Run
    <3>4. QED
      BY <3>2, <3>3
  <2>3. /\ option({}).on = {} /\ option({}).off = {bits[1], bits[2]}
        /\ option({}).says = {}
        /\ option({1}).on = {bits[1], bits[2]} /\ option({1}).off = {}
        /\ option({1}).says = {1}
    BY <2>2 DEF Writing
  <2> HIDE DEF option, bits
  <2>4. Stays(s1)
    BY <2>2, <2>3 DEF Stays, Held
  <2>5. Found(s1)
    BY <2>2, <2>3 DEF Found, Held, Returned
  <2>6. Good(s1)
    BY <2>4, <2>5 DEF Good
  <2>7. QED
    BY <2>6 DEF VlanType, option, bits
<1>4. \A s \in VlanGroup : Good(s)
  <2> DEFINE index == 0..28
             at(i, j) == Run(2, GroupOf(i), j, 1)[1]
             bits(p, q) == UNION {{Run(2, GroupOf(i), j, 1)[1] : j \in {p, q}} :
                                i \in {p, q}}
             Join(p, q) == [on |-> bits(p, q), off |-> {}, says |-> {}]
             Part(p, q) == [on |-> {}, off |-> bits(p, q), says |-> {}]
             s1(p, q) == WriteOnly(<<"VlanGroup", p, q>>, {Join(p, q), Part(p, q)})
  <2>1. ASSUME NEW p \in 0..28, NEW q \in 0..28, NEW i \in 0..28, NEW j \in 0..28
        PROVE  Owns(<<"VlanGroup", p, q>>, at(i, j))
    <3>1. Among(<<"VlanGroup", p, q>>, 2, GroupOf(i), j, 1)
      <4>1. j \in 0..31 /\ 1 \in Nat /\ j + 1 <= 32
        OBVIOUS
      <4>2. ASSUME NEW x \in Field(GroupOf(i), j, 1)
            PROVE  <<"VlanGroup", p, q>> \in OwnersAt(2, x)
        <5>1. OwnersAt(2, x) = OwnersOfGroup(i)
          BY <4>1, MembersOfPage2
        <5>2. QED
          BY <5>1 DEF OwnersOfGroup
      <4>3. QED
        BY <4>2 DEF Among
    <3>2. GroupOf(i) \in Nat
      BY DEF GroupOf, Page2
    <3>3. j \in Nat
      OBVIOUS
    <3>4. \A b \in 1..1 :
            Owns(<<"VlanGroup", p, q>>, Run(2, GroupOf(i), j, 1)[b])
      BY <3>1, <3>2, <3>3, RunAmong
    <3>5. 1 \in 1..1
      OBVIOUS
    <3>6. QED
      BY <3>4, <3>5
  <2> HIDE DEF at, index
  <2>2. ASSUME NEW p, NEW q, p \in index, q \in index, NEW place, place \in bits(p, q)
        PROVE  Owns(<<"VlanGroup", p, q>>, place)
    <3>1. \A i, j : i \in index /\ j \in index => Owns(<<"VlanGroup", p, q>>, at(i, j))
      BY <2>1, <2>2 DEF index
    <3>2. \E i, j : i \in {p, q} /\ j \in {p, q} /\ place = at(i, j)
      BY <2>2 DEF at
    <3> HIDE DEF bits
    <3>3. QED
      BY <2>2, <3>1, <3>2, Zenon
  <2> HIDE DEF bits
  <2> USE DEF index
  <2>3. ASSUME NEW p \in 0..28, NEW q \in 0..28
        PROVE  Good(s1(p, q))
    <3>1. /\ s1(p, q).name = <<"VlanGroup", p, q>> /\ s1(p, q).get = << >>
          /\ s1(p, q).options = {Join(p, q), Part(p, q)}
      BY DEF WriteOnly
    <3>2. \A o \in {Join(p, q), Part(p, q)} :
            \A place \in o.on \cup o.off : Owns(<<"VlanGroup", p, q>>, place)
      <4>1. /\ Join(p, q).on \cup Join(p, q).off = bits(p, q)
            /\ Part(p, q).on \cup Part(p, q).off = bits(p, q)
        OBVIOUS
      <4> HIDE DEF Join, Part
      <4>2. QED
        BY <2>2, <4>1
    <3> HIDE DEF s1, Join, Part
    <3>3. Stays(s1(p, q))
      BY <3>1, <3>2 DEF Stays
    <3>4. QED
      BY <3>1, <3>3, WriteGood
  <2>4. VlanGroup = UNION {{s1(p, q) : q \in {r \in Port0 : p <= r}} : p \in Port0}
    BY DEF VlanGroup, bits
  <2> HIDE DEF s1
  <2>5. ASSUME NEW s \in VlanGroup
        PROVE  Good(s)
    <3>1. PICK p \in Port0 : s \in {s1(p, q) : q \in {r \in Port0 : p <= r}}
      BY <2>4
    <3>2. PICK q \in Port0 : s = s1(p, q)
      BY <3>1
    <3>3. p \in 0..28 /\ q \in 0..28
      BY PortsFromZero
    <3>4. QED
      BY <2>3, <3>2, <3>3
  <2>6. QED
    BY <2>5
<1>5. \A s \in VlanPortMember : Good(s)
  <2>1. \A p, i, j : Disturbs(<<"VlanGroup", i, j>>, <<"VlanPortMember", p>>)
    BY DEF Disturbs, Companions, Clashes
  <2>2. \A p \in 0..28 : Alone(<<"VlanPortMember", p>>, 2, GroupOf(p), 0, 32)
    <3>1. 0 \in 0..31 /\ 32 \in Nat /\ 0 + 32 <= 32
      OBVIOUS
    <3>2. ASSUME NEW p \in 0..28, NEW x \in Field(GroupOf(p), 0, 32)
          PROVE  OwnersAt(2, x) = OwnersOfGroup(p)
      BY <3>1, MembersOfPage2
    <3>3. \A p \in 0..28 : <<"VlanPortMember", p>> \in OwnersOfGroup(p)
      BY DEF OwnersOfGroup
    <3>4. \A p \in 0..28 : \A k \in OwnersOfGroup(p) :
            k = <<"VlanPortMember", p>> \/ Disturbs(k, <<"VlanPortMember", p>>)
      BY <2>1 DEF OwnersOfGroup
    <3>5. QED
      BY <3>2, <3>3, <3>4 DEF Alone
  <2>3. \A p \in 0..28 : GroupOf(p) \in Nat
    BY DEF GroupOf, Page2
  <2>4. \A p \in 0..28 :
          Good(Kept(<<"VlanPortMember", p>>, TwoRegs(2, GroupOf(p)), Word(29)))
    BY <2>2, <2>3, MapGood
  <2>5. QED
    BY <2>4, PortsFromZero DEF VlanPortMember
<1>6. \A s \in VlanQinQPType : Good(s)
  <2>1. Alone(<<"VlanQinQPType">>, 7, Page7.QINQEGTYPELEN, 0, 16)
    BY DEF Alone, Field, Bit, OwnersAt, Page7Tags, Page7
  <2>2. QED
    BY <2>1, WordGood DEF VlanQinQPType, Page7
<1>7. \A s \in VlanQinQPAddtag : Good(s)
  <2>1. Alone(<<"VlanQinQPAddtag">>, 7, Page7.QINQ_ADDTAG, 0, 32)
    BY DEF Alone, Field, Bit, OwnersAt, Page7Tags, Page7
  <2>2. QED
    BY <2>1, MapGood DEF VlanQinQPAddtag, MemberMap, Page7
<1>8. \A s \in VlanQinQPRmvtag : Good(s)
  <2>1. Alone(<<"VlanQinQPRmvtag">>, 7, Page7.QINQ_RMVTAG, 0, 32)
    BY DEF Alone, Field, Bit, OwnersAt, Page7Tags, Page7
  <2>2. QED
    BY <2>1, MapGood DEF VlanQinQPRmvtag, MemberMap, Page7
<1>9. \A s \in VlanQinQPRxdet : Good(s)
  <2>1. Alone(<<"VlanQinQPRxdet">>, 7, Page7.QINQ_DET_RX, 0, 32)
    BY DEF Alone, Field, Bit, OwnersAt, Page7Tags, Page7
  <2>2. QED
    BY <2>1, MapGood DEF VlanQinQPRxdet, MemberMap, Page7
<1>10. \A s \in VlanQinQPKeep : Good(s)
  <2>1. \A b \in 1..29 :
          Alone(<<"VlanQinQPKeep">>, 7, Page7.QINQ_P_DATA + b - 1, 12, 1)
    BY DEF Alone, Field, Bit, OwnersAt, Page7Tags, Page7
  <2>2. QED
    BY <2>1, BitOfEachGood DEF VlanQinQPKeep, Page7
<1>11. \A s \in VlanQinQPIndex : Good(s)
  <2>1. \A p \in 0..28 :
          Alone(<<"VlanQinQPIndex", p>>, 7, Page7.QINQ_P_DATA + p, 0, 6)
    BY DEF Alone, Field, Bit, OwnersAt, Page7Tags, Each, Page7
  <2>2. \A p \in 0..28 : Page7.QINQ_P_DATA + p \in Nat /\ 0 \in Nat
    BY DEF Page7
  <2>3. ASSUME NEW p \in 0..28
        PROVE  Good(Kept(<<"VlanQinQPIndex", p>>,
                         Run(7, Page7.QINQ_P_DATA + p, 0, 6), Word(6)))
    <3>1. 6 \in Nat \ {0}
      OBVIOUS
    <3>2. QED
      BY <2>1, <2>2, <3>1, WordGood
  <2>4. QED
    BY <2>3, PortsFromZero DEF VlanQinQPIndex
<1>12. \A s \in VlanQinQIndex : Good(s)
  <2>1. \A i \in {0, 1, 63} :
          Alone(<<"VlanQinQIndex", i>>, 7, Page7.QINQ_DATA + i, 0, 16)
    BY DEF Alone, Field, Bit, OwnersAt, Page7Tags, Each, Page7
  <2>2. QED
    BY <2>1, WordGood DEF VlanQinQIndex, Page7
<1>13. \A s \in VlanPortAddtag : Good(s)
  <2>1. Alone(<<"VlanPortAddtag">>, 2, Page2.ADDTAG, 0, 32)
    BY DEF Alone, Field, Bit, OwnersAt, Page2Members, Page2
  <2>2. QED
    BY <2>1, MapGood DEF VlanPortAddtag, MemberMap, Page2
<1>14. \A s \in VlanPortRmvtag : Good(s)
  <2>1. Alone(<<"VlanPortRmvtag">>, 2, Page2.RMVTAG, 0, 32)
    BY DEF Alone, Field, Bit, OwnersAt, Page2Members, Page2
  <2>2. QED
    BY <2>1, MapGood DEF VlanPortRmvtag, MemberMap, Page2
<1>15. \A s \in VlanPortForce : Good(s)
  <2>1. \A b \in 1..29 :
          Alone(<<"VlanPortForce">>, 2, Page2.PVIDCFG + b - 1, 15, 1)
    <3>1. ASSUME NEW b \in 1..29
          PROVE  \A x \in Field(Page2.PVIDCFG + b - 1, 15, 1) :
                   x < Bit(\h6A, 0) /\ Page2Vlans(x) = {<<"VlanPortForce">>}
      BY Page2Regs DEF Field, Bit, Page2Vlans
    <3>2. QED
      BY <3>1, VlansAlone
  <2>2. QED
    BY <2>1, BitOfEachGood DEF VlanPortForce, Page2
<1>16. \A s \in VlanPortUplink : Good(s)
  <2> DEFINE map == Run(2, Page2.UPLINK, 0, 30)
             get == SubSeq(map, 1, 29)
             option(x) == [Writing(map, {}, x \cup {30}) EXCEPT !.says = x]
             s1 == [name |-> <<"VlanPortUplink">>, get |-> get, bars |-> {},
                    options |-> {option(x) : x \in Word(29)}]
  <2>1. Alone(<<"VlanPortUplink">>, 2, Page2.UPLINK, 0, 30)
    BY DEF Alone, Field, Bit, OwnersAt, Page2Members, Page2
  <2>2. Held(<<"VlanPortUplink">>, map) /\ DOMAIN map = 1..30 /\ Distinct(map)
    <3>1. Page2.UPLINK \in Nat
      BY DEF Page2
    <3>2. Held(<<"VlanPortUplink">>, map)
      BY <2>1, <3>1, RunHeld
    <3>3. Distinct(map)
      BY <3>1, RunDistinct
    <3>4. DOMAIN map = 1..30
      BY DEF Run
    <3>5. QED
      BY <3>2, <3>3, <3>4
  <2>3. DOMAIN get = 1..29 /\ \A b \in 1..29 : get[b] = map[b]
    BY DEF Run
  <2> HIDE DEF map, get
  <2>4. ASSUME NEW x \in SUBSET (1..29)
        PROVE  /\ option(x).on = {map[b] : b \in x \cup {30}}
               /\ option(x).off = {map[b] : b \in (1..30) \ (x \cup {30})}
               /\ option(x).says = x
    BY <2>2 DEF Writing
  <2> HIDE DEF option
  <2>5. Word(29) \subseteq SUBSET (1..29)
    BY WordFits
  <2>6. ASSUME NEW x \in SUBSET (1..29)
        PROVE  /\ \A place \in option(x).on \cup option(x).off :
                    Owns(<<"VlanPortUplink">>, place)
               /\ Returned(get, option(x))
    <3>1. \A place \in option(x).on \cup option(x).off :
            Owns(<<"VlanPortUplink">>, place)
      <4>1. \A b \in 1..30 : Owns(<<"VlanPortUplink">>, map[b])
        BY <2>2 DEF Held
      <4>2. ASSUME NEW place \in option(x).on \cup option(x).off
            PROVE  \E b \in 1..30 : place = map[b]
        BY <2>4
      <4>3. QED
        BY <4>1, <4>2
    <3>2. /\ x \subseteq DOMAIN get
          /\ \A b \in x : get[b] \in option(x).on
      BY <2>3, <2>4
    <3>3. ASSUME NEW b \in (1..29) \ x
          PROVE  get[b] \in option(x).off /\ get[b] \notin option(x).on
      <4>1. get[b] = map[b] /\ b \in (1..30) \ (x \cup {30})
        BY <2>3
      <4>2. ASSUME NEW c \in x \cup {30}
            PROVE  map[b] # map[c]
        BY <2>2, <4>1 DEF Distinct
      <4>3. QED
        BY <2>4, <4>1, <4>2
    <3>4. Returned(get, option(x))
      BY <2>3, <2>4, <3>2, <3>3 DEF Returned
    <3>5. QED
      BY <3>1, <3>4
  <2>7. Stays(s1)
    BY <2>5, <2>6 DEF Stays
  <2>8. Found(s1)
    BY <2>2, <2>3, <2>5, <2>6 DEF Found, Held
  <2>9. Good(s1)
    BY <2>7, <2>8 DEF Good
  <2>10. QED
    BY <2>9 DEF VlanPortUplink, option, map, get
<1>17. \A s \in VlanPortExclusive : Good(s)
  <2>1. Alone(<<"VlanPortExclusive">>, 2, Page2.EXCLUSIVE, 0, 32)
    BY DEF Alone, Field, Bit, OwnersAt, Page2Members, Page2
  <2>2. QED
    BY <2>1, MapGood DEF VlanPortExclusive, MemberMap, Page2
<1>18. \A s \in VlanPortEgress : Good(s)
  <2>1. Alone(<<"VlanPortEgress">>, 2, Page2.EGRESS_CFG, 0, 29)
    <3>1. \A x \in Field(Page2.EGRESS_CFG, 0, 29) :
            x < Bit(\h6A, 0) /\ Page2Vlans(x) = {<<"VlanPortEgress">>}
      BY Page2Regs DEF Field, Bit, Page2Vlans
    <3>2. QED
      BY <3>1, VlansAlone
  <2>2. QED
    BY <2>1, WordGood DEF VlanPortEgress, Page2
<1>19. \A s \in VlanPortIngressFrame : Good(s)
  <2>1. \A p \in 0..28 :
          Alone(<<"VlanPortIngressFrame", p>>, 2, Page2.INGRESS_FRAME, 2 * p, 2)
    <3>1. ASSUME NEW p \in 0..28, NEW x \in Field(Page2.INGRESS_FRAME, 2 * p, 2)
          PROVE  x < Bit(\h6A, 0) /\ Page2Vlans(x) = {<<"VlanPortIngressFrame", p>>}
      <4>1. x < Bit(\h6A, 0) /\ Page2Vlans(x) = Each("VlanPortIngressFrame", \h0B, 2, 0, x)
        BY Page2Regs DEF Field, Bit, Page2Vlans
      <4>2. (x - Bit(\h0B, 0)) \div 2 + 0 = p
        BY Page2Regs DEF Field, Bit
      <4>3. QED
        BY <4>1, <4>2 DEF Each
    <3>2. QED
      BY <3>1, VlansAlone
  <2>2. \A p \in 0..28 : Page2.INGRESS_FRAME \in Nat /\ 2 * p \in Nat
    BY DEF Page2
  <2>3. ASSUME NEW p \in 0..28
        PROVE  Good(Kept(<<"VlanPortIngressFrame", p>>,
                         Run(2, Page2.INGRESS_FRAME, 2 * p, 2), Word(2)))
    <3>1. 2 \in Nat \ {0}
      OBVIOUS
    <3>2. QED
      BY <2>1, <2>2, <3>1, WordGood
  <2>4. QED
    BY <2>3, PortsFromZero DEF VlanPortIngressFrame
<1>20. \A s \in VlanPortIngressCheck : Good(s)
  <2>1. Alone(<<"VlanPortIngressCheck">>, 2, Page2.INGRESS_CHK, 0, 32)
    <3>1. \A x \in Field(Page2.INGRESS_CHK, 0, 32) :
            x < Bit(\h6A, 0) /\ Page2Vlans(x) = {<<"VlanPortIngressCheck">>}
      BY Page2Regs DEF Field, Bit, Page2Vlans
    <3>2. QED
      BY <3>1, VlansAlone
  <2>2. QED
    BY <2>1, MapGood DEF VlanPortIngressCheck, MemberMap, Page2
<1>21. \A s \in VlanPortVid : Good(s)
  <2>1. \A p \in 0..28 :
          Alone(<<"VlanPortVid", p>>, 2, Page2.PVIDCFG + p, 0, 12)
    <3>1. ASSUME NEW p \in 0..28, NEW x \in Field(Page2.PVIDCFG + p, 0, 12)
          PROVE  x < Bit(\h6A, 0) /\ Page2Vlans(x) = {<<"VlanPortVid", p>>}
      <4>1. x < Bit(\h6A, 0) /\ Page2Vlans(x) = Each("VlanPortVid", \h13, 16, 0, x)
        BY Page2Regs DEF Field, Bit, Page2Vlans
      <4>2. (x - Bit(\h13, 0)) \div 16 + 0 = p
        BY Page2Regs DEF Field, Bit
      <4>3. QED
        BY <4>1, <4>2 DEF Each
    <3>2. QED
      BY <3>1, VlansAlone
  <2>2. \A p \in 0..28 : Page2.PVIDCFG + p \in Nat /\ 0 \in Nat
    BY DEF Page2
  <2>3. ASSUME NEW p \in 0..28
        PROVE  Good(Kept(<<"VlanPortVid", p>>,
                         Run(2, Page2.PVIDCFG + p, 0, 12), Word(12)))
    <3>1. 12 \in Nat \ {0}
      OBVIOUS
    <3>2. QED
      BY <2>1, <2>2, <3>1, WordGood
  <2>4. QED
    BY <2>3, PortsFromZero DEF VlanPortVid
<1>22. \A s \in VlanProtocolMode : Good(s)
  <2>1. ASSUME NEW i \in Protocols
        PROVE  Good(Kept(<<"VlanProtocolMode", i>>,
                         Run(2, ProtocolReg(i) + 1, 12, 2), Word(2)))
    <3>1. ASSUME NEW x \in Field(ProtocolReg(i) + 1, 12, 2)
          PROVE  /\ <<"VlanProtocolMode", i>> \in OwnersAt(2, x)
                 /\ \A k \in OwnersAt(2, x) :
                      k = <<"VlanProtocolMode", i>>
                      \/ Disturbs(k, <<"VlanProtocolMode", i>>)
      <4> DEFINE pair == i - 1
                 place == x - Bit(\h6A, 0) - 32 * pair
      <4>1. /\ pair \in Nat /\ pair < 16 /\ pair + 1 = i
            /\ x = Bit(\h6A, 0) + 32 * pair + place
            /\ place \in 28 .. 29
        BY DEF Protocols, ProtocolReg, Field, Bit, Page2
      <4> HIDE DEF pair, place
      <4>2. place \in 0..31
        BY <4>1
      <4>3. OwnersAt(2, x) = {<<"AclVidRemark",
                               IF place < 15 THEN 2 * pair ELSE 2 * pair + 1>>,
                              <<"VlanProtocolClear", i>>, <<"VlanProtocolMode", i>>}
        BY <4>1, <4>2, RemarkOwners
      <4>4. /\ \A j : Disturbs(<<"AclVidRemark", j>>, <<"VlanProtocolMode", i>>)
            /\ Disturbs(<<"VlanProtocolClear", i>>, <<"VlanProtocolMode", i>>)
        BY RemarksDisturb
      <4>5. QED
        BY <4>3, <4>4
    <3>2. Alone(<<"VlanProtocolMode", i>>, 2, ProtocolReg(i) + 1, 12, 2)
      BY <3>1 DEF Alone
    <3>3. ProtocolReg(i) + 1 \in Nat
      BY DEF Protocols, ProtocolReg, Page2
    <3>4. QED
      BY <3>2, <3>3, WordGood
  <2>2. QED
    BY <2>1 DEF VlanProtocolMode
<1>23. \A s \in VlanProtocolVid : Good(s)
  <2>1. ASSUME NEW i \in Protocols
        PROVE  Good(Kept(<<"VlanProtocolVid", i>>,
                         Run(2, ProtocolReg(i) + 1, 0, 12), Word(12)))
    <3>1. ASSUME NEW x \in Field(ProtocolReg(i) + 1, 0, 12)
          PROVE  /\ <<"VlanProtocolVid", i>> \in OwnersAt(2, x)
                 /\ \A k \in OwnersAt(2, x) :
                      k = <<"VlanProtocolVid", i>>
                      \/ Disturbs(k, <<"VlanProtocolVid", i>>)
      <4> DEFINE pair == i - 1
                 place == x - Bit(\h6A, 0) - 32 * pair
      <4>1. /\ pair \in Nat /\ pair < 16 /\ pair + 1 = i
            /\ x = Bit(\h6A, 0) + 32 * pair + place
            /\ place \in 16 .. 27
        BY DEF Protocols, ProtocolReg, Field, Bit, Page2
      <4> HIDE DEF pair, place
      <4>2. place \in 0..31
        BY <4>1
      <4>3. OwnersAt(2, x) = {<<"AclVidRemark",
                               IF place < 15 THEN 2 * pair ELSE 2 * pair + 1>>,
                              <<"VlanProtocolClear", i>>, <<"VlanProtocolVid", i>>}
        BY <4>1, <4>2, RemarkOwners
      <4>4. /\ \A j : Disturbs(<<"AclVidRemark", j>>, <<"VlanProtocolVid", i>>)
            /\ Disturbs(<<"VlanProtocolClear", i>>, <<"VlanProtocolVid", i>>)
        BY RemarksDisturb
      <4>5. QED
        BY <4>3, <4>4
    <3>2. Alone(<<"VlanProtocolVid", i>>, 2, ProtocolReg(i) + 1, 0, 12)
      BY <3>1 DEF Alone
    <3>3. ProtocolReg(i) + 1 \in Nat
      BY DEF Protocols, ProtocolReg, Page2
    <3>4. QED
      BY <3>2, <3>3, WordGood
  <2>2. QED
    BY <2>1 DEF VlanProtocolVid
<1>24. \A s \in VlanProtocolType : Good(s)
  <2>1. ASSUME NEW i \in Protocols
        PROVE  Good(Kept(<<"VlanProtocolType", i>>,
                         Run(2, ProtocolReg(i), 0, 16), Word(16)))
    <3>1. ASSUME NEW x \in Field(ProtocolReg(i), 0, 16)
          PROVE  /\ <<"VlanProtocolType", i>> \in OwnersAt(2, x)
                 /\ \A k \in OwnersAt(2, x) :
                      k = <<"VlanProtocolType", i>>
                      \/ Disturbs(k, <<"VlanProtocolType", i>>)
      <4> DEFINE pair == i - 1
                 place == x - Bit(\h6A, 0) - 32 * pair
      <4>1. /\ pair \in Nat /\ pair < 16 /\ pair + 1 = i
            /\ x = Bit(\h6A, 0) + 32 * pair + place
            /\ place \in 0 .. 15
        BY DEF Protocols, ProtocolReg, Field, Bit, Page2
      <4> HIDE DEF pair, place
      <4>2. place \in 0..31
        BY <4>1
      <4>3. OwnersAt(2, x) = {<<"AclVidRemark",
                               IF place < 15 THEN 2 * pair ELSE 2 * pair + 1>>,
                              <<"VlanProtocolClear", i>>, <<"VlanProtocolType", i>>}
        BY <4>1, <4>2, RemarkOwners
      <4>4. /\ \A j : Disturbs(<<"AclVidRemark", j>>, <<"VlanProtocolType", i>>)
            /\ Disturbs(<<"VlanProtocolClear", i>>, <<"VlanProtocolType", i>>)
        BY RemarksDisturb
      <4>5. QED
        BY <4>3, <4>4
    <3>2. Alone(<<"VlanProtocolType", i>>, 2, ProtocolReg(i), 0, 16)
      BY <3>1 DEF Alone
    <3>3. ProtocolReg(i) \in Nat
      BY DEF Protocols, ProtocolReg, Page2
    <3>4. QED
      BY <3>2, <3>3, WordGood
  <2>2. QED
    BY <2>1 DEF VlanProtocolType
<1>25. \A s \in VlanProtocolClear : Good(s)
  <2>1. ASSUME NEW i \in Protocols
        PROVE  Among(<<"VlanProtocolClear", i>>, 2, ProtocolReg(i), 0, 32)
    <3>1. SUFFICES ASSUME NEW x \in Field(ProtocolReg(i), 0, 32)
                   PROVE  <<"VlanProtocolClear", i>> \in OwnersAt(2, x)
      BY DEF Among
    <3> DEFINE pair == i - 1
               place == x - Bit(\h6A, 0) - 32 * pair
    <3>2. /\ pair \in Nat /\ pair < 16 /\ pair + 1 = i
          /\ x = Bit(\h6A, 0) + 32 * pair + place /\ place \in 0..31
      BY DEF Protocols, ProtocolReg, Field, Bit, Page2
    <3> HIDE DEF pair, place
    <3>3. QED
      BY <3>2, RemarkOwners
  <2>2. \A i \in Protocols : ProtocolReg(i) \in Nat
    BY DEF Protocols, ProtocolReg, Page2
  <2>3. \A i \in Protocols :
          Good(WriteOnly(<<"VlanProtocolClear", i>>,
                         {Writing(Run(2, ProtocolReg(i), 0, 32), {}, {})}))
    BY <2>1, <2>2, WriteOnlyGood, Zenon
  <2>4. QED
    BY <2>3 DEF VlanProtocolClear
<1>26. QED
  BY <1>1, <1>2, <1>3, <1>4, <1>5, <1>6, <1>7, <1>8, <1>9, <1>10, <1>11,
     <1>12, <1>13, <1>14, <1>15, <1>16, <1>17, <1>18, <1>19, <1>20, <1>21,
     <1>22, <1>23, <1>24, <1>25 DEF VlanCommands

\* The ACL beside its rules.
LEMMA AclGood == \A s \in AclCommands : Good(s)
<1>1. \A s \in AclFunctionEn : Good(s)
  <2>1. Alone(<<"AclFunctionEn">>, 1, Page1.MISCCFG, 0, 1)
    BY DEF Alone, Field, Bit, OwnersAt, Page1Trunks, Page1
  <2>2. QED
    BY <2>1, OnOffGood DEF AclFunctionEn, Page1
<1>2. \A s \in AclBW : Good(s)
  <2> DEFINE rates == {AclRate(r) : r \in {0, 1, 162, 163, 164, 1000}}
  <2>1. \A v \in rates : v \in Nat /\ v < 256
    BY DEF AclRate
  <2> HIDE DEF rates
  <2>2. Codes(rates) \subseteq SUBSET (1..8)
    BY <2>1, EightBits
  <2>3. ASSUME NEW i \in 0..15
        PROVE  Good(Kept(<<"AclBW", i>>,
                         Run(2, Page2.ACL_BW, 8 * i, 8), Codes(rates)))
    <3>1. Alone(<<"AclBW", i>>, 2, Page2.ACL_BW, 8 * i, 8)
      <4>1. ASSUME NEW x \in Field(\hD9, 8 * i, 8)
            PROVE  OwnersAt(2, x) = {<<"AclBW", i>>}
        <5>1. /\ x \in Nat /\ x >= Bit(\hD9, 0)
              /\ (x - Bit(\hD9, 0)) \div 8 = i
          BY DEF Field, Bit
        <5>2. OwnersAt(2, x) = Page2Members(x)
          BY <5>1 DEF OwnersAt, Bit
        <5>3. QED
          BY <5>1, <5>2 DEF Page2Members, Each, Bit
      <4>2. QED
        BY <4>1 DEF Alone, Page2
    <3>2. Page2.ACL_BW \in Nat /\ 8 * i \in Nat
      BY DEF Page2
    <3>3. QED
      BY <2>2, <3>1, <3>2, KeptGood
  <2>4. QED
    BY <2>3 DEF AclBW, rates
<1>3. \A s \in AclDscp : Good(s)
  <2>1. ASSUME NEW i \in 0..7
        PROVE  Good(Kept(<<"AclDscp", i>>,
                         Run(7, Page7.DSCP_REMARKING, 8 * i, 8), Word(8)))
    <3>1. Alone(<<"AclDscp", i>>, 7, Page7.DSCP_REMARKING, 8 * i, 8)
      BY DEF Alone, Field, Bit, OwnersAt, Page7Tags, Each, Page7
    <3>2. Page7.DSCP_REMARKING \in Nat /\ 8 * i \in Nat
      BY DEF Page7
    <3>3. QED
      BY <3>1, <3>2, WordGood
  <2>2. QED
    BY <2>1 DEF AclDscp
<1>4. \A s \in AclVlanGroup : Good(s)
  <2>1. ASSUME NEW i \in 0..31
        PROVE  Good(Kept(<<"AclVlanGroup", i>>,
                         Run(2, Page2.ACL_VLAN, 32 * i, 32), Word(32)))
    <3>1. Alone(<<"AclVlanGroup", i>>, 2, Page2.ACL_VLAN, 32 * i, 32)
      BY DEF Alone, Field, Bit, OwnersAt, Page2Members, Each, Page2
    <3>2. Page2.ACL_VLAN \in Nat /\ 32 * i \in Nat
      BY DEF Page2
    <3>3. QED
      BY <3>1, <3>2, WordGood
  <2>2. QED
    BY <2>1 DEF AclVlanGroup
<1>5. \A s \in AclVidRemark : Good(s)
  <2> DEFINE bits(i) == IF i % 2 = 0 THEN Run(2, Page2.ACL_VID_REMARK + i, 0, 15)
                                    ELSE Run(2, Page2.ACL_VID_REMARK + i - 1, 15, 15)
  <2>1. ASSUME NEW pair \in 0..15
        PROVE  /\ Alone(<<"AclVidRemark", 2 * pair>>, 2,
                        Page2.ACL_VID_REMARK + 2 * pair, 0, 15)
               /\ Alone(<<"AclVidRemark", 2 * pair + 1>>, 2,
                        Page2.ACL_VID_REMARK + 2 * pair, 15, 15)
    <3>1. ASSUME NEW at \in 0..29
          PROVE  \E f \in {"VlanProtocolType", "VlanProtocolVid", "VlanProtocolMode"} :
                   OwnersAt(2, Bit(Page2.ACL_VID_REMARK + 2 * pair, 0) + at) =
                     {<<"AclVidRemark", IF at < 15 THEN 2 * pair ELSE 2 * pair + 1>>,
                      <<"VlanProtocolClear", pair + 1>>, <<f, pair + 1>>}
      <4>1. Bit(Page2.ACL_VID_REMARK + 2 * pair, 0) + at = Bit(\h6A, 0) + 32 * pair + at
        BY DEF Bit, Page2
      <4>2. QED
        BY <4>1, RemarkOwners
    <3>2. ASSUME NEW at \in 0..29
          PROVE  LET m == <<"AclVidRemark", IF at < 15 THEN 2 * pair ELSE 2 * pair + 1>>
                     owners == OwnersAt(2, Bit(Page2.ACL_VID_REMARK + 2 * pair, 0) + at)
                 IN  m \in owners /\ \A k \in owners : k = m \/ Disturbs(k, m)
      <4> DEFINE v == IF at < 15 THEN 2 * pair ELSE 2 * pair + 1
                 owners == OwnersAt(2, Bit(Page2.ACL_VID_REMARK + 2 * pair, 0) + at)
      <4>1. PICK f \in {"VlanProtocolType", "VlanProtocolVid", "VlanProtocolMode"} :
              owners = {<<"AclVidRemark", v>>, <<"VlanProtocolClear", pair + 1>>,
                        <<f, pair + 1>>}
        BY <3>1
      <4> HIDE DEF v, owners
      <4>2. /\ Disturbs(<<"VlanProtocolClear", pair + 1>>, <<"AclVidRemark", v>>)
            /\ Disturbs(<<f, pair + 1>>, <<"AclVidRemark", v>>)
        BY RemarksDisturb
      <4>3. <<"AclVidRemark", v>> \in owners
            /\ \A k \in owners : k = <<"AclVidRemark", v>>
                                \/ Disturbs(k, <<"AclVidRemark", v>>)
        BY <4>1, <4>2
      <4>4. QED
        BY <4>3 DEF v, owners
    <3>3. /\ \A x \in Field(Page2.ACL_VID_REMARK + 2 * pair, 0, 15) :
               \E at \in 0..14 : x = Bit(Page2.ACL_VID_REMARK + 2 * pair, 0) + at
          /\ \A x \in Field(Page2.ACL_VID_REMARK + 2 * pair, 15, 15) :
               \E at \in 15..29 : x = Bit(Page2.ACL_VID_REMARK + 2 * pair, 0) + at
      <4>1. \A x \in Field(Page2.ACL_VID_REMARK + 2 * pair, 0, 15) :
              x - Bit(Page2.ACL_VID_REMARK + 2 * pair, 0) \in 0..14
        BY DEF Field, Bit, Page2
      <4>2. \A x \in Field(Page2.ACL_VID_REMARK + 2 * pair, 15, 15) :
              x - Bit(Page2.ACL_VID_REMARK + 2 * pair, 0) \in 15..29
        BY DEF Field, Bit, Page2
      <4>3. QED
        BY <4>1, <4>2 DEF Field, Bit, Page2
    <3>4. QED
      BY <3>2, <3>3 DEF Alone
  <2>2. ASSUME NEW i \in {0, 1, 7, 8, 31}
        PROVE  Good(Kept(<<"AclVidRemark", i>>, bits(i), Word(15)))
    <3>1. CASE i % 2 = 0
      <4>1. Alone(<<"AclVidRemark", i>>, 2, Page2.ACL_VID_REMARK + i, 0, 15)
        <5>1. i \div 2 \in 0..15 /\ 2 * (i \div 2) = i
          BY <3>1
        <5>2. QED
          BY <5>1, <2>1
      <4>2. Page2.ACL_VID_REMARK + i \in Nat
        BY DEF Page2
      <4>3. QED
        BY <3>1, <4>1, <4>2, WordGood
    <3>2. CASE i % 2 # 0
      <4>1. Alone(<<"AclVidRemark", i>>, 2, Page2.ACL_VID_REMARK + i - 1, 15, 15)
        <5>1. /\ i \div 2 \in 0..15 /\ 2 * (i \div 2) + 1 = i
              /\ Page2.ACL_VID_REMARK + 2 * (i \div 2) = Page2.ACL_VID_REMARK + i - 1
          BY <3>2 DEF Page2
        <5>2. QED
          BY <5>1, <2>1
      <4>2. Page2.ACL_VID_REMARK + i - 1 \in Nat
        BY DEF Page2
      <4>3. QED
        BY <3>2, <4>1, <4>2, WordGood
    <3>3. QED
      BY <3>1, <3>2
  <2>3. QED
    BY <2>2 DEF AclVidRemark
<1>6. QED
  BY <1>1, <1>2, <1>3, <1>4, <1>5 DEF AclCommands

\* A word holds five fields of three bits: where the field of q lies.
LEMMA FifthParts ==
  \A q \in 0..7 : /\ q \div 5 \in 0..1 /\ q % 5 \in 0..4 /\ 3 * (q % 5) \in Nat
                  /\ 5 * (q \div 5) + (q % 5) = q
  OBVIOUS

\* Queues: two groups of ports, and eight queues that become others.
LEMMA QosGood == \A s \in QosCommands : Good(s)
<1>1. \A s \in QOSAgingFunction : Good(s)
  <2>1. ASSUME NEW p \in Ports
        PROVE  Good(Kept(<<"QOSAgingFunction", p>>,
                         Run(8, Page8.QOSPORTAGINGEN, 8 * (p - 1), 8), Word(8)))
    <3> DEFINE reg == Page8.QOSPORTAGINGEN
               at == 8 * (p - 1)
    <3>1. Alone(<<"QOSAgingFunction", p>>, 8, reg, at, 8)
      BY PortsAssumption
         DEF Alone, Field, Bit, OwnersAt, Page8Queues, Each, Page8
    <3>2. reg \in Nat /\ at \in Nat
      BY PortsAssumption DEF Page8
    <3> HIDE DEF reg, at
    <3>3. Good(Kept(<<"QOSAgingFunction", p>>, Run(8, reg, at, 8), Word(8)))
      BY <3>1, <3>2, WordGood
    <3>4. QED
      BY <3>3 DEF reg, at
  <2>2. QED
    BY <2>1 DEF QOSAgingFunction
<1>2. \A s \in QOSAgingTime : Good(s)
  <2>1. Alone(<<"QOSAgingTime">>, 8, Page8.QOSAGINGTIME, 0, 8)
    BY DEF Alone, Field, Bit, OwnersAt, Page8Queues, Page8
  <2>2. QED
    BY <2>1, WordGood DEF QOSAgingTime, Page8
<1>3. \A s \in QOSFastAging : Good(s)
  <2>1. Alone(<<"QOSFastAging">>, 8, Page8.QOSAGINGTIME, 8, 1)
    BY DEF Alone, Field, Bit, OwnersAt, Page8Queues, Page8
  <2>2. QED
    BY <2>1, OnOffGood DEF QOSFastAging, Page8
<1>4. \A s \in COSACL : Good(s)
  <2>1. PortsAlone("COSACL", 0, Page0.QOSACLBASEPRIEN)
    BY DEF PortsAlone, Alone, Field, Bit, OwnersAt, Page0Priorities, Each,
       Page0
  <2>2. QED
    BY <2>1, EachPortGood DEF COSACL, Page0
<1>5. \A s \in COSIGMP : Good(s)
  <2>1. PortsAlone("COSIGMP", 0, Page0.QOSIGMPBASEPRIEN)
    BY DEF PortsAlone, Alone, Field, Bit, OwnersAt, Page0Priorities, Each,
       Page0
  <2>2. QED
    BY <2>1, EachPortGood DEF COSIGMP, Page0
<1>6. \A s \in COSIPAddress : Good(s)
  <2>1. PortsAlone("COSIPAddress", 0, Page0.QOSIPBASEPRIEN)
    BY DEF PortsAlone, Alone, Field, Bit, OwnersAt, Page0Priorities, Each,
       Page0
  <2>2. QED
    BY <2>1, EachPortGood DEF COSIPAddress, Page0
<1>7. \A s \in COSMACAddress : Good(s)
  <2>1. PortsAlone("COSMACAddress", 0, Page0.QOSMACBASEPRIEN)
    BY DEF PortsAlone, Alone, Field, Bit, OwnersAt, Page0Priorities, Each,
       Page0
  <2>2. QED
    BY <2>1, EachPortGood DEF COSMACAddress, Page0
<1>8. \A s \in COSVID : Good(s)
  <2>1. PortsAlone("COSVID", 0, Page0.QOSVIDBASEPRIEN)
    BY DEF PortsAlone, Alone, Field, Bit, OwnersAt, Page0Priorities, Each,
       Page0
  <2>2. QED
    BY <2>1, EachPortGood DEF COSVID, Page0
<1>9. \A s \in COSDSCP : Good(s)
  <2>1. PortsAlone("COSDSCP", 0, Page0.QOSDSCPBASEPRIEN)
    BY DEF PortsAlone, Alone, Field, Bit, OwnersAt, Page0Priorities, Each,
       Page0
  <2>2. QED
    BY <2>1, EachPortGood DEF COSDSCP, Page0
<1>10. \A s \in COS8021P : Good(s)
  <2>1. PortsAlone("COS8021P", 0, Page0.QOS8021PBASEPRIEN)
    BY DEF PortsAlone, Alone, Field, Bit, OwnersAt, Page0Priorities, Each,
       Page0
  <2>2. QED
    BY <2>1, EachPortGood DEF COS8021P, Page0
<1>11. \A s \in COSTCPUDPPort : Good(s)
  <2>1. PortsAlone("COSTCPUDPPort", 0, Page0.QOSTCPUDPBASEPRIEN)
    BY DEF PortsAlone, Alone, Field, Bit, OwnersAt, Page0Captures, Each, Page0
  <2>2. QED
    BY <2>1, EachPortGood DEF COSTCPUDPPort, Page0
<1>12. \A s \in COSPhsicalPort : Good(s)
  <2>1. ASSUME NEW p \in Ports
        PROVE  Good(Kept(<<"COSPhsicalPort", p>>,
                         Fifth(0, Page0.QOSPORTBASEPRIQUE, p - 1), Word(3)))
    <3> DEFINE i == p - 1
               reg == Page0.QOSPORTBASEPRIQUE
    <3>1. i \in 0..28 /\ i + 1 = p /\ reg = \h3A /\ reg \in Nat
      BY PortsAssumption DEF Page0
    <3> HIDE DEF i, reg
    <3>2. i \div 5 \in 0..5 /\ i % 5 \in 0..4
      BY <3>1
    <3>3. ASSUME NEW x \in Field(reg + i \div 5, 3 * (i % 5), 3)
          PROVE  OwnersAt(0, x) = {<<"COSPhsicalPort", p>>}
      <4>1. FifthOf(reg, x) = i
        BY <3>1, FifthPlaces
      <4>2. x \in Nat /\ x >= Bit(\h3A, 0) /\ x < Bit(\h40, 0)
        BY <3>1, <3>2 DEF Field, Bit
      <4>3. OwnersAt(0, x) = Page0Priorities(x)
        BY <4>2 DEF OwnersAt, Bit
      <4>4. Page0Priorities(x) = {<<"COSPhsicalPort", FifthOf(\h3A, x) + 1>>}
        BY <4>2 DEF Page0Priorities, Bit
      <4>5. QED
        BY <3>1, <4>1, <4>3, <4>4
    <3> DEFINE r == reg + i \div 5
               at == 3 * (i % 5)
    <3>4. Alone(<<"COSPhsicalPort", p>>, 0, r, at, 3)
      BY <3>3 DEF Alone
    <3>5. r \in Nat /\ at \in Nat
      BY <3>1, <3>2
    <3> HIDE DEF r, at
    <3>6. Good(Kept(<<"COSPhsicalPort", p>>, Run(0, r, at, 3), Word(3)))
      BY <3>4, <3>5, WordGood
    <3>7. QED
      BY <3>6 DEF Fifth, i, r, at, reg
  <2>2. QED
    BY <2>1 DEF COSPhsicalPort
<1>13. \A s \in QOS8021PEdtion : Good(s)
  <2>1. Codes({0, 1, 2}) \subseteq SUBSET (1..2)
    <3>1. \A v \in {0, 1, 2} : v \in Nat /\ v < 4
      OBVIOUS
    <3>2. QED
      BY <3>1, TwoBits
  <2>2. Alone(<<"QOS8021PEdtion">>, 0, Page0.QOS8021PBASEPRIEN + 1, 14, 2)
    BY DEF Alone, Field, Bit, OwnersAt, Page0Priorities, Page0
  <2>3. QED
    BY <2>2, <2>1, KeptGood DEF QOS8021PEdtion, Page0
<1>14. \A s \in QOSDSCPBaseDSCP : Good(s)
  <2> DEFINE s1(e) == Setting(<<"QOSDSCPBaseDSCP", e>>, DscpPlaces(e - 1, 6),
                           IF e < 8 THEN DscpPlaces(e, 5) ELSE << >>, {}, {}, Word(9))
  <2>1. ASSUME NEW e \in 1..8, NEW i \in 0..7
        PROVE  /\ DOMAIN DscpPlaces(i, 6) = 1..9
               /\ \A b \in 1..9 : Owns(<<"QOSDSCPBaseDSCP", e>>, DscpPlaces(i, 6)[b])
    <3> DEFINE vreg == Page0.QOSDSCPVALUE + i \div 2
               vat == 6 * (i % 2)
               qreg == Page0.QOSDSCPPRISETTING + i \div 5
               qat == 3 * (i % 5)
               value == Run(0, vreg, vat, 6)
               queue == Run(0, qreg, qat, 3)
    <3>1. /\ i \div 2 \in 0..3 /\ i % 2 \in 0..1 /\ i \div 5 \in 0..1 /\ i % 5 \in 0..4
          /\ i \div 5 = 1 => i % 5 \in 0..2
      OBVIOUS
    <3>2. /\ Page0.QOSDSCPVALUE = \h46 /\ Page0.QOSDSCPPRISETTING = \h44
      BY DEF Page0
    <3>3. Among(<<"QOSDSCPBaseDSCP", e>>, 0, vreg, vat, 6)
      <4>1. ASSUME NEW x \in Field(vreg, vat, 6)
            PROVE  OwnersAt(0, x) = {<<"QOSDSCPBaseDSCP", k>> : k \in 1..8}
        <5>1. x \in Nat /\ x >= Bit(\h46, 0) /\ x < Bit(\h4A, 0)
          BY <3>1, <3>2 DEF Field, Bit
        <5>2. OwnersAt(0, x) = Page0Priorities(x)
          BY <5>1 DEF OwnersAt, Bit
        <5>3. QED
          BY <5>1, <5>2 DEF Page0Priorities, Bit
      <4>2. QED
        BY <4>1 DEF Among
    <3>4. Among(<<"QOSDSCPBaseDSCP", e>>, 0, qreg, qat, 3)
      <4>1. ASSUME NEW x \in Field(qreg, qat, 3)
            PROVE  OwnersAt(0, x) = {<<"QOSDSCPBaseDSCP", k>> : k \in 1..8}
        <5>1. x \in Nat /\ x >= Bit(\h44, 0) /\ x < Bit(\h45, 9)
          BY <3>1, <3>2 DEF Field, Bit
        <5>2. OwnersAt(0, x) = Page0Priorities(x)
          BY <5>1 DEF OwnersAt, Bit
        <5>3. QED
          BY <5>1, <5>2 DEF Page0Priorities, Bit
      <4>2. QED
        BY <4>1 DEF Among
    <3>5. /\ \A b \in 1..6 : Owns(<<"QOSDSCPBaseDSCP", e>>, value[b])
          /\ \A b \in 1..3 : Owns(<<"QOSDSCPBaseDSCP", e>>, queue[b])
      <4>1. vreg \in Nat /\ vat \in Nat /\ qreg \in Nat /\ qat \in Nat
        BY <3>1, <3>2
      <4> HIDE DEF vreg, vat, qreg, qat
      <4>2. QED
        BY <4>1, <3>3, <3>4, RunAmong
    <3>6. DscpPlaces(i, 6) = value \o queue
      BY DEF DscpPlaces, Fifth
    <3>7. /\ DOMAIN (value \o queue) = 1..9
          /\ \A b \in 1..6 : (value \o queue)[b] = value[b]
          /\ \A b \in 7..9 : (value \o queue)[b] = queue[b - 6]
      BY DEF Run
    <3>8. \A b \in 1..9 : Owns(<<"QOSDSCPBaseDSCP", e>>, (value \o queue)[b])
      <4> HIDE DEF value, queue
      <4>1. ASSUME NEW b \in 1..9
            PROVE  b \in 1..6 \/ (b \in 7..9 /\ b - 6 \in 1..3)
        OBVIOUS
      <4>2. QED
        BY <3>5, <3>7, <4>1, Zenon
    <3> HIDE DEF value, queue
    <3>9. QED
      BY <3>6, <3>7, <3>8
  <2>2. ASSUME NEW e \in 1..8
        PROVE  Good(s1(e))
    <3> DEFINE bits == DscpPlaces(e - 1, 6)
    <3>1. e - 1 \in 0..7
      OBVIOUS
    <3>2. DOMAIN bits = 1..9 /\ \A b \in 1..9 : Owns(<<"QOSDSCPBaseDSCP", e>>, bits[b])
      BY <2>1, <3>1, Zenon
    <3> HIDE DEF bits
    <3>3. \A x \in Word(9) : \A place \in Writing(bits, {}, x).on
                                     \cup Writing(bits, {}, x).off :
            Owns(<<"QOSDSCPBaseDSCP", e>>, place)
      BY <3>2 DEF Word, Writing
    <3>4. /\ s1(e).name = <<"QOSDSCPBaseDSCP", e>>
          /\ s1(e).options = {Writing(bits, {}, x) : x \in Word(9)}
      BY DEF Setting, bits
    <3> HIDE DEF s1
    <3>5. Stays(s1(e))
      BY <3>3, <3>4 DEF Stays
    <3>6. QED
      BY <3>4, <3>5, WriteGood DEF Misread
  <2>3. QED
    BY <2>2 DEF QOSDSCPBaseDSCP
<1>15. \A s \in QOSDSCPBaseNoMatchAction : Good(s)
  <2>1. Alone(<<"QOSDSCPBaseNoMatchAction">>, 0, Page0.QOSDSCPPRISETTING + 1, 9, 1)
    BY DEF Alone, Field, Bit, OwnersAt, Page0Priorities, Page0
  <2>2. QED
    BY <2>1, OnOffGood DEF QOSDSCPBaseNoMatchAction, Page0
<1>16. \A s \in QOSRemap : Good(s)
  <2> DEFINE bits(p, q) == IF q < 8 THEN Fifth(6, Page6.QOS_REMAP_RX + 2 * (p - 1), q)
                          ELSE Fifth(8, Page8.QOS_REMAP_TX + 2 * (p - 1), q - 8)
             s1(p, q) == Kept(<<"QOSRemap", p, q>>, bits(p, q), Word(3))
  <2>1. ASSUME NEW p \in 1..29, NEW q \in 0..7
        PROVE  /\ Alone(<<"QOSRemap", p, q>>, 6,
                        (Page6.QOS_REMAP_RX + 2 * (p - 1)) + q \div 5, 3 * (q % 5), 3)
               /\ Alone(<<"QOSRemap", p, q + 8>>, 8,
                        (Page8.QOS_REMAP_TX + 2 * (p - 1)) + q \div 5, 3 * (q % 5), 3)
    <3>1. q \div 5 \in 0..1 /\ q % 5 \in 0..4 /\ 5 * (q \div 5) + (q % 5) = q
      BY FifthParts
    <3>2. ASSUME NEW reg \in {\h24, \h14}, NEW first,
                 NEW x \in Field((reg + 2 * (p - 1)) + q \div 5, 3 * (q % 5), 3)
          PROVE  /\ Remapped(reg, first, x) = {<<"QOSRemap", p, q + first>>}
                 /\ x \in Nat /\ x >= Bit(reg, 0) /\ x < Bit(reg, 0) + 928
      <4> DEFINE d == q \div 5
                 r == q % 5
                 y == x - Bit(reg, 0)
                 c == y - 32 * (p - 1) - 16 * d - 3 * r
      <4>1. d \in 0..1 /\ r \in 0..4 /\ 5 * d + r = q
        BY <3>1
      <4> HIDE DEF d, r
      <4>2. /\ y = 32 * (p - 1) + 16 * d + 3 * r + c /\ c \in 0..2
            /\ y \in 0..927 /\ x = Bit(reg, 0) + y
        BY <4>1 DEF Field, Bit, d, r
      <4> HIDE DEF y, c
      <4>3. 3 * r + c \in 0..14 /\ (3 * r + c) \div 3 = r
        BY <4>1, <4>2
      <4>4. (16 * d + 3 * r + c) \in 0..31
        BY <4>1, <4>2
      <4>5. (y \div 32) = (p - 1) /\ (y % 32) = (16 * d + 3 * r + c)
        <5> DEFINE k == p - 1
                   z == 16 * d + 3 * r + c
        <5>1. k \in Nat /\ z \in 0..31 /\ y = 32 * k + z
          BY <4>1, <4>2, <4>4
        <5> HIDE DEF k, z
        <5>2. y \div 32 = k /\ y % 32 = z
          BY <5>1
        <5>3. QED
          BY <5>2 DEF k, z
      <4>6. (16 * d + 3 * r + c) \div 16 = d /\ y % 16 = 3 * r + c
        BY <4>1, <4>2, <4>3
      <4>7. Remapped(reg, first, x) =
              {<<"QOSRemap", y \div 32 + 1,
                 5 * ((y % 32) \div 16) + (y % 16) \div 3 + first>>}
        BY DEF Remapped, y
      <4>8. y \div 32 + 1 = p
        BY <4>5
      <4>9. 5 * ((y % 32) \div 16) + (y % 16) \div 3 = q
        BY <4>1, <4>3, <4>5, <4>6
      <4>10. Remapped(reg, first, x) = {<<"QOSRemap", p, q + first>>}
        <5> DEFINE a == (y \div 32) + 1
                   b == 5 * ((y % 32) \div 16) + ((y % 16) \div 3)
        <5>1. Remapped(reg, first, x) = {<<"QOSRemap", a, b + first>>}
          BY <4>7
        <5> HIDE DEF a, b
        <5>2. a = p /\ b = q
          BY <4>8, <4>9 DEF a, b
        <5>3. QED
          BY <5>1, <5>2
      <4>11. QED
        BY <4>2, <4>10 DEF Bit
    <3> DEFINE rx == Page6.QOS_REMAP_RX
               tx == Page8.QOS_REMAP_TX
    <3>3. rx = \h24 /\ tx = \h14
      BY DEF Page6, Page8
    <3> HIDE DEF rx, tx
    <3>4. ASSUME NEW x \in Field((rx + 2 * (p - 1)) + q \div 5, 3 * (q % 5), 3)
          PROVE  OwnersAt(6, x) = {<<"QOSRemap", p, q>>}
      <4>1. Remapped(rx, 0, x) = {<<"QOSRemap", p, q + 0>>}
        BY <3>2, <3>3
      <4>2. OwnersAt(6, x) = Remapped(\h24, 0, x)
        BY DEF OwnersAt
      <4>3. QED
        BY <3>3, <4>1, <4>2
    <3>5. ASSUME NEW x \in Field((tx + 2 * (p - 1)) + q \div 5, 3 * (q % 5), 3)
          PROVE  OwnersAt(8, x) = {<<"QOSRemap", p, q + 8>>}
      <4>1. /\ Remapped(tx, 8, x) = {<<"QOSRemap", p, q + 8>>}
            /\ x \in Nat /\ x >= Bit(tx, 0) /\ x < Bit(tx, 0) + 928
        BY <3>2, <3>3
      <4>2. x >= Bit(\h14, 0) /\ x < Bit(\h55, 0)
        BY <4>1, <3>3 DEF Bit
      <4>3. OwnersAt(8, x) = Page8Queues(x)
        BY <4>1, <4>2 DEF OwnersAt, Bit
      <4>4. Page8Queues(x) = Remapped(\h14, 8, x)
        BY <4>1, <4>2 DEF Page8Queues, Bit
      <4>5. QED
        BY <3>3, <4>1, <4>3, <4>4
    <3>6. QED
      BY <3>4, <3>5 DEF Alone, rx, tx
  <2>2. ASSUME NEW p \in 1..29, NEW q \in 0..7
        PROVE  Good(s1(p, q)) /\ Good(s1(p, q + 8))
    <3> DEFINE rx == (Page6.QOS_REMAP_RX + 2 * (p - 1)) + q \div 5
               tx == (Page8.QOS_REMAP_TX + 2 * (p - 1)) + q \div 5
               at == 3 * (q % 5)
    <3>1. rx \in Nat /\ tx \in Nat /\ at \in Nat
      <4>1. Page6.QOS_REMAP_RX \in Nat /\ Page8.QOS_REMAP_TX \in Nat
        BY DEF Page6, Page8
      <4>2. 2 * (p - 1) \in Nat
        OBVIOUS
      <4>3. q \div 5 \in 0..1 /\ 3 * (q % 5) \in Nat
        BY FifthParts, Zenon
      <4>4. QED
        BY <4>1, <4>2, <4>3
    <3>2. /\ Alone(<<"QOSRemap", p, q>>, 6, rx, at, 3)
          /\ Alone(<<"QOSRemap", p, q + 8>>, 8, tx, at, 3)
      BY <2>1, Zenon
    <3>3. /\ bits(p, q) = Run(6, rx, at, 3)
          /\ bits(p, q + 8) = Run(8, tx, at, 3)
      <4>1. /\ q < 8 /\ ~(q + 8 < 8) /\ (q + 8) - 8 = q
        OBVIOUS
      <4>2. QED
        BY <4>1 DEF Fifth
    <3> HIDE DEF rx, tx, at, bits
    <3>4. /\ Good(Kept(<<"QOSRemap", p, q>>, Run(6, rx, at, 3), Word(3)))
          /\ Good(Kept(<<"QOSRemap", p, q + 8>>, Run(8, tx, at, 3), Word(3)))
      BY <3>1, <3>2, WordGood
    <3>5. QED
      BY <3>3, <3>4
  <2>3. \A q \in {0, 4, 5, 7, 8, 12, 13, 15} :
          \E r \in 0..7 : q = r \/ q = r + 8
    <3>1. /\ 0 \in 0..7 /\ 4 \in 0..7 /\ 5 \in 0..7 /\ 7 \in 0..7
          /\ 8 = 0 + 8 /\ 12 = 4 + 8 /\ 13 = 5 + 8 /\ 15 = 7 + 8
      OBVIOUS
    <3>2. QED
      BY <3>1
  <2>4. QOSRemap = {s1(p, q) : p \in Ports, q \in {0, 4, 5, 7, 8, 12, 13, 15}}
    BY DEF QOSRemap
  <2> HIDE DEF s1
  <2>5. QED
    BY <2>2, <2>3, <2>4, PortsAssumption
<1>17. \A s \in QOSmodeGroupMember : Good(s)
  <2>1. PortsAlone("QOSmodeGroupMember", 8, Page8.QOSGROUPSEL)
    BY DEF PortsAlone, Alone, Field, Bit, OwnersAt, Page8Groups, Each, Page8
  <2>2. QED
    BY <2>1, EachPortGood DEF QOSmodeGroupMember, Page8
<1>18. \A s \in QOSGroupBEn : Good(s)
  <2>1. Alone(<<"QOSGroupBEn">>, 8, Page8.QOSMODESELGROUP2, 9, 1)
    BY DEF Alone, Field, Bit, OwnersAt, Page8Groups, Page8
  <2>2. QED
    BY <2>1, OnOffGood DEF QOSGroupBEn, Page8
<1>19. \A s \in QOSMode : Good(s)
  <2>1. Codes({0, 1, 5}) \subseteq SUBSET (1..3)
    <3>1. \A v \in {0, 1, 5} : v \in Nat /\ v < 8
      OBVIOUS
    <3>2. QED
      BY <3>1, ThreeBits
  <2>2. ASSUME NEW g \in Groups
        PROVE  Good(Kept(<<"QOSMode", g>>,
                         Run(8, ModeSel(g), 0, 3), Codes({0, 1, 5})))
    <3>1. Alone(<<"QOSMode", g>>, 8, ModeSel(g), 0, 3)
      BY DEF Alone, Field, Bit, OwnersAt, Page8Queues, Page8Groups, Modes, Groups,
         ModeSel, Page8
    <3>2. ModeSel(g) \in Nat
      BY DEF Groups, ModeSel, Page8
    <3>3. QED
      BY <3>1, <3>2, <2>1, KeptGood
  <2>3. QED
    BY <2>2 DEF QOSMode
<1>20. \A s \in QOSUnit : Good(s)
  <2>1. ASSUME NEW g \in Groups
        PROVE  Good(Kept(<<"QOSUnit", g>>, Run(8, ModeSel(g), 3, 2), Word(2)))
    <3>1. Alone(<<"QOSUnit", g>>, 8, ModeSel(g), 3, 2)
      BY DEF Alone, Field, Bit, OwnersAt, Page8Queues, Page8Groups, Modes, Groups,
         ModeSel, Page8
    <3>2. ModeSel(g) \in Nat
      BY DEF Groups, ModeSel, Page8
    <3>3. QED
      BY <3>1, <3>2, WordGood
  <2>2. QED
    BY <2>1 DEF QOSUnit
<1>21. \A s \in QOSMethod : Good(s)
  <2> DEFINE hold == Run(8, Page8.QOSMODESELGROUP1, 15, 1)
             dbm == TwoRegs(8, Page8.QOSQUEUEDBMEN)
             bits(g) == Run(8, ModeSel(g), 5, 2)
             get(g) == Run(8, ModeSel(g), 5, 3)
             Plain(g, x) == Writing(bits(g), {}, x)
             Full(g, x) ==
               [on   |-> Plain(g, x).on \cup Places(hold) \cup Writing(dbm, {}, 1..29).on,
                off  |-> Plain(g, x).off \cup Writing(dbm, {}, 1..29).off,
                says |-> x]
             s1(g) ==
               [name |-> <<"QOSMethod", g>>, get |-> get(g), bars |-> {},
                options |-> {Plain(g, x) : x \in Codes({0, 2, 3})}
                            \cup {Full(g, x) : x \in Codes({1})}]
  <2>1. Codes({0, 2, 3}) \subseteq SUBSET (1..2) /\ Codes({1}) \subseteq SUBSET (1..2)
    <3>1. (\A v \in {0, 2, 3} : v \in Nat /\ v < 4) /\ (\A v \in {1} : v \in Nat /\ v < 4)
      OBVIOUS
    <3>2. QED
      BY <3>1, TwoBits
  <2>2. ASSUME NEW g \in Groups
        PROVE  /\ DOMAIN bits(g) = 1..2 /\ DOMAIN get(g) = 1..3
               /\ get(g)[1] = bits(g)[1] /\ get(g)[2] = bits(g)[2]
               /\ Distinct(bits(g)) /\ Held(<<"QOSMethod", g>>, bits(g))
               /\ Owners(get(g)[3]) = {}
    <3>1. ModeSel(g) \in Nat
      BY DEF Groups, ModeSel, Page8
    <3>2. DOMAIN bits(g) = 1..2 /\ DOMAIN get(g) = 1..3
      BY DEF Run
    <3>3. get(g)[1] = bits(g)[1] /\ get(g)[2] = bits(g)[2]
      BY DEF Run
    <3>4. Alone(<<"QOSMethod", g>>, 8, ModeSel(g), 5, 2)
      BY DEF Alone, Field, Bit, OwnersAt, Page8Queues, Page8Groups, Modes, Groups,
         ModeSel, Page8
    <3>5. Distinct(bits(g)) /\ Held(<<"QOSMethod", g>>, bits(g))
      BY <3>1, <3>4, RunDistinct, RunHeld
    <3>6. get(g)[3] = <<8, ModeSel(g), 7>>
      BY <3>1 DEF Run
    <3>7. OwnersAt(8, Bit(ModeSel(g), 7)) = {}
      BY DEF Bit, OwnersAt, Page8Queues, Page8Groups, Modes, Groups, ModeSel, Page8
    <3>8. Owners(get(g)[3]) = {}
      BY <3>6, <3>7 DEF Owners
    <3>9. QED
      BY <3>2, <3>3, <3>5, <3>8
  <2>3. ASSUME NEW g \in Groups
        PROVE  /\ \A place \in Places(hold) : Owns(<<"QOSMethod", g>>, place)
               /\ \A place \in Places(dbm) : Owns(<<"QOSMethod", g>>, place)
    <3>1. /\ Among(<<"QOSMethod", g>>, 8, Page8.QOSMODESELGROUP1, 15, 1)
          /\ Among(<<"QOSMethod", g>>, 8, Page8.QOSQUEUEDBMEN, 0, 32)
      BY DEF Among, Field, Bit, OwnersAt, Page8Queues, Groups, Page8
    <3>2. Page8.QOSMODESELGROUP1 \in Nat /\ Page8.QOSQUEUEDBMEN \in Nat
      BY DEF Page8
    <3>3. DOMAIN hold = 1..1 /\ DOMAIN dbm = 1..32
      BY DEF TwoRegs, Run
    <3>4. /\ \A b \in 1..1 : Owns(<<"QOSMethod", g>>, hold[b])
          /\ \A b \in 1..32 : Owns(<<"QOSMethod", g>>, dbm[b])
      BY <3>1, <3>2, RunAmong DEF TwoRegs
    <3> HIDE DEF hold, dbm
    <3>5. QED
      BY <3>3, <3>4 DEF Places
  <2>4. /\ \A place \in Writing(dbm, {}, 1..29).on : place \in Places(dbm)
        /\ \A place \in Writing(dbm, {}, 1..29).off : place \in Places(dbm)
    <3>1. DOMAIN dbm = 1..32
      BY DEF TwoRegs, Run
    <3> HIDE DEF dbm
    <3>2. QED
      BY <3>1 DEF Writing, Places
  \* Neither a frame held nor a port's bit is one of the places read.
  <2>5. ASSUME NEW g \in Groups, NEW b \in 1..3
        PROVE  get(g)[b] \notin Places(hold) /\ get(g)[b] \notin Places(dbm)
    <3>1. /\ get(g)[b][2] = ModeSel(g) /\ get(g)[b][3] = b + 4
      BY DEF Run, Groups, ModeSel, Page8
    <3>2. \A place \in Places(hold) : place[3] = 15
      BY DEF Run, Places
    <3>3. \A place \in Places(dbm) : place[2] \in {100, 101}
      BY DEF Run, TwoRegs, Places, Page8
    <3>4. ModeSel(g) \notin {100, 101}
      BY DEF Groups, ModeSel, Page8
    <3>5. b + 4 # 15
      OBVIOUS
    <3> HIDE DEF get, hold, dbm
    <3>6. QED
      BY <3>1, <3>2, <3>3, <3>4, <3>5
  <2>6. ASSUME NEW g \in Groups, NEW x \in SUBSET (1..2)
        PROVE  /\ Plain(g, x).on = {bits(g)[b] : b \in x}
               /\ Plain(g, x).off = {bits(g)[b] : b \in (1..2) \ x}
               /\ Plain(g, x).says = x
    BY <2>2 DEF Writing
  <2> DEFINE extraOn == Places(hold) \cup Writing(dbm, {}, 1..29).on
             extraOff == Writing(dbm, {}, 1..29).off
  <2>7. \A g, x : /\ Full(g, x).on = Plain(g, x).on \cup extraOn
                  /\ Full(g, x).off = Plain(g, x).off \cup extraOff
                  /\ Full(g, x).says = x
    OBVIOUS
  <2>8. ASSUME NEW g \in Groups
        PROVE  /\ \A place \in extraOn \cup extraOff : Owns(<<"QOSMethod", g>>, place)
               /\ \A b \in 1..3 : get(g)[b] \notin extraOn
    <3> HIDE DEF hold, dbm, get
    <3>1. QED
      BY <2>3, <2>4, <2>5
  <2>9. \A g : /\ s1(g).name = <<"QOSMethod", g>> /\ s1(g).get = get(g)
               /\ s1(g).options = {Plain(g, x) : x \in Codes({0, 2, 3})}
                                  \cup {Full(g, x) : x \in Codes({1})}
    OBVIOUS
  <2>10. QOSMethod = {s1(g) : g \in Groups}
    BY DEF QOSMethod
  <2> HIDE DEF hold, dbm, get, bits, Plain, Full, extraOn, extraOff, s1
  <2>11. ASSUME NEW g \in Groups, NEW x \in SUBSET (1..2)
         PROVE  /\ \A place \in Plain(g, x).on \cup Plain(g, x).off :
                     Owns(<<"QOSMethod", g>>, place)
                /\ x \subseteq DOMAIN get(g)
                /\ \A b \in x : get(g)[b] \in Plain(g, x).on
                /\ \A b \in (1..3) \ x :
                     /\ get(g)[b] \notin Plain(g, x).on
                     /\ get(g)[b] \in Plain(g, x).off \/ Owners(get(g)[b]) = {}
    <3>1. \A place \in Plain(g, x).on \cup Plain(g, x).off :
            Owns(<<"QOSMethod", g>>, place)
      BY <2>2, <2>6 DEF Held
    <3>2. \A b \in 1..2 : get(g)[b] = bits(g)[b]
      <4>1. get(g)[1] = bits(g)[1] /\ get(g)[2] = bits(g)[2]
        BY <2>2
      <4>2. \A b \in 1..2 : b = 1 \/ b = 2
        OBVIOUS
      <4>3. QED
        BY <4>1, <4>2
    <3> DEFINE on == Plain(g, x).on
               off == Plain(g, x).off
    <3>3. on = {bits(g)[b] : b \in x} /\ off = {bits(g)[b] : b \in (1..2) \ x}
      BY <2>6
    <3>4. DOMAIN bits(g) = 1..2 /\ DOMAIN get(g) = 1..3 /\ Distinct(bits(g))
      BY <2>2
    <3> HIDE DEF on, off
    <3>5. x \subseteq DOMAIN get(g) /\ \A b \in x : get(g)[b] \in on
      BY <3>2, <3>3, <3>4
    <3>6. ASSUME NEW b \in (1..2) \ x
          PROVE  get(g)[b] \notin on /\ get(g)[b] \in off
      <4>1. get(g)[b] = bits(g)[b]
        BY <3>2
      <4>2. \A c \in x : bits(g)[c] # bits(g)[b]
        BY <3>4 DEF Distinct
      <4>3. QED
        BY <3>3, <4>1, <4>2
    <3>7. get(g)[3] \notin on /\ Owners(get(g)[3]) = {}
      <4>1. ASSUME NEW b \in x
            PROVE  Owners(bits(g)[b]) # {}
        BY <2>2 DEF Held, Owns
      <4>2. Owners(get(g)[3]) = {}
        BY <2>2
      <4>3. QED
        BY <3>3, <4>1, <4>2
    <3>8. ASSUME NEW b \in (1..3) \ x
          PROVE  get(g)[b] \notin on /\ (get(g)[b] \in off \/ Owners(get(g)[b]) = {})
      <4>1. b = 3 \/ b \in (1..2) \ x
        OBVIOUS
      <4>2. QED
        BY <3>6, <3>7, <4>1
    <3>9. QED
      BY <3>1, <3>5, <3>8 DEF on, off
  <2>12. ASSUME NEW g \in Groups, NEW x \in SUBSET (1..2)
         PROVE  /\ Returned(get(g), Plain(g, x)) /\ Returned(get(g), Full(g, x))
                /\ \A place \in Full(g, x).on \cup Full(g, x).off :
                     Owns(<<"QOSMethod", g>>, place)
    <3> DEFINE plain == Plain(g, x)
               full == Full(g, x)
    <3>1. /\ plain.says = x /\ full.says = x /\ DOMAIN get(g) = 1..3
          /\ full.on = plain.on \cup extraOn /\ full.off = plain.off \cup extraOff
      <4>1. plain.says = x
        BY <2>6
      <4>2. /\ full.says = x /\ full.on = plain.on \cup extraOn
            /\ full.off = plain.off \cup extraOff
        BY <2>7
      <4>3. DOMAIN get(g) = 1..3
        BY <2>2
      <4>4. QED
        BY <4>1, <4>2, <4>3
    <3>2. /\ x \subseteq DOMAIN get(g)
          /\ \A b \in x : get(g)[b] \in plain.on
          /\ \A b \in (1..3) \ x :
               get(g)[b] \notin plain.on
               /\ (get(g)[b] \in plain.off \/ Owners(get(g)[b]) = {})
          /\ \A place \in plain.on \cup plain.off : Owns(<<"QOSMethod", g>>, place)
      BY <2>11
    <3>3. /\ \A place \in extraOn \cup extraOff : Owns(<<"QOSMethod", g>>, place)
          /\ \A b \in 1..3 : get(g)[b] \notin extraOn
      BY <2>8
    <3> HIDE DEF plain, full
    <3>4. Returned(get(g), plain)
      BY <3>1, <3>2 DEF Returned
    <3>5. Returned(get(g), full)
      BY <3>1, <3>2, <3>3 DEF Returned
    <3>6. \A place \in full.on \cup full.off : Owns(<<"QOSMethod", g>>, place)
      BY <3>1, <3>2, <3>3
    <3>7. QED
      BY <3>4, <3>5, <3>6 DEF plain, full
  <2>13. ASSUME NEW g \in Groups
         PROVE  Good(s1(g))
    <3>1. Stays(s1(g))
      <4>1. \A o \in s1(g).options :
              \E x \in SUBSET (1..2) : o = Plain(g, x) \/ o = Full(g, x)
        BY <2>1, <2>9
      <4>2. \A x \in SUBSET (1..2) :
              /\ \A place \in Plain(g, x).on \cup Plain(g, x).off :
                   Owns(<<"QOSMethod", g>>, place)
              /\ \A place \in Full(g, x).on \cup Full(g, x).off :
                   Owns(<<"QOSMethod", g>>, place)
        BY <2>11, <2>12
      <4>3. s1(g).name = <<"QOSMethod", g>>
        BY <2>9
      <4>4. QED
        BY <4>1, <4>2, <4>3 DEF Stays
    <3>2. \A b \in DOMAIN get(g) : Apart(<<"QOSMethod", g>>, get(g)[b])
      BY <2>2 DEF Held, Apart
    <3>3. Found(s1(g))
      BY <2>1, <2>9, <2>12, <3>2 DEF Found
    <3>4. QED
      BY <3>1, <3>3 DEF Good
  <2>14. QED
    BY <2>10, <2>13
<1>22. \A s \in QOSWeight : Good(s)
  <2> DEFINE reg(g) == IF g = 0 THEN Page8.QOSGP1_WEIGHT ELSE Page8.QOSGP2_WEIGHT
             s1(g, q) == Kept(<<"QOSWeight", g, q>>, Run(8, reg(g), 8 * q, 8), Word(8))
  <2>1. ASSUME NEW g \in {0, 1}, NEW q \in 0..7
        PROVE  Alone(<<"QOSWeight", g, q>>, 8, reg(g), 8 * q, 8)
    BY DEF Alone, Field, Bit, OwnersAt, Page8Queues, Page8Groups, QueueOf, Page8
  <2>2. \A g : reg(g) \in Nat
    BY DEF Page8
  <2>3. QOSWeight = {s1(g, q) : g \in Groups, q \in Queues}
    BY DEF QOSWeight
  <2> HIDE DEF reg
  <2>4. ASSUME NEW g \in {0, 1}, NEW q \in 0..7
        PROVE  Good(s1(g, q))
    BY <2>1, <2>2, WordGood
  <2> HIDE DEF s1
  <2>5. \A s \in QOSWeight : \E g \in {0, 1}, q \in 0..7 : s = s1(g, q)
    BY <2>3 DEF Groups, Queues
  <2>6. QED
    BY <2>4, <2>5
<1>23. \A s \in QOSMaxBandwidth : Good(s)
  <2> DEFINE reg(g) == IF g = 0 THEN Page8.QOSGP1_MAXBDWT ELSE Page8.QOSGP2_MAXBDWT
             s1(g, q) == Kept(<<"QOSMaxBandwidth", g, q>>, Run(8, reg(g), 8 * q, 8), Word(8))
  <2>1. ASSUME NEW g \in {0, 1}, NEW q \in 0..7
        PROVE  Alone(<<"QOSMaxBandwidth", g, q>>, 8, reg(g), 8 * q, 8)
    BY DEF Alone, Field, Bit, OwnersAt, Page8Queues, Page8Groups, QueueOf, Page8
  <2>2. \A g : reg(g) \in Nat
    BY DEF Page8
  <2>3. QOSMaxBandwidth = {s1(g, q) : g \in Groups, q \in Queues}
    BY DEF QOSMaxBandwidth
  <2> HIDE DEF reg
  <2>4. ASSUME NEW g \in {0, 1}, NEW q \in 0..7
        PROVE  Good(s1(g, q))
    BY <2>1, <2>2, WordGood
  <2> HIDE DEF s1
  <2>5. \A s \in QOSMaxBandwidth : \E g \in {0, 1}, q \in 0..7 : s = s1(g, q)
    BY <2>3 DEF Groups, Queues
  <2>6. QED
    BY <2>4, <2>5
<1>24. \A s \in QOSRatioValue0Def : Good(s)
  <2>1. \A g : Disturbs(<<"QOSMethod", g>>, <<"QOSRatioValue0Def">>)
    BY DEF Disturbs, Companions, Clashes
  <2>2. Alone(<<"QOSRatioValue0Def">>, 8, Page8.QOSMODESELGROUP1, 15, 1)
    BY <2>1 DEF Alone, Field, Bit, OwnersAt, Page8Queues, Page8
  <2>3. QED
    BY <2>2, OnOffGood DEF QOSRatioValue0Def, Page8
<1>25. \A s \in QOSSBMDBM : Good(s)
  <2>1. ASSUME NEW p \in Ports
        PROVE  Good(Kept(<<"QOSSBMDBM", p>>,
                         Run(8, Page8.QOS_SBMDBMSEL, 8 * (p - 1), 8), {{}, 1..8}))
    <3> DEFINE reg == Page8.QOS_SBMDBMSEL
               at == 8 * (p - 1)
    <3>1. Alone(<<"QOSSBMDBM", p>>, 8, reg, at, 8)
      BY PortsAssumption
         DEF Alone, Field, Bit, OwnersAt, Page8Queues, Each, Page8
    <3>2. reg \in Nat /\ at \in Nat
      BY PortsAssumption DEF Page8
    <3> HIDE DEF reg, at
    <3>3. Good(Kept(<<"QOSSBMDBM", p>>, Run(8, reg, at, 8), {{}, 1..8}))
      BY <3>1, <3>2, KeptGood
    <3>4. QED
      BY <3>3 DEF reg, at
  <2>2. QED
    BY <2>1 DEF QOSSBMDBM
<1>26. \A s \in QOSDBMEn : Good(s)
  <2>1. \A g, p : Disturbs(<<"QOSMethod", g>>, <<"QOSDBMEn", p>>)
    BY DEF Disturbs, Companions, Clashes
  <2>2. PortsAlone("QOSDBMEn", 8, Page8.QOSQUEUEDBMEN)
    BY <2>1 DEF PortsAlone, Alone, Field, Bit, OwnersAt, Page8Queues, Each, Page8
  <2>3. QED
    BY <2>2, EachPortGood DEF QOSDBMEn, Page8
<1>27. \A s \in QOSEgressControl : Good(s)
  <2>1. ASSUME NEW p \in Ports
        PROVE  Good(Rate(<<"QOSEgressControl", p>>, EgressRate(p), Word(14)))
    <3>1. Among(<<"QOSEgressControl", p>>, 8, Page8.EGRESS_RATE_CTRL + p - 1, 0, 16)
      BY EgressOwners
    <3>2. Page8.EGRESS_RATE_CTRL + p - 1 \in Nat
      BY PortsAssumption DEF Page8
    <3>3. Word(14) \in SUBSET SUBSET (1..16)
      BY WordFits
    <3>4. QED
      BY <3>1, <3>2, <3>3, SetGood DEF Rate, EgressRate, Misread
  <2>2. QED
    BY <2>1 DEF QOSEgressControl
<1>28. \A s \in GetQOSEgressControl : Good(s)
  <2>1. ASSUME NEW p \in Ports
        PROVE  Good(WriteOnly(<<"GetQOSEgressControl", p>>,
                              {Writing(EgressRate(p), {}, {16})}))
    <3>1. Among(<<"GetQOSEgressControl", p>>, 8, Page8.EGRESS_RATE_CTRL + p - 1, 0, 16)
      BY EgressOwners
    <3>2. Page8.EGRESS_RATE_CTRL + p - 1 \in Nat
      BY PortsAssumption DEF Page8
    <3>3. {16} \in SUBSET (1..16)
      OBVIOUS
    <3>4. QED
      BY <3>1, <3>2, <3>3, WriteOnlyGood DEF EgressRate
  <2>2. QED
    BY <2>1 DEF GetQOSEgressControl
<1>29. QED
  BY <1>1, <1>2, <1>3, <1>4, <1>5, <1>6, <1>7, <1>8, <1>9, <1>10, <1>11,
     <1>12, <1>13, <1>14, <1>15, <1>16, <1>17, <1>18, <1>19, <1>20, <1>21,
     <1>22, <1>23, <1>24, <1>25, <1>26, <1>27, <1>28 DEF QosCommands

\* Rates of ports: one command of the queues writes the same register.
LEMMA BandwidthGood == \A s \in BandwidthCommands : Good(s)
<1>1. \A s \in BandwidthIngressRate : Good(s)
  <2>1. ASSUME NEW p \in Ports
        PROVE  Good(Rate(<<"BandwidthIngressRate", p>>,
                         Run(0, Page0.INGRESS_RATE_CTRL + p - 1, 0, 16),
                         Codes({0, 1, TopRate(p)})))
    <3> DEFINE m == <<"BandwidthIngressRate", p>>
               reg == Page0.INGRESS_RATE_CTRL + p - 1
               put == Run(0, reg, 0, 16)
               get == SubSeq(put, 1, 14)
               values == Codes({0, 1, TopRate(p)})
    <3>1. Alone(m, 0, reg, 0, 16)
      BY PortsAssumption DEF Alone, Field, Bit, OwnersAt, Page0Ipv6, Each, Page0
    <3>2. reg \in Nat
      BY PortsAssumption DEF Page0
    <3>3. values \subseteq SUBSET (1..14)
      BY RatesFit
    <3> HIDE DEF m, reg, values
    <3>4. Distinct(put) /\ Held(m, put) /\ DOMAIN put = 1..16
      <4>1. Held(m, put)
        BY <3>1, <3>2, RunHeld
      <4>2. Distinct(put)
        BY <3>2, RunDistinct
      <4>3. DOMAIN put = 1..16
        BY DEF Run
      <4>4. QED
        BY <4>1, <4>2, <4>3
    <3>5. DOMAIN get = 1..14 /\ \A b \in 1..14 : get[b] = put[b]
      BY <3>2, RunPrefix
    <3> HIDE DEF put, get
    <3>6. Good(Setting(m, put, get, {}, {}, values))
      <4>1. 16 \in Nat /\ 14 \in 1..16
        OBVIOUS
      <4>2. QED
        BY <3>3, <3>4, <3>5, <4>1, PrefixGood, Zenon
    <3>7. QED
      BY <3>6 DEF Rate, m, reg, put, get, values
  <2>2. QED
    BY <2>1 DEF BandwidthIngressRate
<1>2. \A s \in BandwidthEgressRate : Good(s)
  <2> DEFINE unlimited(p) == Rate(<<"BandwidthEgressRate", p>>, EgressRate(p), {{}})
             limit(p, x) == [Writing(EgressRate(p), {}, {1}) EXCEPT !.says = x]
             s1(p) == [unlimited(p) EXCEPT
                         !.options = @ \cup {limit(p, x) : x \in Codes({1, TopRate(p)})}]
  <2>1. ASSUME NEW p \in Ports, NEW y \in SUBSET (1..16)
        PROVE  \A place \in Writing(EgressRate(p), {}, y).on
                     \cup Writing(EgressRate(p), {}, y).off :
                 Owns(<<"BandwidthEgressRate", p>>, place)
    <3>1. Among(<<"BandwidthEgressRate", p>>, 8, Page8.EGRESS_RATE_CTRL + p - 1, 0, 16)
      BY EgressOwners
    <3>2. Page8.EGRESS_RATE_CTRL + p - 1 \in Nat
      BY PortsAssumption DEF Page8
    <3>3. QED
      BY <3>1, <3>2, WritingStays DEF EgressRate
  <2>2. ASSUME NEW p
        PROVE  /\ s1(p).name = <<"BandwidthEgressRate", p>>
               /\ s1(p).options = {Writing(EgressRate(p), {}, {})}
                                  \cup {limit(p, x) : x \in Codes({1, TopRate(p)})}
    BY DEF Rate, Setting
  <2>3. \A p, x : /\ limit(p, x).on = Writing(EgressRate(p), {}, {1}).on
                  /\ limit(p, x).off = Writing(EgressRate(p), {}, {1}).off
    BY DEF Writing
  <2>4. BandwidthEgressRate = {s1(p) : p \in Ports}
    BY DEF BandwidthEgressRate
  <2> HIDE DEF s1, limit
  <2>5. ASSUME NEW p \in Ports
        PROVE  Good(s1(p))
    <3>1. {} \in SUBSET (1..16) /\ {1} \in SUBSET (1..16)
      OBVIOUS
    <3>2. \A o \in s1(p).options : \A place \in o.on \cup o.off :
            Owns(<<"BandwidthEgressRate", p>>, place)
      <4>1. ASSUME NEW o \in s1(p).options
            PROVE  \E y \in SUBSET (1..16) :
                     /\ o.on = Writing(EgressRate(p), {}, y).on
                     /\ o.off = Writing(EgressRate(p), {}, y).off
        <5>1. /\ s1(p).options = {Writing(EgressRate(p), {}, {})}
                                 \cup {limit(p, x) : x \in Codes({1, TopRate(p)})}
          BY <2>2
        <5>2. o = Writing(EgressRate(p), {}, {})
              \/ \E x \in Codes({1, TopRate(p)}) : o = limit(p, x)
          BY <5>1
        <5>3. QED
          BY <2>3, <3>1, <5>2
      <4>2. QED
        BY <2>1, <4>1
    <3>3. Stays(s1(p))
      BY <2>2, <3>2 DEF Stays
    <3>4. s1(p).name[1] \in Misread
      <4>1. s1(p).name = <<"BandwidthEgressRate", p>>
        BY <2>2
      <4>2. QED
        BY <4>1 DEF Misread
    <3>5. QED
      BY <3>3, <3>4, WriteGood
  <2>6. QED
    BY <2>4, <2>5
<1>3. \A s \in BandwidthEgressPeriod : Good(s)
  <2>1. Alone(<<"BandwidthEgressPeriod">>, 8, Page8.OUT_QUEUE_PARAM, 4, 3)
    BY DEF Alone, Field, Bit, OwnersAt, Page8Groups, Page8
  <2>2. Good(Kept(<<"BandwidthEgressPeriod">>,
                  Run(8, Page8.OUT_QUEUE_PARAM, 4, 3),
                  Word(3)))
    BY <2>1, WordGood DEF Page8
  <2>3. QED
    BY <2>2 DEF BandwidthEgressPeriod
<1>4. QED
  BY <1>1, <1>2, <1>3 DEF BandwidthCommands
-----------------------------------------------------------------------------
(* All commands together.                                                   *)

\* Every command of the driver writes its own places only, and every get
\* command that promises something finds there what was set.
LEMMA AllGood == \A s \in Commands : Good(s)
BY SmiGood, CapGood, LutGood, SnifferGood, StormGood, LoopGood, WolGood,
   MiscGood, StpGood, TrunkGood, IgmpGood, ImpGood, CosGood, VlanGood,
   QosGood, AclGood, BandwidthGood DEF Commands

\* A name stands for a setting of the driver, which is thus good.
LEMMA NamedGood ==
  /\ \A n \in Names : Named[n].name = n /\ Stays(Named[n])
  /\ \A n \in Watchable : n \in Names /\ Found(Named[n])
<1>1. \A n \in Names : Named[n] \in Commands /\ Named[n].name = n
  <2>1. ASSUME NEW n \in Names
        PROVE  \E s \in Commands : s.name = n
    BY DEF Names
  <2>2. QED
    BY <2>1 DEF Named
<1>2. \A n \in Names : Good(Named[n])
  BY <1>1, AllGood
<1>3. ASSUME NEW n \in Watchable
      PROVE  n \in Names /\ Found(Named[n])
  <2>1. n \in Names /\ Named[n].get # << >> /\ n[1] \notin Misread
    BY DEF Watchable
  <2>2. QED
    BY <1>1, <1>2, <2>1 DEF Good
<1>4. QED
  BY <1>1, <1>2, <1>3 DEF Good

\* A place that a command touches has its name on the register map.
LEMMA TouchedOwned ==
  ASSUME NEW n \in Names, NEW o \in Named[n].options,
         NEW place \in o.on \cup o.off
  PROVE  Owns(n, place)
BY NamedGood DEF Stays

\* A place that some command can touch is in the register map.
LEMMA UsableOwned == \A place \in Usable : Owners(place) # {}
<1>1. ASSUME NEW place \in Usable
      PROVE  Owners(place) # {}
  <2>1. PICK n \in Names : place \in Touches[n]
    BY DEF Usable
  <2>2. PICK o \in Named[n].options : place \in o.on \cup o.off
    BY <2>1 DEF Touches
  <2>3. QED
    BY <2>2, TouchedOwned DEF Owns
<1>2. QED
  BY <1>1

-----------------------------------------------------------------------------
(* The inductive invariant: beside the property itself, that a place the   *)
(* register map gives to nobody is 0.  Without it the third bit that the   *)
(* get command of QOSMethod reads could be anything.                       *)
SettingsInv ==
  /\ setting \in Watchable
  /\ \A b \in DOMAIN Named[setting].get :
       Named[setting].get[b] \in lit => Owners(Named[setting].get[b]) # {}
  /\ SettingsKept

\* After the reset the places hold anything and nothing has been given.
LEMMA SettingsStart == SettingsInit => SettingsInv
<1>1. SUFFICES ASSUME SettingsInit
               PROVE  SettingsInv
  OBVIOUS
<1>2. lit \subseteq Usable
  BY <1>1 DEF SettingsInit, Initially
<1>3. QED
  BY <1>1, <1>2, UsableOwned DEF SettingsInit, SettingsInv, SettingsKept

\* A command keeps what was set: it is that of the setting itself, or one
\* whose places are not among those that are read.
LEMMA SettingsStep == SettingsInv /\ [SettingsNext]_settingVars => SettingsInv'
<1> SUFFICES ASSUME SettingsInv, [SettingsNext]_settingVars
             PROVE  SettingsInv'
  OBVIOUS
<1> DEFINE get == Named[setting].get
<1>1. /\ setting \in Watchable /\ setting \in Names /\ Found(Named[setting])
      /\ Named[setting].name = setting
  BY NamedGood DEF SettingsInv
<1>2. \A b \in DOMAIN get : get[b] \in Seen[setting]
  BY <1>1 DEF Seen, Places
<1>3. ASSUME NEW n \in Rivals[setting], NEW o \in Named[n].options,
             Command(n, o)
      PROVE  SettingsInv'
  <2>1. n \in Names /\ \A place \in o.on \cup o.off : Owns(n, place)
    BY <1>1, TouchedOwned DEF Rivals
  <2>2. /\ setting' = setting
        /\ lit' = ((lit \ o.off) \cup o.on) \cap Seen[setting]
    BY <1>3 DEF Command
  <2>3. ASSUME NEW b \in DOMAIN get
        PROVE  get[b] \in lit' <=> get[b] \in o.on \/ (get[b] \in lit /\ get[b] \notin o.off)
    BY <1>2, <2>2
  <2>4. \A b \in DOMAIN get : get[b] \in lit' => Owners(get[b]) # {}
    BY <2>1, <2>3 DEF SettingsInv, Owns
  <2>5. SettingsKept'
    <3>1. Reading(setting)' = {b \in DOMAIN get : get[b] \in lit'}
      BY <2>2 DEF Reading
    <3>2. CASE n = setting
      <4>1. given' = {o.says}
        BY <1>3, <3>2 DEF Command
      <4>2. Returned(get, o)
        BY <1>1, <3>2 DEF Found
      <4>3. \A b \in DOMAIN get : get[b] \in lit' <=> b \in o.says
        BY <2>3, <4>2 DEF Returned, SettingsInv
      <4>4. {b \in DOMAIN get : get[b] \in lit'} = o.says
        BY <4>2, <4>3 DEF Returned
      <4>5. QED
        BY <2>2, <3>1, <4>1, <4>4 DEF SettingsKept
    <3>3. CASE n # setting /\ Disturbs(n, setting)
      <4>1. given' = {}
        BY <1>3, <3>3 DEF Command
      <4>2. QED
        BY <4>1 DEF SettingsKept
    <3>4. CASE n # setting /\ ~Disturbs(n, setting)
      <4>1. given' = given
        BY <1>3, <3>4 DEF Command
      <4>2. \A b \in DOMAIN get : Apart(setting, get[b])
        BY <1>1 DEF Found
      <4>3. \A b \in DOMAIN get : get[b] \notin o.on \cup o.off
        BY <2>1, <3>4, <4>2 DEF Apart, Owns
      <4>4. \A b \in DOMAIN get : get[b] \in lit' <=> get[b] \in lit
        BY <2>3, <4>3
      <4>5. {b \in DOMAIN get : get[b] \in lit'} = Reading(setting)
        BY <4>4 DEF Reading
      <4>6. QED
        BY <2>2, <3>1, <4>1, <4>5 DEF SettingsKept, SettingsInv
    <3>5. QED
      BY <3>2, <3>3, <3>4
  <2>6. QED
    BY <1>1, <2>2, <2>4, <2>5 DEF SettingsInv
<1>4. ASSUME SwitchReset
      PROVE  SettingsInv'
  <2>1. setting' = setting /\ lit' \subseteq Usable /\ given' = {}
    BY <1>4 DEF SwitchReset, Initially
  <2>2. QED
    BY <1>1, <2>1, UsableOwned DEF SettingsInv, SettingsKept
<1>5. ASSUME UNCHANGED settingVars
      PROVE  SettingsInv'
  BY <1>5 DEF SettingsInv, SettingsKept, Reading, settingVars
<1>6. QED
  BY <1>3, <1>4, <1>5 DEF SettingsNext

\* What a get command of the driver answers is what its set command was given
\* last, whatever other commands came before, in between and since, for all
\* ports at once: the register arithmetic of the two hundred functions of
\* ip1829func.c lets no two settings meet but the companions and the clashes,
\* and but for the get commands listed as misread each finds its own.
THEOREM SettingsAlwaysKept == SettingsSpec => []SettingsKept
<1>1. SettingsInv => SettingsKept
  BY DEF SettingsInv
<1>2. QED
  BY SettingsStart, SettingsStep, <1>1, PTL DEF SettingsSpec
=============================================================================
