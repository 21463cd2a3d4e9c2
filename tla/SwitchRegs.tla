----------------------------- MODULE SwitchRegs -----------------------------
(***************************************************************************)
(* The registers of the IP1829 switch and the way the driver's commands    *)
(* use them (ip1829reg.h; _WriteRegBits and its companions in              *)
(* ip1829func.c).  A register is 16 bits wide and is found by a page and   *)
(* an address; a place <<page, address, bit>> is one bit of one register.  *)
(* A set command writes some places, the get command of the same name      *)
(* reads some places back.  A setting records both, for every value the    *)
(* set command accepts that is worth telling apart.                        *)
(***************************************************************************)
EXTENDS Integers, Sequences, FiniteSets

CONSTANT Ports      \* the ports looked at, numbered as in the commands

ASSUME PortsAssumption == Ports \subseteq 1..29

-----------------------------------------------------------------------------
(* The address of the first register of a group, on its page.              *)

Page0 ==
  [MACBEHAVIOR |-> \h01, JUMBO |-> \h02, L2FRAMEGETCTRL |-> \h06,
   L3FRAMEGETCTRL |-> \h08, L3USERDEF |-> \h09, TCPUDPUSERDEF |-> \h0A,
   TCPUDPPRICFG |-> \h12, TCPUDFUNCEN |-> \h19, QOSTCPUDPBASEPRIEN |-> \h1B,
   TCPCHECKEN |-> \h1D, UDPCHECKEN |-> \h1F, INBANDRESTRICT |-> \h21,
   ETHERUSERDEF |-> \h23, BPDUPORTCAPCFG |-> \h30,
   QOSPORTBASEPRIQUE |-> \h3A, QOS8021PBASEPRIEN |-> \h40,
   QOSDSCPBASEPRIEN |-> \h42, QOSDSCPPRISETTING |-> \h44,
   QOSDSCPVALUE |-> \h46, QOSMACBASEPRIEN |-> \h4A, QOSVIDBASEPRIEN |-> \h4C,
   QOSIPBASEPRIEN |-> \h4E, QOSIGMPBASEPRIEN |-> \h50,
   QOSACLBASEPRIEN |-> \h52, PORTLOCKEN |-> \h54, MACADDRESS |-> \h5C,
   LDCONFIG |-> \h6B, LDTIMER |-> \h6D, LDDA |-> \h6E, LDETYPE |-> \h71,
   LDSUBTYPE |-> \h72, LDDEVID |-> \h73, TCPFLGCFGGLB |-> \h74,
   TCPFLGCFG |-> \h75, TCPFLGPORTEN |-> \h7B, EOCCFG |-> \h83,
   INGRESS_RATE_CTRL |-> \h87, PTPCFG |-> \hA4, IPV6RLTCFG |-> \hA7,
   IPV6RLTFWD |-> \hA8, IPV6NXHEADUSER |-> \hAA, ICMPV6TYPEUSER |-> \hAB,
   WOLEN |-> \hAD, WOLCFG |-> \hAF, WOLMODECTRL |-> \hB0]

Page1 ==
  [LUTAGINGTIME |-> \h01, SRCLEARNCFG |-> \h02, SRCLEARNEN |-> \h03,
   SRCLEARNCNT |-> \h05, SRCLCNTTHRESH |-> \h07, BSTORMTHRESH |-> \h0D,
   BSTORMEN |-> \h0E, MSTORMEN |-> \h10, DLFSTORMEN |-> \h12,
   ARPSTORMCFG |-> \h14, ARPSTORMEN |-> \h15, ICMPSTORMCFG |-> \h17,
   ICMPSTORMEN |-> \h18, TRUNKCFG |-> \h1C, TRUNKGRP |-> \h1D,
   SNIFDEST |-> \h1E, SNIF2DEST |-> \h20, SNIFSRC |-> \h22, MISCCFG |-> \h24,
   IGMPSNOP |-> \h29, IGMPPKTFWD |-> \h2A, ROUTLIST |-> \h2C,
   SPANTREE |-> \h57]

Page2 ==
  [IMPCFG |-> \h01, VLANCFG |-> \h06, INGRESS_CHK |-> \h09,
   INGRESS_FRAME |-> \h0B, EGRESS_CFG |-> \h0F, PVIDCFG |-> \h13,
   VLANGROUP |-> \h30, PROTOCOL_CFG |-> \h6A, ACL_VID_REMARK |-> \h6A,
   ACL_VLAN |-> \h8A, EXCLUSIVE |-> \hCA, ADDTAG |-> \hCC, RMVTAG |-> \hCE,
   UPLINK |-> \hD0, ACL_BW |-> \hD9]

Page3 ==
  [AN |-> \h01, SPG |-> \h03, SP |-> \h04, DUPLEX |-> \h06, PAUSE |-> \h08,
   ASPAUSE |-> \h0A, BPRESS |-> \h0C, POWERDOWN |-> \h0E, PORTSTS |-> \h20,
   FORCELINK |-> \h5C, UNIDIRECT |-> \h66]

Page6 == [QOS_REMAP_RX |-> \h24]

Page7 ==
  [QINQ_RMVTAG |-> \h01, QINQ_ADDTAG |-> \h03, QINQ_DET_RX |-> \h05,
   QINQEGTYPELEN |-> \h09, QINQ_DATA |-> \h0A, QINQ_P_DATA |-> \h4A,
   DSCP_REMARKING |-> \h67]

Page8 ==
  [QOSMODESELGROUP1 |-> \h01, QOSGP1_WEIGHT |-> \h02,
   QOSGP1_MAXBDWT |-> \h0A, QOS_REMAP_TX |-> \h14, QOS_SBMDBMSEL |-> \h55,
   QOSQUEUEDBMEN |-> \h64, QOSAGINGTIME |-> \h66, QOSPORTAGINGEN |-> \h67,
   QOSMODESELGROUP2 |-> \h76, QOSGROUPSEL |-> \h77, QOSGP2_WEIGHT |-> \h79,
   QOSGP2_MAXBDWT |-> \h81, EGRESS_RATE_CTRL |-> \h85,
   OUT_QUEUE_PARAM |-> \hB1]

PageC == [CPUMODE |-> \h03, SPTAG |-> \h04]

-----------------------------------------------------------------------------
(* Places.                                                                 *)

(* n places of a page from bit at of a register on, running over into the  *)
(* registers that follow.                                                  *)
Run(page, reg, at, n) ==
  [b \in 1..n |-> <<page, reg + (at + b - 1) \div 16, (at + b - 1) % 16>>]

(* The place of a port in a map of two registers.                          *)
PortBit(page, reg, port) == Run(page, reg, port - 1, 1)

(* The bits of the two registers of a map of the 29 ports, unused ones too.*)
TwoRegs(page, reg) == Run(page, reg, 0, 32)

Places(bits) == {bits[b] : b \in DOMAIN bits}

-----------------------------------------------------------------------------
(* Values, as the set of their bits counted from 1.                        *)

Weights ==
  <<1, 2, 4, 8, 16, 32, 64, 128, 256, 512, 1024, 2048, 4096, 8192, 16384, 32768>>

Codes(S) == {{b \in 1..16 : (v \div Weights[b]) % 2 = 1} : v \in S}

(* Of the values of a field of n bits: none, the lowest bit alone, every   *)
(* bit but the lowest.                                                     *)
Word(n) == {{}, {1}, 2..n}

(* The numbers from lo to hi at which a field is first, last, or next to   *)
(* the end of a register of one bit, or four fields, each.                 *)
Edges(lo, hi) == {n \in lo..hi : n \in {lo, hi} \/ n % 16 \in {0, 15}}

-----------------------------------------------------------------------------
(* Settings.                                                               *)

(* Setting bits to the value x, the places of wiped being written as 0.    *)
Writing(bits, wiped, x) ==
  [on |-> {bits[b] : b \in x},
   off |-> {bits[b] : b \in DOMAIN bits \ x} \cup wiped,
   says |-> x]

(* A setting written at put and read back at get.  It is refused while all *)
(* the places of one of the sets in bars are lit.                          *)
Setting(name, put, get, wiped, bars, values) ==
  [name |-> name, get |-> get, bars |-> bars,
   options |-> {Writing(put, wiped, x) : x \in values}]

(* A setting read back where it is written.                                *)
Kept(name, bits, values) == Setting(name, bits, bits, {}, {}, values)

(* A switch of one bit: _setGeneralEnable and _getGeneralEnable.           *)
OnOff(name, page, reg, at) == Kept(name, Run(page, reg, at, 1), {{}, {1}})

(* One bit for each port p of a map of two registers, named <<family, p>>: *)
(* _setPortmap and _getPortmap for a map of one port, and every command    *)
(* that takes a port number.                                               *)
EachPort(family, page, reg) ==
  {Kept(<<family, p>>, PortBit(page, reg, p), {{}, {1}}) : p \in Ports}

(* The map of n ports of a command that writes the bits and wipes the rest *)
(* of the two registers.                                                   *)
WholeMap(name, page, reg, n) ==
  Setting(name, Run(page, reg, 0, n), Run(page, reg, 0, n),
          Places(TwoRegs(page, reg)) \ Places(Run(page, reg, 0, n)),
          {}, Word(n))

(* A setting with no get command, or whose get command reads the state of  *)
(* the hardware.                                                           *)
WriteOnly(name, options) ==
  [name |-> name, get |-> << >>, bars |-> {}, options |-> options]
=============================================================================
