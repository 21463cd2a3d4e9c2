---------------------------- MODULE PortSettings ----------------------------
(***************************************************************************)
(* The settings of single ports: the SMI commands, source address          *)
(* learning, storm control, sniffing, the protections against loops, wake  *)
(* on LAN (ip1829func.c).                                                  *)
(***************************************************************************)
EXTENDS SwitchRegs

-----------------------------------------------------------------------------
(* SMI.  Autonegotiation, speed, duplex and the two kinds of pause are     *)
(* written to maps of ports, and the get commands read the state the link  *)
(* really has from other registers: what was set is not read back.         *)

Forced(family, page, reg) ==
  {WriteOnly(<<family, p>>,
             {Writing(PortBit(page, reg, p), {}, x) : x \in {{}, {1}}}) :
     p \in Ports}

PortAN        == Forced("PortAN", 3, Page3.AN)
PortDuplex    == Forced("PortDuplex", 3, Page3.DUPLEX)
PortPause     == Forced("PortPause", 3, Page3.PAUSE)
PortAsymPause == Forced("PortAsymPause", 3, Page3.ASPAUSE)

(* 1000 Mbit/s is for the ports from 25 on, and leaves the bit that tells  *)
(* 100 from 10 as it was.                                                  *)
Speeds(p) ==
  LET giga == Places(Run(3, Page3.SPG, p - 25, 1))
      fast == Places(PortBit(3, Page3.SP, p))
      slow == IF p >= 25 THEN giga ELSE {}
  IN  [ten      |-> [on |-> {}, off |-> slow \cup fast, says |-> {}],
       hundred  |-> [on |-> fast, off |-> slow, says |-> {}],
       thousand |-> [on |-> giga, off |-> {}, says |-> {}]]

SpeedCodes(p) ==
  {"ten", "hundred"} \cup (IF p >= 25 THEN {"thousand"} ELSE {})

PortSpeed ==
  {WriteOnly(<<"PortSpeed", p>>, {Speeds(p)[c] : c \in SpeedCodes(p)}) :
     p \in Ports}

(* All five settings of a port in one command, here all on or all off.     *)
PortLinkStatus ==
  LET maps == {Page3.AN, Page3.DUPLEX, Page3.PAUSE, Page3.ASPAUSE}
      bits(p) == UNION {Places(PortBit(3, m, p)) : m \in maps}
      All(p, c, x) ==
        [on   |-> Speeds(p)[c].on \cup (IF x THEN bits(p) ELSE {}),
         off  |-> Speeds(p)[c].off \cup (IF x THEN {} ELSE bits(p)),
         says |-> {}]
  IN  {WriteOnly(<<"PortLinkStatus", p>>,
                 {All(p, c, x) : c \in SpeedCodes(p), x \in BOOLEAN}) :
         p \in Ports}

PortBackpressure == EachPort("PortBackpressure", 3, Page3.BPRESS)
PortPowerDown    == EachPort("PortPowerDown", 3, Page3.POWERDOWN)
PortUniDirection == EachPort("PortUniDirection", 3, Page3.UNIDIRECT)

(* The CPU port cannot be forced.                                          *)
PortForceLink ==
  {s \in EachPort("PortForceLink", 3, Page3.FORCELINK) : s.name[2] < 29}

-----------------------------------------------------------------------------
(* Source address learning.                                                *)

SMACLearning   == EachPort("SMACLearning", 1, Page1.SRCLEARNEN)
SMACLrnCntCtrl == EachPort("SMACLrnCntCtrl", 1, Page1.SRCLEARNCNT)

(* At most 511, in a register of its own.                                  *)
SMACLrnThreshold ==
  {Kept(<<"SMACLrnThreshold">>, Run(1, Page1.SRCLCNTTHRESH, 0, 16), Word(9))}

-----------------------------------------------------------------------------
(* Sniffing.                                                               *)

SnifferSrc == {WholeMap(<<"SnifferSrc">>, 1, Page1.SNIFSRC, 29)}

SnifferDestGrp1 ==
  {Kept(<<"SnifferDestGrp1">>, Run(1, Page1.SNIFDEST, 0, 29), Word(29))}

SnifferDestGrp2 ==
  {Kept(<<"SnifferDestGrp2">>, Run(1, Page1.SNIF2DEST, 0, 29), Word(29))}

(* The method shares the second register with the map of targets.          *)
S1Method == {Kept(<<"S1Method">>, Run(1, Page1.SNIFDEST + 1, 13, 2), Word(2))}

(* What the sniffer does with the frame, and with its tag in three cases.  *)
S1PktModify   == {OnOff(<<"S1PktModify">>, 1, Page1.SNIFDEST + 1, 15)}
S1TM4CpuSTag  == {OnOff(<<"S1TM4CpuSTag">>, 1, Page1.MISCCFG, 5)}
S1TM4Acl2Cpu  == {OnOff(<<"S1TM4Acl2Cpu">>, 1, Page1.MISCCFG, 6)}
S1TM4Pkt2MPort == {OnOff(<<"S1TM4Pkt2MPort">>, 1, Page1.MISCCFG, 7)}

(* Whether an entry triggers the second sniffer by target or by source.    *)
S2LTT4Grp1 == {OnOff(<<"S2LTT4Grp1">>, 1, Page1.SNIF2DEST + 1, 13)}
S2LTT4Grp2 == {OnOff(<<"S2LTT4Grp2">>, 1, Page1.SNIF2DEST + 1, 14)}

-----------------------------------------------------------------------------
(* Storm control.  A storm is named by the bit that selects it.            *)

BCST == 1
MCST == 2
DLF  == 4
ARP  == 8
ICMP == 16

StormFunc ==
  LET enabled == [s \in {BCST, MCST, DLF, ARP, ICMP} |->
                    CASE s = BCST -> Page1.BSTORMEN
                      [] s = MCST -> Page1.MSTORMEN
                      [] s = DLF  -> Page1.DLFSTORMEN
                      [] s = ARP  -> Page1.ARPSTORMEN
                      [] s = ICMP -> Page1.ICMPSTORMEN]
  IN  {Kept(<<"StormFunc", s>>, TwoRegs(1, enabled[s]), Word(29)) :
         s \in DOMAIN enabled}

(* Broadcast, multicast and unknown unicast storms have one register for   *)
(* the threshold, the period and what reaches the CPU.                     *)
StormConfig ==
  [s \in {BCST, MCST, DLF, ARP, ICMP} |->
     CASE s = ARP  -> Page1.ARPSTORMCFG
       [] s = ICMP -> Page1.ICMPSTORMCFG
       [] OTHER    -> Page1.BSTORMTHRESH]

StormThreshold ==
  {Kept(<<"StormThreshold", s>>, Run(1, StormConfig[s], 0, 8), Word(8)) :
     s \in DOMAIN StormConfig}

StormCntrClrPeriod ==
  {Kept(<<"StormCntrClrPeriod", s>>, Run(1, StormConfig[s], 8, 2), Word(2)) :
     s \in DOMAIN StormConfig}

StormBlockFrm2Cpu ==
  {OnOff(<<"StormBlockFrm2Cpu", s>>, 1, StormConfig[s], 10) :
     s \in {BCST, MCST, ARP}}

(* The get command reads the same bit of register 0: the register it means *)
(* is never put into its variable.                                         *)
StormDropInterrupt ==
  LET at == [s \in {ARP, ICMP} |-> IF s = ARP THEN 11 ELSE 10]
  IN  {Setting(<<"StormDropInterrupt", s>>, Run(1, StormConfig[s], at[s], 1),
               Run(1, 0, at[s], 1), {}, {}, {{}, {1}}) : s \in DOMAIN at}

MStormNBlockIpPkt ==
  {OnOff(<<"MStormNBlockIpPkt">>, 1, Page1.BSTORMTHRESH, 11)}

MStormIgnr01005EXXXXXX ==
  {OnOff(<<"MStormIgnr01005EXXXXXX">>, 1, Page1.BSTORMTHRESH, 12)}

-----------------------------------------------------------------------------
(* Loops: the end of a cable (EOC) and the loop detection frames (LD).     *)

EocFunc == {Kept(<<"EocFunc">>, Run(0, Page0.EOCCFG, 0, 29), Word(29))}

EocReleaseTime == {OnOff(<<"EocReleaseTime">>, 0, Page0.EOCCFG + 1, 14)}

(* Asks the hardware to clear the blocked ports.                           *)
EocBlockClr ==
  {WriteOnly(<<"EocBlockClr">>,
             {Writing(Run(0, Page0.EOCCFG + 1, 15, 1), {}, {1})})}

EocClrBlockWhenRcvGood ==
  {OnOff(<<"EocClrBlockWhenRcvGood">>, 0, Page0.EOCCFG + 1, 13)}

(* One switch and the map of ports, in two commands of the hardware.       *)
LdFunc ==
  {Kept(<<"LdFunc">>,
        Run(1, Page1.MISCCFG, 3, 1) \o Run(0, Page0.LDCONFIG, 0, 29),
        Word(30))}

LdTimeUnit == {OnOff(<<"LdTimeUnit">>, 0, Page0.LDCONFIG + 1, 13)}

LdPktSendTimer ==
  {Kept(<<"LdPktSendTimer">>, Run(0, Page0.LDTIMER, 0, 8), Word(8))}

LdBlockReleaseTimer ==
  {Kept(<<"LdBlockReleaseTimer">>, Run(0, Page0.LDTIMER, 8, 8), Word(8))}

LdSMACB40   == {OnOff(<<"LdSMACB40">>, 0, Page0.LDCONFIG + 1, 14)}
LdRerandom  == {OnOff(<<"LdRerandom">>, 0, Page0.LDCONFIG + 1, 15)}
LdDMAC      == {Kept(<<"LdDMAC">>, Run(0, Page0.LDDA, 0, 48), Word(48))}

(* The range checks of these three never refuse a number, and 16 bits of   *)
(* it are kept.                                                            *)
LdEtherType == {Kept(<<"LdEtherType">>, Run(0, Page0.LDETYPE, 0, 16), Word(16))}
LdSubType   == {Kept(<<"LdSubType">>, Run(0, Page0.LDSUBTYPE, 0, 16), Word(16))}
LdDeviceID  == {Kept(<<"LdDeviceID">>, Run(0, Page0.LDDEVID, 0, 16), Word(16))}

-----------------------------------------------------------------------------
(* Wake on LAN.                                                            *)

(* Both halves of the map go to the first register, the second half last.  *)
WolFunc ==
  LET low == Run(0, Page0.WOLEN, 0, 16)
      map == Run(0, Page0.WOLEN, 0, 28)
      Last(x) == {b \in 1..16 : b + 16 \in x}
  IN  {[name |-> <<"WolFunc">>, get |-> map, bars |-> {},
        options |-> {[Writing(low, {}, Last(x)) EXCEPT !.says = x] :
                       x \in Word(28)}]}

WolMode      == {OnOff(<<"WolMode">>, 0, Page0.WOLCFG, 9)}
WolInterrupt == {OnOff(<<"WolInterrupt">>, 0, Page0.WOLCFG, 11)}
WolIPUnit    == {Kept(<<"WolIPUnit">>, Run(0, Page0.WOLCFG, 5, 2), Word(2))}

(* 1 to 32, kept as 0 to 31.                                               *)
WolIPThreshold ==
  {Kept(<<"WolIPThreshold">>, Run(0, Page0.WOLCFG, 0, 5), Word(5))}

(* Ports can be put to sleep and are not woken by a command.               *)
WolStatusInSlaveMode ==
  {WriteOnly(<<"WolStatusInSlaveMode", p>>,
             {Writing(PortBit(0, Page0.WOLMODECTRL, p), {}, {1})}) :
     p \in Ports \ {29}}

(* Enabled is the bit 0.  The get commands of these two complement the     *)
(* whole number and not the bit, so they answer -1 and -2: not what was    *)
(* set.  The second place of get stands for the bits above.                *)
WakeIf(name, at) ==
  LET bit == Run(0, Page0.WOLCFG, at, 1)
  IN  {Setting(name, bit, bit \o bit, {}, {}, {{}, {1}})}

WolWakeIfTxGetAnyPkt == WakeIf(<<"WolWakeIfTxGetAnyPkt">>, 7)
WolWakeIfRxGetAnyPkt == WakeIf(<<"WolWakeIfRxGetAnyPkt">>, 8)

WolWakeIfMatchAcl2Cpu == {OnOff(<<"WolWakeIfMatchAcl2Cpu">>, 0, Page0.WOLCFG, 10)}

=============================================================================
