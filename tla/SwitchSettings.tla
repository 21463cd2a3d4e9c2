--------------------------- MODULE SwitchSettings ---------------------------
(***************************************************************************)
(* All settings of the switch driver together.  Some two hundred commands  *)
(* write fields of some hundred registers, each with its own arithmetic of *)
(* registers and shifts, and each reads a register, changes its field and  *)
(* writes the register back.  Programs rely on a setting staying what it   *)
(* was set to, whatever other commands are given in between, and on the    *)
(* get command finding it there.                                           *)
(*                                                                         *)
(* The model follows one setting at a time, any that has a get command; of *)
(* the registers it keeps the places that setting's commands look at.      *)
(* Nothing is lost: what a command writes depends on no other place.       *)
(***************************************************************************)
EXTENDS PortSettings, BridgeSettings, CaptureSettings, VlanSettings,
        QosSettings

VARIABLES setting,  \* the name of the setting that is followed
          lit,      \* the places that are 1, of those Seen by it
          given      \* {x} once set to x, {} while its value is not known

settingVars == <<setting, lit, given>>

-----------------------------------------------------------------------------
(* The commands of each group of the driver's tables of functions.         *)

SmiCommands ==
  PortAN \cup PortSpeed \cup PortDuplex \cup PortPause \cup PortAsymPause
  \cup PortLinkStatus \cup PortBackpressure \cup PortPowerDown
  \cup PortForceLink \cup PortUniDirection

CapCommands ==
  L2CapAct \cup CapInBand \cup CapInBandRestrict \cup CapInBandRestrictCfg
  \cup CapSwitchMac \cup CapL3Act \cup CapL3User \cup CapEtherUser
  \cup CapIpv6TcpUdpEnable \cup CapIpv6TcpUdpFlagEnable
  \cup CapIpv6StopFinding \cup CapIpv6ToAllPortsHigh \cup CapIpv6ToCpuHigh
  \cup CapIpv6Act \cup CapIpv6User \cup CapIcmpv6User

LutCommands ==
  SMACLearning \cup SMACLrnCntCtrl \cup SMACLrnThreshold \cup LutAgingTime
  \cup LutAgingTimeEnable \cup LutLearningNullSA \cup LutHashingAlgorithm
  \cup LutBindingEnable \cup LutLearnPktDropByVlanIgsChk \cup LutLearningMode
  \cup LutUnknownSARule

SnifferCommands ==
  SnifferSrc \cup SnifferDestGrp1 \cup SnifferDestGrp2 \cup S1Method
  \cup S1PktModify \cup S1TM4CpuSTag \cup S1TM4Acl2Cpu \cup S1TM4Pkt2MPort
  \cup S2LTT4Grp1 \cup S2LTT4Grp2

StormCommands ==
  StormFunc \cup StormThreshold \cup StormCntrClrPeriod
  \cup StormBlockFrm2Cpu \cup StormDropInterrupt \cup MStormNBlockIpPkt
  \cup MStormIgnr01005EXXXXXX

LoopCommands ==
  EocFunc \cup EocReleaseTime \cup EocBlockClr \cup EocClrBlockWhenRcvGood
  \cup LdFunc \cup LdTimeUnit \cup LdPktSendTimer \cup LdBlockReleaseTimer
  \cup LdSMACB40 \cup LdRerandom \cup LdDMAC \cup LdEtherType \cup LdSubType
  \cup LdDeviceID

WolCommands ==
  WolFunc \cup WolMode \cup WolInterrupt \cup WolIPUnit \cup WolIPThreshold
  \cup WolStatusInSlaveMode \cup WolWakeIfTxGetAnyPkt
  \cup WolWakeIfRxGetAnyPkt \cup WolWakeIfMatchAcl2Cpu

(* ip1829_ioctl has no case for the table of the chip's own commands of    *)
(* this group, MAC loop back to MAC self test: they never run.             *)
MiscCommands ==
  CpuPortLink \cup STagFunc \cup STagTypeLen \cup PtpEnable \cup PtpToCpu
  \cup JumboPktFunc \cup Func8021x

StpCommands ==
  MstpFunc \cup BpduCapMode \cup BpduPortAct \cup StpPortState
  \cup StpAllPortsState

TrunkCommands ==
  TrunkHashMthd \cup TrunkHashMthdSeq \cup CpuNCareTrunkAndVlan
  \cup TrunkGrpCombine \cup TrunkMbr

IgmpCommands ==
  IGMPSnooping \cup IGMPMctByCPU \cup IGMPGroupAgain \cup IGMPRltByCPU
  \cup IGMPPktForward \cup IGMPRlt \cup IGMPHashMethod \cup IGMPMldRule

ImpCommands == ImpMode \cup ImpPassNullIP \cup ImpHash \cup ImpPort

CosCommands ==
  CosTcpUdpUserDefine \cup CosTcpUdpQueue \cup CosTcpUdpEnable
  \cup CosTcpEnable \cup CosUdpEnable \cup CosTcpFlagDropNull
  \cup CosTcpFlagDropAllset \cup CosTcpFlag \cup CosTcpFlagAct
  \cup CosTcpFlagPort

VlanCommands ==
  VlanEgressFrame \cup VlanTagging \cup VlanType \cup VlanGroup
  \cup VlanPortMember \cup VlanQinQPType \cup VlanQinQPAddtag
  \cup VlanQinQPRmvtag \cup VlanQinQPRxdet \cup VlanQinQPKeep
  \cup VlanQinQPIndex \cup VlanQinQIndex \cup VlanPortAddtag
  \cup VlanPortRmvtag \cup VlanPortForce \cup VlanPortUplink
  \cup VlanPortExclusive \cup VlanPortEgress \cup VlanPortIngressFrame
  \cup VlanPortIngressCheck \cup VlanPortVid \cup VlanProtocolMode
  \cup VlanProtocolVid \cup VlanProtocolType \cup VlanProtocolClear

QosCommands ==
  QOSAgingFunction \cup QOSAgingTime \cup QOSFastAging \cup COSACL \cup COSIGMP
  \cup COSIPAddress \cup COSMACAddress \cup COSVID \cup COSTCPUDPPort
  \cup COSDSCP \cup COS8021P \cup COSPhsicalPort \cup QOS8021PEdtion
  \cup QOSDSCPBaseDSCP \cup QOSDSCPBaseNoMatchAction \cup QOSRemap
  \cup QOSmodeGroupMember \cup QOSGroupBEn \cup QOSMode \cup QOSUnit
  \cup QOSMethod \cup QOSWeight \cup QOSMaxBandwidth \cup QOSRatioValue0Def
  \cup QOSSBMDBM \cup QOSDBMEn \cup QOSEgressControl \cup GetQOSEgressControl

AclCommands ==
  AclFunctionEn \cup AclBW \cup AclDscp \cup AclVlanGroup \cup AclVidRemark

BandwidthCommands ==
  BandwidthIngressRate \cup BandwidthEgressRate \cup BandwidthEgressPeriod

Commands ==
  SmiCommands \cup CapCommands \cup LutCommands \cup SnifferCommands
  \cup StormCommands \cup LoopCommands \cup WolCommands \cup MiscCommands
  \cup StpCommands \cup TrunkCommands \cup IgmpCommands \cup ImpCommands
  \cup CosCommands \cup VlanCommands \cup QosCommands \cup AclCommands
  \cup BandwidthCommands

-----------------------------------------------------------------------------
(* Which settings are not independent.                                     *)

(* Families whose commands set the same thing, or part of it, on purpose.  *)
Companions ==
  {{"StormThreshold"}, {"StormCntrClrPeriod"}, {"StormBlockFrm2Cpu"},
   {"StpPortState", "StpAllPortsState"}, {"IGMPMldRule", "CapIpv6Act"},
   {"VlanGroup", "VlanPortMember"}, {"VlanProtocolClear", "VlanProtocolType"},
   {"VlanProtocolClear", "VlanProtocolVid"},
   {"VlanProtocolClear", "VlanProtocolMode"},
   {"QOSMethod", "QOSRatioValue0Def"}, {"QOSMethod", "QOSDBMEn"}}

(* Families that share places though they set different things.            *)
Clashes ==
  {{"CapIpv6StopFinding", "CapIpv6ToAllPortsHigh"},
   {"LutBindingEnable", "LutUnknownSARule"},
   {"AclVidRemark", "VlanProtocolType"}, {"AclVidRemark", "VlanProtocolVid"},
   {"AclVidRemark", "VlanProtocolMode"}, {"AclVidRemark", "VlanProtocolClear"}}

(* Families whose get command does not find what the set command left.     *)
Misread ==
  {"StormDropInterrupt", "WolFunc", "WolWakeIfTxGetAnyPkt",
   "WolWakeIfRxGetAnyPkt", "QOSDSCPBaseDSCP", "BandwidthEgressRate",
   "QOSEgressControl"}

Disturbs(m, n) == {m[1], n[1]} \in Companions \cup Clashes

-----------------------------------------------------------------------------
(* The places that count for a setting, and the commands that touch them.  *)

Names == {s.name : s \in Commands}

Named == [n \in Names |-> CHOOSE s \in Commands : s.name = n]

Watchable == {n \in Names : Named[n].get # << >> /\ n[1] \notin Misread}

Seen == [n \in Names |-> Places(Named[n].get) \cup UNION Named[n].bars]

Touches == [n \in Names |-> UNION {o.on \cup o.off : o \in Named[n].options}]

Rivals ==
  [n \in Watchable |->
     {m \in Names : m = n \/ Touches[m] \cap Seen[n] # {}}]

Reading(n) == {b \in DOMAIN Named[n].get : Named[n].get[b] \in lit}

-----------------------------------------------------------------------------
(* The places no command writes are reserved and read as 0.                *)
Usable == UNION {Touches[n] : n \in Names}

(* What the hardware starts with is not known: all usable places may be 0, *)
(* or all 1.                                                               *)
Initially(n) == {{}, Seen[n] \cap Usable}

SettingsInit ==
  /\ setting \in Watchable
  /\ lit \in Initially(setting)
  /\ given = {}

Refused(n) == \E bar \in Named[n].bars : bar \subseteq lit

(* A command reads its registers, changes its places and writes the rest   *)
(* back.  Commands that touch nothing of the setting are left out.         *)
Command(n, o) ==
  /\ n = setting => ~Refused(n)
  /\ lit' = ((lit \ o.off) \cup o.on) \cap Seen[setting]
  /\ given' = IF n = setting THEN {o.says}
             ELSE IF Disturbs(n, setting) THEN {} ELSE given
  /\ UNCHANGED setting

(* setSwitchRestart and setSwitchReset: the hardware starts over and the   *)
(* driver sets nothing again.                                              *)
SwitchReset ==
  /\ lit' \in Initially(setting)
  /\ given' = {}
  /\ UNCHANGED setting

SettingsNext ==
  \/ \E n \in Rivals[setting] : \E o \in Named[n].options : Command(n, o)
  \/ SwitchReset

SettingsSpec == SettingsInit /\ [][SettingsNext]_settingVars

-----------------------------------------------------------------------------
(* The get command returns what its set command was given last, whatever   *)
(* other commands were given before, in between and since: no two commands *)
(* of the driver write one place, but for the companions and the clashes,  *)
(* no command writes more than its field back changed, and the two         *)
(* commands of a setting agree on where it is.  Not promised: a register   *)
(* that a program wrote as a whole, with setReg.                           *)
SettingsKept == given \subseteq {Reading(setting)}
=============================================================================
