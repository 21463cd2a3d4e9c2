--------------------------- MODULE BridgeSettings ---------------------------
(***************************************************************************)
(* The settings of the bridge as a whole: special tags, jumbo frames,      *)
(* spanning tree states, trunks and the address table (ip1829func.c).      *)
(***************************************************************************)
EXTENDS SwitchRegs

-----------------------------------------------------------------------------
(* The CPU port and its special tag, time synchronisation, frame length,   *)
(* port security.                                                          *)

CpuPortLink == {OnOff(<<"CpuPortLink">>, 12, PageC.CPUMODE, 0)}
STagFunc    == {OnOff(<<"STagFunc">>, 12, PageC.CPUMODE, 1)}
STagTypeLen == {Kept(<<"STagTypeLen">>, Run(12, PageC.SPTAG, 0, 16), Word(16))}

PtpEnable == {OnOff(<<"PtpEnable">>, 0, Page0.PTPCFG, 0)}
PtpToCpu  == {OnOff(<<"PtpToCpu">>, 0, Page0.PTPCFG, 5)}

JumboPktFunc == {WholeMap(<<"JumboPktFunc">>, 0, Page0.JUMBO, 29)}

(* Not for the CPU port.                                                   *)
Func8021x == {WholeMap(<<"8021xFunc">>, 0, Page0.PORTLOCKEN, 28)}

MstpFunc == {OnOff(<<"MstpFunc">>, 2, Page2.VLANCFG, 6)}

-----------------------------------------------------------------------------
(* Trunks.                                                                 *)

TrunkHashMthd ==
  {Kept(<<"TrunkHashMthd">>, Run(1, Page1.TRUNKCFG, 0, 3), Word(3))}

TrunkHashMthdSeq == {OnOff(<<"TrunkHashMthdSeq">>, 1, Page1.TRUNKCFG, 3)}

CpuNCareTrunkAndVlan ==
  {OnOff(<<"CpuNCareTrunkAndVlan">>, 1, Page1.TRUNKCFG, 4)}

(* Groups 1 and 2, 3 and 4, 5 and 6.                                       *)
TrunkGrpCombine ==
  {OnOff(<<"TrunkGrpCombine", g>>, 1, Page1.TRUNKCFG, g) : g \in 5..7}

(* A bug to be caught: the fast ports follow the sixteen without a gap.    *)
TrunkMbrNoGap ==
  {OnOff(<<"TrunkMbr", p>>, 1, Page1.TRUNKCFG + (p + 7) \div 16, (p + 7) % 16) :
     p \in {q \in Ports : q < 17 \/ q \in 25..28}}

(* Sixteen ports and the four fast ones have a bit each, from bit 8 of the *)
(* first register on.                                                      *)
TrunkMbr ==
  {OnOff(<<"TrunkMbr", p>>, 1, Page1.TRUNKCFG + (IF p < 9 THEN 0 ELSE 1),
         IF p < 9 THEN p + 7 ELSE IF p < 17 THEN p - 9 ELSE p - 17) :
     p \in {q \in Ports : q < 17 \/ q \in 25..28}}

-----------------------------------------------------------------------------
(* BPDUs and spanning tree.                                                *)

BpduCapMode == {OnOff(<<"BpduCapMode">>, 0, Page0.BPDUPORTCAPCFG + 3, 8)}

PortPair(page, reg, port) == Run(page, reg, 2 * (port - 1), 2)

(* Forwarded, to the CPU or dropped.  The get command never returns what   *)
(* it reads.                                                               *)
BpduPortAct ==
  {Setting(<<"BpduPortAct", p>>, PortPair(0, Page0.BPDUPORTCAPCFG, p), << >>,
           {}, {}, Codes({0, 2, 3})) : p \in Ports \ {29}}

Fids == {1, 2, 16}

StpFid(fid) == Page1.SPANTREE + 4 * (fid - 1)

StpPortState ==
  {Kept(<<"StpPortState", fid, p>>, PortPair(1, StpFid(fid), p), Word(2)) :
     fid \in Fids, p \in Ports \ {29}}

(* All 28 ports at once; the CPU port, the 29th, is set to forwarding.     *)
StpAllPortsState ==
  LET ports(fid) == Run(1, StpFid(fid), 0, 56)
      cpu(fid) == Run(1, StpFid(fid), 56, 2)
      rest(fid) == Run(1, StpFid(fid), 58, 6)
      All(fid, x) ==
        [on   |-> Writing(ports(fid), {}, x).on \cup Places(cpu(fid)),
         off  |-> Writing(ports(fid), Places(rest(fid)), x).off,
         says |-> x]
  IN  {[name |-> <<"StpAllPortsState", fid>>, get |-> ports(fid),
        bars |-> {}, options |-> {All(fid, x) : x \in Word(56)}] :
         fid \in Fids}

-----------------------------------------------------------------------------
(* The address table.                                                      *)

(* The time is kept in units of 55 s.  Of the seconds only the low 16 bits *)
(* are looked at: no more than 1191 units come out of it.                  *)
LutAgingTime ==
  {Kept(<<"LutAgingTime">>, Run(1, Page1.LUTAGINGTIME, 0, 15),
        Codes({0, 1, 1191}))}

LutAgingTimeEnable ==
  {OnOff(<<"LutAgingTimeEnable">>, 1, Page1.LUTAGINGTIME, 15)}

(* All, none or by the aging time.                                         *)
LutLearningMode ==
  {Kept(<<"LutLearningMode">>, Run(1, Page1.SRCLEARNCFG, 0, 2),
        Codes({0, 1, 3}))}

LutLearningNullSA == {OnOff(<<"LutLearningNullSA">>, 1, Page1.SRCLEARNCFG, 2)}

LutHashingAlgorithm ==
  {OnOff(<<"LutHashingAlgorithm">>, 1, Page1.SRCLEARNCFG, 3)}

(* Dropped, to the CPU or forwarded.                                       *)
LutUnknownSARule ==
  {Kept(<<"LutUnknownSARule">>, Run(1, Page1.SRCLEARNCFG, 4, 2),
        Codes({0, 1, 2}))}

(* Two bits, one the opposite of the other; the first is also the upper    *)
(* bit of the rule for unknown addresses.                                  *)
LutBindingEnable ==
  {Kept(<<"LutBindingEnable">>, Run(1, Page1.SRCLEARNCFG, 5, 2), Codes({1, 2}))}

LutLearnPktDropByVlanIgsChk ==
  {OnOff(<<"LutLearnPktDropByVlanIgsChk">>, 1, Page1.SRCLEARNCFG, 7)}
=============================================================================
