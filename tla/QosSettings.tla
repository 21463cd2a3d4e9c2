---------------------------- MODULE QosSettings -----------------------------
(***************************************************************************)
(* The settings of the queues and of the rates: what a frame's priority    *)
(* is taken from, how the queues of the two groups of ports share a port,  *)
(* and how fast ports receive and send (ip1829func.c).                     *)
(***************************************************************************)
EXTENDS SwitchRegs

Groups == {0, 1}
Queues == {0, 1, 7}

-----------------------------------------------------------------------------
(* Aging of the frames in the queues.                                      *)

QOSAgingFunction ==
  {Kept(<<"QOSAgingFunction", p>>, Run(8, Page8.QOSPORTAGINGEN, 8 * (p - 1), 8),
        Word(8)) : p \in Ports}

QOSAgingTime ==
  {Kept(<<"QOSAgingTime">>, Run(8, Page8.QOSAGINGTIME, 0, 8), Word(8))}

QOSFastAging == {OnOff(<<"QOSFastAging">>, 8, Page8.QOSAGINGTIME, 8)}

-----------------------------------------------------------------------------
(* Where the priority comes from.                                          *)

COSACL        == EachPort("COSACL", 0, Page0.QOSACLBASEPRIEN)
COSIGMP       == EachPort("COSIGMP", 0, Page0.QOSIGMPBASEPRIEN)
COSIPAddress  == EachPort("COSIPAddress", 0, Page0.QOSIPBASEPRIEN)
COSMACAddress == EachPort("COSMACAddress", 0, Page0.QOSMACBASEPRIEN)
COSVID        == EachPort("COSVID", 0, Page0.QOSVIDBASEPRIEN)
COSTCPUDPPort == EachPort("COSTCPUDPPort", 0, Page0.QOSTCPUDPBASEPRIEN)
COSDSCP       == EachPort("COSDSCP", 0, Page0.QOSDSCPBASEPRIEN)
COS8021P      == EachPort("COS8021P", 0, Page0.QOS8021PBASEPRIEN)

(* Three bits each, five to a register.                                    *)
Fifth(page, reg, i) == Run(page, reg + i \div 5, 3 * (i % 5), 3)

COSPhsicalPort ==
  {Kept(<<"COSPhsicalPort", p>>, Fifth(0, Page0.QOSPORTBASEPRIQUE, p - 1), Word(3)) :
     p \in Ports}

(* 2005, 2005 with its extension, or the early edition, in the upper bits  *)
(* of the map of COS8021P.                                                 *)
QOS8021PEdtion ==
  {Kept(<<"QOS8021PEdtion">>, Run(0, Page0.QOS8021PBASEPRIEN + 1, 14, 2),
        Codes({0, 1, 2}))}

(* A DSCP value and its queue, for each of the entries 1 to 8.  The get    *)
(* command does not count the entry down, takes the second value of a      *)
(* register to begin at bit 5, not 6, and refuses the entry 8.             *)
DscpPlaces(e, width) ==
  Run(0, Page0.QOSDSCPVALUE + e \div 2, width * (e % 2), 6)
    \o Fifth(0, Page0.QOSDSCPPRISETTING, e)

QOSDSCPBaseDSCP ==
  {Setting(<<"QOSDSCPBaseDSCP", e>>, DscpPlaces(e - 1, 6),
           IF e < 8 THEN DscpPlaces(e, 5) ELSE << >>, {}, {}, Word(9)) : e \in 1..8}

QOSDSCPBaseNoMatchAction ==
  {OnOff(<<"QOSDSCPBaseNoMatchAction">>, 0, Page0.QOSDSCPPRISETTING + 1, 9)}

(* The queue a queue becomes on the way in (0 to 7) or out (8 to 15).      *)
QOSRemap ==
  {Kept(<<"QOSRemap", p, q>>,
        IF q < 8 THEN Fifth(6, Page6.QOS_REMAP_RX + 2 * (p - 1), q)
                 ELSE Fifth(8, Page8.QOS_REMAP_TX + 2 * (p - 1), q - 8),
        Word(3)) : p \in Ports, q \in {0, 4, 5, 7, 8, 12, 13, 15}}

-----------------------------------------------------------------------------
(* The two groups of ports.                                                *)

QOSmodeGroupMember == EachPort("QOSmodeGroupMember", 8, Page8.QOSGROUPSEL)

ModeSel(g) == IF g = 0 THEN Page8.QOSMODESELGROUP1 ELSE Page8.QOSMODESELGROUP2

QOSGroupBEn == {OnOff(<<"QOSGroupBEn">>, 8, Page8.QOSMODESELGROUP2, 9)}

QOSMode ==
  {Kept(<<"QOSMode", g>>, Run(8, ModeSel(g), 0, 3), Codes({0, 1, 5})) : g \in Groups}

QOSUnit ==
  {Kept(<<"QOSUnit", g>>, Run(8, ModeSel(g), 3, 2), Word(2)) : g \in Groups}

(* The bandwidth method, 1, also holds the frames of both groups (the bit  *)
(* of QOSRatioValue0Def) and turns the buffer management of every port on  *)
(* (the map of QOSDBMEn).  Three bits are read and two are written.        *)
QOSMethod ==
  LET hold == Run(8, Page8.QOSMODESELGROUP1, 15, 1)
      dbm == TwoRegs(8, Page8.QOSQUEUEDBMEN)
      Plain(g, x) == Writing(Run(8, ModeSel(g), 5, 2), {}, x)
      Full(g, x) ==
        [on   |-> Plain(g, x).on \cup Places(hold) \cup Writing(dbm, {}, 1..29).on,
         off  |-> Plain(g, x).off \cup Writing(dbm, {}, 1..29).off,
         says |-> x]
  IN  {[name |-> <<"QOSMethod", g>>, get |-> Run(8, ModeSel(g), 5, 3), bars |-> {},
        options |-> {Plain(g, x) : x \in Codes({0, 2, 3})}
                    \cup {Full(g, x) : x \in Codes({1})}] : g \in Groups}

QOSWeight ==
  {Kept(<<"QOSWeight", g, q>>,
        Run(8, IF g = 0 THEN Page8.QOSGP1_WEIGHT ELSE Page8.QOSGP2_WEIGHT, 8 * q, 8),
        Word(8)) : g \in Groups, q \in Queues}

QOSMaxBandwidth ==
  {Kept(<<"QOSMaxBandwidth", g, q>>,
        Run(8, IF g = 0 THEN Page8.QOSGP1_MAXBDWT ELSE Page8.QOSGP2_MAXBDWT, 8 * q, 8),
        Word(8)) : g \in Groups, q \in Queues}

QOSRatioValue0Def == {OnOff(<<"QOSRatioValue0Def">>, 8, Page8.QOSMODESELGROUP1, 15)}

(* All eight queues of a port get the same mode.                           *)
QOSSBMDBM ==
  {Kept(<<"QOSSBMDBM", p>>, Run(8, Page8.QOS_SBMDBMSEL, 8 * (p - 1), 8), {{}, 1..8}) :
     p \in Ports}

QOSDBMEn == EachPort("QOSDBMEn", 8, Page8.QOSQUEUEDBMEN)

-----------------------------------------------------------------------------
(* Rates of whole ports, in units of 64 kbit/s; 0 is no limit.             *)

TopRate(p) == IF p <= 24 THEN 1561 ELSE 15624

(* The whole register is written and 14 bits of it read.                   *)
Rate(name, bits, values) ==
  Setting(name, bits, SubSeq(bits, 1, 14), {}, {}, values)

BandwidthIngressRate ==
  {Rate(<<"BandwidthIngressRate", p>>,
        Run(0, Page0.INGRESS_RATE_CTRL + p - 1, 0, 16),
        Codes({0, 1, TopRate(p)})) : p \in Ports}

EgressRate(p) == Run(8, Page8.EGRESS_RATE_CTRL + p - 1, 0, 16)

(* The rate is divided by the unit twice, so every limit is written as 1.  *)
BandwidthEgressRate ==
  {[Rate(<<"BandwidthEgressRate", p>>, EgressRate(p), {{}}) EXCEPT
      !.options = @ \cup {[Writing(EgressRate(p), {}, {1}) EXCEPT !.says = x] :
                            x \in Codes({1, TopRate(p)})}] : p \in Ports}

(* The same register, of a map of ports.  Its get command writes the upper *)
(* bit alone to the register before it reads it: what it then finds is up  *)
(* to the hardware.                                                        *)
QOSEgressControl ==
  {Rate(<<"QOSEgressControl", p>>, EgressRate(p), Word(14)) : p \in Ports}

GetQOSEgressControl ==
  {WriteOnly(<<"GetQOSEgressControl", p>>, {Writing(EgressRate(p), {}, {16})}) :
     p \in Ports}

BandwidthEgressPeriod ==
  {Kept(<<"BandwidthEgressPeriod">>, Run(8, Page8.OUT_QUEUE_PARAM, 4, 3), Word(3))}
=============================================================================
