----------------------------- MODULE RingProofs -----------------------------
(***************************************************************************)
(* Proofs about the ring, for any number of transport nodes, any Limit and *)
(* any numbers of the ring, of the VLAN and of the ports: frames, types,   *)
(* loops, and what its healing rests on.                                   *)
(***************************************************************************)
EXTENDS Ring, TLAPS

-----------------------------------------------------------------------------
(* What a hop does to a frame.                                              *)

LEMMA Ports ==
  /\ PortNo["in"] \in 1..28 /\ PortNo["out"] \in 1..28 /\ PortNo["in"] # PortNo["out"]
  /\ Elsewhere \in (1..28) \ RingPorts
  /\ RingPorts = {PortNo["in"], PortNo["out"]}
BY RingAssumption DEF RingAssumption, RingPorts, Port

LEMMA Around ==
  ASSUME NEW n \in Node
  PROVE  /\ After(n) \in Node /\ Before(n) \in Node
         /\ LinkOf(n, "out") = n /\ LinkOf(n, "in") = Before(n)
         /\ Before(After(n)) = n /\ After(Before(n)) = n
         /\ n # 0 => n \in Transport
         /\ n = 0 => After(n) \in Transport
BY RingAssumption DEF RingAssumption, After, Before, Node, Transport, LinkOf

LEMMA FrameTypes ==
  FrameType = {"HELLO", "LINK_UP", "LINK_DOWN", "COMMON_FLUSH", "COMPLETE_FLUSH"}
BY DEF FrameType, RRPP_TYPE

LEMMA TypeCodes ==
  /\ RRPP_TYPE["HELLO"] = 17 /\ RRPP_TYPE["LINK_UP"] = 18 /\ RRPP_TYPE["LINK_DOWN"] = 19
  /\ RRPP_TYPE["COMMON_FLUSH"] = 20 /\ RRPP_TYPE["COMPLETE_FLUSH"] = 21
BY DEF RRPP_TYPE

LEMMA FilledFrame ==
  ASSUME NEW t \in FrameType
  PROVE  Filled[t] = <<RRPP_TYPE[t], <<TPID, Vid, Did, Rid>>>>
<1>1. Vid % 4096 = Vid
  BY FrameAssumption DEF FrameAssumption
<1>2. QED
  BY <1>1 DEF Filled, fill_rrpp_frame

LEMMA FilledApart ==
  ASSUME NEW t \in FrameType, NEW u \in FrameType, Filled[t] = Filled[u]
  PROVE  t = u
<1>1. RRPP_TYPE[t] = RRPP_TYPE[u]
  BY FilledFrame
<1>2. QED
  BY <1>1, FrameTypes, TypeCodes

\* One frame on the link, if the link works.
Hop(n, p, t) ==
  IF LinkOf(n, p) \in up
  THEN {[node |-> IF p = "out" THEN After(n) ELSE Before(n), port |-> Couple(p),
         frame |-> Filled[t]]}
  ELSE {}

LEMMA SentIsHop ==
  ASSUME NEW n \in Node, NEW p \in Port, NEW t \in FrameType
  PROVE  Sent(n, PortNo[p], Filled[t]) = Hop(n, p, t)
<1> DEFINE buf == fill_special_frame(Filled[t], PortNo[p])
<1>1. Leaving(buf) = Filled[t]
  BY FilledFrame DEF Leaving, fill_special_frame
<1>2. LeavesAt(buf) = {PortNo[p]}
  BY Ports DEF LeavesAt, fill_special_frame, Port
<1>3. \A q \in Port : PortNo[q] \in LeavesAt(buf) <=> q = p
  BY <1>2, Ports DEF Port
<1>4. {q \in Port : PortNo[q] \in LeavesAt(buf) /\ LinkOf(n, q) \in up}
        = IF LinkOf(n, p) \in up THEN {p} ELSE {}
  BY <1>3
<1>5. QED
  BY <1>1, <1>4 DEF Sent, Hop

\* What the receiver makes of a frame of the ring.
LEMMA Understood ==
  ASSUME NEW t \in FrameType, NEW p \in Port
  PROVE  LET buf == Arriving(Filled[t], PortNo[p])
         IN  /\ SrcPort(buf) = PortNo[p]
             /\ cp_remove_special_tag(buf) = Filled[t]
             /\ MajorJudges(buf) = {t} \intersect {"HELLO", "LINK_UP", "LINK_DOWN"}
             /\ TransportJudges(buf, RingPorts)
                  = {t} \intersect {"HELLO", "COMMON_FLUSH", "COMPLETE_FLUSH"}
<1> DEFINE buf == Arriving(Filled[t], PortNo[p])
<1>1. buf = <<RRPP_TYPE[t], <<SPECIAL_TAG_VAL, PortNo[p] - 1>>, <<TPID, Vid, Did, Rid>>>>
  BY FilledFrame DEF Arriving
<1>2. SrcPort(buf) = PortNo[p]
  BY <1>1, Ports DEF SrcPort, Port
<1>3. cp_remove_special_tag(buf) = Filled[t]
  BY <1>1, FilledFrame DEF cp_remove_special_tag
<1>4. ASSUME NEW types, types \subseteq FrameType
      PROVE  Judged(buf, types) = {t} \intersect types
  <2>1. is_rrpp_dst_mac(buf[1])
    BY <1>1, TypeCodes, FrameTypes DEF is_rrpp_dst_mac
  <2>2. TagOf(buf) = SPECIAL_TAG_VAL /\ IsOurs(buf[3])
    BY <1>1 DEF TagOf, IsOurs
  <2>3. \A u \in FrameType : buf[1] = RRPP_TYPE[u] <=> u = t
    BY <1>1, TypeCodes, FrameTypes
  <2>4. QED
    BY <2>1, <2>2, <2>3, <1>4 DEF Judged
<1>5. MajorJudges(buf) = {t} \intersect {"HELLO", "LINK_UP", "LINK_DOWN"}
  BY <1>4, FrameTypes DEF MajorJudges
<1>6. TransportJudges(buf, RingPorts)
        = {t} \intersect {"HELLO", "COMMON_FLUSH", "COMPLETE_FLUSH"}
  <2>1. SrcPort(buf) \in RingPorts
    BY <1>2, Ports DEF Port
  <2>2. Judged(buf, {"HELLO", "COMMON_FLUSH", "COMPLETE_FLUSH"})
          = {t} \intersect {"HELLO", "COMMON_FLUSH", "COMPLETE_FLUSH"}
    BY <1>4, FrameTypes
  <2>3. QED
    BY <2>1, <2>2 DEF TransportJudges
<1>7. QED
  BY <1>2, <1>3, <1>5, <1>6

\* A frame that is not for the node is judged to be of no type, or has come in
\* at a port that no handler takes it from.
LEMMA StraysTurnedAway ==
  ASSUME NEW n \in Node, NEW buf \in StrayBufs
  PROVE  /\ TransportJudges(buf, RingPorts) = {}
         /\ MajorJudges(buf) = {} \/ SrcPort(buf) \notin RingPorts
<1>1. ASSUME NEW frame \in Foreign, NEW portno \in RingPorts,
             buf = Arriving(frame, portno)
      PROVE  \A types : Judged(buf, types) = {}
  <2>1. PICK t \in FrameType, v \in {Vid, Vid - 1}, d \in {Did, Did + 1},
             r \in {Rid, Rid + 1} : frame = fill_rrpp_frame(t, v, d, r)
    BY <1>1 DEF Foreign
  <2>2. frame # <<RRPP_TYPE[t], <<TPID, Vid, Did, Rid>>>>
    BY <1>1, FilledFrame DEF Foreign
  <2>3. buf[3] # <<TPID, Vid, Did, Rid>>
    BY <2>1, <2>2, <1>1 DEF fill_rrpp_frame, Arriving
  <2>4. QED
    BY <2>3 DEF Judged, IsOurs
<1>2. ASSUME NEW t \in FrameType, buf = Filled[t]
      PROVE  \A types : Judged(buf, types) = {}
  <2>1. TagOf(buf) # SPECIAL_TAG_VAL
    BY <1>2, FilledFrame DEF TagOf, TPID, SPECIAL_TAG_VAL
  <2>2. QED
    BY <2>1 DEF Judged
<1>3. ASSUME NEW t \in FrameType, buf = Arriving(Filled[t], Elsewhere)
      PROVE  SrcPort(buf) \notin RingPorts
  <2>1. buf[2][2] = Elsewhere - 1
    BY <1>3, FilledFrame DEF Arriving
  <2>2. QED
    BY <2>1, Ports DEF SrcPort
<1>4. QED
  BY <1>1, <1>2, <1>3 DEF StrayBufs, MajorJudges, TransportJudges

\* So nothing that is not for the ring changes its state.
LEMMA StraysChangeNothing == ASSUME NEW n \in Node, RecvStray(n) PROVE UNCHANGED vars
<1>1. PICK buf \in Strays[n] : Takes(n, buf, wire)
  BY DEF RecvStray
<1>2. /\ buf \in StrayBufs
      /\ IF n = 0 THEN MajorJudges(buf) # {} ELSE TransportJudges(buf, RingPorts) # {}
  BY <1>1 DEF Strays
<1>3. n = 0 /\ SrcPort(buf) \notin RingPorts
  BY <1>2, StraysTurnedAway
<1>4. MajorTakes(buf, wire)
  BY <1>1, <1>3 DEF Takes
<1>5. RecvOther(MajorJudges(buf), SrcPort(buf), wire)
  BY <1>3, <1>4, Ports DEF MajorTakes, RecvHello, RecvLinkDown, RecvLinkUp
<1>6. QED
  BY <1>5 DEF RecvOther, vars

-----------------------------------------------------------------------------
(* The steps, without the bytes.                                            *)

\* A transport node gets a frame of type t.
TransportGets(f, t) ==
  LET n == f.node
      opens == t = "COMPLETE_FLUSH" /\ status[n] = "PREFORWARDING"
  IN  /\ n \in Transport
      /\ wire' = (wire \ {f}) \union
                 (IF Passes(t) THEN Hop(n, Couple(f.port), t) ELSE {})
      /\ status' = IF opens THEN [status EXCEPT ![n] = "UP"] ELSE status
      /\ blocked' = IF opens THEN [blocked EXCEPT ![n] = {}] ELSE blocked
      /\ waited' = IF opens THEN [waited EXCEPT ![n] = 0] ELSE waited
      /\ UNCHANGED <<up, major, silent, seen, calm, early>>

\* The major node gets a frame of type t.
MajorGets(f, t) ==
  /\ f.node = 0
  /\ UNCHANGED <<up, status, seen, blocked, waited, calm, early>>
  /\ \/ /\ t = "HELLO" /\ f.port = "in" /\ major' = "COMPLETE" /\ silent' = 0
        /\ wire' = (wire \ {f}) \union
                   (IF major = "FAILED" THEN Hop(0, "out", "COMPLETE_FLUSH") ELSE {})
     \/ /\ t = "LINK_DOWN" /\ major' = "FAILED" /\ UNCHANGED silent
        /\ wire' = (wire \ {f}) \union
                   (IF major = "COMPLETE"
                    THEN Hop(0, "out", "COMMON_FLUSH") \union Hop(0, "in", "COMMON_FLUSH")
                    ELSE {})
     \/ /\ t = "LINK_UP" /\ UNCHANGED <<major, silent>>
        /\ wire' = (wire \ {f}) \union
                   (IF major = "FAILED"
                    THEN Hop(0, "out", "COMMON_FLUSH") \union Hop(0, "in", "COMMON_FLUSH")
                           \union Hop(0, "out", "HELLO")
                    ELSE {})
     \/ /\ t = "HELLO" => f.port # "in"
        /\ wire' = wire \ {f} /\ UNCHANGED <<major, silent>>

LEMMA Received ==
  ASSUME TypeOK, NEW f \in wire, Receive(f)
  PROVE  \E t \in FrameType : f.frame = Filled[t] /\ (TransportGets(f, t) \/ MajorGets(f, t))
<1>1. PICK t \in FrameType : f.frame = Filled[t]
  BY DEF TypeOK
<1>2. f.node \in Node /\ f.port \in Port
  BY DEF TypeOK
<1> DEFINE buf == Arriving(Filled[t], PortNo[f.port])
           rest == wire \ {f}
<1>3. Takes(f.node, buf, rest)
  BY <1>1 DEF Receive
<1>4. /\ SrcPort(buf) = PortNo[f.port]
      /\ cp_remove_special_tag(buf) = Filled[t]
      /\ MajorJudges(buf) = {t} \intersect {"HELLO", "LINK_UP", "LINK_DOWN"}
      /\ TransportJudges(buf, RingPorts)
           = {t} \intersect {"HELLO", "COMMON_FLUSH", "COMPLETE_FLUSH"}
  BY <1>2, Understood
<1>5. \A q \in Port : PortNo[q] = PortNo[f.port] <=> q = f.port
  BY <1>2, Ports DEF Port
<1>6. CASE f.node = 0
  <2>1. MajorTakes(buf, rest)
    BY <1>3, <1>6 DEF Takes
  <2>2. /\ Frame(0, "out", "HELLO") = Hop(0, "out", "HELLO")
        /\ Frame(0, "out", "COMMON_FLUSH") = Hop(0, "out", "COMMON_FLUSH")
        /\ Frame(0, "in", "COMMON_FLUSH") = Hop(0, "in", "COMMON_FLUSH")
        /\ Frame(0, "out", "COMPLETE_FLUSH") = Hop(0, "out", "COMPLETE_FLUSH")
    BY <1>2, <1>6, SentIsHop, FrameTypes DEF Frame, Port
  <2>3. PortNo[f.port] \in RingPorts /\ (PortNo[f.port] = PortNo["in"] <=> f.port = "in")
    BY <1>2, <1>5 DEF RingPorts, Port
  <2>4. CASE "HELLO" \in MajorJudges(buf) /\ RecvHello(SrcPort(buf), rest)
    <3>1. t = "HELLO" /\ f.port = "in"
      BY <2>4, <1>4, <2>3 DEF RecvHello
    <3>2. QED
      BY <1>1, <1>6, <2>4, <3>1, <2>2 DEF RecvHello, MajorGets
  <2>5. CASE "LINK_DOWN" \in MajorJudges(buf) /\ RecvLinkDown(SrcPort(buf), rest)
    <3>1. t = "LINK_DOWN"
      BY <2>5, <1>4
    <3>2. QED
      BY <1>1, <1>6, <2>5, <3>1, <2>2 DEF RecvLinkDown, MajorGets
  <2>6. CASE "LINK_UP" \in MajorJudges(buf) /\ RecvLinkUp(SrcPort(buf), rest)
    <3>1. t = "LINK_UP"
      BY <2>6, <1>4
    <3>2. QED
      BY <1>1, <1>6, <2>6, <3>1, <2>2 DEF RecvLinkUp, MajorGets
  <2>7. CASE RecvOther(MajorJudges(buf), SrcPort(buf), rest)
    <3>1. t = "HELLO" => f.port # "in"
      BY <2>7, <1>4, <2>3 DEF RecvOther
    <3>2. QED
      BY <1>1, <1>6, <2>7, <3>1 DEF RecvOther, MajorGets
  <2>8. QED
    BY <2>1, <2>4, <2>5, <2>6, <2>7 DEF MajorTakes
<1>7. CASE f.node # 0
  <2>1. TransportTakes(f.node, buf, rest)
    BY <1>3, <1>7 DEF Takes
  <2>2. f.node \in Transport
    BY <1>2, <1>7, Around
  <2>3. \A p \in Port : Couple(p) \in Port
    BY DEF Port, Couple
  <2> DEFINE heard == TransportJudges(buf, RingPorts)
  <2>4. (\E type \in heard : Passes(type)) <=> Passes(t)
    BY <1>4 DEF Passes
  <2>5. {q \in Port : PortNo[q] = SrcPort(buf) /\ \E type \in heard : Passes(type)}
          = IF Passes(t) THEN {f.port} ELSE {}
    BY <1>2, <1>4, <1>5, <2>4
  <2>6. Sent(f.node, PortNo[Couple(f.port)], cp_remove_special_tag(buf))
          = Hop(f.node, Couple(f.port), t)
    BY <1>2, <1>4, <2>3, SentIsHop
  <2>7. UNION {Sent(f.node, PortNo[Couple(p)], cp_remove_special_tag(buf)) :
                 p \in {q \in Port : PortNo[q] = SrcPort(buf)
                                     /\ \E type \in heard : Passes(type)}}
          = IF Passes(t) THEN Hop(f.node, Couple(f.port), t) ELSE {}
    BY <2>5, <2>6
  <2>8. "COMPLETE_FLUSH" \in heard <=> t = "COMPLETE_FLUSH"
    BY <1>4
  <2>9. TransportGets(f, t)
    BY <2>1, <2>2, <2>7, <2>8 DEF TransportTakes, TransportGets
  <2>10. QED
    BY <1>1, <2>9
<1>8. QED
  BY <1>6, <1>7

-----------------------------------------------------------------------------
(* Types.                                                                   *)

OnTheWay == [node : Node, port : Port, frame : {Filled[t] : t \in FrameType}]

LEMMA FrameIsHop ==
  ASSUME NEW n \in Node, NEW p \in Port, NEW t \in FrameType
  PROVE  /\ Frame(n, p, t) = Hop(n, p, t)
         /\ Hop(n, p, t) \subseteq OnTheWay
<1>1. Frame(n, p, t) = Hop(n, p, t)
  BY SentIsHop DEF Frame
<1>2. Couple(p) \in Port
  BY DEF Couple, Port
<1>3. After(n) \in Node /\ Before(n) \in Node
  BY Around
<1>4. QED
  BY <1>1, <1>2, <1>3 DEF Hop, OnTheWay

\* A node that is DOWN misses a link.
Inv == TypeOK /\ NoneStuckDown

LEMMA InvInit == Init => Inv
<1> SUFFICES ASSUME Init PROVE Inv
  OBVIOUS
<1>1. 0 \in 0..Limit
  BY RingAssumption DEF RingAssumption
<1>2. \A t \in Transport : Lit(t) \subseteq Port
  BY DEF Lit
<1>3. QED
  BY <1>1, <1>2 DEF Init, Inv, TypeOK, NoneStuckDown

LEMMA InvLinks ==
  ASSUME Inv, NEW l \in Link, LinkFails(l) \/ LinkReturns(l)
  PROVE  Inv'
BY DEF Inv, TypeOK, NoneStuckDown, LinkFails, LinkReturns

LEMMA InvDetect ==
  ASSUME Inv, NEW t \in Transport, Detect(t)
  PROVE  Inv'
<1> USE DEF Inv
<1>0. t \in Node /\ Couple("in") \in Port /\ Couple("out") \in Port /\ Lit(t) \subseteq Port
  BY DEF Transport, Node, Couple, Port, Lit
<1>1. \A p \in Port, u \in {"LINK_UP", "LINK_DOWN"} : Frame(t, Couple(p), u) \subseteq OnTheWay
  BY <1>0, FrameIsHop, FrameTypes DEF Port
<1>2. /\ seen' = [seen EXCEPT ![t] = Lit(t)] /\ seen' \in [Transport -> SUBSET Port]
      /\ UNCHANGED <<up, major, silent, waited, calm, early>>
  BY <1>0 DEF Detect, TypeOK
<1>3. CASE /\ status[t] = "DOWN" /\ BothUp(t)
           /\ status' = [status EXCEPT ![t] = "PREFORWARDING"]
           /\ \E p \in Port \ seen[t] :
                /\ blocked' = [blocked EXCEPT ![t] = @ \union ToBlock(p)]
                /\ wire' = wire \union Frame(t, Couple(p), "LINK_UP")
  <2>1. blocked' \in [Transport -> SUBSET Port] /\ wire' \subseteq OnTheWay
    BY <1>3, <1>1 DEF ToBlock, TypeOK, OnTheWay
  <2>2. QED
    BY <1>2, <1>3, <2>1 DEF TypeOK, NoneStuckDown, OnTheWay
<1>4. CASE /\ status[t] = "UP" /\ seen[t] \ Lit(t) # {}
           /\ status' = [status EXCEPT ![t] = "DOWN"]
           /\ \E p \in seen[t] \ Lit(t) : wire' = wire \union Frame(t, Couple(p), "LINK_DOWN")
           /\ UNCHANGED blocked
  <2>1. wire' \subseteq OnTheWay
    BY <1>4, <1>1 DEF TypeOK, OnTheWay
  <2>2. Lit(t) # Port
    BY <1>4 DEF TypeOK
  <2>3. QED
    BY <1>2, <1>4, <2>1, <2>2 DEF TypeOK, NoneStuckDown, OnTheWay
<1>5. CASE /\ ~(status[t] = "DOWN" /\ BothUp(t))
           /\ UNCHANGED <<status, blocked, wire>>
  BY <1>2, <1>5 DEF TypeOK, NoneStuckDown, BothUp
<1>6. QED
  BY <1>3, <1>4, <1>5 DEF Detect

LEMMA InvReceive ==
  ASSUME Inv, NEW f \in wire, Receive(f)
  PROVE  Inv'
<1> USE DEF Inv
<1>1. PICK t \in FrameType :
        f.frame = Filled[t] /\ (TransportGets(f, t) \/ MajorGets(f, t))
  BY Received
<1>2. f.node \in Node /\ f.port \in Port /\ Couple(f.port) \in Port /\ wire \subseteq OnTheWay
  BY DEF TypeOK, Couple, Port, OnTheWay
<1>3. 0 \in Node /\ 0 \in 0..Limit
  BY RingAssumption DEF Node, RingAssumption
<1>4. CASE TransportGets(f, t)
  <2>1. wire' \subseteq OnTheWay
    BY <1>2, <1>4, FrameIsHop DEF TransportGets
  <2>2. QED
    BY <1>3, <1>4, <2>1 DEF TransportGets, TypeOK, NoneStuckDown, OnTheWay
<1>5. CASE MajorGets(f, t)
  <2>1. \A p \in {"in", "out"}, u \in FrameType : Hop(0, p, u) \subseteq OnTheWay
    BY <1>3, FrameIsHop DEF Port
  <2>2. wire' \subseteq OnTheWay
    BY <1>2, <1>5, <2>1, FrameTypes DEF MajorGets
  <2>3. QED
    BY <1>3, <1>5, <2>2 DEF MajorGets, TypeOK, NoneStuckDown, OnTheWay
<1>6. QED
  BY <1>1, <1>4, <1>5

LEMMA InvWakes ==
  ASSUME Inv, NEW t \in Transport, WakesSpuriously(t)
  PROVE  Inv'
<1>1. 0 \in 0..Limit
  BY RingAssumption DEF RingAssumption
<1>2. TypeOK'
  BY <1>1 DEF Inv, TypeOK, WakesSpuriously
<1>3. \A u \in Transport : status'[u] = "DOWN" => status[u] = "DOWN"
  BY DEF Inv, TypeOK, WakesSpuriously
<1>4. NoneStuckDown'
  BY <1>3 DEF Inv, NoneStuckDown, WakesSpuriously
<1>5. QED
  BY <1>2, <1>4 DEF Inv

LEMMA InvTick == ASSUME Inv, Tick PROVE Inv'
<1> USE DEF Inv
<1>1. 0 \in Node /\ 0 \in 0..Limit
  BY RingAssumption DEF Node, RingAssumption
<1>2. \A p \in {"in", "out"}, u \in FrameType : Frame(0, p, u) \subseteq OnTheWay
  BY <1>1, FrameIsHop DEF Port
<1>3. wire' \subseteq OnTheWay
  BY <1>2, FrameTypes DEF Tick
<1>4. silent' \in 0..Limit
  BY <1>1, RingAssumption DEF Tick, TypeOK, Expired, RingAssumption
<1>5. waited' \in [Transport -> 0..Limit]
  BY <1>1, RingAssumption DEF Tick, TypeOK, Expired, RingAssumption
<1>6. status' \in [Transport -> {"UP", "DOWN", "PREFORWARDING"}]
      /\ blocked' \in [Transport -> SUBSET Port]
  BY DEF Tick, TypeOK
<1>7. major' \in {"COMPLETE", "FAILED"} /\ calm' \in {"yes", "no"} /\ early' \in {"yes", "no"}
      /\ UNCHANGED <<up, seen>>
  BY DEF Tick, TypeOK
<1>8. TypeOK'
  BY <1>3, <1>4, <1>5, <1>6, <1>7 DEF TypeOK, OnTheWay
<1>9. \A t \in Transport : status'[t] = "DOWN" => status[t] = "DOWN"
  BY DEF Tick
<1>10. NoneStuckDown'
  BY <1>7, <1>9 DEF NoneStuckDown
<1>11. QED
  BY <1>8, <1>10

LEMMA InvNext == Inv /\ [Next]_vars => Inv'
<1> SUFFICES ASSUME Inv, [Next]_vars PROVE Inv'
  OBVIOUS
<1>1. ASSUME NEW f \in wire, FrameLost(f) PROVE Inv'
  BY <1>1 DEF FrameLost, Inv, TypeOK, NoneStuckDown
<1>2. CASE UNCHANGED vars
  BY <1>2 DEF vars, Inv, TypeOK, NoneStuckDown
<1>3. QED
  BY <1>1, <1>2, InvLinks, InvDetect, InvWakes, InvReceive, InvTick
     DEF Next, NodeStep

\* The types of the ring.
THEOREM TypeCorrect == Spec => []TypeOK
<1>1. Inv => TypeOK
  BY DEF Inv
<1>2. QED
  BY <1>1, InvInit, InvNext, PTL DEF Spec

\* No transport node stays in DOWN with both links up, see NoneStuckDown:
\* whatever the links do and whatever frames are lost.
THEOREM NeverStuckDown == Spec => []NoneStuckDown
<1>1. Inv => NoneStuckDown
  BY DEF Inv
<1>2. QED
  BY <1>1, InvInit, InvNext, PTL DEF Spec

\* What a node may hear besides the frames of the ring is without effect, so
\* what holds of Spec holds of FairSpec.
LEMMA LosslessIsSafe == FairSpec => Spec
<1>1. LosslessNext => [Next]_vars
  BY StraysChangeNothing DEF LosslessNext, Next
<1>2. QED
  BY <1>1, PTL DEF FairSpec, Spec

\* A frame means at its receiver what its sender meant, however many nodes
\* have taken its special tag off and put another one on, see FramesUnderstood.
THEOREM AlwaysUnderstood == FairSpec => []FramesUnderstood
<1>1. TypeOK => FramesUnderstood
  <2> SUFFICES ASSUME TypeOK, NEW f \in wire
               PROVE  LET buf == Arriving(f.frame, PortNo[f.port])
                      IN  /\ SrcPort(buf) = PortNo[f.port]
                          /\ \E t \in FrameType :
                               /\ f.frame = Filled[t]
                               /\ IF f.node = 0
                                  THEN t \in {"HELLO", "LINK_UP", "LINK_DOWN"}
                                         => MajorJudges(buf) = {t}
                                  ELSE t \in {"HELLO", "COMMON_FLUSH", "COMPLETE_FLUSH"}
                                         => TransportJudges(buf, RingPorts) = {t}
    BY DEF FramesUnderstood
  <2>1. PICK t \in FrameType : f.frame = Filled[t]
    BY DEF TypeOK
  <2>2. f.port \in Port
    BY DEF TypeOK
  <2> DEFINE buf == Arriving(f.frame, PortNo[f.port])
  <2>3. /\ SrcPort(buf) = PortNo[f.port]
        /\ MajorJudges(buf) = {t} \intersect {"HELLO", "LINK_UP", "LINK_DOWN"}
        /\ TransportJudges(buf, RingPorts)
             = {t} \intersect {"HELLO", "COMMON_FLUSH", "COMPLETE_FLUSH"}
    BY <2>1, <2>2, Understood
  <2> HIDE DEF buf
  <2>4. /\ t \in {"HELLO", "LINK_UP", "LINK_DOWN"} => MajorJudges(buf) = {t}
        /\ t \in {"HELLO", "COMMON_FLUSH", "COMPLETE_FLUSH"}
             => TransportJudges(buf, RingPorts) = {t}
    BY <2>3
  <2>5. QED
    BY <2>1, <2>3, <2>4 DEF buf
<1>2. QED
  BY <1>1, TypeCorrect, LosslessIsSafe, PTL

-----------------------------------------------------------------------------
(* No loop.                                                                 *)

\* The types of the frames under way.
Under(type) == \E f \in wire : f.frame = Filled[type]

\* In a calm ring the status of a transport node tells its links, and a node
\* that opens its ports is still sure of both.
LinksKnown ==
  \A t \in Transport : /\ seen[t] # Port => status[t] = "DOWN"
                       /\ status[t] = "PREFORWARDING" => Lit(t) = Port

\* A hello on its way to the second port of the major node.
HelloComing == \E f \in wire : f.port = "in" /\ f.frame = Filled["HELLO"]

\* A node that keeps the ring open at one place, or will as soon as it looks.
KeptOpen == \E t \in Transport : seen[t] # Port \/ blocked[t] # {}

\* A whole ring that the major node takes for broken is closed by the major
\* node as soon as the hello under way arrives; and if there is none, no frame
\* opens the port that was closed when the last link returned, which may have been
\* opened before its time only since the last tick.
WholeAgain ==
  (up = Link /\ major = "FAILED")
     => HelloComing \/ early = "yes" \/ (KeptOpen /\ ~Under("COMPLETE_FLUSH"))

\* What a tick puts on the wire.
LEMMA TickSends ==
  ASSUME Tick
  PROVE  /\ \A f \in wire' : \/ f.frame = Filled["COMPLETE_FLUSH"]
                             \/ f.frame = Filled["HELLO"] /\ f \in Hop(0, "out", "HELLO")
         /\ ~Under("LINK_DOWN")'
         /\ up = Link => HelloComing'
<1>1. 0 \in Node
  BY RingAssumption DEF Node, RingAssumption
<1>2. \A p \in {"in", "out"}, u \in FrameType : Frame(0, p, u) = Hop(0, p, u)
  BY <1>1, FrameIsHop DEF Port
<1>3. \A f \in wire' : \/ f.frame = Filled["COMPLETE_FLUSH"]
                       \/ f.frame = Filled["HELLO"] /\ f \in Hop(0, "out", "HELLO")
  BY <1>2, FrameTypes DEF Tick, Hop
<1>4. Filled["LINK_DOWN"] # Filled["COMPLETE_FLUSH"] /\ Filled["LINK_DOWN"] # Filled["HELLO"]
  BY FilledApart, FrameTypes
<1>5. ~Under("LINK_DOWN")'
  BY <1>3, <1>4 DEF Under
<1>6. ASSUME up = Link PROVE HelloComing'
  <2>1. LinkOf(0, "out") \in up
    BY <1>1, <1>6, Around DEF Link
  <2>2. \E h \in Hop(0, "out", "HELLO") : h.port = "in" /\ h.frame = Filled["HELLO"]
    BY <2>1 DEF Hop, Couple
  <2>3. Hop(0, "out", "HELLO") \subseteq wire'
    BY <1>2, FrameTypes DEF Tick
  <2>4. QED
    BY <2>2, <2>3 DEF HelloComing
<1>7. QED
  BY <1>3, <1>5, <1>6

\* On a whole ring no transport node stops a hello.
LEMMA HelloPasses ==
  ASSUME TypeOK, up = Link, HelloComing, NEW f \in wire,
         NEW t \in FrameType, f.frame = Filled[t], TransportGets(f, t)
  PROVE  HelloComing'
<1>1. f.node \in Node /\ up \subseteq Link
  BY DEF TypeOK
<1>2. PICK g \in wire : g.port = "in" /\ g.frame = Filled["HELLO"]
  BY DEF HelloComing
<1>3. CASE g # f
  BY <1>2, <1>3 DEF HelloComing, TransportGets
<1>4. CASE g = f
  <2>1. t = "HELLO"
    BY <1>2, <1>4, FilledApart, FrameTypes
  <2>2. Couple(f.port) = "out" /\ Passes(t)
    BY <1>2, <1>4, <2>1 DEF Couple, Passes
  <2>3. LinkOf(f.node, "out") \in up
    BY <1>1, Around DEF Link
  <2>4. \E h \in Hop(f.node, "out", t) : h.port = "in" /\ h.frame = Filled["HELLO"]
    BY <2>1, <2>3 DEF Hop, Couple
  <2>5. Hop(f.node, "out", t) \subseteq wire'
    BY <2>2 DEF TransportGets
  <2>6. QED
    BY <2>4, <2>5 DEF HelloComing
<1>5. QED
  BY <1>3, <1>4

LoopInv ==
  calm = "yes" => /\ LinksKnown
                  /\ Under("LINK_DOWN") => up # Link
                  /\ WholeAgain

LEMMA LoopLinks ==
  ASSUME Inv, LoopInv, NEW l \in Link, LinkFails(l) \/ LinkReturns(l)
  PROVE  LoopInv'
<1> SUFFICES ASSUME calm' = "yes" PROVE (LinksKnown /\ (Under("LINK_DOWN") => up # Link) /\ WholeAgain)'
  BY DEF LoopInv
<1>1. calm = "yes" /\ Settled /\ LinksKnown
  BY DEF LinkFails, LinkReturns, LoopInv
<1>2. wire = {} /\ wire' = {} /\ UNCHANGED <<major, status, seen, blocked, early>>
  BY <1>1 DEF LinkFails, LinkReturns, Settled
<1>3. ~Under("LINK_DOWN")' /\ ~Under("COMPLETE_FLUSH")'
  BY <1>2 DEF Under
<1>4. CASE LinkFails(l)
  <2>1. up' # Link
    BY <1>4 DEF LinkFails
  <2>2. ASSUME NEW t \in Transport, status[t] = "PREFORWARDING" PROVE Lit(t)' = Port
    <3>1. t \in Node /\ t # l /\ Before(t) # l
      <4>1. t \in Node
        BY DEF Transport, Node
      <4>2. t # l /\ t # After(l)
        BY <1>1, <1>4, <2>2 DEF LinkFails
      <4>3. l = Before(t) => After(l) = t
        BY <4>1, Around
      <4>4. QED
        BY <4>1, <4>2, <4>3
    <3>2. Lit(t) = Port
      BY <1>1, <2>2 DEF LinksKnown
    <3>3. \A p \in Port : LinkOf(t, p) # l
      BY <3>1 DEF LinkOf, Port
    <3>4. QED
      BY <1>4, <3>2, <3>3 DEF LinkFails, Lit
  <2>3. LinksKnown'
    BY <1>1, <1>2, <2>2 DEF LinksKnown
  <2>4. QED
    BY <1>3, <2>1, <2>3 DEF WholeAgain
<1>5. CASE LinkReturns(l)
  <2>1. PICK t \in Transport : \E p \in Port : LinkOf(t, p) = l
    <3>1. CASE l = 0
      <4>1. After(0) \in Transport /\ After(0) \in Node /\ Before(After(0)) = 0
        BY <3>1, Around DEF Link
      <4>2. LinkOf(After(0), "in") = 0
        BY <4>1, Around
      <4>3. QED
        BY <3>1, <4>1, <4>2 DEF Port
    <3>2. CASE l # 0
      <4>1. l \in Transport /\ LinkOf(l, "out") = l
        BY <3>2, Around DEF Link
      <4>2. QED
        BY <4>1 DEF Port
    <3>3. QED
      BY <3>1, <3>2
  <2>2. seen[t] # Port
    BY <1>1, <1>5, <2>1 DEF LinkReturns, Settled, Lit
  <2>3. KeptOpen'
    BY <1>2, <2>2 DEF KeptOpen
  <2>4. \A u \in Transport : Lit(u) = Port => Lit(u)' = Port
    BY <1>5 DEF LinkReturns, Lit
  <2>5. LinksKnown'
    BY <1>1, <1>2, <2>4 DEF LinksKnown
  <2>6. QED
    BY <1>3, <2>3, <2>5 DEF WholeAgain
<1>6. QED
  BY <1>4, <1>5

\* The wire gains no frame but those that a node may send.
LEMMA LoopDetect ==
  ASSUME Inv, LoopInv, NEW t \in Transport, Detect(t)
  PROVE  LoopInv'
<1> SUFFICES ASSUME calm = "yes" PROVE (LinksKnown /\ (Under("LINK_DOWN") => up # Link) /\ WholeAgain)'
  BY DEF LoopInv, Detect
<1>1. /\ LinksKnown /\ (Under("LINK_DOWN") => up # Link) /\ WholeAgain
      /\ TypeOK
  BY DEF LoopInv, Inv
<1>2. /\ UNCHANGED <<up, major, early>> /\ seen' = [seen EXCEPT ![t] = Lit(t)]
      /\ \A u \in Transport : Lit(u)' = Lit(u)
  BY DEF Detect, Lit
<1>3. up = Link => Lit(t) = Port
  <2>1. t \in Node
    BY DEF Transport, Node
  <2>2. \A p \in Port : LinkOf(t, p) \in Link
    BY <2>1, Around DEF Link, Port
  <2>3. QED
    BY <2>2 DEF Lit
<1>4. CASE /\ status[t] = "DOWN" /\ BothUp(t)
           /\ status' = [status EXCEPT ![t] = "PREFORWARDING"]
           /\ \E p \in Port \ seen[t] :
                /\ blocked' = [blocked EXCEPT ![t] = @ \union ToBlock(p)]
                /\ wire' = wire \union Frame(t, Couple(p), "LINK_UP")
  <2>1. PICK p \in Port : /\ blocked' = [blocked EXCEPT ![t] = @ \union ToBlock(p)]
                          /\ wire' = wire \union Frame(t, Couple(p), "LINK_UP")
    BY <1>4
  <2>2. \A f \in Frame(t, Couple(p), "LINK_UP") : f.frame = Filled["LINK_UP"]
    <3>1. t \in Node /\ Couple(p) \in Port
      BY DEF Transport, Node, Couple, Port
    <3>2. QED
      BY <3>1, FrameIsHop, FrameTypes DEF Hop
  <2>3. Filled["LINK_UP"] # Filled["LINK_DOWN"] /\ Filled["LINK_UP"] # Filled["COMPLETE_FLUSH"]
    BY FilledApart, FrameTypes
  <2>4. (Under("LINK_DOWN")' => Under("LINK_DOWN"))
        /\ (Under("COMPLETE_FLUSH")' => Under("COMPLETE_FLUSH"))
        /\ (HelloComing => HelloComing')
    BY <2>1, <2>2, <2>3 DEF Under, HelloComing
  <2>5. blocked'[t] # {}
    BY <1>1, <2>1 DEF TypeOK, ToBlock
  <2>6. LinksKnown'
    BY <1>1, <1>2, <1>4 DEF LinksKnown, BothUp, TypeOK
  <2>7. KeptOpen'
    BY <2>5 DEF KeptOpen
  <2>8. QED
    BY <1>1, <1>2, <2>4, <2>6, <2>7 DEF WholeAgain
<1>5. CASE /\ status[t] = "UP" /\ seen[t] \ Lit(t) # {}
           /\ status' = [status EXCEPT ![t] = "DOWN"]
  <2>1. up # Link
    BY <1>1, <1>3, <1>5 DEF TypeOK
  <2>2. LinksKnown'
    BY <1>1, <1>2, <1>5 DEF LinksKnown, TypeOK
  <2>3. QED
    BY <1>2, <2>1, <2>2 DEF WholeAgain
<1>6. CASE /\ ~(status[t] = "DOWN" /\ BothUp(t))
           /\ ~(status[t] = "UP" /\ seen[t] \ Lit(t) # {})
           /\ UNCHANGED <<status, blocked, wire>>
  <2>1. Lit(t) \subseteq Port /\ seen[t] # Lit(t)
    BY DEF Lit, Detect
  <2>2. seen[t] = Port => status[t] = "DOWN" \/ status[t] = "PREFORWARDING"
    BY <1>1, <1>6, <2>1 DEF TypeOK
  <2>3. status[t] = "DOWN" /\ Lit(t) # Port
    BY <1>1, <1>6, <2>1, <2>2 DEF LinksKnown, BothUp
  <2>4. up # Link
    BY <1>3, <2>3
  <2>5. LinksKnown'
    BY <1>1, <1>2, <1>6, <2>3 DEF LinksKnown, TypeOK
  <2>6. QED
    BY <1>2, <2>4, <2>5 DEF WholeAgain
<1>7. QED
  BY <1>4, <1>5, <1>6 DEF Detect

LEMMA LoopReceive ==
  ASSUME Inv, LoopInv, NEW f \in wire, Receive(f)
  PROVE  LoopInv'
<1>1. PICK t \in FrameType :
        f.frame = Filled[t] /\ (TransportGets(f, t) \/ MajorGets(f, t))
  BY Received DEF Inv
<1> SUFFICES ASSUME calm = "yes" PROVE (LinksKnown /\ (Under("LINK_DOWN") => up # Link) /\ WholeAgain)'
  BY <1>1 DEF LoopInv, TransportGets, MajorGets
<1>2. /\ LinksKnown /\ (Under("LINK_DOWN") => up # Link) /\ WholeAgain
      /\ TypeOK
  BY DEF LoopInv, Inv
<1>3. f.node \in Node /\ f.port \in Port /\ up \subseteq Link
  BY <1>2 DEF TypeOK
<1>4. UNCHANGED <<up, seen, early>> /\ \A u \in Transport : Lit(u)' = Lit(u)
  BY <1>1 DEF TransportGets, MajorGets, Lit
<1>5. CASE TransportGets(f, t)
  <2>1. f.node \in Transport /\ UNCHANGED major
    BY <1>5 DEF TransportGets
  <2>2. LinksKnown'
    BY <1>2, <1>4, <1>5 DEF LinksKnown, TransportGets, TypeOK
  <2>3. \A g \in wire' : g \in wire \/ (Passes(t) /\ g.frame = Filled[t])
    BY <1>5 DEF TransportGets, Hop
  <2>4. \A g \in wire : g \in wire' \/ g = f
    BY <1>5 DEF TransportGets
  <2>5. Under("LINK_DOWN")' => Under("LINK_DOWN")
    BY <1>1, <2>3 DEF Under
  <2>6. Under("COMPLETE_FLUSH")' => Under("COMPLETE_FLUSH")
    BY <1>1, <2>3 DEF Under
  <2>7. up = Link /\ HelloComing => HelloComing'
    BY <1>1, <1>2, <1>5, HelloPasses
  <2>8. ~Under("COMPLETE_FLUSH") => UNCHANGED blocked
    BY <1>1, <1>5 DEF Under, TransportGets
  <2>9. WholeAgain'
    BY <1>2, <1>4, <2>1, <2>6, <2>7, <2>8 DEF WholeAgain, KeptOpen
  <2>10. QED
    BY <1>2, <1>4, <2>2, <2>5, <2>9
<1>6. CASE MajorGets(f, t)
  <2>1. UNCHANGED <<status, blocked>>
    BY <1>6 DEF MajorGets
  <2>2. LinksKnown'
    BY <1>2, <1>4, <2>1 DEF LinksKnown
  <2>3. KeptOpen <=> KeptOpen'
    BY <1>4, <2>1 DEF KeptOpen
  <2>4. \A g \in wire' : g \in wire \/ g.frame = Filled["COMMON_FLUSH"]
          \/ g.frame = Filled["HELLO"] \/ (g.frame = Filled["COMPLETE_FLUSH"] /\ t = "HELLO")
    BY <1>6 DEF MajorGets, Hop
  <2>5. \A g \in wire : g \in wire' \/ g = f
    BY <1>6 DEF MajorGets
  <2>6. /\ Filled["LINK_DOWN"] # Filled["COMMON_FLUSH"]
        /\ Filled["LINK_DOWN"] # Filled["COMPLETE_FLUSH"]
        /\ Filled["LINK_DOWN"] # Filled["HELLO"]
        /\ Filled["COMPLETE_FLUSH"] # Filled["COMMON_FLUSH"]
        /\ Filled["COMPLETE_FLUSH"] # Filled["HELLO"]
    BY FilledApart, FrameTypes
  <2>7. Under("LINK_DOWN")' => Under("LINK_DOWN")
    BY <2>4, <2>6 DEF Under
  <2>8. CASE major' = "COMPLETE"
    BY <1>2, <1>4, <2>2, <2>7, <2>8 DEF WholeAgain
  <2>9. CASE major' = "FAILED"
    <3>1. t = "LINK_DOWN" => up # Link
      BY <1>1, <1>2 DEF Under
    <3>2. ASSUME up = Link PROVE UNCHANGED major /\ (t = "HELLO" => f.port # "in")
      BY <1>6, <2>9, <3>1, <3>2 DEF MajorGets
    <3>3. ASSUME up = Link, HelloComing PROVE HelloComing'
      <4>1. PICK g \in wire : g.port = "in" /\ g.frame = Filled["HELLO"]
        BY <3>3 DEF HelloComing
      <4>2. g # f
        BY <1>1, <3>2, <3>3, <4>1, FilledApart, FrameTypes
      <4>3. QED
        BY <2>5, <4>1, <4>2 DEF HelloComing
    <3>4. ASSUME up = Link, Under("COMPLETE_FLUSH")' PROVE Under("COMPLETE_FLUSH")
      <4>1. \A g \in wire' : g \in wire \/ g.frame = Filled["COMMON_FLUSH"]
              \/ g.frame = Filled["HELLO"]
        BY <1>6, <2>9, <3>2, <3>4 DEF MajorGets, Hop
      <4>2. QED
        BY <2>6, <3>4, <4>1 DEF Under
    <3>5. WholeAgain'
      BY <1>2, <1>4, <2>3, <3>2, <3>3, <3>4 DEF WholeAgain
    <3>6. QED
      BY <1>4, <1>2, <2>2, <2>7, <3>5
  <2>10. QED
    BY <1>2, <1>6, <2>8, <2>9 DEF MajorGets, TypeOK
<1>7. QED
  BY <1>1, <1>5, <1>6

LEMMA LoopTick == ASSUME Inv, LoopInv, Tick PROVE LoopInv'
<1> SUFFICES ASSUME calm' = "yes" PROVE (LinksKnown /\ (Under("LINK_DOWN") => up # Link) /\ WholeAgain)'
  BY DEF LoopInv
<1>1. calm = "yes" \/ Whole
  BY DEF Tick
<1>2. UNCHANGED <<up, seen>> /\ \A u \in Transport : Lit(u)' = Lit(u)
  BY DEF Tick, Lit
<1>3. \A t \in Transport : seen[t] # Port => status[t] = "DOWN"
  BY <1>1 DEF LoopInv, LinksKnown, Whole
<1>4. \A t \in Transport : status[t] = "PREFORWARDING" => Lit(t) = Port
  BY <1>1 DEF LoopInv, LinksKnown, Whole
<1>5. \A t \in Transport : status'[t] = status[t] \/ (status[t] = "PREFORWARDING" /\ status'[t] = "UP")
  BY DEF Tick
<1>6. LinksKnown'
  BY <1>2, <1>3, <1>4, <1>5 DEF LinksKnown
<1>7. QED
  BY <1>2, <1>6, TickSends DEF WholeAgain

\* A wake-up without cause opens ports, but it leaves what a node knows of its links.
LEMMA LoopWakes ==
  ASSUME Inv, LoopInv, NEW t \in Transport, WakesSpuriously(t)
  PROVE  LoopInv'
<1> SUFFICES ASSUME calm = "yes" PROVE (LinksKnown /\ (Under("LINK_DOWN") => up # Link) /\ WholeAgain)'
  BY DEF LoopInv, WakesSpuriously
<1>1. /\ LinksKnown /\ (Under("LINK_DOWN") => up # Link)
      /\ TypeOK
  BY DEF LoopInv, Inv
<1>2. UNCHANGED <<up, wire, seen>> /\ \A u \in Transport : Lit(u)' = Lit(u)
  BY DEF WakesSpuriously, Lit
<1>3. \A u \in Transport :
        status'[u] = status[u] \/ (status[u] = "PREFORWARDING" /\ status'[u] = "UP")
  BY <1>1 DEF WakesSpuriously, TypeOK
<1>4. LinksKnown'
  BY <1>1, <1>2, <1>3 DEF LinksKnown
<1>5. WholeAgain'
  BY DEF WakesSpuriously, WholeAgain
<1>6. QED
  BY <1>1, <1>2, <1>4, <1>5 DEF Under

LEMMA LoopNext == Inv /\ LoopInv /\ [Next]_vars => LoopInv'
<1> SUFFICES ASSUME Inv, LoopInv, [Next]_vars PROVE LoopInv'
  OBVIOUS
<1>1. ASSUME NEW f \in wire, FrameLost(f) PROVE LoopInv'
  BY <1>1 DEF FrameLost, LoopInv
<1>2. CASE UNCHANGED vars
  BY <1>2 DEF vars, LoopInv, LinksKnown, WholeAgain, Under, HelloComing, KeptOpen, Lit
<1>3. QED
  BY <1>1, <1>2, LoopLinks, LoopDetect, LoopWakes, LoopReceive, LoopTick
     DEF Next, NodeStep

\* In a ring of any size no loop outlasts the next hello, and none lasts at all where
\* no node has opened its ports without being told, see NoLoopLasts.
THEOREM NoLoopEverLasts == Spec => []NoLoopLasts
<1>1. Init => LoopInv
  BY DEF Init, LoopInv
<1>2. LoopInv => NoLoopLasts
  <2> SUFFICES ASSUME LoopInv, Settled, calm = "yes", early = "no", Loop
               PROVE  FALSE
    BY DEF NoLoopLasts
  <2>1. KeptOpen
    BY DEF LoopInv, WholeAgain, Loop, Settled, HelloComing
  <2>2. \A t \in Transport : t \in Node /\ Lit(t) = Port
    <3>1. \A t \in Transport : t \in Node
      BY DEF Transport, Node
    <3>2. QED
      BY <3>1, Around DEF Lit, Loop, Link, Port
  <2>3. QED
    BY <2>1, <2>2 DEF KeptOpen, Settled, Loop
<1>3. QED
  BY <1>1, <1>2, InvInit, InvNext, LoopNext, PTL DEF Spec

-----------------------------------------------------------------------------
(* A whole ring.                                                            *)

\* Every node knows its links, no link-down is under way, and the major node has
\* heard a hello since the last tick or is about to hear one.
Closing ==
  /\ \A t \in Transport : seen[t] = Lit(t)
  /\ ~Under("LINK_DOWN")
  /\ HelloComing \/ (major = "COMPLETE" /\ silent = 0)

LEMMA TickCloses ==
  ASSUME Tick, up = Link
  PROVE  Closing'
<1>1. UNCHANGED <<up, seen>> /\ \A t \in Transport : seen[t] = Lit(t)
  BY DEF Tick, Settled
<1>2. \A t \in Transport : Lit(t)' = Lit(t)
  BY <1>1 DEF Lit
<1>3. QED
  BY <1>1, <1>2, TickSends DEF Closing

\* By the second tick the hello of the first has come round.
LEMMA SecondTickCloses ==
  ASSUME Tick, Closing
  PROVE  major' = "COMPLETE"
<1>1. major = "COMPLETE" /\ silent = 0
  BY DEF Closing, Tick, Settled, HelloComing
<1>2. ~Expired(silent)
  BY <1>1, RingAssumption DEF Expired, RingAssumption
<1>3. QED
  BY <1>1, <1>2 DEF Tick

LEMMA ClosingStays ==
  ASSUME TypeOK, Closing, NodeStep, up = Link
  PROVE  Closing' /\ (major = "COMPLETE" => major' = "COMPLETE")
<1>1. ASSUME NEW t \in Transport, Detect(t) PROVE FALSE
  BY <1>1 DEF Closing, Detect
<1>2. ASSUME NEW f \in wire, Receive(f)
      PROVE  Closing' /\ (major = "COMPLETE" => major' = "COMPLETE")
  <2>1. PICK t \in FrameType :
          f.frame = Filled[t] /\ (TransportGets(f, t) \/ MajorGets(f, t))
    BY <1>2, Received
  <2>2. UNCHANGED <<up, seen>> /\ \A u \in Transport : seen'[u] = Lit(u)'
    BY <2>1 DEF TransportGets, MajorGets, Lit, Closing
  <2>3. \A u \in {"HELLO", "COMMON_FLUSH", "COMPLETE_FLUSH"} : Filled[u] # Filled["LINK_DOWN"]
    BY FilledApart, FrameTypes
  <2>4. t # "LINK_DOWN"
    BY <2>1 DEF Closing, Under
  <2>5. CASE TransportGets(f, t)
    <3>1. \A g \in wire' : g \in wire \/ g.frame = Filled[t]
      BY <2>5 DEF TransportGets, Hop
    <3>2. ~Under("LINK_DOWN")'
      BY <2>1, <3>1 DEF Under, Closing
    <3>3. HelloComing => HelloComing'
      BY <2>1, <2>5, HelloPasses
    <3>4. UNCHANGED <<major, silent>>
      BY <2>5 DEF TransportGets
    <3>5. QED
      BY <2>2, <3>2, <3>3, <3>4 DEF Closing
  <2>6. CASE MajorGets(f, t)
    <3>1. \A g \in wire' : \/ g \in wire
                           \/ \E u \in {"HELLO", "COMMON_FLUSH", "COMPLETE_FLUSH"} :
                                g.frame = Filled[u]
      BY <2>6 DEF MajorGets, Hop
    <3>2. ~Under("LINK_DOWN")'
      BY <2>3, <3>1 DEF Under, Closing
    <3>3. CASE major' = "COMPLETE" /\ silent' = 0
      BY <2>2, <3>2, <3>3 DEF Closing
    <3>4. CASE UNCHANGED <<major, silent>> /\ (t = "HELLO" => f.port # "in")
      <4>1. \A g \in wire : g \in wire' \/ g = f
        BY <2>6 DEF MajorGets
      <4>2. ASSUME HelloComing PROVE HelloComing'
        <5>1. PICK g \in wire : g.port = "in" /\ g.frame = Filled["HELLO"]
          BY <4>2 DEF HelloComing
        <5>2. g # f
          BY <2>1, <3>4, <5>1, FilledApart, FrameTypes
        <5>3. QED
          BY <4>1, <5>1, <5>2 DEF HelloComing
      <4>3. QED
        BY <2>2, <3>2, <3>4, <4>2 DEF Closing
    <3>5. QED
      BY <2>4, <2>6, <3>3, <3>4 DEF MajorGets
  <2>7. QED
    BY <2>1, <2>5, <2>6
<1>3. CASE Tick
  BY <1>3, TickCloses, SecondTickCloses
<1>4. ASSUME NEW t \in Transport, WakesSpuriously(t)
      PROVE  Closing' /\ (major = "COMPLETE" => major' = "COMPLETE")
  <2>1. UNCHANGED <<up, wire, seen, major, silent>>
    BY <1>4 DEF WakesSpuriously
  <2>2. QED
    BY <2>1 DEF Closing, Lit, Under, HelloComing
<1>5. QED
  BY <1>1, <1>2, <1>3, <1>4 DEF NodeStep

\* On a ring of any size whose links work from some time on, the major node closes
\* its second port and keeps it closed, as long as time goes on: the part of
\* RingHeals about a whole ring and its major node.  No timeout has a part in it.
THEOREM WholeRingIsClosed ==
  FairSpec => []([](up = Link) /\ []<><<Tick>>_vars => <>[](major = "COMPLETE"))
<1>1. TypeOK /\ up = Link /\ <<Tick>>_vars => Closing'
  BY TickCloses
<1>2. TypeOK /\ Closing /\ up = Link /\ (up = Link)' /\ [LosslessNext]_vars
        => Closing' /\ (major = "COMPLETE" => (major = "COMPLETE")')
  <2> SUFFICES ASSUME TypeOK, Closing, up = Link, up' = Link, [LosslessNext]_vars
               PROVE  Closing' /\ (major = "COMPLETE" => major' = "COMPLETE")
    OBVIOUS
  <2>1. CASE NodeStep
    BY <2>1, ClosingStays
  <2>2. ASSUME NEW l \in Link, LinkFails(l) \/ LinkReturns(l) PROVE FALSE
    BY <2>2 DEF LinkFails, LinkReturns
  <2>3. CASE UNCHANGED vars
    BY <2>3 DEF vars, Closing, Lit, Under, HelloComing
  <2>4. QED
    BY <2>1, <2>2, <2>3, StraysChangeNothing DEF LosslessNext
<1>3. Closing /\ <<Tick>>_vars => (major = "COMPLETE")'
  BY SecondTickCloses
<1>4. QED
  BY <1>1, <1>2, <1>3, TypeCorrect, LosslessIsSafe, PTL DEF FairSpec

-----------------------------------------------------------------------------
(* A broken ring.                                                           *)

\* No hello has got past link l.
Cut(l) ==
  \A f \in wire : f.frame = Filled["HELLO"] => f.port = "in" /\ f.node \in 1..l

\* A hello that node n sends on reaches the next node, if link n works.
LEMMA HelloGoesOn ==
  ASSUME NEW l \in Link, l \notin up, NEW n \in 0..l,
         NEW f \in Hop(n, "out", "HELLO")
  PROVE  f.port = "in" /\ f.node \in 1..l
<1>1. n \in Node /\ l \in 0..N
  BY RingAssumption DEF RingAssumption, Node, Link
<1>2. LinkOf(n, "out") = n
  BY <1>1, Around
<1>3. n # l /\ f.port = "in" /\ f.node = After(n)
  BY <1>2 DEF Hop, Couple
<1>4. After(n) = n + 1
  BY <1>1, <1>3, RingAssumption DEF RingAssumption, After
<1>5. QED
  BY <1>1, <1>3, <1>4, RingAssumption DEF RingAssumption

\* The frames of other types, of which the proofs need no more.
LEMMA NotHello ==
  /\ Filled["LINK_UP"] # Filled["HELLO"] /\ Filled["LINK_DOWN"] # Filled["HELLO"]
  /\ Filled["COMMON_FLUSH"] # Filled["HELLO"] /\ Filled["COMPLETE_FLUSH"] # Filled["HELLO"]
BY FilledApart, FrameTypes

\* Beyond a broken link the major node hears no hello.
LEMMA CutStays ==
  ASSUME TypeOK, NEW l \in Link, l \notin up, Cut(l), [Next]_vars
  PROVE  /\ Cut(l)'
         /\ \/ UNCHANGED <<major, silent>> \/ major' = "FAILED"
            \/ silent < Limit /\ silent' = silent + 1 /\ UNCHANGED major
<1> DEFINE Goal == /\ Cut(l)'
                   /\ \/ UNCHANGED <<major, silent>> \/ major' = "FAILED"
                      \/ silent < Limit /\ silent' = silent + 1 /\ UNCHANGED major
<1>0. 0 \in 0..l /\ l \in 0..N
  BY RingAssumption DEF RingAssumption, Link, Node
<1>1. ASSUME NEW k \in Link, LinkFails(k) \/ LinkReturns(k) PROVE Goal
  BY <1>1 DEF LinkFails, LinkReturns, Cut
<1>2. ASSUME NEW f \in wire, FrameLost(f) PROVE Goal
  BY <1>2 DEF FrameLost, Cut
<1>3. ASSUME NEW t \in Transport, Detect(t) PROVE Goal
  <2>1. UNCHANGED <<major, silent>>
    BY <1>3 DEF Detect
  <2>2. t \in Node /\ \A p \in Port : Couple(p) \in Port
    BY DEF Transport, Node, Port, Couple
  <2>3. \A p \in Port, u \in {"LINK_UP", "LINK_DOWN"} :
          \A g \in Frame(t, Couple(p), u) : g.frame = Filled[u]
    BY <2>2, FrameIsHop, FrameTypes DEF Hop
  <2>4. \A g \in wire' : \/ g \in wire \/ g.frame = Filled["LINK_UP"]
                         \/ g.frame = Filled["LINK_DOWN"]
    <3>1. seen[t] \subseteq Port
      BY DEF TypeOK
    <3>2. QED
      BY <1>3, <2>3, <3>1 DEF Detect
  <2>5. QED
    BY <2>1, <2>4, NotHello DEF Cut
<1>4. ASSUME NEW f \in wire, Receive(f) PROVE Goal
  <2>1. PICK t \in FrameType :
          f.frame = Filled[t] /\ (TransportGets(f, t) \/ MajorGets(f, t))
    BY <1>4, Received
  <2>2. CASE TransportGets(f, t)
    <3>1. UNCHANGED <<major, silent>>
      BY <2>2 DEF TransportGets
    <3>2. CASE t = "HELLO"
      <4>1. f.port = "in" /\ f.node \in 0..l
        BY <2>1, <3>2, <1>0 DEF Cut
      <4>2. wire' \subseteq wire \union Hop(f.node, "out", "HELLO")
        BY <2>2, <3>2, <4>1 DEF TransportGets, Couple
      <4>3. \A g \in Hop(f.node, "out", "HELLO") : g.port = "in" /\ g.node \in 1..l
        BY <4>1, HelloGoesOn
      <4>4. QED
        BY <3>1, <4>2, <4>3 DEF Cut
    <3>3. CASE t # "HELLO"
      <4>1. \A g \in wire' : g \in wire \/ g.frame = Filled[t]
        BY <2>2 DEF TransportGets, Hop
      <4>2. Filled[t] # Filled["HELLO"]
        BY <3>3, FilledApart, FrameTypes
      <4>3. QED
        BY <3>1, <4>1, <4>2 DEF Cut
    <3>4. QED
      BY <3>2, <3>3
  <2>3. CASE MajorGets(f, t)
    <3>1. ~(t = "HELLO" /\ f.port = "in")
      BY <2>1, <2>3 DEF MajorGets, Cut
    <3>2. UNCHANGED <<major, silent>> \/ major' = "FAILED"
      BY <2>3, <3>1 DEF MajorGets
    <3>3. \A g \in wire' : \/ g \in wire \/ g.frame = Filled["COMMON_FLUSH"]
                           \/ g \in Hop(0, "out", "HELLO")
      BY <2>3, <3>1 DEF MajorGets, Hop
    <3>4. \A g \in Hop(0, "out", "HELLO") : g.port = "in" /\ g.node \in 1..l
      BY <1>0, HelloGoesOn
    <3>5. QED
      BY <3>2, <3>3, <3>4, NotHello DEF Cut
  <2>4. QED
    BY <2>1, <2>2, <2>3
<1>5. CASE Tick
  <2>1. \A g \in Hop(0, "out", "HELLO") : g.port = "in" /\ g.node \in 1..l
    BY <1>0, HelloGoesOn
  <2>2. Cut(l)'
    BY <1>5, <2>1, TickSends, NotHello DEF Cut
  <2>3. CASE major = "COMPLETE" /\ ~Expired(silent)
    <3>1. silent < Limit
      BY <2>3, RingAssumption DEF Expired, TypeOK, RingAssumption
    <3>2. QED
      BY <1>5, <2>2, <2>3, <3>1 DEF Tick
  <2>4. CASE ~(major = "COMPLETE" /\ ~Expired(silent))
    <3>1. major' = "FAILED"
      BY <1>5, <2>4 DEF Tick, TypeOK
    <3>2. QED
      BY <2>2, <3>1
  <2>5. QED
    BY <2>3, <2>4
<1>6. CASE UNCHANGED vars
  BY <1>6 DEF vars, Cut
<1>7. ASSUME NEW t \in Transport, WakesSpuriously(t) PROVE Goal
  BY <1>7 DEF WakesSpuriously, Cut
<1>8. QED
  BY <1>1, <1>2, <1>3, <1>4, <1>5, <1>6, <1>7 DEF Next, NodeStep

\* As long as some link is down, a major node that has noticed it keeps its second
\* port open: no hello that was under way is left to come round, whatever else
\* fails, returns or is lost meanwhile.
THEOREM BrokenRingStaysOpen ==
  ASSUME NEW l \in Link
  PROVE  Spec => [](wire = {} /\ major = "FAILED" /\ [](l \notin up)
                      => [](major = "FAILED"))
<1>1. wire = {} => Cut(l)
  BY DEF Cut
<1>2. TypeOK /\ l \notin up /\ Cut(l) /\ [Next]_vars
        => Cut(l)' /\ (major = "FAILED" => (major = "FAILED")')
  BY CutStays
<1>3. QED
  BY <1>1, <1>2, TypeCorrect, PTL DEF Spec

Missing(l, n) == Cut(l) /\ major = "COMPLETE" /\ silent = n

\* Time passes as long as the major node does not notice.
TimeGoesOn == [](<>(major = "FAILED") \/ <><<Tick>>_vars)

\* And one that has not noticed it yet counts on, from every count to the last, and
\* with the last it notices.
THEOREM BreakIsNoticed ==
  ASSUME NEW l \in Link, NEW n \in Nat
  PROVE  Spec /\ TimeGoesOn =>
           []([](l \notin up) /\ Missing(l, n)
                => <>(major = "FAILED" \/ (n < Limit /\ Missing(l, n + 1))))
<1>1. TypeOK /\ l \notin up /\ Missing(l, n) /\ [Next]_vars
        => \/ Missing(l, n)' \/ (n < Limit /\ Missing(l, n + 1))'
           \/ (major = "FAILED")'
  <2> SUFFICES ASSUME TypeOK, l \notin up, Missing(l, n), [Next]_vars
               PROVE  \/ Missing(l, n)' \/ (n < Limit /\ Missing(l, n + 1)')
                      \/ major' = "FAILED"
    OBVIOUS
  <2>1. Cut(l)' /\ (\/ UNCHANGED <<major, silent>> \/ major' = "FAILED"
                    \/ silent < Limit /\ silent' = silent + 1 /\ UNCHANGED major)
    BY CutStays DEF Missing
  <2>2. silent < Limit => n < Limit /\ silent + 1 = n + 1
    BY RingAssumption DEF Missing, RingAssumption
  <2>3. QED
    BY <2>1, <2>2 DEF Missing
<1>2. TypeOK /\ l \notin up /\ Missing(l, n) /\ [Next]_vars /\ <<Tick>>_vars
        => (n < Limit /\ Missing(l, n + 1))' \/ (major = "FAILED")'
  <2> SUFFICES ASSUME TypeOK, l \notin up, Missing(l, n), [Next]_vars, Tick
               PROVE  (n < Limit /\ Missing(l, n + 1)') \/ major' = "FAILED"
    OBVIOUS
  <2>1. Cut(l)'
    BY CutStays DEF Missing
  <2>2. \/ major' = "FAILED"
        \/ ~Expired(silent) /\ major' = "COMPLETE" /\ silent' = n + 1
    BY DEF Tick, Missing
  <2>3. ~Expired(silent) => n < Limit
    BY RingAssumption DEF Expired, Missing, RingAssumption
  <2>4. QED
    BY <2>1, <2>2, <2>3 DEF Missing
<1>3. QED
  BY <1>1, <1>2, TypeCorrect, PTL DEF Spec, TimeGoesOn

-----------------------------------------------------------------------------
(* The transport nodes.                                                     *)

\* A node closes a port only for PREFORWARDING.
ClosedToWait == \A t \in Transport : blocked[t] # {} => status[t] = "PREFORWARDING"

LEMMA AlwaysClosedToWait == Spec => []ClosedToWait
<1>1. Init => ClosedToWait
  BY DEF Init, ClosedToWait
<1>2. TypeOK /\ ClosedToWait /\ [Next]_vars => ClosedToWait'
  <2> SUFFICES ASSUME TypeOK, ClosedToWait, [Next]_vars PROVE ClosedToWait'
    OBVIOUS
  <2>same. ASSUME UNCHANGED <<status, blocked>> PROVE ClosedToWait'
    BY <2>same DEF ClosedToWait
  <2>1. ASSUME NEW l \in Link, LinkFails(l) \/ LinkReturns(l) PROVE ClosedToWait'
    BY <2>1, <2>same DEF LinkFails, LinkReturns
  <2>2. ASSUME NEW f \in wire, FrameLost(f) PROVE ClosedToWait'
    BY <2>2, <2>same DEF FrameLost
  <2>3. ASSUME NEW t \in Transport, Detect(t) PROVE ClosedToWait'
    <3>1. \/ status' = [status EXCEPT ![t] = "PREFORWARDING"]
             /\ \E p \in Port : blocked' = [blocked EXCEPT ![t] = @ \union ToBlock(p)]
          \/ status[t] = "UP" /\ status' = [status EXCEPT ![t] = "DOWN"] /\ UNCHANGED blocked
          \/ UNCHANGED <<status, blocked>>
      BY <2>3 DEF Detect
    <3>2. QED
      BY <3>1 DEF ClosedToWait, TypeOK
  <2>4. ASSUME NEW f \in wire, Receive(f) PROVE ClosedToWait'
    <3>1. PICK u \in FrameType : TransportGets(f, u) \/ MajorGets(f, u)
      BY <2>4, Received
    <3>2. CASE TransportGets(f, u)
      BY <3>2 DEF TransportGets, ClosedToWait, TypeOK
    <3>3. CASE MajorGets(f, u)
      BY <3>3, <2>same DEF MajorGets
    <3>4. QED
      BY <3>1, <3>2, <3>3
  <2>5. CASE Tick
    BY <2>5 DEF Tick, ClosedToWait
  <2>6. CASE UNCHANGED vars
    BY <2>6, <2>same DEF vars
  <2>7. ASSUME NEW t \in Transport, WakesSpuriously(t) PROVE ClosedToWait'
    BY <2>7 DEF WakesSpuriously, ClosedToWait, TypeOK
  <2>8. QED
    BY <2>1, <2>2, <2>3, <2>4, <2>5, <2>6, <2>7 DEF Next, NodeStep
<1>3. QED
  BY <1>1, <1>2, TypeCorrect, PTL DEF Spec

\* Node t knows its links and waits, or does not wait, for the major node.
Waiting(t, n) == seen[t] = Lit(t) /\ status[t] = "PREFORWARDING" /\ waited[t] = n
Open(t)       == seen[t] = Lit(t) /\ status[t] # "PREFORWARDING"

\* A step that leaves the links of node t alone.
SameLinks(t) == Lit(t)' = Lit(t)

LEMMA NodeSteps ==
  ASSUME TypeOK, NEW t \in Transport, seen[t] = Lit(t), SameLinks(t), [Next]_vars
  PROVE  /\ seen'[t] = Lit(t)'
         /\ \/ ~Tick /\ status'[t] = status[t] /\ waited'[t] = waited[t]
            \/ status[t] = "PREFORWARDING" /\ status'[t] = "UP"
            \/ /\ Tick /\ status'[t] = status[t]
               /\ status[t] = "PREFORWARDING"
                    => waited[t] < Limit /\ waited'[t] = waited[t] + 1
<1> DEFINE Goal == /\ seen'[t] = Lit(t)'
                   /\ \/ status'[t] = status[t] /\ waited'[t] = waited[t]
                      \/ status[t] = "PREFORWARDING" /\ status'[t] = "UP"
<1>1. CASE Tick
  <2>1. seen'[t] = Lit(t)'
    BY <1>1 DEF Tick, SameLinks
  <2>2. CASE status[t] = "PREFORWARDING" /\ Expired(waited[t])
    BY <1>1, <2>1, <2>2 DEF Tick
  <2>3. CASE ~(status[t] = "PREFORWARDING" /\ Expired(waited[t]))
    <3>1. ~Expired(waited[t]) => waited[t] < Limit
      BY RingAssumption DEF Expired, TypeOK, RingAssumption
    <3>2. QED
      BY <1>1, <2>1, <2>3, <3>1 DEF Tick
  <2>4. QED
    BY <2>2, <2>3
<1>same. ASSUME UNCHANGED <<seen, status, waited>> PROVE Goal
  BY <1>same DEF SameLinks
<1>2. ASSUME NEW l \in Link, LinkFails(l) \/ LinkReturns(l) PROVE Goal
  BY <1>2, <1>same DEF LinkFails, LinkReturns
<1>3. ASSUME NEW f \in wire, FrameLost(f) PROVE Goal
  BY <1>3, <1>same DEF FrameLost
<1>4. ASSUME NEW u \in Transport, Detect(u) PROVE Goal
  <2>1. u # t /\ UNCHANGED waited
    BY <1>4 DEF Detect
  <2>2. seen'[t] = seen[t] /\ status'[t] = status[t]
    BY <1>4, <2>1 DEF Detect, TypeOK
  <2>3. QED
    BY <2>1, <2>2 DEF SameLinks
<1>5. ASSUME NEW f \in wire, Receive(f) PROVE Goal
  <2>1. PICK u \in FrameType : TransportGets(f, u) \/ MajorGets(f, u)
    BY <1>5, Received
  <2>2. CASE TransportGets(f, u)
    BY <2>2 DEF TransportGets, TypeOK, SameLinks
  <2>3. CASE MajorGets(f, u)
    BY <2>3, <1>same DEF MajorGets
  <2>4. QED
    BY <2>1, <2>2, <2>3
<1>6. ASSUME UNCHANGED vars PROVE Goal
  BY <1>6, <1>same DEF vars
<1>7. ASSUME NEW u \in Transport, WakesSpuriously(u) PROVE Goal
  <2>1. seen'[t] = Lit(t)'
    BY <1>7 DEF WakesSpuriously, SameLinks
  <2>2. CASE u = t
    BY <1>7, <2>1, <2>2 DEF WakesSpuriously, TypeOK
  <2>3. CASE u # t
    BY <1>7, <2>1, <2>3 DEF WakesSpuriously, TypeOK
  <2>4. QED
    BY <2>2, <2>3
<1>8. QED
  BY <1>1, <1>2, <1>3, <1>4, <1>5, <1>6, <1>7 DEF Next, NodeStep

\* A node whose links no longer change keeps its ports open once they are: no port
\* is closed but when a link comes back.
THEOREM OpenNodeStaysOpen ==
  ASSUME NEW t \in Transport
  PROVE  Spec => [](Open(t) /\ [][SameLinks(t)]_vars => [](blocked[t] = {}))
<1>1. TypeOK /\ Open(t) /\ [Next]_vars /\ [SameLinks(t)]_vars => Open(t)'
  <2>1. CASE UNCHANGED vars
    BY <2>1 DEF vars, Open, Lit
  <2>2. QED
    BY <2>1, NodeSteps DEF Open
<1>2. ClosedToWait /\ Open(t) => blocked[t] = {}
  BY DEF ClosedToWait, Open
<1>3. QED
  BY <1>1, <1>2, TypeCorrect, AlwaysClosedToWait, PTL DEF Spec

\* Time passes as long as node t waits.
TimeGoesOnFor(t) == [](<>(status[t] # "PREFORWARDING") \/ <><<Tick>>_vars)

\* And one that waits counts on, from every count to the last, and with the last it
\* opens its ports, whether or not a complete-flush-fdb ever comes.
THEOREM WaitingNodeCounts ==
  ASSUME NEW t \in Transport, NEW n \in Nat
  PROVE  Spec /\ TimeGoesOnFor(t) =>
           [](Waiting(t, n) /\ [][SameLinks(t)]_vars
                => <>(Open(t) \/ (n < Limit /\ Waiting(t, n + 1))))
<1>1. TypeOK /\ Waiting(t, n) /\ [Next]_vars /\ [SameLinks(t)]_vars
        => Waiting(t, n)' \/ (n < Limit /\ Waiting(t, n + 1))' \/ Open(t)'
  <2>1. CASE UNCHANGED vars
    BY <2>1 DEF vars, Waiting, Lit
  <2>2. QED
    BY <2>1, NodeSteps DEF Waiting, Open
<1>2. TypeOK /\ Waiting(t, n) /\ [Next]_vars /\ [SameLinks(t)]_vars /\ <<Tick>>_vars
        => (n < Limit /\ Waiting(t, n + 1))' \/ Open(t)'
  BY NodeSteps DEF Waiting, Open
<1>3. Waiting(t, n) => ~(status[t] # "PREFORWARDING")
  BY DEF Waiting
<1>4. QED
  BY <1>1, <1>2, <1>3, TypeCorrect, PTL DEF Spec, TimeGoesOnFor

=============================================================================
