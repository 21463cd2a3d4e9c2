----------------------------- MODULE RrppFrame -----------------------------
(***************************************************************************)
(* RRPP frames: protocol/rrpp_frame.c, kit/sendto_port.c and the functions *)
(* judge_frame_type of node/major_node.c and node/transport_node.c.        *)
(*                                                                         *)
(* On a link a frame is <<header, body>>.  Of the 12 bytes of addresses,   *)
(* header is the sixth, which tells the type; the first five are           *)
(* 01-80-c2-00-00 in every frame looked at here.  Body is what a receiver  *)
(* looks at of the rest: the TPID and VLAN of the VLAN tag, the domain and *)
(* the ring.  Between the CPU and the switch a frame is                    *)
(* <<header, special, body>>; special is the special tag, with its value   *)
(* and the port.                                                           *)
(***************************************************************************)
EXTENDS Naturals, Sequences

CONSTANTS Vid, Did, Rid  \* control VLAN, domain and ring, the same at all nodes

(* The command line lets any 16-bit number pass as VLAN, but the field of  *)
(* the frame has 12 bits: of a larger one no node would know its frames.   *)
ASSUME FrameAssumption == Vid \in 1..4095 /\ Did \in Nat /\ Rid \in Nat

SPECIAL_TAG_VAL == \h9126
TPID == \h8100

(* The last byte of the destination tells the type.                        *)
RRPP_TYPE ==
  [HELLO |-> \h11, LINK_UP |-> \h12, LINK_DOWN |-> \h13,
   COMMON_FLUSH |-> \h14, COMPLETE_FLUSH |-> \h15]

FrameType == DOMAIN RRPP_TYPE

is_rrpp_dst_mac(header) == header \in \h11..\h1F

-----------------------------------------------------------------------------
(* Sending.                                                                *)

fill_rrpp_frame(type, vid, did, rid) ==
  <<RRPP_TYPE[type], <<TPID, vid % 4096, did, rid>>>>

(* The frames of this ring: fill_rrpp_hello_frame and the others.          *)
Filled == [type \in FrameType |-> fill_rrpp_frame(type, Vid, Did, Rid)]

(* sendto_port: the tag holds a map of 28 ports with the one bit set.      *)
fill_special_frame(frame, portno) ==
  <<frame[1], <<SPECIAL_TAG_VAL, {portno} \intersect (1..28)>>, frame[2]>>

(* A bug to be caught: the tag is left where it is.                        *)
cp_remove_no_tag(buf) == <<buf[1], buf[2]>>

(* What a transport node passes on.                                        *)
cp_remove_special_tag(buf) == <<buf[1], buf[3]>>

-----------------------------------------------------------------------------
(* The switch: a frame from the CPU leaves, without its tag, at the ports  *)
(* of the map, and one for the CPU gets a tag with the port it came in at. *)

Leaving(buf)  == <<buf[1], buf[3]>>
LeavesAt(buf) == buf[2][2]

Arriving(frame, portno) ==
  <<frame[1], <<SPECIAL_TAG_VAL, portno - 1>>, frame[2]>>

-----------------------------------------------------------------------------
(* Receiving.                                                              *)

(* The two bytes after the addresses; without a special tag the TPID.      *)
TagOf(buf) == buf[2][1]

SrcPort(buf) == buf[2][2] + 1

(* A bug to be caught: frames of the other rings of the domain are taken.  *)
IsOursAnyRing(body) == SubSeq(body, 1, 3) = <<TPID, Vid, Did>>

IsOurs(body) == body = <<TPID, Vid, Did, Rid>>

(* The type of a buffer that was received, as a set: empty for             *)
(* RRPP_TYPE_NOP.                                                          *)
Judged(buf, types) ==
  IF /\ is_rrpp_dst_mac(buf[1])
     /\ TagOf(buf) = SPECIAL_TAG_VAL
     /\ IsOurs(buf[3])
  THEN {type \in types : buf[1] = RRPP_TYPE[type]} ELSE {}

(* major_node_judge_frame_type takes frames from any port, its handlers    *)
(* look at the port.                                                       *)
MajorJudges(buf) == Judged(buf, {"HELLO", "LINK_UP", "LINK_DOWN"})

(* transport_node_judge_frame_type: from its two ring ports only.          *)
TransportJudges(buf, ringPorts) ==
  {type \in Judged(buf, {"HELLO", "COMMON_FLUSH", "COMPLETE_FLUSH"}) :
     SrcPort(buf) \in ringPorts}
=============================================================================
