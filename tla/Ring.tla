-------------------------------- MODULE Ring --------------------------------
(***************************************************************************)
(* A ring: the major node 0 and transport nodes 1..N.  Link i joins the    *)
(* "out" port of node i to the "in" port of the next node; "out" is the    *)
(* main port of the major node and "in" its second port.                   *)
(*                                                                         *)
(* Each handler of node/major_node.c and node/transport_node.c is one      *)
(* step with the job it starts (MajorNode and TransportNode take the jobs  *)
(* apart), and every node runs from the start.  RRPP frames go to the CPU  *)
(* of every node they reach (rrpp_regs_config), so a frame that no handler *)
(* forwards goes no further.                                               *)
(*                                                                         *)
(* Time: frames and the detect threads (10 ms) are fast next to the hello  *)
(* timer (1 s) and the timeouts (3.1 s), so time passes, in steps of one   *)
(* hello, only when no frame is on its way and no change is undetected.    *)
(***************************************************************************)
EXTENDS RrppFrame

CONSTANTS N,        \* transport nodes
          Limit,    \* hello periods without an answer that the timeouts tolerate
          PortNo,   \* the number of a node's "in" and of its "out" port
          Elsewhere \* the number of a port that is not in the ring

ASSUME RingAssumption ==
  /\ N \in Nat \ {0} /\ Limit \in Nat \ {0}
  /\ PortNo \in [{"in", "out"} -> 1..28] /\ PortNo["in"] # PortNo["out"]
  /\ Elsewhere \in (1..28) \ {PortNo["in"], PortNo["out"]}

VARIABLES
  up,       \* the links that work
  wire,     \* frames under way, with the node and port they will reach
  major,    \* status of the major node: its second port is closed in COMPLETE
  silent,   \* recv_hello_timeout, in hello periods
  status,   \* for each transport node, its status
  seen,     \* for each transport node, the ports whose link detect saw up
  blocked,  \* for each transport node, its ports that carry no traffic
  waited,   \* for each transport node, recv_complete_timeout, in hello periods
  calm,     \* history: since the ring was last whole no frame was lost, links
            \* changed one at a time and none at a node in PREFORWARDING
  early     \* history: since the last tick a transport node opened its ports
            \* without being told

vars == <<up, wire, major, silent, status, seen, blocked, waited, calm, early>>

Transport == 1..N
Node == 0..N
Link == Node
Port == {"in", "out"}
Couple(p) == IF p = "in" THEN "out" ELSE "in"
RingPorts == {PortNo[p] : p \in Port}

After(n)  == IF n = N THEN 0 ELSE n + 1
Before(n) == IF n = 0 THEN N ELSE n - 1
LinkOf(n, p) == IF p = "out" THEN n ELSE Before(n)
Lit(n) == {p \in Port : LinkOf(n, p) \in up}

\* sendto_port at node n: the frame reaches the next node by each port of the
\* tag's map whose link is up.
Sent(n, portno, frame) ==
  LET buf == fill_special_frame(frame, portno)
  IN  {[node |-> IF p = "out" THEN After(n) ELSE Before(n), port |-> Couple(p),
        frame |-> Leaving(buf)] :
         p \in {q \in Port : PortNo[q] \in LeavesAt(buf) /\ LinkOf(n, q) \in up}}

\* A node's own frame, out of its port p.
Frame(n, p, type) == Sent(n, PortNo[p], Filled[type])

TypeOK ==
  /\ up \in SUBSET Link
  /\ wire \in SUBSET [node : Node, port : Port, frame : {Filled[t] : t \in FrameType}]
  /\ major \in {"COMPLETE", "FAILED"} /\ silent \in 0..Limit
  /\ status \in [Transport -> {"UP", "DOWN", "PREFORWARDING"}]
  /\ seen \in [Transport -> SUBSET Port]
  /\ blocked \in [Transport -> SUBSET Port]
  /\ waited \in [Transport -> 0..Limit]
  /\ calm \in {"yes", "no"} /\ early \in {"yes", "no"}

\* Every node has just started: the major node FAILED with its second port open,
\* each transport node in the status that its links give.
Init ==
  /\ up \in SUBSET Link /\ wire = {}
  /\ major = "FAILED" /\ silent = 0
  /\ seen = [t \in Transport |-> Lit(t)]
  /\ status = [t \in Transport |-> IF Lit(t) = Port THEN "UP" ELSE "DOWN"]
  /\ blocked = [t \in Transport |-> {}]
  /\ waited = [t \in Transport |-> 0]
  /\ calm = "no" /\ early = "no"

-----------------------------------------------------------------------------
(* The links.                                                               *)

\* The frames of the last change have arrived and every node knows its links.
Settled == wire = {} /\ \A t \in Transport : seen[t] = Lit(t)

\* Frames on a link that goes down are gone.
LinkFails(l) ==
  /\ l \in up
  /\ up' = up \ {l}
  /\ wire' = {f \in wire : LinkOf(f.node, f.port) # l}
  /\ calm' = IF /\ Settled
                /\ \A t \in Transport \intersect {l, After(l)} : status[t] # "PREFORWARDING"
             THEN calm ELSE "no"
  /\ UNCHANGED <<major, silent, status, seen, blocked, waited, early>>

LinkReturns(l) ==
  /\ l \notin up
  /\ up' = up \union {l}
  /\ calm' = IF Settled THEN calm ELSE "no"
  /\ UNCHANGED <<wire, major, silent, status, seen, blocked, waited, early>>

FrameLost(f) ==
  /\ f \in wire
  /\ wire' = wire \ {f}
  /\ calm' = "no"
  /\ UNCHANGED <<up, major, silent, status, seen, blocked, waited, early>>

-----------------------------------------------------------------------------
(* The transport nodes.                                                     *)

\* A bug to be caught: a port that comes back is not blocked.
ToBlockNone(p) == {}

ToBlock(p) == {p}

\* A bug to be caught: only a link that returns to a node with one link counts.
BothUpStale(t) == Lit(t) = Port /\ seen[t] # {}

\* transport_node.c 255-256.
BothUp(t) == Lit(t) = Port

\* A round of detect that finds a change.  When both links came back either
\* port may be the one handled first.
Detect(t) ==
  /\ seen[t] # Lit(t)
  /\ seen' = [seen EXCEPT ![t] = Lit(t)]
  /\ \/ /\ status[t] = "DOWN" /\ BothUp(t)
        /\ status' = [status EXCEPT ![t] = "PREFORWARDING"]
        /\ \E p \in Port \ seen[t] :
             /\ blocked' = [blocked EXCEPT ![t] = @ \union ToBlock(p)]
             /\ wire' = wire \union Frame(t, Couple(p), "LINK_UP")
     \/ /\ status[t] = "UP" /\ seen[t] \ Lit(t) # {}
        /\ status' = [status EXCEPT ![t] = "DOWN"]
        /\ \E p \in seen[t] \ Lit(t) : wire' = wire \union Frame(t, Couple(p), "LINK_DOWN")
        /\ UNCHANGED blocked
     \/ /\ ~(status[t] = "DOWN" /\ BothUp(t))
        /\ ~(status[t] = "UP" /\ seen[t] \ Lit(t) # {})
        /\ UNCHANGED <<status, blocked, wire>>
  /\ UNCHANGED <<up, major, silent, waited, calm, early>>

\* The frames that the receive thread of a transport node sends on.
Passes(type) == type \in {"HELLO", "COMPLETE_FLUSH"}

\* The receive thread of transport node t gets buf; rest is the wire without
\* it.  A frame from one ring port is passed on at the other.  A
\* complete-flush-fdb also wakes recv_complete_thread.
TransportTakes(t, buf, rest) ==
  LET heard == TransportJudges(buf, RingPorts)
      opens == "COMPLETE_FLUSH" \in heard /\ status[t] = "PREFORWARDING"
  IN  /\ wire' = rest \union
           UNION {Sent(t, PortNo[Couple(p)], cp_remove_special_tag(buf)) :
                    p \in {q \in Port : PortNo[q] = SrcPort(buf)
                                        /\ \E type \in heard : Passes(type)}}
      /\ status' = IF opens THEN [status EXCEPT ![t] = "UP"] ELSE status
      /\ blocked' = IF opens THEN [blocked EXCEPT ![t] = {}] ELSE blocked
      /\ waited' = IF opens THEN [waited EXCEPT ![t] = 0] ELSE waited
      /\ UNCHANGED <<up, major, silent, seen, calm, early>>

\* pthread_cond_wait of recv_complete_thread returns without a signal: the node
\* opens its ports as if a complete-flush-fdb had come.
WakesSpuriously(t) ==
  /\ status[t] = "PREFORWARDING"
  /\ status' = [status EXCEPT ![t] = "UP"]
  /\ blocked' = [blocked EXCEPT ![t] = {}]
  /\ waited' = [waited EXCEPT ![t] = 0]
  /\ early' = "yes"
  /\ UNCHANGED <<up, wire, major, silent, seen, calm>>

-----------------------------------------------------------------------------
(* The major node.                                                          *)

\* The handlers get the number of the port.  For a hello only the second counts.
RecvHello(portno, rest) ==
  /\ portno = PortNo["in"]
  /\ silent' = 0
  /\ \/ /\ major = "FAILED"
        /\ major' = "COMPLETE"
        /\ wire' = rest \union Frame(0, "out", "COMPLETE_FLUSH")
     \/ /\ major = "COMPLETE"
        /\ wire' = rest
        /\ UNCHANGED major
  /\ UNCHANGED <<up, status, seen, blocked, waited, calm, early>>

RecvLinkDown(portno, rest) ==
  /\ portno \in RingPorts
  /\ major' = "FAILED"
  /\ wire' = rest \union
             (IF major = "COMPLETE"
              THEN Frame(0, "out", "COMMON_FLUSH") \union Frame(0, "in", "COMMON_FLUSH")
              ELSE {})
  /\ UNCHANGED <<up, silent, status, seen, blocked, waited, calm, early>>

RecvLinkUp(portno, rest) ==
  /\ portno \in RingPorts
  /\ wire' = rest \union
             (IF major = "FAILED"
              THEN Frame(0, "out", "COMMON_FLUSH") \union Frame(0, "in", "COMMON_FLUSH")
                     \union Frame(0, "out", "HELLO")
              ELSE {})
  /\ UNCHANGED <<up, major, silent, status, seen, blocked, waited, calm, early>>

\* No handler, or one that turns the port away.
RecvOther(heard, portno, rest) ==
  /\ \/ heard = {} \/ portno \notin RingPorts
     \/ "HELLO" \in heard /\ portno # PortNo["in"]
  /\ wire' = rest
  /\ UNCHANGED <<up, major, silent, status, seen, blocked, waited, calm, early>>

MajorTakes(buf, rest) ==
  LET heard == MajorJudges(buf)
  IN  \/ "HELLO" \in heard /\ RecvHello(SrcPort(buf), rest)
      \/ "LINK_DOWN" \in heard /\ RecvLinkDown(SrcPort(buf), rest)
      \/ "LINK_UP" \in heard /\ RecvLinkUp(SrcPort(buf), rest)
      \/ RecvOther(heard, SrcPort(buf), rest)

-----------------------------------------------------------------------------
(* Receiving.                                                               *)

\* The receive thread of node n.
Takes(n, buf, rest) ==
  IF n = 0 THEN MajorTakes(buf, rest) ELSE TransportTakes(n, buf, rest)

Receive(f) ==
  /\ f \in wire
  /\ Takes(f.node, Arriving(f.frame, PortNo[f.port]), wire \ {f})

\* What else the socket hears: frames of other rings that share the ports, of
\* another VLAN or domain, and this ring's frames at a port out of the ring or
\* at another interface of the CPU, where no special tag is added.
Foreign ==
  {fill_rrpp_frame(t, v, d, r) :
     t \in FrameType, v \in {Vid, Vid - 1}, d \in {Did, Did + 1}, r \in {Rid, Rid + 1}}
    \ {Filled[t] : t \in FrameType}

StrayBufs ==
  {Arriving(frame, portno) : frame \in Foreign, portno \in RingPorts}
    \union {Arriving(Filled[t], Elsewhere) : t \in FrameType}
    \union {Filled[t] : t \in FrameType}

\* Those that judge_frame_type lets pass.
Strays ==
  [n \in Node |->
     {buf \in StrayBufs :
        IF n = 0 THEN MajorJudges(buf) # {} ELSE TransportJudges(buf, RingPorts) # {}}]

RecvStray(n) == \E buf \in Strays[n] : Takes(n, buf, wire)

-----------------------------------------------------------------------------
(* Time.                                                                    *)

\* A bug to be caught: a timeout that never runs out.
NeverExpired(ticks) == FALSE

\* major_node.c 244, transport_node.c 459.
Expired(ticks) == ticks >= Limit

\* The ring is whole and every node knows it.
Whole == major = "COMPLETE" /\ \A t \in Transport : status[t] = "UP" /\ seen[t] = Port

\* One hello period: hello_thread, check_hello_thread, check_complete_thread.
Tick ==
  /\ Settled
  /\ LET timeout  == major = "COMPLETE" /\ Expired(silent)
         opens(t) == status[t] = "PREFORWARDING" /\ Expired(waited[t])
     IN  /\ major' = IF timeout THEN "FAILED" ELSE major
         /\ silent' = IF major = "COMPLETE" /\ ~timeout THEN silent + 1 ELSE 0
         /\ wire' = Frame(0, "out", "HELLO") \union
                    (IF timeout THEN Frame(0, "out", "COMPLETE_FLUSH")
                                     \union Frame(0, "in", "COMPLETE_FLUSH")
                                ELSE {})
         /\ status' = [t \in Transport |-> IF opens(t) THEN "UP" ELSE status[t]]
         /\ blocked' = [t \in Transport |-> IF opens(t) THEN {} ELSE blocked[t]]
         /\ waited' = [t \in Transport |-> IF status[t] = "PREFORWARDING" /\ ~opens(t)
                                           THEN waited[t] + 1 ELSE 0]
  /\ calm' = IF Whole THEN "yes" ELSE calm
  /\ early' = "no"
  /\ UNCHANGED <<up, seen>>

\* What the nodes do; the links and the loss of frames are not theirs.
NodeStep ==
  \/ \E t \in Transport : Detect(t) \/ WakesSpuriously(t)
  \/ \E f \in wire : Receive(f)
  \/ Tick

Next ==
  \/ NodeStep
  \/ (\E l \in Link : LinkFails(l) \/ LinkReturns(l))
  \/ \E f \in wire : FrameLost(f)

Spec == Init /\ [][Next]_vars

\* No frame is lost, links change only when no frame is under way, frames that
\* are not for this ring come in, and the nodes go on.
LosslessNext ==
  \/ NodeStep
  \/ \E n \in Node : RecvStray(n)
  \/ wire = {} /\ \E l \in Link : LinkFails(l) \/ LinkReturns(l)
FairSpec ==
  /\ Init /\ [][LosslessNext]_vars
  /\ WF_vars(\E t \in Transport : Detect(t))
  /\ WF_vars(\E f \in wire : Receive(f))
  /\ WF_vars(Tick)

-----------------------------------------------------------------------------
(* Properties.                                                              *)

\* Frames of data go round for ever.
Loop ==
  /\ up = Link /\ major = "FAILED"
  /\ \A t \in Transport : blocked[t] = {}

\* Whatever links fail and return, at no time that lasts is there a loop: when
\* no frame is under way and every node knows its links, some port of a whole
\* ring is closed.  This takes both ends of a returning link to close a port,
\* neither to open it before the major node has closed its own, and the major
\* node to keep its port closed until a link is down.  It needs calm: a lost
\* frame, or a link that fails twice in a row, does lead to a loop.  And a node
\* whose recv_complete_thread wakes up without a signal does open its port too
\* early: the loop that this may leave ends with the next hello, which finds its
\* way round and closes the major node's port.
NoLoopLasts == (Settled /\ calm = "yes" /\ early = "no") => ~Loop

\* A node in DOWN knows a link that is down: it will see it return.
NoneStuckDown == \A t \in Transport : status[t] = "DOWN" => seen[t] # Port

\* Whatever nodes a frame has passed, its receiver judges it to be what it was
\* sent as, if it is one that the receiver acts upon, and knows the port.
FramesUnderstood ==
  \A f \in wire : LET buf == Arriving(f.frame, PortNo[f.port])
                 IN  /\ SrcPort(buf) = PortNo[f.port]
                     /\ \E t \in FrameType :
                          /\ f.frame = Filled[t]
                          /\ IF f.node = 0
                             THEN t \in {"HELLO", "LINK_UP", "LINK_DOWN"}
                                    => MajorJudges(buf) = {t}
                             ELSE t \in {"HELLO", "COMMON_FLUSH", "COMPLETE_FLUSH"}
                                    => TransportJudges(buf, RingPorts) = {t}

\* When the links stop changing, the ring ends up closed at exactly one place:
\* at the second port of the major node if every link works, and at the broken
\* links otherwise.
RingHeals ==
  \A U \in SUBSET Link :
    <>[](up = U) =>
      <>[](/\ major = IF U = Link THEN "COMPLETE" ELSE "FAILED"
           /\ \A t \in Transport : blocked[t] = {})

=============================================================================
