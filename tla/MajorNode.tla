------------------------------ MODULE MajorNode ------------------------------
(***************************************************************************)
(* The major node of a ring: node/major_node.c.                            *)
(*                                                                         *)
(* The process runs a receive thread ("recv"), a thread that checks for    *)
(* the hello timeout ("check") and a thread that sends hellos ("hello").   *)
(* The status and the timeout counter are read and written only inside     *)
(* access_mutex, in sections that call nothing, so each section is one     *)
(* step.  What a thread decides there it carries out AFTER the unlock, as  *)
(* a job of several steps: switch MAC learning of the second port, read    *)
(* the VLAN data file, take the port out of (or into) each VLAN, clear the *)
(* FDB, send the flush frames.  Nothing orders the jobs of two threads.    *)
(*                                                                         *)
(* The life of the process, from the constructor to exit() and to another  *)
(* boot, is that of NodeProcess; the switch outlives it.                   *)
(***************************************************************************)
EXTENDS Naturals

CONSTANTS Vlans,  \* how many VLANs the data file names
          Limit   \* silent ticks tolerated by check_hello_thread: 30

ASSUME MajorAssumption == Vlans \in Nat \ {0} /\ Limit \in Nat

VARIABLES
  phase, alive, stp, file,  \* the process and its surroundings
  status,    \* enum major_node_status
  timeout,   \* recv_hello_timeout
  stage,     \* for each worker, the step of its job it is about to take
  op,        \* for each worker, what the job is
  next,      \* for each worker, the next entry of the data file
  learning,  \* switch: MAC learning on the second port
  member,    \* switch: the VLANs of the data file that have the second port
  sent,      \* the frame put on the wire by the last step, or NoFrame
  by,        \* history: the thread that last changed the status since the boot
  history    \* history: what has happened since the boot, see Event

process == <<phase, alive, stp, file>>
switch  == <<learning, member>>
node    == <<status, timeout>>
jobs    == <<stage, op, next>>
events  == <<by, history>>
vars    == <<process, switch, node, jobs, events, sent>>

Worker == {"recv", "check"}
Thread == Worker \union {"hello"}
Entry  == 1..Vlans

\* The order of the pthread_creates of the constructor.
ThreadOrder == [control |-> "recv", recv |-> "hello", hello |-> "check", check |-> "up"]

P == INSTANCE NodeProcess WITH After <- ThreadOrder

ASSUME ThreadAssumption == P!ProcessAssumption

Op    == {"none", "block", "release", "linkup"}
Stage == {"idle", "learn", "open", "vlan", "refresh", "main", "second", "hello"}

\* overlapped: two jobs have changed the second port concurrently, or a job has
\*             changed it while the destructor changed the control VLANs
\* faulted:    a register access of some job has failed
Event == {"overlapped", "faulted"}

Port == {"main", "second", "other"}

\* RRPP_TYPE_* of protocol/rrpp_frame.h
FrameType == {"HELLO", "COMPLETE_FLUSH", "COMMON_FLUSH", "LINK_UP", "LINK_DOWN"}
NoFrame == [port |-> "other", type |-> "HELLO"]
Frame(p, t) == [port |-> p, type |-> t]

\* Stages in which a job still changes the second port.
Switching(w) == stage[w] \in {"learn", "open", "vlan"}
Other(w) == IF w = "recv" THEN "check" ELSE "recv"

NodeTypeOK ==
  /\ status \in {"COMPLETE", "FAILED"} /\ timeout \in 0..Limit
  /\ stage \in [Worker -> Stage] /\ op \in [Worker -> Op]
  /\ next \in [Worker -> 1..Vlans + 1]
  /\ learning \in {"on", "off"} /\ member \in SUBSET Entry
  /\ sent \in [port : Port, type : FrameType]
  /\ by \in Worker \union {"none"} /\ history \in SUBSET Event

TypeOK == P!TypeOK /\ NodeTypeOK

\* A switch as shipped: every port in every VLAN, no process.
Init ==
  /\ P!Init
  /\ status = "FAILED" /\ timeout = 0
  /\ stage = [w \in Worker |-> "idle"]
  /\ op = [w \in Worker |-> "none"]
  /\ next = [w \in Worker |-> 1]
  /\ learning = "on" /\ member = Entry
  /\ sent = NoFrame
  /\ by = "none" /\ history = {}

-----------------------------------------------------------------------------
(* The process: major_node_constructor, major_node_killer and exit().       *)

\* The constructor clears the node before anything else.
Boot ==
  /\ P!Boot
  /\ status' = "FAILED" /\ timeout' = 0
  /\ by' = "none" /\ history' = {}
  /\ sent' = NoFrame
  /\ UNCHANGED <<switch, jobs>>

\* The other threads run on while the main thread boots or kills the node.
Alongside ==
  /\ sent' = NoFrame
  /\ UNCHANGED <<switch, node, jobs, events>>

BootStep == P!BootStep /\ Alongside

\* The destructor begins, with accesses to the VLAN table.
SigInt ==
  /\ P!SigInt
  /\ history' = history \union
       (IF \E w \in Worker : Switching(w) THEN {"overlapped"} ELSE {})
  /\ sent' = NoFrame
  /\ UNCHANGED <<switch, node, jobs, by>>

KillStep == P!KillStep /\ Alongside

\* Jobs end where they are with the process.
JobsLost ==
  /\ stage' = [w \in Worker |-> "idle"]
  /\ op' = [w \in Worker |-> "none"]
  /\ next' = [w \in Worker |-> 1]
  /\ sent' = NoFrame
  /\ UNCHANGED <<switch, node, events>>

End == P!End /\ JobsLost

-----------------------------------------------------------------------------
(* The critical sections.  A worker takes one only between two jobs.        *)

Idle(w) == w \in alive /\ stage[w] = "idle"

\* A bug to be caught: the flush frame goes out first and ends the job.
FirstStageFlush(o) == "main"

\* A job that switches the port starts with the port.
FirstStage(o) == IF o = "linkup" THEN "main" ELSE "learn"

\* Worker w leaves its critical section with a job to do.
Begin(w, o) ==
  /\ stage' = [stage EXCEPT ![w] = FirstStage(o)]
  /\ op' = [op EXCEPT ![w] = o]
  /\ next' = [next EXCEPT ![w] = 1]
  /\ history' = IF o = "linkup" THEN history
                ELSE history \union (IF Switching(Other(w)) \/ phase = "leave"
                                 THEN {"overlapped"} ELSE {})
  /\ by' = IF o = "linkup" THEN by ELSE w

NoJob == UNCHANGED <<jobs, events>>

\* Only a hello from the second port counts; it always clears the counter.
RecvHello ==
  /\ Idle("recv")
  /\ \/ /\ status = "FAILED"
        /\ status' = "COMPLETE"
        /\ Begin("recv", "block")
     \/ /\ status = "COMPLETE"
        /\ UNCHANGED status /\ NoJob
  /\ timeout' = 0
  /\ sent' = NoFrame
  /\ UNCHANGED <<process, switch>>

\* A link-down from a ring port; the counter is left as it is.
RecvLinkDown ==
  /\ Idle("recv")
  /\ status = "COMPLETE"
  /\ status' = "FAILED"
  /\ Begin("recv", "release")
  /\ sent' = NoFrame
  /\ UNCHANGED <<timeout, process, switch>>

RecvLinkUp ==
  /\ Idle("recv")
  /\ status = "FAILED"
  /\ Begin("recv", "linkup")
  /\ sent' = NoFrame
  /\ UNCHANGED <<node, process, switch>>

\* recvfrom fails: the thread returns, for good.
RecvFails ==
  /\ Idle("recv")
  /\ P!ThreadReturns("recv")
  /\ Alongside

\* Bugs to be caught: the timer runs out one tick late, one tick early.
ExpiredLate == timeout > Limit
ExpiredEarly == timeout + 1 >= Limit

\* The test of line 244.
Expired == timeout >= Limit

\* A bug to be caught: the counter is compared but not incremented.
CountedNot == timeout

\* The post-increment of line 244.
Counted == timeout + 1

\* One round of check_hello_thread.
CheckTick ==
  /\ Idle("check")
  /\ \/ /\ status = "COMPLETE" /\ ~Expired
        /\ timeout' = Counted
        /\ UNCHANGED status /\ NoJob
     \/ /\ status = "COMPLETE" /\ Expired
        /\ timeout' = 0
        /\ status' = "FAILED"
        /\ Begin("check", "release")
     \/ /\ status = "FAILED"
        /\ timeout' = 0
        /\ UNCHANGED status /\ NoJob
  /\ sent' = NoFrame
  /\ UNCHANGED <<process, switch>>

HelloTick ==
  /\ "hello" \in alive
  /\ sent' = Frame("main", "HELLO")
  /\ UNCHANGED <<process, node, jobs, events, switch>>

-----------------------------------------------------------------------------
(* The steps of a job: major_node_block_port, major_node_release_port,      *)
(* major_node_refresh_fdb and major_node_sendto_port.                       *)

Goto(w, s) == stage' = [stage EXCEPT ![w] = s]

\* enable_mac_learning; its result is not looked at.
SwitchLearning(w) ==
  /\ stage[w] = "learn"
  /\ \/ /\ learning' = IF op[w] = "release" THEN "on" ELSE "off"
        /\ UNCHANGED history
     \/ /\ UNCHANGED learning
        /\ history' = history \union {"faulted"}
  /\ Goto(w, "open")
  /\ sent' = NoFrame
  /\ UNCHANGED <<member, op, next, by, process, node>>

\* fopen and fread of the data file.  Without a file the NULL stream is
\* read all the same, which ends the process.
OpenDataFile(w) ==
  /\ stage[w] = "open"
  /\ \/ /\ file = "on"
        /\ Goto(w, "vlan")
        /\ sent' = NoFrame
        /\ UNCHANGED <<op, next, events, process, node>>
        /\ UNCHANGED switch
     \/ P!Crash /\ JobsLost

\* A bug to be caught: the loop leaves the last entry out.
MoreEntriesShort(w) == next[w] < Vlans

\* The loop over the data file has not ended.
MoreEntries(w) == next[w] \in Entry

\* raw_vlan_rm_ports or raw_vlan_add_ports on the next entry.  The first
\* failure ends the loop and the caller does not look at the result.
SwitchVlan(w) ==
  /\ stage[w] = "vlan"
  /\ \/ /\ MoreEntries(w)
        /\ member' = IF op[w] = "release" THEN member \union {next[w]}
                                          ELSE member \ {next[w]}
        /\ next' = [next EXCEPT ![w] = @ + 1]
        /\ UNCHANGED <<stage, history>>
     \/ /\ MoreEntries(w)
        /\ Goto(w, "refresh")
        /\ history' = history \union {"faulted"}
        /\ UNCHANGED <<member, next>>
     \/ /\ ~MoreEntries(w)
        /\ Goto(w, "refresh")
        /\ UNCHANGED <<member, next, history>>
  /\ sent' = NoFrame
  /\ UNCHANGED <<op, learning, by, process, node>>

RefreshFdb(w) ==
  /\ stage[w] = "refresh"
  /\ Goto(w, "main")
  /\ sent' = NoFrame
  /\ UNCHANGED <<op, next, switch, events, process, node>>

\* The frame check_hello_thread fills once at its start (line 234) is a
\* complete-flush-fdb; the receive thread fills one for each job.
FlushFrame(w) ==
  IF w = "check" \/ op[w] = "block" THEN "COMPLETE_FLUSH" ELSE "COMMON_FLUSH"

SendMain(w) ==
  /\ stage[w] = "main"
  /\ sent' = Frame("main", FlushFrame(w))
  /\ Goto(w, IF op[w] = "block" THEN "idle" ELSE "second")
  /\ UNCHANGED <<op, next, switch, events, process, node>>

SendSecond(w) ==
  /\ stage[w] = "second"
  /\ sent' = Frame("second", FlushFrame(w))
  /\ Goto(w, IF op[w] = "linkup" THEN "hello" ELSE "idle")
  /\ UNCHANGED <<op, next, switch, events, process, node>>

SendHello(w) ==
  /\ stage[w] = "hello"
  /\ sent' = Frame("main", "HELLO")
  /\ Goto(w, "idle")
  /\ UNCHANGED <<op, next, switch, events, process, node>>

JobStep(w) ==
  \/ SwitchLearning(w) \/ OpenDataFile(w) \/ SwitchVlan(w) \/ RefreshFdb(w)
  \/ SendMain(w) \/ SendSecond(w) \/ SendHello(w)

Next ==
  \/ Boot \/ BootStep \/ SigInt \/ KillStep \/ End
  \/ RecvHello \/ RecvLinkDown \/ RecvLinkUp \/ RecvFails
  \/ CheckTick \/ HelloTick
  \/ \E w \in Worker : JobStep(w)

Spec == Init /\ [][Next]_vars

\* The check thread wakes up every 100 ms, a started job is carried through
\* and the constructor and the handler of SIGINT run to their end.  Nothing forces
\* a frame to arrive, a boot, or a SIGINT.
Fairness ==
  /\ WF_vars(CheckTick)
  /\ \A w \in Worker : WF_vars(JobStep(w))
  /\ WF_vars(BootStep)
  /\ WF_vars(KillStep) /\ WF_vars(phase = "restore" /\ End)

FairSpec == Spec /\ Fairness

-----------------------------------------------------------------------------
(* Properties.                                                              *)

Blocked  == learning = "off" /\ member = {}
Released == learning = "on" /\ member = Entry

\* Nothing but the code's own steps disturbed the last change of the port.
Undisturbed == by # "none" /\ history = {}
Quiet == \A w \in Worker : ~Switching(w)

\* The jobs find the data file, whatever fails at boot and whenever the node is
\* killed, up to the last step of the destructor: see NodeProcess.
DataFilePresent == P!DataFilePresent

\* Once a change of the status has been carried out, and no two jobs ever
\* overlapped and no register access failed, the second port is what the
\* status says: out of every VLAN and not learning in COMPLETE, in every VLAN
\* and learning in FAILED.  The ring stays free of loops because the major
\* node keeps this one port closed while the ring is whole.
PortFollowsStatus ==
  (Undisturbed /\ Quiet /\ phase # "off") =>
     IF status = "COMPLETE" THEN Blocked ELSE Released

\* When the thread that last changed the status is about to send its flush
\* frames, the second port is what they tell the transport nodes: closed in every
\* VLAN before the complete-flush-fdb of the receive thread, on which they open
\* their preforwarded ports, and open in every VLAN before the frames that follow
\* a link-down or a timeout.  The frame that the check thread sends on a timeout is
\* a complete-flush-fdb as well (lines 234, 256-264), with the second port open.
FlushAfterSwitch ==
  \A w \in Worker :
    (/\ Undisturbed /\ by = w
     /\ stage[w] \in {"main", "second"} /\ op[w] # "linkup")
      => IF op[w] = "block" THEN Blocked ELSE Released

\* A status that stays gets its port: if the process stays up and undisturbed
\* and the status stops changing, the port ends up as the status says, for
\* good, whatever the last change had to wait for.
PortSettles ==
  /\ <>[](phase = "up" /\ Undisturbed /\ status = "COMPLETE") => <>[]Blocked
  /\ <>[](phase = "up" /\ Undisturbed /\ status = "FAILED") => <>[]Released

\* The status, seen without its jobs, is the state machine of MajorSpec: in
\* particular a count left over from an earlier COMPLETE period never shortens
\* the next one.
Abs == INSTANCE MajorSpec WITH
         running <- phase # "off",
         state   <- status,
         silent  <- IF status = "COMPLETE" THEN timeout ELSE 0
StatusSteps == Abs!Spec

\* Silence is noticed: no hello coming round in COMPLETE ends the period,
\* whatever the receive thread, dead or alive, does meanwhile.
SilenceNoticed == Abs!Liveness

=============================================================================
