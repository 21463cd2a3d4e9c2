---------------------------- MODULE TransportNode ----------------------------
(***************************************************************************)
(* A transport node of a ring: node/transport_node.c.                      *)
(*                                                                         *)
(* Four threads run in the process.  "detect" polls the links of the two   *)
(* ring ports, "recv" receives frames, "complete" waits on a condition     *)
(* variable that recv signals, and "check" counts ticks.  detect blocks a  *)
(* port whose link comes back, complete or check opens it again.           *)
(*                                                                         *)
(* The status is set inside access_mutex, but detect reads it outside, and *)
(* preforwarded_port is read outside as well.  Of the two, only the second *)
(* matters: only detect leaves UP and DOWN, and PREFORWARDING is left only *)
(* for UP, which detect leaves alone as long as the link is up, so a stale *)
(* status decides nothing and a reading and the critical section that      *)
(* follows are one step.                                                   *)
(*                                                                         *)
(* The process is that of NodeProcess, the switch outlives it.             *)
(***************************************************************************)
EXTENDS Naturals

CONSTANTS Vlans,  \* how many VLANs the data file names
          Limit   \* ticks without a complete-flush-fdb tolerated: 30

ASSUME TransportAssumption == Vlans \in Nat \ {0} /\ Limit \in Nat

VARIABLES
  phase, alive, stp, file,  \* the process and its surroundings
  status,    \* enum transport_node_status
  preport,   \* preforwarded_port
  timeout,   \* recv_complete_timeout
  seen,      \* ring ports whose link was up at detect's last round
  now,       \* ring ports whose link is up in the round under way
  stage,     \* for each worker, the step it is about to take
  port,      \* for each worker, the ring port its job is about
  next,      \* for each worker, the next entry of the data file
  member,    \* switch: for each ring port, the VLANs of the data file it is in
  fdb,       \* switch: "stale" from a change of member to the next flush; "failed"
             \* when the flush of the job that opened a port has failed
  by,        \* history: the thread that last changed the status since the boot
  calm       \* history: "yes" until something disturbs the ports, see Disturb

process == <<phase, alive, stp, file>>
node    == <<status, preport, timeout>>
links   == <<seen, now>>
jobs    == <<stage, port, next>>
switch  == <<member, fdb>>
events  == <<by, calm>>
vars    == <<process, node, links, jobs, switch, events>>

Worker == {"detect", "complete", "check"}
Opener == {"complete", "check"}
Thread == Worker \union {"recv"}
Entry  == 1..Vlans
Port   == {"main", "second"}
Couple(p) == IF p = "main" THEN "second" ELSE "main"

\* The order of the pthread_creates of the constructor.
ThreadOrder == [control |-> "detect", detect |-> "recv", recv |-> "complete",
                complete |-> "check", check |-> "up"]

P == INSTANCE NodeProcess WITH After <- ThreadOrder

ASSUME ThreadAssumption == P!ProcessAssumption

\* "idle": between two rounds of the thread's loop.  "start": before detect's
\* loop.  "wait" and "woken": in and after pthread_cond_wait.  The others are
\* steps of a round or of a job.
Stage == {"start", "idle", "main", "second", "store", "wait", "woken",
          "which", "open", "vlan", "refresh", "linkup", "linkdown"}
Asleep == [w \in Worker |-> IF w = "detect" THEN "start" ELSE "idle"]
NoPort  == [w \in Worker |-> "main"]
NoEntry == [w \in Worker |-> 1]

\* What the ports do not recover from: two jobs change ports concurrently, or a
\* job and the destructor change VLANs, a register access of a job fails, or the
\* process finds a ring port out of some VLAN when it starts.
Disturb == calm' = "no"

\* Stages in which a job still changes a port.
Switching(w) == stage[w] \in {"which", "open", "vlan"}

\* A thread decides on a job while another thread's job changes a port or the
\* destructor takes the ports out of the control VLANs, or the destructor begins
\* while a job changes a port.
Overlap ==
  IF phase = "leave" \/ \E w \in Worker : Switching(w) THEN Disturb ELSE UNCHANGED calm

NodeTypeOK ==
  /\ status \in {"UP", "DOWN", "PREFORWARDING"}
  /\ preport \in Port \union {"none"} /\ timeout \in 0..Limit
  /\ seen \in SUBSET Port /\ now \in SUBSET Port
  /\ stage \in [Worker -> Stage]
  /\ port \in [Worker -> Port] /\ next \in [Worker -> 1..Vlans + 1]
  /\ member \in [Port -> SUBSET Entry] 
  /\ fdb \in {"clean", "stale", "failed"}
  /\ by \in Worker \union {"none"} /\ calm \in {"yes", "no"}

TypeOK == P!TypeOK /\ NodeTypeOK

\* A switch as shipped: every port in every VLAN, no process.
Init ==
  /\ P!Init
  /\ status = "UP" /\ preport = "none" /\ timeout = 0
  /\ seen = {} /\ now = {}
  /\ stage = Asleep /\ port = NoPort /\ next = NoEntry
  /\ member = [p \in Port |-> Entry] /\ fdb = "clean"
  /\ by = "none" /\ calm = "yes"

-----------------------------------------------------------------------------
(* The process: transport_node_constructor, transport_node_killer, exit().  *)

\* The constructor clears the node: the status of a node whose detect thread
\* has not run yet is 0, TRANSPORT_UP.  It does not look at the ports.
Boot ==
  /\ P!Boot
  /\ status' = "UP" /\ preport' = "none" /\ timeout' = 0
  /\ seen' = {} /\ now' = {}
  /\ by' = "none"
  /\ calm' = IF \A p \in Port : member[p] = Entry THEN "yes" ELSE "no"
  /\ UNCHANGED <<switch, jobs>>

\* The other threads run on while the main thread boots or kills the node.
Alongside ==
  /\ UNCHANGED <<switch, node, links, jobs, events>>

BootStep == P!BootStep /\ Alongside
SigInt   == P!SigInt /\ Overlap /\ UNCHANGED <<switch, node, links, jobs, by>>
KillStep == P!KillStep /\ Alongside

\* Jobs end where they are with the process.
JobsLost ==
  /\ stage' = Asleep /\ port' = NoPort /\ next' = NoEntry
  /\ UNCHANGED <<switch, node, links, events>>

End == P!End /\ JobsLost

-----------------------------------------------------------------------------
(* The detect thread.                                                       *)

At(w, s) == w \in alive /\ stage[w] = s
Goto(w, s) == stage' = [stage EXCEPT ![w] = s]

\* Worker w begins or ends a job.
Begin(w, s, p) ==
  /\ Goto(w, s)
  /\ port' = [port EXCEPT ![w] = p]
  /\ UNCHANGED next

Finish(w, s) ==
  /\ Goto(w, s)
  /\ port' = [port EXCEPT ![w] = "main"]
  /\ next' = [next EXCEPT ![w] = 1]

\* The readings before the loop give the first status.
DetectStart ==
  /\ At("detect", "start")
  /\ seen' \in SUBSET Port /\ now' = seen'
  /\ status' = IF seen' = Port THEN "UP" ELSE "DOWN"
  /\ by' = "detect"
  /\ Goto("detect", "idle")
  /\ UNCHANGED <<preport, timeout, port, next, calm, switch, process>>

\* A round starts by reading both links.  One that finds no change does
\* nothing.
DetectRound ==
  /\ At("detect", "idle")
  /\ now' \in SUBSET Port \ {seen}
  /\ Goto("detect", "main")
  /\ UNCHANGED <<seen, port, next, events, switch, node, process>>

\* What comes after the handler for port p.
AfterPort(p) == IF p = "main" THEN "second" ELSE "store"

\* A bug to be caught: the other port's link is the one of the last round.
BothUpStale(p) == p \in now /\ Couple(p) \in seen

\* Lines 252-253.
BothUp(p) == p \in now /\ Couple(p) \in now

\* transport_node_detect_link_status_handler, for a port whose link changed.
DetectPort(p) ==
  /\ At("detect", p)
  /\ \/ /\ (p \in now) # (p \in seen)
        /\ status = "DOWN" /\ BothUp(p)
        /\ status' = "PREFORWARDING" /\ preport' = p
        /\ by' = "detect" /\ Overlap
        /\ Begin("detect", "open", p)
     \/ /\ (p \in now) # (p \in seen)
        /\ status = "UP" /\ p \notin now
        /\ status' = "DOWN" /\ by' = "detect"
        /\ Begin("detect", "linkdown", p)
        /\ UNCHANGED <<preport, calm>>
     \/ /\ \/ (p \in now) = (p \in seen)
           \/ p \in now /\ ~(status = "DOWN" /\ BothUp(p))
           \/ p \notin now /\ status # "UP"
        /\ Goto("detect", AfterPort(p))
        /\ UNCHANGED <<status, preport, port, next, events>>
  /\ UNCHANGED <<timeout, links, switch, process>>

DetectStore ==
  /\ At("detect", "store")
  /\ seen' = now
  /\ Goto("detect", "idle")
  /\ UNCHANGED <<now, port, next, events, switch, node, process>>

\* The link-up or link-down frame leaves by the other ring port.
DetectSend ==
  /\ stage["detect"] \in {"linkup", "linkdown"}
  /\ Finish("detect", AfterPort(port["detect"]))
  /\ UNCHANGED <<links, events, switch, node, process>>

-----------------------------------------------------------------------------
(* The receive thread.  A hello is forwarded to the other ring port, and so *)
(* is a complete-flush-fdb: neither changes the node.                       *)

\* The flush may fail, which nobody notices.
RecvCommonFlush ==
  /\ "recv" \in alive
  /\ fdb' \in {"clean", fdb}
  /\ UNCHANGED <<member, jobs, links, events, node, process>>

\* The signal is lost on a thread that does not wait.
RecvCompleteFlush ==
  /\ "recv" \in alive /\ stage["complete"] = "wait"
  /\ Goto("complete", "woken")
  /\ UNCHANGED <<port, next, links, events, switch, node, process>>

\* recvfrom fails: the thread returns, for good.
RecvFails == P!ThreadReturns("recv") /\ Alongside

-----------------------------------------------------------------------------
(* The threads that end PREFORWARDING.                                      *)

CompleteWaits ==
  /\ At("complete", "idle")
  /\ Goto("complete", "wait")
  /\ UNCHANGED <<port, next, links, events, switch, node, process>>

\* pthread_cond_wait may return without a signal; no predicate is tested.
CompleteWakesSpuriously ==
  /\ At("complete", "wait")
  /\ Goto("complete", "woken")
  /\ UNCHANGED <<port, next, links, events, switch, node, process>>

\* A bug to be caught: the port is opened without a look at the status.
MayOpenAlways == status # "DOWN"

\* Lines 427 and 458.
MayOpen == status = "PREFORWARDING"

\* Thread w sets the status to UP; it opens the port after the unlock.
Open(w) ==
  /\ status' = "UP" /\ by' = w
  /\ Overlap
  /\ Goto(w, "which")

CompleteHandle ==
  /\ At("complete", "woken")
  /\ timeout' = 0
  /\ \/ MayOpen /\ Open("complete")
     \/ ~MayOpen /\ Goto("complete", "idle") /\ UNCHANGED <<status, events>>
  /\ UNCHANGED <<preport, port, next, links, switch, process>>

\* Bugs to be caught: the timer runs out a tick late, the counter stays.
ExpiredLate == timeout > Limit
CountedNot  == timeout

\* Line 459: the test and the post-increment.
Expired == timeout >= Limit
Counted == timeout + 1

CheckTick ==
  /\ At("check", "idle")
  /\ \/ /\ MayOpen /\ ~Expired
        /\ timeout' = Counted
        /\ UNCHANGED <<status, stage, events>>
     \/ MayOpen /\ Expired /\ timeout' = 0 /\ Open("check")
     \/ ~MayOpen /\ timeout' = 0 /\ UNCHANGED <<status, stage, events>>
  /\ UNCHANGED <<preport, port, next, links, switch, process>>

\* A bug to be caught: the wrong one of the two ports is opened.
ToOpenOther == IF preport = "none" THEN "main" ELSE Couple(preport)

\* preforwarded_port, read outside access_mutex.
ToOpen == preport

ReadPort(w) ==
  /\ stage[w] = "which"
  /\ Begin(w, "open", ToOpen)
  /\ UNCHANGED <<links, events, switch, node, process>>

-----------------------------------------------------------------------------
(* The steps of a job: block_port for detect, release_port for the others.  *)

\* fopen and fread of the data file; a NULL stream ends the process.
OpenDataFile(w) ==
  /\ stage[w] = "open"
  /\ \/ /\ file = "on"
        /\ Goto(w, "vlan")
        /\ UNCHANGED <<port, next, links, events, switch, node, process>>
     \/ P!Crash /\ JobsLost

\* A bug to be caught: nobody clears the FDB after a port was opened.
AfterVlansNoFlush(w) == IF w = "detect" THEN "linkup" ELSE "idle"

\* The steps that follow the loop over the data file.
AfterVlans(w) == IF w = "detect" THEN "linkup" ELSE "refresh"

\* A bug to be caught: the loop leaves the last entry out.
MoreEntriesShort(w) == next[w] < Vlans

MoreEntries(w) == next[w] \in Entry

\* raw_vlan_rm_ports or raw_vlan_add_ports on the next entry.  The first
\* failure ends the loop and the caller does not look at the result.
SwitchVlan(w) ==
  /\ stage[w] = "vlan"
  /\ \/ /\ MoreEntries(w)
        /\ member' = [member EXCEPT ![port[w]] = IF w = "detect" THEN @ \ {next[w]}
                                                 ELSE @ \union {next[w]}]
        /\ fdb' = IF member' = member THEN fdb ELSE "stale"
        /\ next' = [next EXCEPT ![w] = @ + 1]
        /\ UNCHANGED <<stage, calm>>
     \/ /\ MoreEntries(w)
        /\ Goto(w, AfterVlans(w))
        /\ Disturb
        /\ UNCHANGED <<switch, next>>
     \/ /\ ~MoreEntries(w)
        /\ Goto(w, AfterVlans(w))
        /\ UNCHANGED <<switch, next, calm>>
  /\ UNCHANGED <<port, by, links, node, process>>

\* refresh_fdb; its result is not looked at.
RefreshFdb(w) ==
  /\ stage[w] = "refresh"
  /\ fdb' \in {"clean", IF fdb = "stale" THEN "failed" ELSE fdb}
  /\ Finish(w, "idle")
  /\ UNCHANGED <<member, links, events, node, process>>

JobStep(w) == OpenDataFile(w) \/ SwitchVlan(w)
OpenerStep(w) == ReadPort(w) \/ JobStep(w) \/ RefreshFdb(w)
DetectGoesOn ==
  \/ DetectStart \/ (\E p \in Port : DetectPort(p)) \/ DetectStore \/ DetectSend
  \/ JobStep("detect")

Next ==
  \/ Boot \/ BootStep \/ SigInt \/ KillStep \/ End
  \/ DetectRound \/ DetectGoesOn
  \/ RecvCommonFlush \/ RecvCompleteFlush \/ RecvFails
  \/ CompleteWaits \/ CompleteWakesSpuriously \/ CompleteHandle \/ CheckTick
  \/ \E w \in Opener : OpenerStep(w)

Spec == Init /\ [][Next]_vars

\* Every thread that is not blocked on a call goes on, and the constructor
\* runs to its end.  Nothing forces a link to change, a frame to arrive or a
\* wakeup without a signal.
Fairness ==
  /\ WF_vars(DetectGoesOn) /\ WF_vars(CheckTick)
  /\ WF_vars(CompleteWaits \/ CompleteHandle)
  /\ \A w \in Opener : WF_vars(OpenerStep(w))
  /\ WF_vars(BootStep)

\* The fair runs of a process that is not ended.
StayUp == phase' \notin {"off", "leave"}
FairSpec == Init /\ [][Next /\ StayUp]_vars /\ Fairness

-----------------------------------------------------------------------------
(* Properties.                                                              *)

\* The jobs find the data file, whatever fails at boot and whenever the node is
\* killed, up to the last step of the destructor: see NodeProcess.
DataFilePresent == P!DataFilePresent

Forwards(p) == member[p] = Entry
Blocked(p)  == member[p] = {}

Quiet == \A w \in Worker : ~Switching(w)

\* Between two jobs, if no two jobs overlapped, no register access failed and
\* the ports were open when the process started, the ports are what the status
\* says: the port that came back is out of every VLAN in PREFORWARDING, and
\* every port is in every VLAN in UP and DOWN.
PortsFollowStatus ==
  (calm = "yes" /\ Quiet /\ phase # "off") =>
     \A p \in Port : IF status = "PREFORWARDING" /\ p = preport
                     THEN Blocked(p) ELSE Forwards(p)

\* When detect is about to announce that a link is back, the port that came
\* back carries no traffic, unless it was opened again meanwhile: the major
\* node opens its second port in answer to that frame.
BlockedBeforeLinkUp ==
  (calm = "yes" /\ stage["detect"] = "linkup" /\ status = "PREFORWARDING")
     => Blocked(port["detect"])

\* Once the thread that opened the port has done its job, no entry of the FDB
\* is left that was learned while the port was closed, unless the switch refused
\* the flush that the job asked for after the last VLAN: a job never opens a port
\* without a flush after it, and one that works is enough.
FlushedOnceOpen ==
  (/\ calm = "yes" /\ phase # "off"
   /\ status = "UP" /\ by \in Opener
   /\ stage[by] \in {"idle", "wait", "woken"}) => fdb # "stale"

\* The node is never stuck in DOWN: in DOWN, between two rounds, a link was
\* down when detect last looked, so its coming back will be seen as a change.
\* Detect reads the status outside the mutex and acts on changes only, so one
\* missed change would leave the node DOWN on a whole ring.
NotStuckDown == (stage["detect"] = "idle" /\ status = "DOWN") => seen # Port

\* The status, seen without its jobs, is the state machine of TransportSpec.
Abs == INSTANCE TransportSpec WITH
         running <- phase # "off",
         state   <- status,
         silent  <- timeout
StatusSteps == Abs!Spec

\* PREFORWARDING ends, whatever signals are lost and whatever the receive
\* thread does: the check thread counts on.
PreforwardingEnds == Abs!Liveness

\* A whole ring gets all its ports: once detect keeps seeing both links up, and
\* nothing has disturbed the ports, both forward in every VLAN, for good.
PortsOpenForGood ==
  <>[](calm = "yes" /\ seen = Port /\ now = Port)
     => <>[](status = "UP" /\ \A p \in Port : Forwards(p))

=============================================================================
