--------------------------- MODULE MajorNodeProofs ---------------------------
(***************************************************************************)
(* MajorNode for every number of VLANs and every timeout: its types, that  *)
(* the data file is there for the threads, that the second port follows    *)
(* the status unless two jobs overlap or a register access fails, that it  *)
(* implements MajorSpec, and what its liveness rests on.                   *)
(***************************************************************************)
EXTENDS MajorNode, TLAPS

-----------------------------------------------------------------------------
(* The process.                                                             *)

\* The node runs a process as NodeProcess describes it.
LEMMA ProcessSteps == Spec => P!Spec
<1>1. Init => P!Init
  BY DEF Init
<1>2. [Next]_vars => [P!Next]_(P!vars)
  <2> SUFFICES ASSUME [Next]_vars PROVE [P!Next]_(P!vars)
    OBVIOUS
  <2> USE DEF process, P!vars
  <2>idle. CASE UNCHANGED vars
    BY <2>idle DEF vars
  <2>life. CASE Boot \/ BootStep \/ SigInt \/ KillStep \/ End
    BY <2>life DEF Boot, BootStep, SigInt, KillStep, End, P!Next, P!Continue
  <2>lost. CASE RecvFails
    BY <2>lost DEF RecvFails, P!Next, Thread, Worker
  <2>loop. CASE RecvHello \/ RecvLinkDown \/ RecvLinkUp \/ CheckTick \/ HelloTick
    BY <2>loop DEF RecvHello, RecvLinkDown, RecvLinkUp, CheckTick, HelloTick
  <2>job. ASSUME NEW w \in Worker, JobStep(w) PROVE [P!Next]_(P!vars)
    BY <2>job DEF JobStep, SwitchLearning, OpenDataFile, SwitchVlan, RefreshFdb,
                  SendMain, SendSecond, SendHello, P!Next
  <2>all. QED
    BY <2>life, <2>lost, <2>loop, <2>job, <2>idle DEF Next
<1>3. QED
  BY <1>1, <1>2, PTL DEF Spec, P!Spec

\* The threads of a major node find the data file: see DataFilePresent.
THEOREM DataFileAlwaysPresent == Spec => [](P!TypeOK /\ P!FileOrder /\ DataFilePresent)
<1>1. P!ProcessAssumption
  BY DEF P!ProcessAssumption, Thread, Worker, ThreadOrder
<1>2. P!Spec => [](P!TypeOK /\ P!FileOrder /\ P!DataFilePresent)
  BY <1>1, P!DataFileAlwaysPresent DEF P!ProcessAssumption
<1>3. QED
  BY <1>2, ProcessSteps, PTL DEF DataFilePresent

-----------------------------------------------------------------------------
(* Types.                                                                   *)

LEMMA NodeTypeCorrect == Spec => []NodeTypeOK
<1> USE DEF MajorAssumption, NodeTypeOK, Worker, Entry, Op, Stage, Port, FrameType,
            NoFrame, Frame, Event
<1>1. Init => NodeTypeOK
  BY MajorAssumption DEF Init
<1>2. NodeTypeOK /\ [Next]_vars => NodeTypeOK'
  <2> SUFFICES ASSUME NodeTypeOK, [Next]_vars PROVE NodeTypeOK'
    OBVIOUS
  <2> USE DEF switch, node, jobs, events
  <2>along. ASSUME Alongside PROVE NodeTypeOK'
    BY <2>along DEF Alongside
  <2>lost. ASSUME JobsLost PROVE NodeTypeOK'
    BY <2>lost, MajorAssumption DEF JobsLost
  <2>begin. ASSUME NEW w \in Worker, NEW o \in {"block", "release", "linkup"}, Begin(w, o),
                   UNCHANGED switch, sent' = NoFrame,
                   status' \in {"COMPLETE", "FAILED"}, timeout' \in 0..Limit
            PROVE NodeTypeOK'
    BY <2>begin, MajorAssumption DEF Begin, FirstStage, Switching
  <2>1. CASE Boot
    <3>1. /\ status' = "FAILED" /\ timeout' = 0 /\ by' = "none" /\ history' = {}
          /\ sent' = NoFrame /\ UNCHANGED <<switch, jobs>>
      BY <2>1 DEF Boot
    <3>2. QED
      BY <3>1, MajorAssumption
  <2>2. CASE BootStep \/ KillStep \/ RecvFails
    BY <2>2, <2>along DEF BootStep, KillStep, RecvFails
  <2>sig. CASE SigInt
    BY <2>sig DEF SigInt
  <2>3. CASE End
    BY <2>3, <2>lost DEF End
  <2>4. CASE RecvHello
    <3>1. CASE status = "FAILED"
      <4>1. Begin("recv", "block") /\ UNCHANGED switch /\ sent' = NoFrame
        BY <2>4, <3>1 DEF RecvHello
      <4>2. status' = "COMPLETE" /\ timeout' = 0 /\ 0 \in 0..Limit
        BY <2>4, <3>1, MajorAssumption DEF RecvHello
      <4>3. QED
        BY <4>1, <4>2, <2>begin
    <3>2. CASE status = "COMPLETE"
      <4>1. /\ timeout' = 0 /\ sent' = NoFrame
            /\ UNCHANGED <<status, jobs, events, switch>>
        BY <2>4, <3>2 DEF RecvHello, NoJob
      <4>2. QED
        BY <4>1, MajorAssumption
    <3>3. QED
      BY <3>1, <3>2
  <2>5. CASE RecvLinkDown
    BY <2>5, <2>begin DEF RecvLinkDown
  <2>6. CASE RecvLinkUp
    BY <2>6, <2>begin DEF RecvLinkUp
  <2>7. CASE CheckTick
    <3>1. CASE status = "COMPLETE" /\ Expired
      <4>1. Begin("check", "release") /\ UNCHANGED switch /\ sent' = NoFrame
        BY <2>7, <3>1 DEF CheckTick
      <4>2. status' = "FAILED" /\ timeout' = 0 /\ 0 \in 0..Limit
        BY <2>7, <3>1, MajorAssumption DEF CheckTick
      <4>3. QED
        BY <4>1, <4>2, <2>begin
    <3>2. CASE status = "FAILED" \/ ~Expired
      <4>1. /\ timeout' = 0 \/ (~Expired /\ timeout' = Counted)
            /\ sent' = NoFrame /\ UNCHANGED <<status, jobs, events, switch>>
        BY <2>7, <3>2 DEF CheckTick, NoJob
      <4>2. QED
        BY <4>1, MajorAssumption DEF Expired, Counted
    <3>3. QED
      BY <3>1, <3>2
  <2>8. CASE HelloTick
    BY <2>8 DEF HelloTick
  <2>9. ASSUME NEW w \in Worker, JobStep(w) PROVE NodeTypeOK'
    <3>1. CASE SwitchLearning(w)
      BY <3>1 DEF SwitchLearning, Goto
    <3>2. CASE OpenDataFile(w)
      <4>1. CASE P!Crash /\ JobsLost
        BY <4>1, <2>lost
      <4>2. CASE ~(P!Crash /\ JobsLost)
        <5>1. /\ stage' = [stage EXCEPT ![w] = "vlan"] /\ sent' = NoFrame
              /\ UNCHANGED <<op, next, events, node, switch>>
          BY <3>2, <4>2 DEF OpenDataFile, Goto
        <5>2. QED
          BY <5>1
      <4>3. QED
        BY <4>1, <4>2
    <3>3. CASE SwitchVlan(w)
      <4>1. \/ UNCHANGED <<member, next>>
            \/ /\ next[w] \in Entry
               /\ next' = [next EXCEPT ![w] = @ + 1]
               /\ \/ member' = member \union {next[w]}
                  \/ member' = member \ {next[w]}
        BY <3>3 DEF SwitchVlan, MoreEntries
      <4>2. stage' \in [Worker -> Stage] /\ history' \in SUBSET Event
        BY <3>3 DEF SwitchVlan, Goto
      <4>3. member' \in SUBSET Entry
        BY <4>1
      <4>4. next' \in [Worker -> 1..Vlans + 1]
        BY <4>1, MajorAssumption
      <4>5. QED
        BY <3>3, <4>2, <4>3, <4>4 DEF SwitchVlan
    <3>4. CASE RefreshFdb(w)
      BY <3>4 DEF RefreshFdb, Goto
    <3>5. CASE SendMain(w)
      BY <3>5 DEF SendMain, FlushFrame, Goto
    <3>6. CASE SendSecond(w)
      BY <3>6 DEF SendSecond, FlushFrame, Goto
    <3>7. CASE SendHello(w)
      BY <3>7 DEF SendHello, Goto
    <3>8. QED
      BY <2>9, <3>1, <3>2, <3>3, <3>4, <3>5, <3>6, <3>7 DEF JobStep
  <2>10. CASE UNCHANGED vars
    BY <2>10 DEF vars
  <2>11. QED
    BY <2>1, <2>2, <2>sig, <2>3, <2>4, <2>5, <2>6, <2>7, <2>8, <2>9, <2>10 DEF Next
<1>3. QED
  BY <1>1, <1>2, PTL DEF Spec

\* Every variable keeps its type: in particular recv_hello_timeout never
\* exceeds Limit and no loop runs past the end of the data file.
THEOREM TypeCorrect == Spec => []TypeOK
<1>1. QED
  BY NodeTypeCorrect, DataFileAlwaysPresent, PTL DEF TypeOK

-----------------------------------------------------------------------------
(* The second port follows the status.                                      *)

\* Only a thread that exists has a job.
ThreadInv == \A w \in Worker : stage[w] # "idle" => w \in alive

LEMMA ThreadCorrect == Spec => []ThreadInv
<1> USE DEF ThreadInv, Worker
<1>1. Init => ThreadInv
  BY DEF Init
<1>2. NodeTypeOK /\ ThreadInv /\ [Next]_vars => ThreadInv'
  <2> SUFFICES ASSUME NodeTypeOK, ThreadInv, [Next]_vars PROVE ThreadInv'
    OBVIOUS
  <2> USE DEF process, jobs, NodeTypeOK
  <2>1. CASE Boot
    BY <2>1 DEF Boot, P!Boot
  <2>2. CASE BootStep \/ SigInt \/ KillStep
    <3>1. alive \subseteq alive' /\ UNCHANGED stage
      BY <2>2 DEF BootStep, SigInt, KillStep, Alongside, P!BootStep, P!KillStp,
           P!ConfigRegs, P!CreateDataFile, P!JoinControlVlans, P!StartThread,
           P!SigInt, P!KillStep, P!LeaveControlVlans, P!RemoveDataFile
    <3>2. QED
      BY <3>1
  <2>lost. ASSUME JobsLost PROVE ThreadInv'
    BY <2>lost DEF JobsLost
  <2>3. CASE End
    BY <2>3, <2>lost DEF End
  <2>4. CASE RecvHello \/ RecvLinkDown \/ RecvLinkUp
    BY <2>4 DEF RecvHello, RecvLinkDown, RecvLinkUp, Begin, Idle, NoJob
  <2>5. CASE RecvFails
    BY <2>5 DEF RecvFails, Idle, P!ThreadReturns, Alongside
  <2>6. CASE CheckTick
    BY <2>6 DEF CheckTick, Begin, Idle, NoJob
  <2>7. CASE HelloTick
    BY <2>7 DEF HelloTick
  <2>8. ASSUME NEW w \in Worker, JobStep(w) PROVE ThreadInv'
    <3>1. CASE OpenDataFile(w)
      BY <3>1, <2>lost DEF OpenDataFile, Goto
    <3>2. CASE SwitchLearning(w) \/ SwitchVlan(w)
      BY <3>2 DEF SwitchLearning, SwitchVlan, Goto
    <3>3. CASE RefreshFdb(w) \/ SendMain(w) \/ SendSecond(w) \/ SendHello(w)
      BY <3>3 DEF RefreshFdb, SendMain, SendSecond, SendHello, Goto
    <3>4. QED
      BY <2>8, <3>1, <3>2, <3>3 DEF JobStep
  <2>9. CASE UNCHANGED vars
    BY <2>9 DEF vars
  <2>10. QED
    BY <2>1, <2>2, <2>3, <2>4, <2>5, <2>6, <2>7, <2>8, <2>9 DEF Next
<1>3. QED
  BY <1>1, <1>2, NodeTypeCorrect, PTL DEF Spec

\* So a thread with a job is proof of a process.
ProcInv == \A w \in Worker : w \in alive \/ stage[w] # "idle" => phase # "off"

LEMMA ProcCorrect == Spec => []ProcInv
<1>1. ThreadInv /\ P!FileOrder => ProcInv
  BY DEF ThreadInv, P!FileOrder, ProcInv
<1>2. QED
  BY <1>1, ThreadCorrect, DataFileAlwaysPresent, PTL

Target == IF status = "COMPLETE" THEN "block" ELSE "release"

\* How far worker w has brought the second port.
Progress(w) ==
  /\ op[w] = Target
  /\ ~Switching(Other(w))
  /\ stage[w] \in {"open", "vlan"} =>
       learning = IF op[w] = "release" THEN "on" ELSE "off"
  /\ stage[w] = "vlan" =>
       \A v \in 1..next[w] - 1 : v \in member <=> op[w] = "release"

Agreed == IF status = "COMPLETE" THEN Blocked ELSE Released

\* Jobs have a purpose; a loop over the data file starts at its first entry.
JobInv ==
  /\ \A w \in Worker : Switching(w) => op[w] \in {"block", "release"}
  /\ op["check"] # "block"
  /\ \A w \in Worker : stage[w] \in {"learn", "open"} => next[w] = 1

\* The strengthening of PortFollowsStatus: a job under way has the purpose
\* the status asks for, is the only one, and has done its work so far.
PortInv ==
  Undisturbed =>
    /\ \A w \in Worker : Switching(w) => Progress(w)
    /\ (Quiet /\ phase # "off") => Agreed

LEMMA JobCorrect == Spec => []JobInv
<1> USE DEF JobInv, Worker, Switching
<1>1. Init => JobInv
  BY DEF Init
<1>2. NodeTypeOK /\ JobInv /\ [Next]_vars => JobInv'
  <2> SUFFICES ASSUME NodeTypeOK, JobInv, [Next]_vars PROVE JobInv'
    OBVIOUS
  <2> USE DEF jobs
  <2>same. ASSUME UNCHANGED jobs PROVE JobInv'
    BY <2>same
  <2>lost. ASSUME JobsLost PROVE JobInv'
    BY <2>lost DEF JobsLost
  <2>begin. ASSUME NEW w \in Worker, NEW o \in {"block", "release", "linkup"},
                   Begin(w, o), ~(w = "check" /\ o = "block")
            PROVE JobInv'
    BY <2>begin DEF Begin, FirstStage, NodeTypeOK
  <2>1. CASE Boot \/ BootStep \/ SigInt \/ KillStep \/ RecvFails \/ HelloTick
    BY <2>1, <2>same DEF Boot, BootStep, SigInt, KillStep, RecvFails, HelloTick, Alongside
  <2>2. CASE End
    BY <2>2, <2>lost DEF End
  <2>3. CASE RecvHello
    BY <2>3, <2>begin, <2>same DEF RecvHello, NoJob
  <2>4. CASE RecvLinkDown \/ RecvLinkUp
    BY <2>4, <2>begin DEF RecvLinkDown, RecvLinkUp
  <2>5. CASE CheckTick
    BY <2>5, <2>begin, <2>same DEF CheckTick, NoJob
  <2>6. ASSUME NEW w \in Worker, JobStep(w) PROVE JobInv'
    <3> USE DEF NodeTypeOK, Goto
    <3>1. CASE SwitchLearning(w)
      BY <3>1 DEF SwitchLearning
    <3>2. CASE OpenDataFile(w)
      BY <3>2, <2>lost DEF OpenDataFile
    <3>3. CASE SwitchVlan(w)
      <4>1. /\ stage[w] = "vlan" /\ UNCHANGED op
            /\ \/ UNCHANGED stage
               \/ stage' = [stage EXCEPT ![w] = "refresh"]
            /\ \/ UNCHANGED next
               \/ next' = [next EXCEPT ![w] = @ + 1]
        BY <3>3 DEF SwitchVlan
      <4>2. QED
        BY <4>1
    <3>4. CASE RefreshFdb(w)
      BY <3>4 DEF RefreshFdb
    <3>5. CASE SendMain(w)
      BY <3>5 DEF SendMain
    <3>6. CASE SendSecond(w) \/ SendHello(w)
      BY <3>6 DEF SendSecond, SendHello
    <3>7. QED
      BY <2>6, <3>1, <3>2, <3>3, <3>4, <3>5, <3>6 DEF JobStep
  <2>7. CASE UNCHANGED vars
    BY <2>7, <2>same DEF vars
  <2>8. QED
    BY <2>1, <2>2, <2>3, <2>3, <2>4, <2>5, <2>6, <2>7 DEF Next
<1>3. QED
  BY <1>1, <1>2, NodeTypeCorrect, PTL DEF Spec

LEMMA PortCorrect == Spec => []PortInv
<1> USE DEF PortInv, Worker, Undisturbed, Quiet, Agreed, Progress, Target, Blocked,
            Released, Switching, Other
<1>1. Init => PortInv
  BY DEF Init
<1>2. TypeOK /\ ProcInv /\ JobInv /\ PortInv /\ [Next]_vars => PortInv'
  <2> SUFFICES ASSUME TypeOK, ProcInv, JobInv, PortInv, [Next]_vars PROVE PortInv'
    OBVIOUS
  <2> USE DEF jobs, node, process, switch, events
  \* Steps that change neither the status, nor the port, nor where a job is.
  <2>same. ASSUME UNCHANGED <<jobs, status, learning, member, by>>, history \subseteq history',
                  phase' # "off" => phase # "off"
           PROVE PortInv'
    BY <2>same
  <2>lost. ASSUME JobsLost, phase' = "off" PROVE PortInv'
    BY <2>lost DEF JobsLost
  \* A new job that is not the only one is an overlap; one that is starts
  \* with the purpose the new status asks for.
  <2>begin. ASSUME NEW w \in Worker, NEW o \in {"block", "release"}, Begin(w, o),
                   o = IF status' = "COMPLETE" THEN "block" ELSE "release"
            PROVE PortInv'
    <3>1. stage' = [stage EXCEPT ![w] = "learn"] /\ op' = [op EXCEPT ![w] = o]
      BY <2>begin DEF Begin, FirstStage
    <3>2. Switching(Other(w)) => "overlapped" \in history'
      BY <2>begin DEF Begin
    <3>3. QED
      BY <2>begin, <3>1, <3>2 DEF NodeTypeOK, TypeOK
  <2>linkup. ASSUME Begin("recv", "linkup"), stage["recv"] = "idle",
                    UNCHANGED <<status, learning, member, phase>>
             PROVE PortInv'
    BY <2>linkup DEF Begin, FirstStage, NodeTypeOK, TypeOK
  <2>1. CASE Boot
    BY <2>1 DEF Boot
  <2>2. CASE BootStep \/ SigInt \/ KillStep
    <3>1. phase # "off"
      BY <2>2 DEF BootStep, SigInt, KillStep, P!BootStep, P!KillStp, P!ConfigRegs,
           P!CreateDataFile, P!JoinControlVlans, P!StartThread, P!SigInt, P!Booting,
           P!KillStep, P!LeaveControlVlans, P!RemoveDataFile, Thread
    <3>2. CASE SigInt
      BY <3>1, <3>2, <2>same DEF SigInt
    <3>3. CASE BootStep \/ KillStep
      BY <3>1, <3>3, <2>same DEF BootStep, KillStep, Alongside
    <3>4. QED
      BY <2>2, <3>2, <3>3
  <2>3. CASE End
    BY <2>3, <2>lost DEF End, P!End, P!BootFails, P!RestoreStp, P!Exit
  <2>4. CASE RecvFails
    BY <2>4, <2>same DEF RecvFails, P!ThreadReturns, Alongside
  <2>5. CASE HelloTick
    BY <2>5, <2>same DEF HelloTick
  <2>6. CASE RecvHello
    BY <2>6, <2>begin, <2>same DEF RecvHello, NoJob
  <2>7. CASE RecvLinkDown
    BY <2>7, <2>begin DEF RecvLinkDown
  <2>8. CASE RecvLinkUp
    BY <2>8, <2>linkup DEF RecvLinkUp, Idle
  <2>9. CASE CheckTick
    BY <2>9, <2>begin, <2>same DEF CheckTick, NoJob
  <2>10. ASSUME NEW w \in Worker, JobStep(w) PROVE PortInv'
    <3> USE DEF Goto
    <3>1. CASE SwitchLearning(w)
      BY <3>1 DEF SwitchLearning, NodeTypeOK, TypeOK
    <3>2. CASE OpenDataFile(w)
      BY <3>2, <2>lost DEF OpenDataFile, P!Crash, P!Exit, TypeOK, NodeTypeOK, JobInv
    <3>3. CASE SwitchVlan(w)
      \* One entry more is done; after the last one all are.
      <4> SUFFICES ASSUME Undisturbed' PROVE PortInv'
        OBVIOUS
      <4>1. /\ UNCHANGED <<op, learning, status, phase, events>>
            /\ stage[w] = "vlan" /\ Undisturbed
        BY <3>3 DEF SwitchVlan
      <4>2. /\ Progress(w) /\ next[w] \in 1..Vlans + 1
            /\ stage[Other(w)] \notin {"learn", "open", "vlan"}
        BY <4>1 DEF NodeTypeOK, TypeOK
      <4>3. CASE MoreEntries(w)
        <5>1. /\ next' = [next EXCEPT ![w] = @ + 1] /\ UNCHANGED stage
              /\ member' = IF op[w] = "release" THEN member \union {next[w]}
                                                ELSE member \ {next[w]}
          BY <3>3, <4>1, <4>3 DEF SwitchVlan
        <5>2. \A v \in 1..next'[w] - 1 : v \in member' <=> op[w] = "release"
          BY <4>1, <4>2, <5>1 DEF NodeTypeOK, TypeOK
        <5>3. QED
          BY <4>1, <4>2, <5>1, <5>2
      <4>4. CASE ~MoreEntries(w)
        <5>1. UNCHANGED <<next, member>> /\ stage' = [stage EXCEPT ![w] = "refresh"]
          BY <3>3, <4>4 DEF SwitchVlan
        <5>2. next[w] = Vlans + 1
          BY <4>2, <4>4, MajorAssumption DEF MoreEntries, Entry, MajorAssumption
        <5>3. \A v \in Entry : v \in member <=> op[w] = "release"
          BY <4>1, <4>2, <5>2, MajorAssumption DEF Entry, MajorAssumption
        <5>4. Agreed'
          <6>1. member = IF op[w] = "release" THEN Entry ELSE {}
            BY <5>3 DEF NodeTypeOK, TypeOK
          <6>2. learning = IF op[w] = "release" THEN "on" ELSE "off"
            BY <4>1, <4>2
          <6>3. op[w] = IF status = "COMPLETE" THEN "block" ELSE "release"
            BY <4>2
          <6>4. QED
            BY <4>1, <5>1, <6>1, <6>2, <6>3
        <5>5. \A u \in Worker : ~Switching(u)'
          BY <4>1, <4>2, <5>1 DEF NodeTypeOK, TypeOK
        <5>6. QED
          BY <5>4, <5>5
      <4>5. QED
        BY <4>3, <4>4
    <3>4. CASE RefreshFdb(w)
      BY <3>4 DEF RefreshFdb, NodeTypeOK, TypeOK
    <3>5. CASE SendMain(w)
      BY <3>5 DEF SendMain, NodeTypeOK, TypeOK
    <3>6. CASE SendSecond(w) \/ SendHello(w)
      BY <3>6 DEF SendSecond, SendHello, NodeTypeOK, TypeOK
    <3>7. QED
      BY <2>10, <3>1, <3>2, <3>3, <3>4, <3>5, <3>6 DEF JobStep
  <2>11. CASE UNCHANGED vars
    BY <2>11, <2>same DEF vars
  <2>12. QED
    BY <2>1, <2>2, <2>3, <2>4, <2>5, <2>6, <2>7, <2>8, <2>9, <2>10, <2>11 DEF Next
<1>3. QED
  BY <1>1, <1>2, TypeCorrect, ProcCorrect, JobCorrect, PTL DEF Spec

\* For any number of VLANs and any timeout: whatever the threads, a boot or a
\* SIGINT do in between, the second port ends up as the status says unless
\* two jobs overlapped or a register access failed.  The mutex alone is thus
\* enough for everything but the jobs themselves.
THEOREM SecondPortFollowsStatus == Spec => []PortFollowsStatus
<1>1. PortInv => PortFollowsStatus
  BY DEF PortInv, PortFollowsStatus, Agreed
<1>2. QED
  BY <1>1, PortCorrect, PTL

\* A thread that changed the status and still has its frames to send is the last
\* one with a job that the status asks for; the other's job is over, or is only
\* frames.
SenderInv ==
  Undisturbed =>
    \A w \in Worker :
      (by = w /\ stage[w] # "idle" /\ op[w] # "linkup")
        => /\ op[w] = Target
           /\ ~Switching(Other(w))

LEMMA SenderCorrect == Spec => []SenderInv
<1> USE DEF SenderInv, Worker, Undisturbed, Target, Switching, Other
<1>1. Init => SenderInv
  BY DEF Init
<1>2. NodeTypeOK /\ JobInv /\ SenderInv /\ [Next]_vars => SenderInv'
  <2> SUFFICES ASSUME NodeTypeOK, JobInv, SenderInv, [Next]_vars PROVE SenderInv'
    OBVIOUS
  <2> USE DEF jobs, node, events
  <2>same. ASSUME UNCHANGED <<jobs, status, by>>, history \subseteq history' PROVE SenderInv'
    BY <2>same
  <2>lost. ASSUME JobsLost PROVE SenderInv'
    BY <2>lost DEF JobsLost
  <2>begin. ASSUME NEW w \in Worker, NEW o \in {"block", "release"}, Begin(w, o),
                   o = IF status' = "COMPLETE" THEN "block" ELSE "release"
            PROVE SenderInv'
    <3>1. stage' = [stage EXCEPT ![w] = "learn"] /\ op' = [op EXCEPT ![w] = o] /\ by' = w
      BY <2>begin DEF Begin, FirstStage
    <3>2. Switching(Other(w)) => "overlapped" \in history'
      BY <2>begin DEF Begin
    <3>3. QED
      BY <2>begin, <3>1, <3>2 DEF NodeTypeOK
  <2>linkup. ASSUME Begin("recv", "linkup"), UNCHANGED status PROVE SenderInv'
    BY <2>linkup DEF Begin, FirstStage, NodeTypeOK
  \* A step of a job that starts no switching and changes no status.
  <2>step. ASSUME NEW w \in Worker, stage[w] # "idle", UNCHANGED <<status, by, op>>,
                  history \subseteq history',
                  NEW s \in Stage, stage' = [stage EXCEPT ![w] = s],
                  s \in {"open", "vlan"} => Switching(w), s # "learn"
           PROVE  SenderInv'
    BY <2>step DEF NodeTypeOK
  <2>1. CASE Boot
    BY <2>1 DEF Boot
  <2>2. CASE BootStep \/ KillStep \/ RecvFails \/ HelloTick
    BY <2>2, <2>same DEF BootStep, KillStep, RecvFails, HelloTick, Alongside
  <2>3. CASE SigInt
    BY <2>3, <2>same DEF SigInt
  <2>4. CASE End
    BY <2>4, <2>lost DEF End
  <2>5. CASE RecvHello
    BY <2>5, <2>begin, <2>same DEF RecvHello, NoJob
  <2>6. CASE RecvLinkDown
    BY <2>6, <2>begin DEF RecvLinkDown
  <2>7. CASE RecvLinkUp
    BY <2>7, <2>linkup DEF RecvLinkUp
  <2>8. CASE CheckTick
    BY <2>8, <2>begin, <2>same DEF CheckTick, NoJob
  <2>9. ASSUME NEW w \in Worker, JobStep(w) PROVE SenderInv'
    <3> USE DEF Goto, Stage
    <3>1. CASE SwitchLearning(w)
      BY <3>1, <2>step DEF SwitchLearning
    <3>2. CASE OpenDataFile(w)
      BY <3>2, <2>lost, <2>step DEF OpenDataFile
    <3>3. CASE SwitchVlan(w)
      <4>1. stage[w] = "vlan" /\ UNCHANGED <<status, by, op>> /\ history \subseteq history'
        BY <3>3 DEF SwitchVlan
      <4>2. UNCHANGED stage \/ stage' = [stage EXCEPT ![w] = "refresh"]
        BY <3>3 DEF SwitchVlan
      <4>3. CASE UNCHANGED stage
        BY <4>1, <4>3
      <4>4. CASE stage' = [stage EXCEPT ![w] = "refresh"]
        BY <4>1, <4>4, <2>step
      <4>5. QED
        BY <4>2, <4>3, <4>4
    <3>4. CASE RefreshFdb(w)
      BY <3>4, <2>step DEF RefreshFdb
    <3>5. CASE SendMain(w)
      BY <3>5, <2>step DEF SendMain
    <3>6. CASE SendSecond(w)
      BY <3>6, <2>step DEF SendSecond
    <3>7. CASE SendHello(w)
      BY <3>7, <2>step DEF SendHello
    <3>8. QED
      BY <2>9, <3>1, <3>2, <3>3, <3>4, <3>5, <3>6, <3>7 DEF JobStep
  <2>10. CASE UNCHANGED vars
    BY <2>10, <2>same DEF vars
  <2>11. QED
    BY <2>1, <2>2, <2>3, <2>4, <2>5, <2>6, <2>7, <2>8, <2>9, <2>10 DEF Next
<1>3. QED
  BY <1>1, <1>2, NodeTypeCorrect, JobCorrect, PTL DEF Spec

\* No thread that changed the status sends a flush frame ahead of its change of the
\* second port: the complete-flush-fdb of a returned hello leaves with the port
\* closed in every VLAN, the frames of a link-down and of a timeout (the latter a
\* complete-flush-fdb too) with the port open in every VLAN.
THEOREM FlushIsAfterSwitch == Spec => []FlushAfterSwitch
<1>1. TypeOK /\ ProcInv /\ PortInv /\ SenderInv => FlushAfterSwitch
  <2> SUFFICES ASSUME TypeOK, ProcInv, PortInv, SenderInv, NEW w \in Worker,
                      Undisturbed, by = w, stage[w] \in {"main", "second"}, op[w] # "linkup"
               PROVE  IF op[w] = "block" THEN Blocked ELSE Released
    BY DEF FlushAfterSwitch
  <2>1. op[w] = Target /\ ~Switching(Other(w)) /\ ~Switching(w)
    BY DEF SenderInv, Switching
  <2>2. Quiet
    BY <2>1 DEF Quiet, Other, Worker
  <2>3. phase # "off"
    BY DEF ProcInv
  <2>4. Agreed
    BY <2>2, <2>3 DEF PortInv
  <2>5. QED
    BY <2>1, <2>4 DEF Agreed, Target
<1>2. QED
  BY <1>1, TypeCorrect, ProcCorrect, PortCorrect, SenderCorrect, PTL

-----------------------------------------------------------------------------
(* MajorNode implements MajorSpec.                                          *)

\* The critical sections of the two threads are the steps of the status
\* machine; everything that happens after an unlock is invisible to it.  In
\* particular the count that recv_link_down leaves behind is never seen again.
THEOREM MajorImplementsStatusMachine == Spec => StatusSteps
<1> USE DEF Abs!vars
<1>1. Init => Abs!Init
  BY DEF Init, P!Init, Abs!Init
<1>2. TypeOK /\ ProcInv /\ [Next]_vars => [Abs!Next]_(Abs!vars)
  <2> SUFFICES ASSUME TypeOK, ProcInv, [Next]_vars PROVE [Abs!Next]_(Abs!vars)
    OBVIOUS
  <2> USE DEF process, node, events
  <2>same. ASSUME UNCHANGED <<node, by>>, (phase' # "off") = (phase # "off")
           PROVE UNCHANGED Abs!vars
    BY <2>same
  <2>lost. ASSUME JobsLost, phase' = "off", phase # "off" PROVE Abs!Stop
    BY <2>lost DEF JobsLost, Abs!Stop
  <2>1. CASE Boot
    <3>1. Abs!Start
      BY <2>1 DEF Boot, P!Boot, Abs!Start
    <3>2. QED
      BY <3>1 DEF Abs!Next
  <2>2. CASE BootStep \/ SigInt \/ KillStep
    <3>1. phase # "off" /\ phase' # "off"
      BY <2>2 DEF BootStep, SigInt, KillStep, P!BootStep, P!KillStp, P!ConfigRegs,
           P!CreateDataFile, P!JoinControlVlans, P!StartThread, P!SigInt, P!Booting,
           P!KillStep, P!LeaveControlVlans, P!RemoveDataFile, Thread, Worker, ThreadOrder
    <3>2. QED
      BY <2>2, <3>1, <2>same DEF BootStep, SigInt, KillStep, Alongside
  <2>3. CASE End
    <3>1. Abs!Stop
      BY <2>3, <2>lost DEF End, P!End, P!BootFails, P!Booting, P!RestoreStp, P!Exit,
           Thread, Worker
    <3>2. QED
      BY <3>1 DEF Abs!Next
  <2>4. CASE RecvFails \/ HelloTick
    BY <2>4, <2>same DEF RecvFails, P!ThreadReturns, Alongside, HelloTick
  <2>alive. ASSUME NEW w \in Worker, w \in alive PROVE phase # "off"
    BY <2>alive DEF ProcInv
  <2>5. CASE RecvHello
    <3>1. /\ phase # "off" /\ UNCHANGED phase /\ status' = "COMPLETE" /\ timeout' = 0
          /\ by' = IF status = "FAILED" THEN "recv" ELSE by
      BY <2>5, <2>alive DEF RecvHello, Begin, NoJob, Idle, Worker
    <3>2. Abs!HelloBack
      BY <3>1 DEF Abs!HelloBack
    <3>3. QED
      BY <3>2 DEF Abs!Next
  <2>6. CASE RecvLinkDown
    <3>1. /\ phase # "off" /\ UNCHANGED phase
          /\ status = "COMPLETE" /\ status' = "FAILED" /\ by' = "recv"
      BY <2>6, <2>alive DEF RecvLinkDown, Begin, Idle, Worker
    <3>2. Abs!LinkDown
      BY <3>1 DEF Abs!LinkDown
    <3>3. QED
      BY <3>2 DEF Abs!Next
  <2>7. CASE RecvLinkUp
    BY <2>7, <2>same DEF RecvLinkUp, Begin
  <2>8. CASE CheckTick
    <3>1. phase # "off" /\ UNCHANGED phase
      BY <2>8, <2>alive DEF CheckTick, Idle, Worker
    <3>2. CASE status = "FAILED"
      <4>1. UNCHANGED <<status, by>>
        BY <2>8, <3>2 DEF CheckTick, NoJob
      <4>2. QED
        BY <3>1, <3>2, <4>1
    <3>3. CASE status = "COMPLETE" /\ ~Expired
      <4>1. UNCHANGED <<status, by>> /\ timeout' = timeout + 1
        BY <2>8, <3>3 DEF CheckTick, NoJob, Counted
      <4>2. timeout < Limit
        BY <3>3, MajorAssumption DEF Expired, TypeOK, NodeTypeOK, MajorAssumption
      <4>3. Abs!Tick
        BY <3>1, <3>3, <4>1, <4>2 DEF Abs!Tick
      <4>4. QED
        BY <4>3 DEF Abs!Next
    <3>4. CASE status = "COMPLETE" /\ Expired
      <4>1. status' = "FAILED" /\ timeout' = 0 /\ by' = "check"
        BY <2>8, <3>4 DEF CheckTick, Begin
      <4>2. timeout = Limit
        BY <3>4, MajorAssumption DEF Expired, TypeOK, NodeTypeOK, MajorAssumption
      <4>3. Abs!Expire
        BY <3>1, <3>4, <4>1, <4>2 DEF Abs!Expire
      <4>4. QED
        BY <4>3 DEF Abs!Next
    <3>5. QED
      BY <3>2, <3>3, <3>4 DEF TypeOK, NodeTypeOK
  <2>9. ASSUME NEW w \in Worker, JobStep(w) PROVE [Abs!Next]_(Abs!vars)
    <3>1. phase # "off"
      BY <2>9 DEF ProcInv, JobStep, SwitchLearning, OpenDataFile, SwitchVlan,
           RefreshFdb, SendMain, SendSecond, SendHello
    <3>2. (JobsLost /\ phase' = "off") \/ UNCHANGED <<node, by, phase>>
      BY <2>9 DEF JobStep, SwitchLearning, OpenDataFile, SwitchVlan,
           RefreshFdb, SendMain, SendSecond, SendHello, P!Crash, P!Exit
    <3>3. QED
      BY <3>1, <3>2, <2>same, <2>lost DEF Abs!Next
  <2>10. CASE UNCHANGED vars
    BY <2>10, <2>same DEF vars
  <2>11. QED
    BY <2>1, <2>2, <2>3, <2>4, <2>5, <2>6, <2>7, <2>8, <2>9, <2>10 DEF Next
<1>3. QED
  BY <1>1, <1>2, TypeCorrect, ProcCorrect, PTL DEF Spec, StatusSteps, Abs!Spec

-----------------------------------------------------------------------------
(* One tick of the silence that ends COMPLETE.                              *)

Counting(n) == status = "COMPLETE" /\ timeout = n

\* COMPLETE has ended, or the process has.
Over == status = "FAILED" \/ phase = "off"

\* check_hello_thread makes another round as long as COMPLETE lasts: what the
\* fairness of its rounds and its jobs comes to, without ENABLED.
TicksGoOn == [](<>Over \/ <><<CheckTick>>_vars)

\* Without a hello nothing takes a count back: a step leaves it, or adds one, or
\* ends COMPLETE.
LEMMA SilenceIsKept ==
  ASSUME NEW n \in Nat, Counting(n), [Next]_vars, ~RecvHello
  PROVE  Counting(n)' \/ Counting(n + 1)' \/ status' = "FAILED"
<1> USE DEF Counting, node
<1>1. CASE Boot
  BY <1>1 DEF Boot
<1>2. CASE BootStep \/ SigInt \/ KillStep \/ RecvFails
  BY <1>2 DEF BootStep, SigInt, KillStep, RecvFails, Alongside
<1>3. CASE End
  BY <1>3 DEF End, JobsLost
<1>4. CASE RecvLinkDown \/ RecvLinkUp
  BY <1>4 DEF RecvLinkDown, RecvLinkUp
<1>5. CASE CheckTick
  BY <1>5 DEF CheckTick, Counted
<1>6. CASE HelloTick
  BY <1>6 DEF HelloTick
<1>7. ASSUME NEW w \in Worker, JobStep(w) PROVE UNCHANGED node
  BY <1>7 DEF JobStep, SwitchLearning, OpenDataFile, SwitchVlan, RefreshFdb, SendMain,
              SendSecond, SendHello, JobsLost
<1>8. CASE UNCHANGED vars
  BY <1>8 DEF vars
<1>9. QED
  BY <1>1, <1>2, <1>3, <1>4, <1>5, <1>6, <1>7, <1>8 DEF Next

LEMMA TickCounts ==
  ASSUME NEW n \in Nat, Counting(n), CheckTick
  PROVE  Counting(n + 1)' \/ status' = "FAILED"
BY DEF Counting, CheckTick, Counted

\* From the last hello on, COMPLETE either ends or counts on, from every count, and
\* from the last there is nothing to count on to: neither a job, a frame other than
\* a hello nor the end of the receive thread can hold up or take back the count of
\* check_hello_thread.
THEOREM EachSilentTickCounts ==
  ASSUME NEW n \in Nat
  PROVE  Spec /\ TicksGoOn =>
           []([][~RecvHello]_vars /\ Counting(n)
                => <>(Over \/ (n < Limit /\ Counting(n + 1))))
<1>1. NodeTypeOK' /\ Counting(n + 1)' => n < Limit /\ Counting(n + 1)'
  BY MajorAssumption DEF NodeTypeOK, Counting, MajorAssumption
<1>2. NodeTypeOK' /\ Counting(n) /\ [Next]_vars /\ [~RecvHello]_vars
        => Counting(n)' \/ (n < Limit /\ Counting(n + 1))' \/ Over'
  <2>1. CASE UNCHANGED vars
    BY <2>1 DEF Counting, vars, node
  <2>2. QED
    BY <1>1, <2>1, SilenceIsKept DEF Over
<1>3. NodeTypeOK' /\ Counting(n) /\ <<CheckTick>>_vars
        => (n < Limit /\ Counting(n + 1))' \/ Over'
  BY <1>1, TickCounts DEF Over
<1>4. QED
  BY <1>2, <1>3, NodeTypeCorrect, PTL DEF Spec, TicksGoOn

-----------------------------------------------------------------------------
(* A port that is settled.                                                  *)

LEMMA QuietStays ==
  ASSUME TypeOK, Quiet, UNCHANGED status, [Next]_vars
  PROVE  Quiet'
<1> USE DEF Quiet, Switching
<1>same. ASSUME UNCHANGED stage PROVE Quiet'
  BY <1>same
<1>lost. ASSUME JobsLost PROVE Quiet'
  BY <1>lost DEF JobsLost
<1>1. CASE Boot
  BY <1>1, <1>same DEF Boot, jobs
<1>2. CASE BootStep \/ SigInt \/ KillStep \/ RecvFails
  BY <1>2, <1>same DEF BootStep, SigInt, KillStep, RecvFails, Alongside, jobs
<1>3. CASE End
  BY <1>3, <1>lost DEF End
<1>4. CASE RecvHello \/ CheckTick
  BY <1>4, <1>same DEF RecvHello, CheckTick, NoJob, jobs, TypeOK, NodeTypeOK
<1>5. CASE RecvLinkDown
  BY <1>5 DEF RecvLinkDown
<1>6. CASE RecvLinkUp
  BY <1>6 DEF RecvLinkUp, Begin, FirstStage, TypeOK, NodeTypeOK
<1>7. CASE HelloTick
  BY <1>7, <1>same DEF HelloTick, jobs
<1>8. ASSUME NEW w \in Worker, JobStep(w) PROVE Quiet'
  <2>1. ~(SwitchLearning(w) \/ OpenDataFile(w) \/ SwitchVlan(w))
    BY DEF SwitchLearning, OpenDataFile, SwitchVlan
  <2>2. \E s \in {"main", "second", "hello", "idle"} : Goto(w, s)
    BY <1>8, <2>1 DEF JobStep, RefreshFdb, SendMain, SendSecond, SendHello
  <2>3. QED
    BY <2>2 DEF Goto, TypeOK, NodeTypeOK
<1>9. CASE UNCHANGED vars
  BY <1>9, <1>same DEF vars, jobs
<1>10. QED
  BY <1>1, <1>2, <1>3, <1>4, <1>5, <1>6, <1>7, <1>8, <1>9 DEF Next

\* Once no job switches the second port and the status stays, the port is what the
\* status says from then on: the part of PortSettles that says for good.  No
\* further hello, link-up, tick or failing frame starts another change of the port.
THEOREM SettledPortStays ==
  Spec => /\ [](Quiet /\ [](phase = "up" /\ Undisturbed /\ status = "COMPLETE")
                  => []Blocked)
          /\ [](Quiet /\ [](phase = "up" /\ Undisturbed /\ status = "FAILED")
                  => []Released)
<1>1. ASSUME NEW s \in {"COMPLETE", "FAILED"}
      PROVE  TypeOK /\ Quiet /\ [Next]_vars
               /\ (phase = "up" /\ Undisturbed /\ status = s)
               /\ (phase = "up" /\ Undisturbed /\ status = s)' => Quiet'
  BY QuietStays
<1>2. TypeOK /\ Quiet /\ [Next]_vars
        /\ (phase = "up" /\ Undisturbed /\ status = "COMPLETE")
        /\ (phase = "up" /\ Undisturbed /\ status = "COMPLETE")' => Quiet'
  BY <1>1
<1>3. TypeOK /\ Quiet /\ [Next]_vars
        /\ (phase = "up" /\ Undisturbed /\ status = "FAILED")
        /\ (phase = "up" /\ Undisturbed /\ status = "FAILED")' => Quiet'
  BY <1>1
<1>4. PortFollowsStatus /\ Quiet /\ phase = "up" /\ Undisturbed /\ status = "COMPLETE"
        => Blocked
  BY DEF PortFollowsStatus
<1>5. PortFollowsStatus /\ Quiet /\ phase = "up" /\ Undisturbed /\ status = "FAILED"
        => Released
  BY DEF PortFollowsStatus
<1>6. QED
  BY <1>2, <1>3, <1>4, <1>5, TypeCorrect, SecondPortFollowsStatus, PTL DEF Spec

=============================================================================
