------------------------- MODULE TransportNodeProofs -------------------------
(***************************************************************************)
(* TransportNode for every number of VLANs and every timeout: its types,   *)
(* that it never stays DOWN on a whole ring, that its ports follow the     *)
(* status unless two jobs overlap or a register access fails, that it      *)
(* implements TransportSpec, and what its liveness rests on.               *)
(***************************************************************************)
EXTENDS TransportNode, TLAPS

-----------------------------------------------------------------------------
(* The process.                                                             *)

\* The steps of the main thread between the boot and the exit.
MainSteps == BootStep \/ SigInt \/ KillStep

\* They leave the node alone; the destructor may disturb a job.
Beside == UNCHANGED <<switch, node, links, jobs, by>> /\ calm' \in {calm, "no"}

LEMMA MainStepsGoOn ==
  ASSUME MainSteps
  PROVE  phase # "off" /\ phase' # "off" /\ Beside /\ alive \subseteq alive'
<1>1. phase # "off" /\ phase' # "off" /\ alive \subseteq alive'
  BY DEF MainSteps, BootStep, SigInt, KillStep, P!BootStep, P!KillStp, P!ConfigRegs,
         P!CreateDataFile, P!JoinControlVlans, P!StartThread, P!SigInt, P!Booting,
         P!KillStep, P!LeaveControlVlans, P!RemoveDataFile, Thread, Worker, ThreadOrder
<1>2. CASE SigInt
  BY <1>1, <1>2 DEF SigInt, Overlap, Disturb, Beside
<1>3. CASE BootStep \/ KillStep
  BY <1>1, <1>3 DEF BootStep, KillStep, Alongside, events, Beside
<1>4. QED
  BY <1>1, <1>2, <1>3 DEF MainSteps

LEMMA ProcessEnds == ASSUME P!End \/ P!Crash PROVE phase' = "off" /\ alive' = {}
BY DEF P!End, P!BootFails, P!RestoreStp, P!Crash, P!Exit

\* The node runs a process as NodeProcess describes it.
LEMMA ProcessSteps == Spec => P!Spec
<1>1. Init => P!Init
  BY DEF Init
<1>2. [Next]_vars => [P!Next]_(P!vars)
  <2> SUFFICES ASSUME [Next]_vars PROVE [P!Next]_(P!vars)
    OBVIOUS
  <2> USE DEF process, P!vars
  <2>1. CASE Boot \/ BootStep \/ SigInt \/ KillStep \/ End
    BY <2>1 DEF Boot, BootStep, SigInt, KillStep, End, P!Next, P!Continue
  <2>2. CASE RecvFails
    BY <2>2 DEF RecvFails, P!Next, Thread
  <2>3. CASE DetectRound \/ DetectGoesOn
    BY <2>3 DEF DetectRound, DetectGoesOn, DetectStart, DetectPort, DetectStore,
                DetectSend, JobStep, OpenDataFile, SwitchVlan, P!Next
  <2>4. CASE RecvCommonFlush \/ RecvCompleteFlush
    BY <2>4 DEF RecvCommonFlush, RecvCompleteFlush
  <2>5. CASE CompleteWaits \/ CompleteWakesSpuriously \/ CompleteHandle \/ CheckTick
    BY <2>5 DEF CompleteWaits, CompleteWakesSpuriously, CompleteHandle, CheckTick
  <2>6. ASSUME NEW w \in Opener, OpenerStep(w) PROVE [P!Next]_(P!vars)
    BY <2>6 DEF OpenerStep, ReadPort, JobStep, OpenDataFile, SwitchVlan, RefreshFdb,
                P!Next
  <2>7. CASE UNCHANGED vars
    BY <2>7 DEF vars
  <2>8. QED
    BY <2>1, <2>2, <2>3, <2>4, <2>5, <2>6, <2>7 DEF Next
<1>3. QED
  BY <1>1, <1>2, PTL DEF Spec, P!Spec

\* The threads of a transport node find the data file: see DataFilePresent.
THEOREM DataFileAlwaysPresent == Spec => [](P!TypeOK /\ P!FileOrder /\ DataFilePresent)
<1>1. P!ProcessAssumption
  BY DEF P!ProcessAssumption, Thread, Worker, ThreadOrder
<1>2. P!Spec => [](P!TypeOK /\ P!FileOrder /\ P!DataFilePresent)
  BY <1>1, P!DataFileAlwaysPresent DEF P!ProcessAssumption
<1>3. QED
  BY <1>2, ProcessSteps, PTL DEF DataFilePresent

\* A thread that does not exist has no job.
ThreadInv ==
  /\ stage \in [Worker -> Stage]
  /\ \A w \in Worker : w \notin alive => stage[w] = Asleep[w]

LEMMA ThreadCorrect == Spec => []ThreadInv
<1> USE DEF ThreadInv, Asleep, Stage, Worker
<1>1. Init => ThreadInv
  BY DEF Init
<1>2. ThreadInv /\ [Next]_vars => ThreadInv'
  <2> SUFFICES ASSUME ThreadInv, [Next]_vars PROVE ThreadInv'
    OBVIOUS
  <2> USE DEF process, jobs
  <2>lost. ASSUME JobsLost PROVE ThreadInv'
    BY <2>lost DEF JobsLost
  \* A step of a thread that exists, or has a job.
  <2>step. ASSUME NEW w \in Worker, NEW s \in Stage, Goto(w, s), UNCHANGED alive,
                  w \in alive \/ stage[w] # Asleep[w]
           PROVE  ThreadInv'
    BY <2>step DEF Goto
  <2>same. ASSUME UNCHANGED <<stage, alive>> PROVE ThreadInv'
    BY <2>same
  <2>1. CASE Boot
    BY <2>1 DEF Boot, P!Boot
  <2>2. CASE MainSteps
    BY <2>2, MainStepsGoOn DEF Beside
  <2>3. CASE End
    BY <2>3, <2>lost DEF End
  <2>4. CASE RecvFails
    BY <2>4 DEF RecvFails, P!ThreadReturns, Alongside
  <2>5. CASE RecvCommonFlush
    BY <2>5, <2>same DEF RecvCommonFlush
  <2>6. CASE DetectRound \/ DetectStart \/ DetectStore
    BY <2>6, <2>step DEF DetectRound, DetectStart, DetectStore, At
  <2>7. ASSUME NEW p \in Port, DetectPort(p) PROVE ThreadInv'
    BY <2>7, <2>step DEF DetectPort, Begin, AfterPort, At, Port
  <2>8. CASE DetectSend
    BY <2>8, <2>step DEF DetectSend, Finish, AfterPort
  <2>9. ASSUME NEW w \in Worker, JobStep(w) PROVE ThreadInv'
    <3>1. CASE OpenDataFile(w)
      BY <3>1, <2>lost, <2>step DEF OpenDataFile
    <3>2. CASE SwitchVlan(w)
      BY <3>2, <2>same, <2>step DEF SwitchVlan, AfterVlans
    <3>3. QED
      BY <2>9, <3>1, <3>2 DEF JobStep
  <2>10. CASE RecvCompleteFlush \/ CompleteWaits \/ CompleteWakesSpuriously
    BY <2>10, <2>step DEF RecvCompleteFlush, CompleteWaits, CompleteWakesSpuriously, At
  <2>11. CASE CompleteHandle
    BY <2>11, <2>step DEF CompleteHandle, Open, At
  <2>12. CASE CheckTick
    BY <2>12, <2>step, <2>same DEF CheckTick, Open, At
  <2>13. ASSUME NEW w \in Opener, ReadPort(w) \/ RefreshFdb(w) PROVE ThreadInv'
    BY <2>13, <2>step DEF ReadPort, RefreshFdb, Begin, Finish, Opener
  <2>14. CASE UNCHANGED vars
    BY <2>14, <2>same DEF vars
  <2>15. Opener \subseteq Worker
    BY DEF Opener
  <2>16. QED
    BY <2>1, <2>2, <2>3, <2>4, <2>5, <2>6, <2>7, <2>8, <2>9, <2>10, <2>11, <2>12, <2>13,
       <2>14, <2>15 DEF Next, MainSteps, DetectGoesOn, OpenerStep
<1>3. QED
  BY <1>1, <1>2, PTL DEF Spec

\* So a thread with a job is proof of a process.
ProcInv == \A w \in Worker : w \in alive \/ stage[w] # Asleep[w] => phase # "off"

LEMMA ProcCorrect == Spec => []ProcInv
<1>1. ThreadInv /\ P!FileOrder => ProcInv
  BY DEF ThreadInv, P!FileOrder, ProcInv
<1>2. QED
  BY <1>1, ThreadCorrect, DataFileAlwaysPresent, PTL

-----------------------------------------------------------------------------
(* Types.                                                                   *)

\* A port to open is known from the start of PREFORWARDING on.
PreInv ==
  /\ status = "PREFORWARDING" => preport # "none"
  /\ \A w \in Opener : stage[w] = "which" => preport # "none"

LEMMA NodeTypeCorrect == Spec => [](NodeTypeOK /\ PreInv)
<1> USE DEF TransportAssumption, NodeTypeOK, PreInv, Opener, Entry, Port
<1>1. Init => NodeTypeOK /\ PreInv
  BY TransportAssumption DEF Init, Asleep, NoPort, NoEntry, Worker, Stage
<1>2. ThreadInv /\ ThreadInv' /\ P!FileOrder /\ NodeTypeOK /\ PreInv /\ [Next]_vars
        => (NodeTypeOK /\ PreInv)'
  <2> SUFFICES ASSUME ThreadInv, ThreadInv', P!FileOrder, NodeTypeOK, PreInv, [Next]_vars
               PROVE  (NodeTypeOK /\ PreInv)'
    OBVIOUS
  <2> USE DEF ThreadInv, Worker, node, links, jobs, switch, events
  <2>lost. ASSUME JobsLost PROVE (NodeTypeOK /\ PreInv)'
    BY <2>lost, TransportAssumption DEF JobsLost, Asleep, NoPort, NoEntry
  <2>1. CASE Boot
    <3>1. /\ status' = "UP" /\ preport' = "none" /\ timeout' = 0
          /\ seen' = {} /\ now' = {} /\ by' = "none" /\ calm' \in {"yes", "no"}
          /\ UNCHANGED <<switch, jobs>>
      BY <2>1 DEF Boot
    <3>2. \A w \in Worker : stage[w] = Asleep[w]
      BY <2>1 DEF Boot, P!Boot, P!FileOrder
    <3>3. QED
      BY <3>1, <3>2, TransportAssumption DEF Asleep
  <2>2. CASE MainSteps \/ RecvFails
    BY <2>2, MainStepsGoOn DEF Beside, Alongside, RecvFails
  <2>3. CASE End
    BY <2>3, <2>lost DEF End
  <2>4. CASE RecvCommonFlush
    BY <2>4 DEF RecvCommonFlush
  <2>5. CASE DetectStart
    BY <2>5 DEF DetectStart, Goto, At
  <2>6. CASE DetectRound \/ DetectStore
    <3>1. CASE DetectRound
      BY <3>1 DEF DetectRound, Goto, At
    <3>2. CASE DetectStore
      BY <3>2 DEF DetectStore, Goto, At
    <3>3. QED
      BY <2>6, <3>1, <3>2
  <2>7. ASSUME NEW p \in Port, DetectPort(p) PROVE (NodeTypeOK /\ PreInv)'
    <3>1. /\ port' \in [Worker -> Port] /\ calm' \in {"yes", "no"}
          /\ status' \in {"UP", "DOWN", "PREFORWARDING"}
          /\ preport' \in Port \union {"none"} /\ by' \in Worker \union {"none"}
          /\ UNCHANGED <<next, timeout, links, switch>>
      BY <2>7 DEF DetectPort, Begin, Overlap, Disturb
    <3>2. UNCHANGED <<status, preport>> \/ preport' = p
          \/ (status' = "DOWN" /\ UNCHANGED preport)
      BY <2>7 DEF DetectPort
    <3>3. \A w \in Opener : stage'[w] = stage[w]
      BY <2>7 DEF DetectPort, Begin, Goto
    <3>4. QED
      BY <3>1, <3>2, <3>3
  <2>8. CASE DetectSend
    BY <2>8, TransportAssumption DEF DetectSend, Finish, Goto
  <2>9. ASSUME NEW w \in Worker, JobStep(w) PROVE (NodeTypeOK /\ PreInv)'
    <3>1. CASE P!Crash /\ JobsLost
      BY <3>1, <2>lost
    <3>2. CASE OpenDataFile(w) /\ ~(P!Crash /\ JobsLost)
      <4>1. UNCHANGED <<port, next, links, events, switch, node>>
        BY <3>2 DEF OpenDataFile
      <4>2. stage' = [stage EXCEPT ![w] = "vlan"]
        BY <3>2 DEF OpenDataFile, Goto
      <4>3. \A v \in Worker : stage'[v] \in {stage[v], "vlan"}
        BY <4>2
      <4>4. NodeTypeOK'
        BY <4>1
      <4>5. PreInv'
        BY <4>1, <4>3
      <4>6. QED
        BY <4>4, <4>5
    <3>3. CASE SwitchVlan(w)
      <4>1. \/ UNCHANGED <<switch, next>>
            \/ /\ next[w] \in Entry
               /\ next' = [next EXCEPT ![w] = @ + 1]
               /\ \/ member' = [member EXCEPT ![port[w]] = @ \union {next[w]}]
                  \/ member' = [member EXCEPT ![port[w]] = @ \ {next[w]}]
               /\ fdb' \in {"clean", "stale", "failed"}
        BY <3>3 DEF SwitchVlan, MoreEntries
      <4>2. next' \in [Worker -> 1..Vlans + 1]
        <5>1. next[w] \in Entry => next[w] + 1 \in 1..Vlans + 1
          BY TransportAssumption
        <5>2. QED
          BY <4>1, <5>1
      <4>3. member' \in [Port -> SUBSET Entry] /\ fdb' \in {"clean", "stale", "failed"}
        BY <4>1
      <4>4. /\ UNCHANGED <<port, by, links, node>> /\ calm' \in {"yes", "no"}
            /\ \A u \in Opener : stage'[u] = "which" => stage[u] = "which"
        BY <3>3 DEF SwitchVlan, Disturb, Goto, AfterVlans
      <4>5. NodeTypeOK'
        <5>1. UNCHANGED stage \/ Goto(w, AfterVlans(w))
          BY <3>3 DEF SwitchVlan
        <5>2. AfterVlans(w) \in Stage
          BY DEF AfterVlans, Stage
        <5>3. stage' \in [Worker -> Stage]
          BY <5>1, <5>2 DEF Goto
        <5>4. UNCHANGED <<port, by>> /\ UNCHANGED <<status, preport, timeout, seen, now>>
          BY <4>4
        <5>5. QED
          BY <4>2, <4>3, <4>4, <5>3, <5>4
      <4>6. PreInv'
        BY <4>4
      <4>7. QED
        BY <4>5, <4>6
    <3>4. QED
      BY <2>9, <3>1, <3>2, <3>3 DEF JobStep, OpenDataFile
  <2>10. CASE RecvCompleteFlush \/ CompleteWaits \/ CompleteWakesSpuriously
    <3>1. CASE RecvCompleteFlush
      BY <3>1 DEF RecvCompleteFlush, At, Goto
    <3>2. CASE CompleteWaits
      BY <3>2 DEF CompleteWaits, At, Goto
    <3>3. CASE CompleteWakesSpuriously
      BY <3>3 DEF CompleteWakesSpuriously, At, Goto
    <3>4. QED
      BY <2>10, <3>1, <3>2, <3>3
  <2>11. CASE CompleteHandle
    BY <2>11, TransportAssumption
       DEF CompleteHandle, MayOpen, Open, Overlap, Disturb, At, Goto
  <2>12. CASE CheckTick
    <3>1. /\ UNCHANGED <<preport, port, next, links, switch>>
          /\ status' \in {status, "UP"} /\ calm' \in {"yes", "no"}
          /\ by' \in Worker \union {"none"}
          /\ UNCHANGED stage \/ (status = "PREFORWARDING" /\ Goto("check", "which"))
      BY <2>12 DEF CheckTick, MayOpen, Open, Overlap, Disturb
    <3>2. timeout' = 0 \/ (timeout' = timeout + 1 /\ ~(timeout >= Limit))
      BY <2>12 DEF CheckTick, Expired, Counted
    <3>3. timeout' \in 0..Limit
      BY <3>2, TransportAssumption
    <3>4. PreInv'
      BY <3>1 DEF Goto
    <3>5. QED
      BY <3>1, <3>3, <3>4
  <2>13. ASSUME NEW w \in Opener, ReadPort(w) \/ RefreshFdb(w)
         PROVE  (NodeTypeOK /\ PreInv)'
    <3>1. CASE ReadPort(w)
      <4>1. /\ preport \in Port /\ port' = [port EXCEPT ![w] = preport]
            /\ UNCHANGED <<next, links, events, switch, node>>
            /\ \A u \in Opener : stage'[u] = "which" => stage[u] = "which"
        BY <3>1 DEF ReadPort, ToOpen, Begin, Goto
      <4>2. QED
        BY <4>1
    <3>2. CASE RefreshFdb(w)
      BY <3>2, TransportAssumption DEF RefreshFdb, Finish, Goto
    <3>3. QED
      BY <2>13, <3>1, <3>2
  <2>14. CASE UNCHANGED vars
    BY <2>14 DEF vars
  <2>15. QED
    BY <2>1, <2>2, <2>3, <2>4, <2>5, <2>6, <2>7, <2>8, <2>9, <2>10, <2>11, <2>12, <2>13,
       <2>14 DEF Next, MainSteps, DetectGoesOn, OpenerStep
<1>3. QED
  BY <1>1, <1>2, ThreadCorrect, DataFileAlwaysPresent, PTL DEF Spec

\* Every variable keeps its type: recv_complete_timeout never exceeds Limit, no
\* loop runs past the end of the data file, and the port that is opened is
\* always one of the two ring ports, never the port number 0 of a fresh node.
THEOREM TypeCorrect == Spec => []TypeOK
<1>1. QED
  BY NodeTypeCorrect, DataFileAlwaysPresent, PTL DEF TypeOK
-----------------------------------------------------------------------------
(* The status.                                                              *)

\* Where detect is in a round that ends in DOWN: some link was down before the
\* round, or is down in it; at the second port, its link is new if all are up.
DetectInv ==
  /\ stage["detect"] \in {"idle", "main"} /\ status = "DOWN" => seen # Port
  /\ stage["detect"] = "second" /\ status = "DOWN" => now # Port \/ "second" \notin seen
  /\ stage["detect"] \in {"store", "linkdown"} /\ status = "DOWN" => now # Port
  /\ stage["detect"] \in {"open", "vlan", "linkup"} => status # "DOWN"

LEMMA DetectCorrect == Spec => []DetectInv
<1> USE DEF DetectInv, Port
<1>1. Init => DetectInv
  BY DEF Init
<1>2. ThreadInv /\ NodeTypeOK /\ DetectInv /\ [Next]_vars => DetectInv'
  <2> SUFFICES ASSUME ThreadInv, NodeTypeOK, DetectInv, [Next]_vars PROVE DetectInv'
    OBVIOUS
  <2> USE DEF ThreadInv, NodeTypeOK, Worker, Opener, node, links, jobs
  \* Only detect sets DOWN and changes what it knows of the links.
  <2>others. ASSUME UNCHANGED links, stage'["detect"] = stage["detect"],
                    status' \in {status, "UP"}
             PROVE  DetectInv'
    BY <2>others
  <2>lost. ASSUME JobsLost PROVE DetectInv'
    BY <2>lost DEF JobsLost, Asleep
  <2>1. CASE Boot
    BY <2>1 DEF Boot
  <2>2. CASE MainSteps \/ RecvFails
    BY <2>2, <2>others, MainStepsGoOn DEF Beside, RecvFails, Alongside
  <2>3. CASE End
    BY <2>3, <2>lost DEF End
  <2>4. CASE RecvCommonFlush
    BY <2>4, <2>others DEF RecvCommonFlush
  <2>5. CASE DetectStart
    BY <2>5 DEF DetectStart, Goto
  <2>6. CASE DetectRound
    BY <2>6 DEF DetectRound, At, Goto
  <2>7. CASE DetectStore
    BY <2>7 DEF DetectStore, At, Goto
  <2>8. ASSUME NEW p \in Port, DetectPort(p) PROVE DetectInv'
    <3>1. stage["detect"] = p /\ UNCHANGED links
      BY <2>8 DEF DetectPort, At
    <3>2. CASE status' = "PREFORWARDING" /\ Goto("detect", "open")
      BY <3>2 DEF Goto
    <3>3. CASE p \notin now /\ Goto("detect", "linkdown")
      BY <3>1, <3>3 DEF Goto
    <3>4. CASE /\ UNCHANGED status /\ Goto("detect", AfterPort(p))
               /\ \/ (p \in now) = (p \in seen)
                  \/ p \in now /\ ~(status = "DOWN" /\ BothUp(p))
                  \/ p \notin now /\ status # "UP"
      <4>1. stage'["detect"] = AfterPort(p)
        BY <3>4 DEF Goto
      <4>2. CASE (p \in now) = (p \in seen)
        BY <3>1, <3>4, <4>1, <4>2 DEF AfterPort
      <4>3. CASE p \in now /\ ~(status = "DOWN" /\ BothUp(p))
        BY <3>1, <3>4, <4>1, <4>3 DEF AfterPort, BothUp, Couple
      <4>4. CASE p \notin now /\ status # "UP"
        BY <3>1, <3>4, <4>1, <4>4 DEF AfterPort
      <4>5. QED
        BY <3>4, <4>2, <4>3, <4>4
    <3>5. QED
      BY <2>8, <3>2, <3>3, <3>4 DEF DetectPort, Begin
  <2>9. CASE DetectSend
    BY <2>9 DEF DetectSend, Finish, AfterPort, Goto
  <2>10. ASSUME NEW w \in Worker, JobStep(w) PROVE DetectInv'
    <3>1. CASE P!Crash /\ JobsLost
      BY <3>1, <2>lost
    <3>2. CASE OpenDataFile(w) /\ ~(P!Crash /\ JobsLost)
      BY <3>2 DEF OpenDataFile, Goto
    <3>3. CASE SwitchVlan(w)
      BY <3>3 DEF SwitchVlan, AfterVlans, Goto
    <3>4. QED
      BY <2>10, <3>1, <3>2, <3>3 DEF JobStep, OpenDataFile
  <2>11. CASE RecvCompleteFlush \/ CompleteWaits \/ CompleteWakesSpuriously
    BY <2>11, <2>others DEF RecvCompleteFlush, CompleteWaits, CompleteWakesSpuriously, Goto
  <2>12. CASE CompleteHandle
    BY <2>12, <2>others DEF CompleteHandle, Open, Goto
  <2>13. CASE CheckTick
    BY <2>13, <2>others DEF CheckTick, Open, Goto
  <2>14. ASSUME NEW w \in Opener, ReadPort(w) \/ RefreshFdb(w) PROVE DetectInv'
    BY <2>14, <2>others DEF ReadPort, RefreshFdb, Begin, Finish, Goto
  <2>15. CASE UNCHANGED vars
    BY <2>15, <2>others DEF vars
  <2>16. QED
    BY <2>1, <2>2, <2>3, <2>4, <2>5, <2>6, <2>7, <2>8, <2>9, <2>10, <2>11, <2>12, <2>13,
       <2>14, <2>15 DEF Next, MainSteps, DetectGoesOn, OpenerStep
<1>3. QED
  BY <1>1, <1>2, ThreadCorrect, NodeTypeCorrect, PTL DEF Spec

\* Whatever order links and threads change in, detect acts on every change that
\* matters: a node that stays DOWN knows a link that is down.
THEOREM NeverStuckDown == Spec => []NotStuckDown
<1>1. DetectInv => NotStuckDown
  BY DEF DetectInv, NotStuckDown
<1>2. QED
  BY <1>1, DetectCorrect, PTL

\* While there is a process: detect has set the status exactly if it has started,
\* and the count is zero outside PREFORWARDING.
StatusInv ==
  phase # "off" =>
    /\ stage["detect"] = "start" => status = "UP" /\ by = "none"
    /\ stage["detect"] # "start" => by # "none"
    /\ status # "PREFORWARDING" => timeout = 0

LEMMA StatusCorrect == Spec => []StatusInv
<1> USE DEF StatusInv
<1>1. Init => StatusInv
  BY DEF Init, P!Init
<1>2. ThreadInv /\ ProcInv /\ P!FileOrder /\ NodeTypeOK /\ StatusInv /\ [Next]_vars
        => StatusInv'
  <2> SUFFICES ASSUME ThreadInv, ProcInv, P!FileOrder, NodeTypeOK, StatusInv, [Next]_vars
               PROVE  StatusInv'
    OBVIOUS
  <2> USE DEF ThreadInv, ProcInv, NodeTypeOK, Worker, Opener, node, process, jobs, events, Port
  <2>same. ASSUME UNCHANGED <<phase, status, by, timeout>>,
                  stage'["detect"] = "start" <=> stage["detect"] = "start"
           PROVE  StatusInv'
    BY <2>same
  <2>lost. ASSUME phase' = "off" PROVE StatusInv'
    BY <2>lost
  <2>1. CASE Boot
    BY <2>1 DEF Boot, P!Boot, P!FileOrder, Asleep
  <2>2. CASE MainSteps
    BY <2>2, MainStepsGoOn DEF Beside
  <2>3. CASE RecvFails
    BY <2>3 DEF RecvFails, Alongside, P!ThreadReturns
  <2>4. CASE End
    BY <2>4, <2>lost, ProcessEnds DEF End
  <2>5. CASE RecvCommonFlush
    BY <2>5, <2>same DEF RecvCommonFlush
  <2>6. CASE DetectStart
    BY <2>6 DEF DetectStart, At, Goto
  <2>7. CASE DetectRound \/ DetectStore
    BY <2>7, <2>same DEF DetectRound, DetectStore, At, Goto
  <2>8. ASSUME NEW p \in Port, DetectPort(p) PROVE StatusInv'
    <3>1. /\ stage["detect"] = p /\ UNCHANGED <<phase, timeout>>
          /\ \/ UNCHANGED <<status, by>>
             \/ by' = "detect" /\ status # "PREFORWARDING"
          /\ \E s \in {"open", "linkdown", "second", "store"} : Goto("detect", s)
      BY <2>8 DEF DetectPort, Begin, At, AfterPort
    <3>2. QED
      BY <3>1 DEF Goto
  <2>9. CASE DetectSend
    BY <2>9, <2>same DEF DetectSend, Finish, AfterPort, Goto
  <2>10. ASSUME NEW w \in Worker, JobStep(w) PROVE StatusInv'
    <3>1. CASE P!Crash /\ JobsLost
      BY <3>1, <2>lost, ProcessEnds
    <3>2. CASE OpenDataFile(w) /\ ~(P!Crash /\ JobsLost)
      BY <3>2, <2>same DEF OpenDataFile, Goto
    <3>3. CASE SwitchVlan(w)
      BY <3>3, <2>same DEF SwitchVlan, AfterVlans, Goto
    <3>4. QED
      BY <2>10, <3>1, <3>2, <3>3 DEF JobStep, OpenDataFile
  <2>11. CASE RecvCompleteFlush \/ CompleteWaits \/ CompleteWakesSpuriously
    BY <2>11, <2>same DEF RecvCompleteFlush, CompleteWaits, CompleteWakesSpuriously, Goto
  <2>12. CASE CompleteHandle
    <3>1. /\ stage'["detect"] = stage["detect"] /\ UNCHANGED phase /\ timeout' = 0
          /\ \/ UNCHANGED <<status, by>>
             \/ by' = "complete" /\ status = "PREFORWARDING"
      BY <2>12 DEF CompleteHandle, Open, MayOpen, Goto
    <3>2. QED
      BY <3>1
  <2>13. CASE CheckTick
    <3>1. /\ stage'["detect"] = stage["detect"] /\ UNCHANGED phase
          /\ \/ UNCHANGED <<status, by>> /\ (timeout' = 0 \/ status = "PREFORWARDING")
             \/ by' = "check" /\ status = "PREFORWARDING" /\ timeout' = 0
      BY <2>13 DEF CheckTick, Open, MayOpen, Goto
    <3>2. QED
      BY <3>1
  <2>14. ASSUME NEW w \in Opener, ReadPort(w) \/ RefreshFdb(w) PROVE StatusInv'
    BY <2>14, <2>same DEF ReadPort, RefreshFdb, Begin, Finish, Goto
  <2>15. CASE UNCHANGED vars
    BY <2>15, <2>same DEF vars
  <2>16. QED
    BY <2>1, <2>2, <2>3, <2>4, <2>5, <2>6, <2>7, <2>8, <2>9, <2>10, <2>11, <2>12, <2>13,
       <2>14, <2>15 DEF Next, MainSteps, DetectGoesOn, OpenerStep
<1>3. QED
  BY <1>1, <1>2, ThreadCorrect, ProcCorrect, DataFileAlwaysPresent, NodeTypeCorrect, PTL DEF Spec

\* The critical sections of the threads are the steps of TransportSpec, whatever
\* jobs, signals and failures come between them.
THEOREM TransportImplementsStatusMachine == Spec => StatusSteps
<1> USE DEF Abs!vars, Port
<1>1. Init => Abs!Init
  BY DEF Init, P!Init, Abs!Init, Abs!Fresh
<1>2. NodeTypeOK /\ ProcInv /\ StatusInv /\ [Next]_vars => [Abs!Next]_(Abs!vars)
  <2> SUFFICES ASSUME NodeTypeOK, ProcInv, StatusInv, [Next]_vars
               PROVE  [Abs!Next]_(Abs!vars)
    OBVIOUS
  <2> USE DEF process, node, events, NodeTypeOK
  <2>same. ASSUME UNCHANGED <<node, by>>, (phase' # "off") = (phase # "off")
           PROVE UNCHANGED Abs!vars
    BY <2>same
  <2>lost. ASSUME JobsLost, phase' = "off", phase # "off" PROVE Abs!Next
    BY <2>lost DEF JobsLost, Abs!Stop, Abs!Next
  <2>runs. ASSUME NEW w \in Worker, w \in alive \/ stage[w] # Asleep[w] PROVE phase # "off"
    BY <2>runs DEF ProcInv
  <2>1. CASE Boot
    <3>1. Abs!Start
      BY <2>1 DEF Boot, P!Boot, Abs!Start, Abs!Fresh
    <3>2. QED
      BY <3>1 DEF Abs!Next
  <2>2. CASE MainSteps
    BY <2>2, <2>same, MainStepsGoOn DEF Beside
  <2>3. CASE RecvFails
    BY <2>3, <2>same DEF RecvFails, P!ThreadReturns, Alongside
  <2>4. CASE End
    <3>1. phase # "off"
      BY <2>4 DEF End, P!End, P!BootFails, P!Booting, P!RestoreStp, Thread, Worker
    <3>2. QED
      BY <2>4, <3>1, <2>lost, ProcessEnds DEF End
  <2>5. CASE RecvCommonFlush \/ RecvCompleteFlush \/ CompleteWaits \/ CompleteWakesSpuriously
    BY <2>5, <2>same DEF RecvCommonFlush, RecvCompleteFlush, CompleteWaits,
                         CompleteWakesSpuriously
  <2>6. CASE DetectStart
    <3>1. /\ phase # "off" /\ UNCHANGED <<phase, preport, timeout>>
          /\ by = "none" /\ by' = "detect" /\ status' \in {"UP", "DOWN"}
      BY <2>6, <2>runs DEF DetectStart, At, StatusInv, Worker
    <3>2. Abs!Look
      BY <3>1 DEF Abs!Look
    <3>3. QED
      BY <3>2 DEF Abs!Next
  <2>7. CASE DetectRound \/ DetectStore \/ DetectSend
    BY <2>7, <2>same DEF DetectRound, DetectStore, DetectSend
  <2>8. ASSUME NEW p \in Port, DetectPort(p) PROVE [Abs!Next]_(Abs!vars)
    <3>1. phase # "off" /\ UNCHANGED <<phase, timeout>> /\ by # "none"
      BY <2>8, <2>runs DEF DetectPort, At, StatusInv, Worker
    <3>2. CASE UNCHANGED <<status, preport, by>>
      BY <3>1, <3>2
    <3>3. CASE status = "DOWN" /\ status' = "PREFORWARDING" /\ preport' = p /\ by' = "detect"
      <4>1. Abs!LinkBack(p)
        BY <3>1, <3>3 DEF Abs!LinkBack
      <4>2. QED
        BY <4>1 DEF Abs!Next
    <3>4. CASE status = "UP" /\ status' = "DOWN" /\ UNCHANGED preport /\ by' = "detect"
      <4>1. Abs!LinkDown
        BY <3>1, <3>4 DEF Abs!LinkDown
      <4>2. QED
        BY <4>1 DEF Abs!Next
    <3>5. QED
      BY <2>8, <3>2, <3>3, <3>4 DEF DetectPort
  <2>9. CASE CompleteHandle
    <3>1. phase # "off" /\ UNCHANGED <<phase, preport>> /\ timeout' = 0
      BY <2>9, <2>runs DEF CompleteHandle, At, Worker
    <3>2. CASE status = "PREFORWARDING" /\ status' = "UP" /\ by' = "complete"
      <4>1. Abs!Complete
        BY <3>1, <3>2 DEF Abs!Complete
      <4>2. QED
        BY <4>1 DEF Abs!Next
    <3>3. CASE status # "PREFORWARDING" /\ UNCHANGED <<status, by>>
      BY <3>1, <3>3 DEF StatusInv
    <3>4. QED
      BY <2>9, <3>2, <3>3 DEF CompleteHandle, MayOpen, Open
  <2>10. CASE CheckTick
    <3>1. phase # "off" /\ UNCHANGED <<phase, preport>>
      BY <2>10, <2>runs DEF CheckTick, At, Worker
    <3>2. CASE status = "PREFORWARDING" /\ ~Expired
      <4>1. UNCHANGED <<status, by>> /\ timeout' = timeout + 1
        BY <2>10, <3>2 DEF CheckTick, MayOpen, Counted
      <4>2. timeout < Limit
        BY <3>2, TransportAssumption DEF Expired, TransportAssumption
      <4>3. Abs!Tick
        BY <3>1, <3>2, <4>1, <4>2 DEF Abs!Tick
      <4>4. QED
        BY <4>3 DEF Abs!Next
    <3>3. CASE status = "PREFORWARDING" /\ Expired
      <4>1. status' = "UP" /\ timeout' = 0 /\ by' = "check"
        BY <2>10, <3>3 DEF CheckTick, MayOpen, Open
      <4>2. timeout = Limit
        BY <3>3, TransportAssumption DEF Expired, TransportAssumption
      <4>3. Abs!Expire
        BY <3>1, <3>3, <4>1, <4>2 DEF Abs!Expire
      <4>4. QED
        BY <4>3 DEF Abs!Next
    <3>4. CASE status # "PREFORWARDING"
      <4>1. UNCHANGED <<status, by>> /\ timeout' = 0
        BY <2>10, <3>4 DEF CheckTick, MayOpen
      <4>2. QED
        BY <3>1, <3>4, <4>1 DEF StatusInv
    <3>5. QED
      BY <3>2, <3>3, <3>4
  <2>11. ASSUME NEW w \in Worker, JobStep(w) PROVE [Abs!Next]_(Abs!vars)
    <3>1. phase # "off"
      <4>1. stage[w] \in {"open", "vlan"}
        BY <2>11 DEF JobStep, OpenDataFile, SwitchVlan
      <4>2. QED
        BY <4>1, <2>runs DEF Asleep
    <3>2. (JobsLost /\ phase' = "off") \/ UNCHANGED <<node, by, phase>>
      BY <2>11 DEF JobStep, OpenDataFile, SwitchVlan, P!Crash, P!Exit
    <3>3. QED
      BY <3>1, <3>2, <2>same, <2>lost
  <2>12. ASSUME NEW w \in Opener, ReadPort(w) \/ RefreshFdb(w) PROVE [Abs!Next]_(Abs!vars)
    BY <2>12, <2>same DEF ReadPort, RefreshFdb
  <2>13. CASE UNCHANGED vars
    BY <2>13, <2>same DEF vars
  <2>14. Opener \subseteq Worker /\ "detect" \in Worker
    BY DEF Opener, Worker
  <2>15. QED
    BY <2>1, <2>2, <2>3, <2>4, <2>5, <2>6, <2>7, <2>8, <2>9, <2>10, <2>11, <2>12, <2>13,
       <2>14 DEF Next, MainSteps, DetectGoesOn, OpenerStep
<1>3. QED
  BY <1>1, <1>2, NodeTypeCorrect, ProcCorrect, StatusCorrect, PTL
     DEF Spec, StatusSteps, Abs!Spec
-----------------------------------------------------------------------------
(* The ports follow the status.                                             *)

\* Every worker keeps to its own stages, a loop over the data file starts at its
\* first entry, and detect's job is about the port of PREFORWARDING.
JobInv ==
  /\ \A w \in Worker : stage[w] \notin {"vlan", "refresh", "linkup"} => next[w] = 1
  /\ stage["detect"] \notin {"which", "wait", "woken", "refresh"}
  /\ \A w \in Opener :
       stage[w] \in {"idle", "wait", "woken", "which", "open", "vlan", "refresh"}
  /\ stage["detect"] \in {"open", "vlan", "linkup"} => port["detect"] = preport

LEMMA JobCorrect == Spec => []JobInv
<1> USE DEF JobInv, Worker, Opener
<1>1. Init => JobInv
  BY DEF Init, Asleep, NoEntry
<1>2. ThreadInv /\ P!FileOrder /\ NodeTypeOK /\ JobInv /\ [Next]_vars => JobInv'
  <2> SUFFICES ASSUME ThreadInv, P!FileOrder, NodeTypeOK, JobInv, [Next]_vars PROVE JobInv'
    OBVIOUS
  <2> USE DEF ThreadInv, NodeTypeOK, node, jobs
  <2>same. ASSUME UNCHANGED <<jobs, preport>> PROVE JobInv'
    BY <2>same
  <2>lost. ASSUME JobsLost PROVE JobInv'
    BY <2>lost DEF JobsLost, Asleep, NoEntry
  <2>1. CASE Boot
    BY <2>1 DEF Boot, P!Boot, P!FileOrder, Asleep
  <2>2. CASE MainSteps \/ RecvFails
    BY <2>2, <2>same, MainStepsGoOn DEF Beside, RecvFails, Alongside
  <2>3. CASE End
    BY <2>3, <2>lost DEF End
  <2>4. CASE RecvCommonFlush
    BY <2>4, <2>same DEF RecvCommonFlush
  <2>5. CASE DetectStart \/ DetectRound \/ DetectStore
    BY <2>5 DEF DetectStart, DetectRound, DetectStore, At, Goto
  <2>6. ASSUME NEW p \in Port, DetectPort(p) PROVE JobInv'
    <3>1. stage["detect"] = p /\ p \in {"main", "second"} /\ UNCHANGED next
      BY <2>6 DEF DetectPort, Begin, At, Port
    <3>2. \/ Begin("detect", "open", p) /\ preport' = p
          \/ Begin("detect", "linkdown", p)
          \/ Goto("detect", AfterPort(p))
      BY <2>6 DEF DetectPort
    <3>3. QED
      BY <3>1, <3>2 DEF Begin, Goto, AfterPort
  <2>7. CASE DetectSend
    BY <2>7 DEF DetectSend, Finish, AfterPort, Goto
  <2>8. ASSUME NEW w \in Worker, JobStep(w) PROVE JobInv'
    <3>1. CASE P!Crash /\ JobsLost
      BY <3>1, <2>lost
    <3>2. CASE OpenDataFile(w) /\ ~(P!Crash /\ JobsLost)
      BY <3>2 DEF OpenDataFile, Goto
    <3>3. CASE SwitchVlan(w)
      <4>1. /\ stage[w] = "vlan" /\ UNCHANGED <<port, preport>>
            /\ \/ UNCHANGED stage /\ next' = [next EXCEPT ![w] = @ + 1]
               \/ UNCHANGED next /\ Goto(w, AfterVlans(w))
        BY <3>3 DEF SwitchVlan
      <4>2. QED
        BY <4>1 DEF Goto, AfterVlans
    <3>4. QED
      BY <2>8, <3>1, <3>2, <3>3 DEF JobStep, OpenDataFile
  <2>9. CASE RecvCompleteFlush \/ CompleteWaits \/ CompleteWakesSpuriously
    BY <2>9 DEF RecvCompleteFlush, CompleteWaits, CompleteWakesSpuriously, At, Goto
  <2>10. CASE CompleteHandle
    BY <2>10 DEF CompleteHandle, Open, At, Goto
  <2>11. CASE CheckTick
    BY <2>11 DEF CheckTick, Open, At, Goto
  <2>12. ASSUME NEW w \in Opener, ReadPort(w) PROVE JobInv'
    BY <2>12 DEF ReadPort, Begin, Goto
  <2>13. ASSUME NEW w \in Opener, RefreshFdb(w) PROVE JobInv'
    BY <2>13 DEF RefreshFdb, Finish, Goto
  <2>14. CASE UNCHANGED vars
    BY <2>14, <2>same DEF vars
  <2>15. QED
    BY <2>1, <2>2, <2>3, <2>4, <2>5, <2>6, <2>7, <2>8, <2>9, <2>10, <2>11, <2>12, <2>13,
       <2>14 DEF Next, MainSteps, DetectGoesOn, OpenerStep
<1>3. QED
  BY <1>1, <1>2, ThreadCorrect, DataFileAlwaysPresent, NodeTypeCorrect, PTL DEF Spec

\* What worker w's job has done so far to the port of PREFORWARDING.
Progress(w) ==
  /\ \A u \in Worker \ {w} : ~Switching(u)
  /\ \A p \in Port \ {preport} : Forwards(p)
  /\ w = "detect" => status = "PREFORWARDING"
  /\ w # "detect" => status = "DOWN" \/ (status = "UP" /\ by = w)
  /\ stage[w] # "which" => port[w] = preport
  /\ stage[w] = "vlan" =>
       \A v \in 1..next[w] - 1 : v \in member[preport] <=> w # "detect"

Agreed ==
  \A p \in Port :
    IF status = "PREFORWARDING" /\ p = preport THEN Blocked(p) ELSE Forwards(p)

\* The strengthening of PortsFollowStatus: a job under way is the only one and
\* has done its work so far; without one the ports are as they should be.
PortInv ==
  calm = "yes" =>
    /\ \A w \in Worker : Switching(w) => Progress(w)
    /\ (Quiet /\ phase # "off") => Agreed

LEMMA PortCorrect == Spec => []PortInv
<1>1. Init => PortInv
  BY DEF Init, Asleep, P!Init, PortInv, Worker, Switching, Quiet
<1>2. ThreadInv /\ ProcInv /\ P!FileOrder /\ NodeTypeOK /\ PreInv /\ StatusInv /\ JobInv
        /\ PortInv /\ [Next]_vars => PortInv'
  <2> SUFFICES ASSUME ThreadInv, ProcInv, P!FileOrder, NodeTypeOK, PreInv, StatusInv,
                      JobInv, PortInv, [Next]_vars
               PROVE  PortInv'
    OBVIOUS
  <2> USE DEF PortInv, Worker, Opener, Quiet, Agreed, Progress, Switching, Forwards, Blocked,
              Port, jobs, node, process, switch, events
  \* Steps that touch neither the status, nor the ports, nor a job that does.
  <2>aside. ASSUME UNCHANGED <<status, preport, member, by>>, calm' = "yes" => calm = "yes",
                   phase' # "off" => phase # "off",
                   \A u \in Worker :
                     /\ Switching(u)' <=> Switching(u)
                     /\ Switching(u) => /\ stage'[u] = stage[u] /\ port'[u] = port[u]
                                        /\ next'[u] = next[u]
            PROVE  PortInv'
    BY <2>aside
  <2>lost. ASSUME JobsLost, phase' = "off" PROVE PortInv'
    BY <2>lost DEF JobsLost, Asleep
  \* Opening a port while no job is under way.
  <2>open. ASSUME NEW w \in Opener, MayOpen, Open(w), At(w, "woken") \/ At(w, "idle"),
                  UNCHANGED <<preport, port, next, switch, phase>>
           PROVE  PortInv'
    <3> SUFFICES ASSUME calm' = "yes" PROVE PortInv'
      OBVIOUS
    <3>1. Quiet /\ calm = "yes"
      BY <2>open DEF Open, Overlap, Disturb
    <3>2. phase # "off"
      BY <2>open DEF ProcInv, At
    <3>3. \A p \in Port \ {preport} : Forwards(p)
      BY <3>1, <3>2
    <3>4. stage' = [stage EXCEPT ![w] = "which"] /\ status' = "UP" /\ by' = w
      BY <2>open DEF Open, Goto
    <3>5. QED
      BY <2>open, <3>1, <3>3, <3>4 DEF ThreadInv
  <2>1. CASE Boot
    <3>1. \A w \in Worker : ~Switching(w)'
      BY <2>1 DEF Boot, P!Boot, P!FileOrder, ThreadInv, Asleep
    <3>2. status' = "UP" /\ (calm' = "yes" => \A p \in Port : Forwards(p)')
      BY <2>1 DEF Boot
    <3>3. QED
      BY <3>1, <3>2
  <2>2. CASE MainSteps
    BY <2>2, <2>aside, MainStepsGoOn DEF Beside
  <2>3. CASE End
    BY <2>3, <2>lost, ProcessEnds DEF End
  <2>4. CASE RecvFails
    BY <2>4, <2>aside DEF RecvFails, P!ThreadReturns, Alongside
  <2>5. CASE RecvCommonFlush
    BY <2>5, <2>aside DEF RecvCommonFlush
  <2>6. CASE DetectStart
    <3> SUFFICES ASSUME calm' = "yes" PROVE PortInv'
      OBVIOUS
    <3>1. /\ stage["detect"] = "start" /\ stage' = [stage EXCEPT !["detect"] = "idle"]
          /\ status' \in {"UP", "DOWN"} /\ UNCHANGED <<phase, calm, member>>
          /\ "detect" \in alive
      BY <2>6 DEF DetectStart, At, Goto
    <3>2. phase # "off" /\ status = "UP" /\ by = "none"
      BY <3>1 DEF ProcInv, StatusInv
    <3>3. Quiet
      BY <3>1, <3>2
    <3>4. QED
      BY <3>1, <3>2, <3>3 DEF ThreadInv
  <2>7. CASE DetectRound \/ DetectStore
    BY <2>7, <2>aside DEF DetectRound, DetectStore, At, Goto, ThreadInv
  <2>8. ASSUME NEW p \in Port, DetectPort(p) PROVE PortInv'
    <3> SUFFICES ASSUME calm' = "yes" PROVE PortInv'
      OBVIOUS
    <3>1. /\ stage["detect"] = p /\ phase # "off" /\ UNCHANGED <<phase, member, next>>
          /\ ~Switching("detect")
      BY <2>8 DEF DetectPort, Begin, At, ProcInv
    <3>2. CASE status = "DOWN" /\ status' = "PREFORWARDING"
      <4>1. /\ Quiet /\ calm = "yes" /\ preport' = p
            /\ Goto("detect", "open") /\ port' = [port EXCEPT !["detect"] = p]
        BY <2>8, <3>2 DEF DetectPort, Begin, Overlap, Disturb
      <4>2. \A q \in Port : Forwards(q)
        BY <3>1, <3>2, <4>1
      <4>3. QED
        BY <3>1, <3>2, <4>1, <4>2 DEF Goto, NodeTypeOK
    <3>3. CASE status = "UP" /\ status' = "DOWN"
      <4>1. /\ UNCHANGED <<preport, calm>> /\ Goto("detect", "linkdown")
            /\ \A w \in Opener : port'[w] = port[w]
        BY <2>8, <3>3 DEF DetectPort, Begin, NodeTypeOK
      <4>2. \A w \in Opener : stage'[w] = stage[w]
        BY <4>1 DEF Goto
      <4>3. ~Switching("detect")'
        BY <4>1 DEF Goto, ThreadInv
      <4>4. QED
        BY <3>1, <3>3, <4>1, <4>2, <4>3
    <3>4. CASE UNCHANGED status
      <4>1. UNCHANGED <<preport, port, next, events>> /\ Goto("detect", AfterPort(p))
        BY <2>8, <3>4 DEF DetectPort
      <4>2. QED
        BY <3>1, <3>4, <4>1, <2>aside DEF Goto, AfterPort, ThreadInv
    <3>5. QED
      BY <2>8, <3>2, <3>3, <3>4 DEF DetectPort
  <2>9. CASE DetectSend
    BY <2>9, <2>aside DEF DetectSend, Finish, AfterPort, Goto, ThreadInv, NodeTypeOK
  <2>10. ASSUME NEW w \in Worker, JobStep(w) PROVE PortInv'
    <3>1. CASE P!Crash /\ JobsLost
      BY <3>1, <2>lost, ProcessEnds
    <3>2. CASE OpenDataFile(w) /\ ~(P!Crash /\ JobsLost)
      <4>1. /\ stage[w] = "open" /\ stage' = [stage EXCEPT ![w] = "vlan"]
            /\ UNCHANGED <<port, next, events, switch, node, process>>
        BY <3>2 DEF OpenDataFile, Goto
      <4>2. next[w] = 1
        BY <4>1 DEF JobInv
      <4>3. QED
        BY <4>1, <4>2 DEF ThreadInv
    <3>3. CASE SwitchVlan(w)
      <4> SUFFICES ASSUME calm' = "yes" PROVE PortInv'
        OBVIOUS
      <4>1. stage[w] = "vlan" /\ UNCHANGED <<port, by, status, preport, phase>> /\ calm = "yes"
        BY <3>3 DEF SwitchVlan, Disturb
      <4>2. /\ Progress(w) /\ port[w] = preport /\ preport \in Port
            /\ next[w] \in 1..Vlans + 1 /\ member \in [Port -> SUBSET Entry]
        BY <4>1 DEF NodeTypeOK
      <4>3. CASE MoreEntries(w)
        <5>1. /\ next' = [next EXCEPT ![w] = @ + 1] /\ UNCHANGED stage
              /\ member' = [member EXCEPT ![preport] = IF w = "detect" THEN @ \ {next[w]}
                                                       ELSE @ \union {next[w]}]
          BY <3>3, <4>1, <4>2, <4>3 DEF SwitchVlan, Disturb, Goto, AfterVlans
        <5>2. \A v \in 1..next'[w] - 1 : v \in member'[preport] <=> w # "detect"
          BY <4>1, <4>2, <5>1 DEF NodeTypeOK
        <5>3. \A p \in Port \ {preport} : Forwards(p)'
          BY <4>2, <5>1
        <5>4. QED
          BY <4>1, <4>2, <5>1, <5>2, <5>3
      <4>4. CASE ~MoreEntries(w)
        <5>1. UNCHANGED <<next, member>> /\ Goto(w, AfterVlans(w))
          BY <3>3, <4>4 DEF SwitchVlan
        <5>2. next[w] = Vlans + 1
          BY <4>2, <4>4, TransportAssumption DEF MoreEntries, Entry, TransportAssumption
        <5>3. \A v \in Entry : v \in member[preport] <=> w # "detect"
          BY <4>1, <4>2, <5>2, TransportAssumption DEF Entry, TransportAssumption
        <5>4. member[preport] = IF w = "detect" THEN {} ELSE Entry
          <6>1. member[preport] \in SUBSET Entry
            BY <4>2
          <6>2. QED
            BY <5>3, <6>1
        <5>5. \A u \in Worker : ~Switching(u)'
          BY <4>2, <5>1 DEF Goto, AfterVlans, ThreadInv
        <5>6. Agreed'
          BY <4>1, <4>2, <5>1, <5>4
        <5>7. QED
          BY <5>5, <5>6
      <4>5. QED
        BY <4>3, <4>4
    <3>4. QED
      BY <2>10, <3>1, <3>2, <3>3 DEF JobStep, OpenDataFile
  <2>11. CASE RecvCompleteFlush \/ CompleteWaits \/ CompleteWakesSpuriously
    BY <2>11, <2>aside DEF RecvCompleteFlush, CompleteWaits, CompleteWakesSpuriously, At,
                           Goto, ThreadInv
  <2>12. CASE CompleteHandle
    <3>1. CASE MayOpen
      BY <2>12, <3>1, <2>open DEF CompleteHandle
    <3>2. CASE ~MayOpen
      BY <2>12, <3>2, <2>aside DEF CompleteHandle, At, Goto, ThreadInv
    <3>3. QED
      BY <3>1, <3>2
  <2>13. CASE CheckTick
    <3>1. CASE MayOpen /\ Expired
      BY <2>13, <3>1, <2>open DEF CheckTick
    <3>2. CASE ~(MayOpen /\ Expired)
      BY <2>13, <3>2, <2>aside DEF CheckTick
    <3>3. QED
      BY <3>1, <3>2
  <2>14. ASSUME NEW w \in Opener, ReadPort(w) PROVE PortInv'
    BY <2>14 DEF ReadPort, ToOpen, Begin, Goto, ThreadInv, NodeTypeOK
  <2>15. ASSUME NEW w \in Opener, RefreshFdb(w) PROVE PortInv'
    BY <2>15, <2>aside DEF RefreshFdb, Finish, Goto, ThreadInv, NodeTypeOK
  <2>16. CASE UNCHANGED vars
    BY <2>16, <2>aside DEF vars
  <2>17. QED
    BY <2>1, <2>2, <2>3, <2>4, <2>5, <2>6, <2>7, <2>8, <2>9, <2>10, <2>11, <2>12, <2>13,
       <2>14, <2>15, <2>16 DEF Next, MainSteps, DetectGoesOn, OpenerStep
<1>3. QED
  BY <1>1, <1>2, ThreadCorrect, ProcCorrect, DataFileAlwaysPresent, NodeTypeCorrect,
     StatusCorrect, JobCorrect, PTL DEF Spec

\* For any number of VLANs and any timeout: whatever the threads and the links do,
\* the ports end up as the status says unless two jobs overlapped or a register
\* access failed.
THEOREM PortsFollowTheStatus == Spec => []PortsFollowStatus
<1>1. PortInv => PortsFollowStatus
  BY DEF PortInv, PortsFollowStatus, Agreed
<1>2. QED
  BY <1>1, PortCorrect, PTL

\* The link-up frame that makes the major node open the ring never leaves before
\* the port that came back is closed in every VLAN.
THEOREM LinkUpIsAfterBlock == Spec => []BlockedBeforeLinkUp
<1>1. ProcInv /\ JobInv /\ NodeTypeOK /\ PreInv /\ PortInv => BlockedBeforeLinkUp
  <2> SUFFICES ASSUME ProcInv, JobInv, NodeTypeOK, PreInv, PortInv, calm = "yes",
                      stage["detect"] = "linkup", status = "PREFORWARDING"
               PROVE  Blocked(port["detect"])
    BY DEF BlockedBeforeLinkUp
  <2>1. Quiet
    BY DEF PortInv, Progress, Quiet, Switching, Worker
  <2>2. phase # "off" /\ port["detect"] = preport /\ preport \in Port
    BY DEF ProcInv, JobInv, NodeTypeOK, PreInv, Worker, Asleep
  <2>3. QED
    BY <2>1, <2>2 DEF PortInv, Agreed
<1>2. QED
  BY <1>1, ProcCorrect, JobCorrect, NodeTypeCorrect, PortCorrect, PTL

-----------------------------------------------------------------------------
(* The flush that follows an opened port.                                   *)

\* The strengthening of FlushedOnceOpen: the thread that opened the port is on
\* its way to the flush as long as the FDB is stale.
FlushInv ==
  (calm = "yes" /\ phase # "off" /\ status = "UP" /\ by \in Opener)
    => fdb # "stale" \/ stage[by] \in {"which", "open", "vlan", "refresh"}

LEMMA FlushCorrect == Spec => []FlushInv
<1>1. Init => FlushInv
  BY DEF Init, P!Init, FlushInv
<1>2. ThreadInv /\ ProcInv /\ NodeTypeOK /\ PortInv /\ FlushInv /\ [Next]_vars => FlushInv'
  <2> SUFFICES ASSUME ThreadInv, ProcInv, NodeTypeOK, PortInv, FlushInv, [Next]_vars
               PROVE  FlushInv'
    OBVIOUS
  <2>type. stage \in [Worker -> Stage] /\ Opener \subseteq Worker /\ "detect" \in Worker
           /\ "detect" \notin Opener
    BY DEF NodeTypeOK, Worker, Opener
  <2> USE DEF FlushInv, jobs, node, process, switch, events, Goto
  \* Steps of which the flush needs to know no more than this.
  <2>aside. ASSUME UNCHANGED <<status, fdb, by>>, calm' = "yes" => calm = "yes",
                   phase' # "off" => phase # "off",
                   \A u \in Opener :
                     stage[u] \in {"which", "open", "vlan", "refresh"}
                       => stage'[u] \in {"which", "open", "vlan", "refresh"}
            PROVE  FlushInv'
    BY <2>aside
  <2>opened. ASSUME NEW w \in Opener, Open(w) PROVE FlushInv'
    BY <2>opened, <2>type DEF Open
  <2>1. CASE Boot
    BY <2>1 DEF Boot, Opener
  <2>2. CASE MainSteps
    BY <2>2, <2>aside, MainStepsGoOn DEF Beside
  <2>3. CASE End
    BY <2>3, ProcessEnds DEF End
  <2>4. CASE RecvFails
    BY <2>4, <2>aside DEF RecvFails, P!ThreadReturns, Alongside
  <2>5. CASE RecvCommonFlush
    <3>1. CASE fdb' = "clean"
      BY <3>1
    <3>2. CASE fdb' = fdb
      BY <2>5, <3>2, <2>aside DEF RecvCommonFlush
    <3>3. QED
      BY <2>5, <3>1, <3>2 DEF RecvCommonFlush
  <2>6. CASE DetectStart
    BY <2>6, <2>type DEF DetectStart
  <2>7. CASE DetectRound \/ DetectStore \/ DetectSend
    BY <2>7, <2>type, <2>aside DEF DetectRound, DetectStore, DetectSend, Finish
  <2>8. ASSUME NEW p \in Port, DetectPort(p) PROVE FlushInv'
    <3>1. CASE by' = "detect"
      BY <3>1, <2>type
    <3>2. CASE by' # "detect"
      BY <2>8, <3>2, <2>type, <2>aside DEF DetectPort
    <3>3. QED
      BY <3>1, <3>2
  <2>9. ASSUME NEW w \in Worker, JobStep(w) PROVE FlushInv'
    <3>1. CASE P!Crash /\ JobsLost
      BY <3>1, ProcessEnds
    <3>2. CASE OpenDataFile(w) /\ ~(P!Crash /\ JobsLost)
      BY <3>2, <2>type, <2>aside DEF OpenDataFile
    <3>3. CASE SwitchVlan(w)
      <4> SUFFICES ASSUME calm' = "yes", status = "UP", by \in Opener PROVE FlushInv'
        BY <3>3 DEF SwitchVlan
      <4>1. stage[w] = "vlan" /\ calm = "yes" /\ UNCHANGED by
        BY <3>3 DEF SwitchVlan, Disturb
      <4>2. Progress(w)
        BY <4>1 DEF PortInv, Switching
      <4>3. by = w
        BY <4>2 DEF Progress
      <4>4. UNCHANGED stage \/ stage' = [stage EXCEPT ![w] = AfterVlans(w)]
        BY <3>3 DEF SwitchVlan
      <4>5. stage'[w] \in {"vlan", "refresh"}
        BY <4>1, <4>3, <4>4, <2>type DEF AfterVlans
      <4>6. QED
        BY <4>1, <4>3, <4>5
    <3>4. QED
      BY <2>9, <3>1, <3>2, <3>3 DEF JobStep, OpenDataFile
  <2>10. CASE RecvCompleteFlush \/ CompleteWaits \/ CompleteWakesSpuriously
    BY <2>10, <2>type, <2>aside DEF RecvCompleteFlush, CompleteWaits,
                                    CompleteWakesSpuriously, At
  <2>11. CASE CompleteHandle
    <3>1. CASE Open("complete")
      BY <3>1, <2>opened DEF Opener
    <3>2. CASE ~Open("complete")
      BY <2>11, <3>2, <2>type, <2>aside DEF CompleteHandle, At
    <3>3. QED
      BY <3>1, <3>2
  <2>12. CASE CheckTick
    <3>1. CASE Open("check")
      BY <3>1, <2>opened DEF Opener
    <3>2. CASE ~Open("check")
      BY <2>12, <3>2, <2>aside DEF CheckTick
    <3>3. QED
      BY <3>1, <3>2
  <2>13. ASSUME NEW w \in Opener, ReadPort(w) PROVE FlushInv'
    BY <2>13, <2>type, <2>aside DEF ReadPort, Begin
  <2>14. ASSUME NEW w \in Opener, RefreshFdb(w) PROVE FlushInv'
    BY <2>14 DEF RefreshFdb
  <2>15. CASE UNCHANGED vars
    BY <2>15, <2>aside DEF vars
  <2>16. QED
    BY <2>1, <2>2, <2>3, <2>4, <2>5, <2>6, <2>7, <2>8, <2>9, <2>10, <2>11, <2>12, <2>13,
       <2>14, <2>15, <2>type DEF Next, MainSteps, DetectGoesOn, OpenerStep
<1>3. QED
  BY <1>1, <1>2, ThreadCorrect, ProcCorrect, NodeTypeCorrect, PortCorrect, PTL DEF Spec

\* No thread that opened a port goes back to its loop before the FDB is clean of
\* what was learned while the port was closed, unless the ports were disturbed or
\* the flush that it asked for after opening failed.
THEOREM FlushFollowsOpening == Spec => []FlushedOnceOpen
<1>1. FlushInv => FlushedOnceOpen
  BY DEF FlushInv, FlushedOnceOpen
<1>2. QED
  BY <1>1, FlushCorrect, PTL

-----------------------------------------------------------------------------
(* One tick of the end of PREFORWARDING.                                    *)

Counting(n) == status = "PREFORWARDING" /\ timeout = n

\* PREFORWARDING has ended, or the process has.
Over == status # "PREFORWARDING" \/ phase = "off"

\* The check thread makes another round as long as PREFORWARDING lasts: what the
\* fairness of its rounds and its jobs comes to, without ENABLED.
TicksGoOn == [](<>Over \/ <><<CheckTick>>_vars)

\* Between two ticks nothing takes a count back: a step leaves it, or adds one, or
\* ends PREFORWARDING.
LEMMA CountIsKept ==
  ASSUME NEW n \in Nat, Counting(n), [Abs!Next]_(Abs!vars)
  PROVE  Counting(n)' \/ Counting(n + 1)' \/ status' # "PREFORWARDING"
BY DEF Counting, Abs!Next, Abs!vars, Abs!Start, Abs!Fresh, Abs!Stop, Abs!Look, Abs!LinkDown,
       Abs!LinkBack, Abs!Complete, Abs!Tick, Abs!Expire

LEMMA TickCounts ==
  ASSUME NEW n \in Nat, Counting(n), CheckTick
  PROVE  Counting(n + 1)' \/ status' # "PREFORWARDING"
BY DEF Counting, CheckTick, Open, MayOpen, Counted

\* PREFORWARDING either ends or counts on, from every count, and from the last
\* there is nothing to count on to: no thread, signal, frame or link can hold up or
\* take back the count of check_recv_complete_thread.
THEOREM EachTickCounts ==
  ASSUME NEW n \in Nat
  PROVE  Spec /\ TicksGoOn =>
           (Counting(n) ~> Over \/ (n < Limit /\ Counting(n + 1)))
<1>1. NodeTypeOK' /\ Counting(n + 1)' => n < Limit /\ Counting(n + 1)'
  BY TransportAssumption DEF NodeTypeOK, Counting, TransportAssumption
<1>2. NodeTypeOK' /\ Counting(n) /\ [Abs!Next]_(Abs!vars)
        => Counting(n)' \/ (n < Limit /\ Counting(n + 1))' \/ Over'
  BY <1>1, CountIsKept DEF Over
<1>3. NodeTypeOK' /\ Counting(n) /\ <<CheckTick>>_vars
        => (n < Limit /\ Counting(n + 1))' \/ Over'
  BY <1>1, TickCounts DEF Over
<1>4. Spec => [][Abs!Next]_(Abs!vars)
  BY TransportImplementsStatusMachine, PTL DEF StatusSteps, Abs!Spec
<1>5. QED
  BY <1>2, <1>3, <1>4, NodeTypeCorrect, PTL DEF TicksGoOn

-----------------------------------------------------------------------------
(* Ports that are open.                                                     *)

AllOpen == status = "UP" /\ Quiet /\ \A p \in Port : Forwards(p)

LEMMA AllOpenStays ==
  ASSUME TypeOK, AllOpen, seen = Port, now = Port, seen' = Port, [Next]_vars
  PROVE  AllOpen'
<1> USE DEF AllOpen, Quiet, Switching, Forwards, node, switch, jobs, Worker, Opener
<1>same. ASSUME UNCHANGED <<status, stage, member>> PROVE AllOpen'
  BY <1>same
<1>step. ASSUME UNCHANGED <<status, member>>, NEW w \in Worker,
                NEW s \in Stage \ {"which", "open", "vlan"}, Goto(w, s)
         PROVE  AllOpen'
  BY <1>step DEF Goto, TypeOK, NodeTypeOK
<1>lost. ASSUME JobsLost PROVE AllOpen'
  BY <1>lost DEF JobsLost, Asleep
<1>1. CASE Boot
  BY <1>1 DEF Boot, Port
<1>2. CASE MainSteps \/ RecvFails
  BY <1>2, <1>same, MainStepsGoOn DEF Beside, Alongside, RecvFails
<1>3. CASE End
  BY <1>3, <1>lost DEF End
<1>4. CASE DetectStart
  <2>1. status' = "UP" /\ UNCHANGED member /\ Goto("detect", "idle")
    BY <1>4 DEF DetectStart
  <2>2. QED
    BY <2>1, <1>step DEF Stage
<1>5. CASE DetectRound \/ DetectStore
  BY <1>5, <1>step DEF DetectRound, DetectStore, Stage
<1>6. ASSUME NEW p \in Port, DetectPort(p) PROVE AllOpen'
  <2>1. UNCHANGED <<status, member>> /\ Goto("detect", AfterPort(p))
    BY <1>6 DEF DetectPort
  <2>2. QED
    BY <2>1, <1>step DEF AfterPort, Stage
<1>7. CASE DetectSend
  BY <1>7, <1>step DEF DetectSend, Finish, AfterPort, Stage
<1>8. CASE RecvCommonFlush
  BY <1>8, <1>same DEF RecvCommonFlush
<1>9. CASE RecvCompleteFlush \/ CompleteWaits \/ CompleteWakesSpuriously
  BY <1>9, <1>step DEF RecvCompleteFlush, CompleteWaits, CompleteWakesSpuriously, Stage
<1>10. CASE CompleteHandle
  BY <1>10, <1>step DEF CompleteHandle, MayOpen, Stage
<1>11. CASE CheckTick
  BY <1>11, <1>same DEF CheckTick, MayOpen
<1>12. ASSUME NEW w \in Worker, JobStep(w) \/ ReadPort(w) PROVE FALSE
  BY <1>12 DEF JobStep, OpenDataFile, SwitchVlan, ReadPort
<1>13. ASSUME NEW w \in Opener, RefreshFdb(w) PROVE AllOpen'
  BY <1>13, <1>step DEF RefreshFdb, Finish, Stage
<1>14. CASE UNCHANGED vars
  BY <1>14, <1>same DEF vars
<1>15. QED
  BY <1>1, <1>2, <1>3, <1>4, <1>5, <1>6, <1>7, <1>8, <1>9, <1>10, <1>11, <1>12, <1>13,
     <1>14 DEF Next, MainSteps, DetectGoesOn, OpenerStep

\* Ports that are open on a whole ring stay open as long as detect sees both links
\* up, even beyond the end of the process: the part of PortsOpenForGood that says
\* for good.  No wakeup, frame or timeout closes a port or changes the status.
THEOREM OpenPortsStayOpen ==
  Spec => [](status = "UP" /\ Quiet /\ phase # "off" /\ calm = "yes"
               /\ [](seen = Port /\ now = Port)
                 => [](status = "UP" /\ \A p \in Port : Forwards(p)))
<1>1. PortsFollowStatus /\ status = "UP" /\ Quiet /\ phase # "off" /\ calm = "yes" => AllOpen
  BY DEF PortsFollowStatus, AllOpen
<1>2. TypeOK /\ AllOpen /\ (seen = Port /\ now = Port)
        /\ (seen = Port /\ now = Port)' /\ [Next]_vars => AllOpen'
  BY AllOpenStays
<1>3. AllOpen => status = "UP" /\ \A p \in Port : Forwards(p)
  BY DEF AllOpen
<1>4. QED
  BY <1>1, <1>2, <1>3, TypeCorrect, PortsFollowTheStatus, PTL DEF Spec

=============================================================================
