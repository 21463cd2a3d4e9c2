----------------------------- MODULE NodeProcess -----------------------------
(***************************************************************************)
(* The process of a node, major or transport: both constructors boot it in *)
(* the same steps (node/major_node.c 27-137, node/transport_node.c         *)
(* 29-140), both destructors take it down in the same steps, and main()    *)
(* exits when a constructor fails.  The two differ in the threads they     *)
(* create.  The main thread runs all of this; the threads run beside it,   *)
(* from their creation to exit().                                          *)
(***************************************************************************)
EXTENDS TLAPS

CONSTANTS Thread,  \* the threads of the node
          After    \* what the main thread does after "control" and each thread

VARIABLES
  phase,    \* the next step of the main thread; "up" and "off" between them
  alive,    \* the threads created so far that have not returned
  stp,      \* switch: the spanning tree protocol runs
  file      \* the VLAN data file exists

vars == <<phase, alive, stp, file>>

OnOff == {"on", "off"}
Booting == {"stp", "regs", "file", "control"} \union Thread
Dying   == {"leave", "remove", "restore"}
Phase   == {"off", "up"} \union Booting \union Dying

\* After is the order of the pthread_creates.  The modules of the two nodes
\* assume this of their threads.
ProcessAssumption ==
  /\ Thread \intersect {"off", "up", "stp", "regs", "file", "control",
                        "leave", "remove", "restore"} = {}
  /\ After \in [Thread \union {"control"} -> Thread \union {"up"}]

TypeOK ==
  /\ phase \in Phase /\ alive \in SUBSET Thread
  /\ stp \in OnOff /\ file \in OnOff

\* A switch as shipped, no node configured.
Init ==
  /\ phase = "off" /\ alive = {}
  /\ stp = "on" /\ file = "off"

-----------------------------------------------------------------------------

\* The end of the process takes every thread with it and leaves the switch
\* and the file as they are.
Exit == phase' = "off" /\ alive' = {}

Boot ==
  /\ phase = "off"
  /\ phase' = "stp"
  /\ UNCHANGED <<alive, stp, file>>

\* kill_stp, up to the port states of registers 0x57 to 0x96.
KillStp ==
  /\ phase = "stp"
  /\ stp' = "off" /\ phase' = "regs"
  /\ UNCHANGED <<alive, file>>

\* rrpp_regs_config and raw_socket_init.
ConfigRegs ==
  /\ phase = "regs"
  /\ phase' = "file"
  /\ UNCHANGED <<alive, stp, file>>

\* A bug to be caught: the boot does not wait for the data file.
CreateDataFileLater ==
  /\ phase = "file"
  /\ phase' = "control"
  /\ UNCHANGED <<alive, stp, file>>

\* vlan_create_data_file
CreateDataFile ==
  /\ phase = "file"
  /\ file' = "on" /\ phase' = "control"
  /\ UNCHANGED <<alive, stp>>

\* The memberships in the control VLANs are not kept: no thread reads them and
\* a failing raw_vlan_add_ports is not noticed.
JoinControlVlans ==
  /\ phase = "control"
  /\ phase' = After["control"]
  /\ UNCHANGED <<alive, stp, file>>

\* A bug to be caught: each creation starts the thread after the one meant.
StartThreadAfter ==
  /\ phase \in Thread
  /\ alive' = alive \union {After[phase]}
  /\ phase' = After[phase]
  /\ UNCHANGED <<stp, file>>

StartThread ==
  /\ phase \in Thread
  /\ alive' = alive \union {phase}
  /\ phase' = After[phase]
  /\ UNCHANGED <<stp, file>>

\* A step of the constructor fails and main() exits without the destructor;
\* kill_stp may have carried out its first commands before it failed.
BootFails ==
  /\ phase \in Booting \ {"control"}
  /\ IF phase = "stp" THEN stp' \in OnOff ELSE UNCHANGED stp
  /\ Exit
  /\ UNCHANGED file

SigInt ==
  /\ phase \in Booting \union {"up"}
  /\ phase' = "leave"
  /\ UNCHANGED <<alive, stp, file>>

\* The calls of raw_vlan_rm_ports use the register window that running jobs use:
\* the nodes count the jobs of this phase as disturbed.
LeaveControlVlans ==
  /\ phase = "leave"
  /\ phase' = "remove"
  /\ UNCHANGED <<alive, stp, file>>

\* Nobody looks whether the rm succeeds.
RemoveDataFile ==
  /\ phase = "remove"
  /\ file' \in {file, "off"} /\ phase' = "restore"
  /\ UNCHANGED <<alive, stp>>

RestoreStp ==
  /\ phase = "restore"
  /\ stp' \in {stp, "on"}
  /\ Exit
  /\ UNCHANGED file

\* A thread that returns on an error of recvfrom is not started again.
ThreadReturns(t) ==
  /\ t \in alive
  /\ alive' = alive \ {t}
  /\ UNCHANGED <<phase, stp, file>>

\* A thread that reads the data file through a NULL stream ends the process.
Crash ==
  /\ alive # {} /\ file = "off"
  /\ Exit
  /\ UNCHANGED <<stp, file>>

\* Steps after which the process is still there, and the ones that end it.
BootStep == KillStp \/ ConfigRegs \/ CreateDataFile \/ JoinControlVlans \/ StartThread
KillStep == LeaveControlVlans \/ RemoveDataFile
Continue == BootStep \/ SigInt \/ KillStep
End      == BootFails \/ RestoreStp

Next == Boot \/ Continue \/ End \/ Crash \/ \E t \in Thread : ThreadReturns(t)

Spec == Init /\ [][Next]_vars

-----------------------------------------------------------------------------

\* The threads of a node that was not told to stop find the data file: the
\* constructor writes it before the first thread runs, and only the killer
\* removes it, right before its last step.  So fopen fails in block_port and
\* release_port, and ends the process, in that last window only.
DataFilePresent == (alive # {} /\ phase \notin {"restore", "off"}) => file = "on"

-----------------------------------------------------------------------------
(* The proof, for any threads in any order.                                 *)

\* The state of the main thread, the threads and the file.
FileOrder ==
  /\ phase \in {"off", "stp", "regs", "file"} => alive = {}
  /\ phase \in Thread \union {"control", "up"} => file = "on"
  /\ phase \in {"leave", "remove"} /\ alive # {} => file = "on"

\* The order of the boot and of the kill keeps fopen from failing under a
\* running job until the very last step of the destructor.
THEOREM DataFileAlwaysPresent ==
  ASSUME ProcessAssumption PROVE Spec => [](TypeOK /\ FileOrder /\ DataFilePresent)
<1> USE ProcessAssumption DEF ProcessAssumption, TypeOK, FileOrder, Phase, Booting, Dying,
        OnOff
<1>1. Init => TypeOK /\ FileOrder
  BY DEF Init
<1>2. TypeOK /\ FileOrder /\ [Next]_vars => (TypeOK /\ FileOrder)'
  <2> SUFFICES ASSUME TypeOK, FileOrder, [Next]_vars PROVE (TypeOK /\ FileOrder)'
    OBVIOUS
  <2>1. CASE Boot
    BY <2>1 DEF Boot
  <2>2. CASE BootStep
    BY <2>2 DEF BootStep, KillStp, ConfigRegs, CreateDataFile, JoinControlVlans,
                StartThread
  <2>3. CASE SigInt
    BY <2>3 DEF SigInt
  <2>4. CASE KillStep
    BY <2>4 DEF KillStep, LeaveControlVlans, RemoveDataFile
  <2>5. CASE End
    BY <2>5 DEF End, BootFails, RestoreStp, Exit
  <2>6. CASE Crash
    BY <2>6 DEF Crash, Exit
  <2>7. CASE \E t \in Thread : ThreadReturns(t)
    BY <2>7 DEF ThreadReturns
  <2>8. CASE UNCHANGED vars
    BY <2>8 DEF vars
  <2>9. QED
    BY <2>1, <2>2, <2>3, <2>4, <2>5, <2>6, <2>7, <2>8 DEF Next, Continue
<1>3. TypeOK /\ FileOrder => DataFilePresent
  BY DEF DataFilePresent
<1>4. QED
  BY <1>1, <1>2, <1>3, PTL DEF Spec

=============================================================================
