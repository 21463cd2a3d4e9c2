---------------------------- MODULE VlanRawProofs ----------------------------
(***************************************************************************)
(* VlanRaw for any callers, VLANs and ports: its types, and what a call    *)
(* that no other call overlaps does to the VLAN table.                     *)
(***************************************************************************)
EXTENDS VlanRaw, TLAPS

\* The locals of a caller between two calls are those of a call.
LEMMA NoCallIsCall == NoCall \in Call
<1> DEFINE any == CHOOSE v \in Vid : TRUE
           Named == Low \union High
<1>1. any \in Vid
  BY VlanAssumption DEF VlanAssumption
<1>2. Named \in SUBSET Named
  OBVIOUS
<1> HIDE DEF any, Named
<1>3. [op |-> "rm", vid |-> any, ports |-> Named]
        \in [op : {"add", "rm"}, vid : Vid, ports : SUBSET Named]
  BY <1>1, <1>2
<1>4. NoCall = [op |-> "rm", vid |-> any, ports |-> Named]
  BY DEF NoCall, any, Named
<1>5. Call = [op : {"add", "rm"}, vid : Vid, ports : SUBSET Named]
  BY DEF Call, Named
<1>6. QED
  BY <1>3, <1>4, <1>5

\* What one step of a caller sets keeps its type.
THEOREM TypeCorrect == Spec => []TypeOK
<1>1. Init => TypeOK
  BY NoCallIsCall DEF Init, TypeOK, Rest
<1>2. TypeOK /\ [Next]_vars => TypeOK'
  <2> SUFFICES ASSUME TypeOK, [Next]_vars PROVE TypeOK'
    OBVIOUS
  <2> USE DEF TypeOK, Goto
  <2>ports. /\ \A c \in Caller : /\ call[c] \in Call /\ call[c].vid \in Vid
                                 /\ call[c].ports \in SUBSET PortSet
            /\ \A v \in Vid : /\ table[v] \in Entry /\ table[v].bits \in SUBSET PortSet
                               /\ table[v].rest \in Rest
            /\ window.low \in SUBSET Low /\ window.high \in SUBSET HighWord
            /\ window.rest \in Rest
    BY DEF Call, Entry, PortSet, HighWord
  <2>1. ASSUME NEW c \in Caller, Begin(c) PROVE TypeOK'
    BY <2>1 DEF Begin, Access
  <2>2. ASSUME NEW c \in Caller, Fails(c) PROVE TypeOK'
    BY <2>2, NoCallIsCall DEF Fails, Return
  <2>3. ASSUME NEW c \in Caller, Select(c) PROVE TypeOK'
    BY <2>3, <2>ports DEF Select, Access
  <2>4. ASSUME NEW c \in Caller, GetCommand(c) PROVE TypeOK'
    BY <2>4 DEF GetCommand, Access
  <2>5. ASSUME NEW c \in Caller, GetLow(c) PROVE TypeOK'
    BY <2>5, <2>ports DEF GetLow, Access, PortSet
  <2>6. ASSUME NEW c \in Caller, GetHigh(c) PROVE TypeOK'
    <3>1. WithHigh(c) \in SUBSET PortSet
      BY <2>ports DEF WithHigh, PortSet
    <3>2. QED
      BY <2>6, <3>1, NoCallIsCall DEF GetHigh, Return, Access
  <2>7. ASSUME NEW c \in Caller, SetLow(c) \/ SetHigh(c) PROVE TypeOK'
    BY <2>7, <2>ports DEF SetLow, SetHigh, LowHalf, HighWord, Access
  <2>8. ASSUME NEW c \in Caller, SetTail(c) PROVE TypeOK'
    BY <2>8, <2>ports DEF SetTail, Access, Rest
  <2>9. ASSUME NEW c \in Caller, Commit(c) PROVE TypeOK'
    <3>1. [bits |-> window.low \union window.high, rest |-> window.rest] \in Entry
      BY <2>ports DEF PortSet, Entry
    <3>2. QED
      BY <2>9, <3>1, NoCallIsCall DEF Commit, Return
  <2>10. CASE UNCHANGED vars
    BY <2>10 DEF vars
  <2>11. QED
    BY <2>1, <2>2, <2>3, <2>4, <2>5, <2>6, <2>7, <2>8, <2>9, <2>10 DEF Next
<1>3. QED
  BY <1>1, <1>2, PTL DEF Spec

-----------------------------------------------------------------------------
(* A call alone.                                                            *)

\* The strengthening: unless the last call found another under way there is one
\* call at most, and what it has read and written so far is what it should be.
Reading(c) ==
  pc[c] \in {"command", "low", "high"} =>
    /\ window.low = table[call[c].vid].bits \intersect Low
    /\ window.high = table[call[c].vid].bits \intersect HighWord

HalfRead(c) == pc[c] = "high" => old[c] = table[call[c].vid].bits \intersect Low

Read(c) ==
  pc[c] \in {"setlow", "sethigh", "settail", "commit"} =>
    old[c] = table[call[c].vid].bits /\ ~Settled(c, old[c])

Written(c) ==
  /\ pc[c] \in {"sethigh", "settail", "commit"} =>
       window.low = NewPorts(c) \intersect Low
  /\ pc[c] \in {"settail", "commit"} =>
       window.high = (NewPorts(c) \intersect HighWord) \union {Cpu}
  /\ pc[c] = "commit" => window.rest = "reset"

Alone(c) ==
  pc[c] # "idle" =>
    /\ \A d \in Caller \ {c} : pc[d] = "idle"
    /\ Reading(c) /\ HalfRead(c) /\ Read(c) /\ Written(c)

WindowInv == overlapped = "no" => \A c \in Caller : Alone(c)

\* A step of c that keeps what is known of c, and disturbs nobody, for there is
\* nobody else.
LEMMA OneCallGoesOn ==
  ASSUME TypeOK, WindowInv, NEW c \in Caller, pc[c] # "idle", UNCHANGED overlapped,
         NEW a, pc' = [pc EXCEPT ![c] = a],
         overlapped = "no" /\ a # "idle" =>
           Reading(c)' /\ HalfRead(c)' /\ Read(c)' /\ Written(c)'
  PROVE  WindowInv'
<1> SUFFICES ASSUME overlapped = "no", NEW e \in Caller PROVE Alone(e)'
  BY DEF WindowInv
<1>1. \A d \in Caller \ {c} : pc[d] = "idle" /\ pc'[d] = "idle"
  BY DEF WindowInv, Alone, TypeOK
<1>2. pc'[c] = a
  BY DEF TypeOK
<1>3. CASE e = c
  BY <1>1, <1>2, <1>3 DEF Alone
<1>4. CASE e # c
  BY <1>1, <1>4 DEF Alone
<1>5. QED
  BY <1>3, <1>4

LEMMA WindowCorrect == Spec => []WindowInv
<1>1. Init => WindowInv
  BY DEF Init, WindowInv, Alone
<1>2. TypeOK /\ WindowInv /\ [Next]_vars => WindowInv'
  <2> SUFFICES ASSUME TypeOK, WindowInv, [Next]_vars PROVE WindowInv'
    OBVIOUS
  <2>type. /\ \A c \in Caller : /\ call[c].vid \in Vid
                                /\ call[c].ports \in SUBSET PortSet
           /\ table \in [Vid -> Entry]
           /\ window \in [low : SUBSET Low, high : SUBSET HighWord, rest : Rest]
           /\ pc \in [Caller -> Access \union {"idle"}]
           /\ old \in [Caller -> SUBSET PortSet]
    BY DEF TypeOK, Call, PortSet, HighWord
  <2>alone. ASSUME NEW c \in Caller, overlapped = "no", pc[c] # "idle"
            PROVE  Reading(c) /\ HalfRead(c) /\ Read(c) /\ Written(c)
    BY <2>alone DEF WindowInv, Alone
  <2> USE DEF Reading, HalfRead, Read, Written, Settled
  <2>1. ASSUME NEW c \in Caller, Begin(c) PROVE WindowInv'
    <3> SUFFICES ASSUME overlapped' = "no", NEW e \in Caller PROVE Alone(e)'
      BY DEF WindowInv
    <3>1. \A d \in Caller \ {c} : pc[d] = "idle"
      BY <2>1 DEF Begin
    <3>2. pc' = [pc EXCEPT ![c] = "select"]
      BY <2>1 DEF Begin, Goto
    <3>3. QED
      BY <3>1, <3>2, <2>type DEF Alone
  <2>2. ASSUME NEW c \in Caller, Fails(c) PROVE WindowInv'
    BY <2>2, OneCallGoesOn DEF Fails, Return, Goto
  <2>3. ASSUME NEW c \in Caller, Select(c) PROVE WindowInv'
    <3>1. /\ Reading(c)' /\ pc[c] = "select" /\ pc' = [pc EXCEPT ![c] = "command"]
          /\ UNCHANGED overlapped
      BY <2>3, <2>type DEF Select, Goto
    <3>2. HalfRead(c)' /\ Read(c)' /\ Written(c)'
      BY <3>1, <2>type
    <3>3. QED
      BY <3>1, <3>2, OneCallGoesOn
  <2>4. ASSUME NEW c \in Caller, GetCommand(c) PROVE WindowInv'
    <3>1. /\ pc[c] = "command" /\ pc' = [pc EXCEPT ![c] = "low"]
          /\ UNCHANGED <<table, window, call, old, overlapped>>
      BY <2>4 DEF GetCommand, Goto
    <3>2. overlapped = "no" => Reading(c)' /\ HalfRead(c)' /\ Read(c)' /\ Written(c)'
      BY <3>1, <2>type, <2>alone
    <3>3. QED
      BY <3>1, <3>2, OneCallGoesOn
  <2>5. ASSUME NEW c \in Caller, GetLow(c) PROVE WindowInv'
    <3>1. /\ pc[c] = "low" /\ pc' = [pc EXCEPT ![c] = "high"]
          /\ old' = [old EXCEPT ![c] = window.low]
          /\ UNCHANGED <<table, window, call, overlapped>>
      BY <2>5 DEF GetLow, Goto
    <3>2. overlapped = "no" => Reading(c)' /\ HalfRead(c)' /\ Read(c)' /\ Written(c)'
      BY <3>1, <2>type, <2>alone
    <3>3. QED
      BY <3>1, <3>2, OneCallGoesOn
  <2>6. ASSUME NEW c \in Caller, GetHigh(c) PROVE WindowInv'
    <3>1. pc[c] = "high" /\ UNCHANGED <<table, window, overlapped>>
      BY <2>6 DEF GetHigh
    <3>2. CASE Return(c, "ok")
      BY <3>1, <3>2, OneCallGoesOn DEF Return, Goto
    <3>3. CASE ~Return(c, "ok")
      <4>1. /\ old' = [old EXCEPT ![c] = WithHigh(c)] /\ pc' = [pc EXCEPT ![c] = "setlow"]
            /\ UNCHANGED call /\ ~Settled(c, WithHigh(c))
        BY <2>6, <3>3 DEF GetHigh, Goto
      <4>2. overlapped = "no" => WithHigh(c) = table[call[c].vid].bits
        <5> SUFFICES ASSUME overlapped = "no" PROVE WithHigh(c) = table[call[c].vid].bits
          OBVIOUS
        <5>1. /\ old[c] = table[call[c].vid].bits \intersect Low
              /\ window.high = table[call[c].vid].bits \intersect HighWord
          BY <3>1, <2>alone
        <5>2. table[call[c].vid].bits \in SUBSET (Low \union HighWord)
          BY <2>type DEF Entry, PortSet
        <5>3. QED
          BY <5>1, <5>2 DEF WithHigh
      <4>3. Reading(c)' /\ HalfRead(c)' /\ Written(c)' /\ pc'[c] = "setlow"
        BY <4>1, <2>type
      <4>4. overlapped = "no" => Read(c)'
        BY <3>1, <4>1, <4>2, <2>type
      <4>5. QED
        BY <3>1, <4>1, <4>3, <4>4, OneCallGoesOn
    <3>4. QED
      BY <3>2, <3>3
  <2>7. ASSUME NEW c \in Caller, SetLow(c) PROVE WindowInv'
    <3>1. /\ pc[c] = "setlow" /\ pc' = [pc EXCEPT ![c] = "sethigh"]
          /\ window'.low = NewPorts(c) \intersect Low
          /\ UNCHANGED <<table, call, old, overlapped>>
      BY <2>7, <2>type DEF SetLow, Goto, LowHalf
    <3>2. overlapped = "no" => Read(c)'
      BY <3>1, <2>type, <2>alone
    <3>3. Reading(c)' /\ HalfRead(c)' /\ Written(c)'
      BY <3>1, <2>type DEF NewPorts
    <3>4. QED
      BY <3>1, <3>2, <3>3, OneCallGoesOn
  <2>8. ASSUME NEW c \in Caller, SetHigh(c) PROVE WindowInv'
    <3>1. /\ pc[c] = "sethigh" /\ pc' = [pc EXCEPT ![c] = "settail"]
          /\ window'.low = window.low
          /\ window'.high = (NewPorts(c) \intersect HighWord) \union {Cpu}
          /\ UNCHANGED <<table, call, old, overlapped>>
      BY <2>8, <2>type DEF SetHigh, Goto
    <3>2. overlapped = "no" => Read(c)' /\ Written(c)'
      BY <3>1, <2>type, <2>alone DEF NewPorts
    <3>3. Reading(c)' /\ HalfRead(c)'
      BY <3>1, <2>type
    <3>4. QED
      BY <3>1, <3>2, <3>3, OneCallGoesOn
  <2>9. ASSUME NEW c \in Caller, SetTail(c) PROVE WindowInv'
    <3>1. /\ pc[c] = "settail" /\ pc' = [pc EXCEPT ![c] = "commit"]
          /\ window'.low = window.low /\ window'.high = window.high
          /\ window'.rest = "reset"
          /\ UNCHANGED <<table, call, old, overlapped>>
      BY <2>9, <2>type DEF SetTail, Goto
    <3>2. overlapped = "no" => Reading(c)' /\ HalfRead(c)' /\ Read(c)' /\ Written(c)'
      BY <3>1, <2>type, <2>alone DEF NewPorts
    <3>3. QED
      BY <3>1, <3>2, OneCallGoesOn
  <2>10. ASSUME NEW c \in Caller, Commit(c) PROVE WindowInv'
    BY <2>10, OneCallGoesOn DEF Commit, Return, Goto
  <2>11. CASE UNCHANGED vars
    BY <2>11 DEF vars, WindowInv, Alone, NewPorts
  <2>12. QED
    BY <2>1, <2>2, <2>3, <2>4, <2>5, <2>6, <2>7, <2>8, <2>9, <2>10, <2>11 DEF Next
<1>3. QED
  BY <1>1, <1>2, TypeCorrect, PTL DEF Spec

\* What the window holds when a lone call stores it.
LEMMA CommitsWanted ==
  ASSUME TypeOK, WindowInv, NEW c \in Caller, pc[c] = "commit", overlapped = "no"
  PROVE  LET bits == table[call[c].vid].bits
         IN  /\ window.low \union window.high = Wanted(c, bits) \union {Cpu}
             /\ window.rest = "reset" /\ Wanted(c, bits) # bits
<1>1. /\ window.low = NewPorts(c) \intersect Low
      /\ window.high = (NewPorts(c) \intersect HighWord) \union {Cpu}
      /\ window.rest = "reset"
      /\ old[c] = table[call[c].vid].bits /\ ~Settled(c, old[c])
  BY DEF WindowInv, Alone, Read, Written
<1>2. /\ old[c] \in SUBSET (Low \union HighWord)
      /\ call[c].ports \in SUBSET (Low \union HighWord)
  BY DEF TypeOK, Call, PortSet, HighWord
<1>3. /\ NewPorts(c) \in SUBSET (Low \union HighWord)
      /\ NewPorts(c) = Wanted(c, table[call[c].vid].bits)
  BY <1>1, <1>2 DEF NewPorts, Wanted
<1>4. Wanted(c, old[c]) # old[c]
  BY <1>1 DEF Settled, Wanted
<1>5. QED
  BY <1>1, <1>3, <1>4

\* For any number of callers and ports: a call that no other overlaps changes
\* one VLAN, in its last access or not at all, and there its own ports, the CPU's and
\* the fields that every call resets.
THEOREM LoneCallsAreExact == Spec => ChangesAreExact
<1> DEFINE Exact == \E c \in Caller :
                      LET bits == table[call[c].vid].bits
                      IN  /\ Wanted(c, bits) # bits
                          /\ table' = [table EXCEPT ![call[c].vid] =
                                         [bits |-> Wanted(c, bits) \union {Cpu},
                                          rest |-> "reset"]]
<1>1. TypeOK /\ WindowInv /\ [Next]_vars =>
        [(table' # table /\ overlapped = "no") => Exact]_vars
  <2> SUFFICES ASSUME TypeOK, WindowInv, [Next]_vars, table' # table, overlapped = "no"
               PROVE  Exact
    OBVIOUS
  <2>1. PICK c \in Caller : Commit(c)
    BY DEF Next, vars, Begin, Fails, Select, GetCommand, GetLow, GetHigh, SetLow, SetHigh,
           SetTail
  <2> DEFINE bits == table[call[c].vid].bits
  <2>2. /\ window.low \union window.high = Wanted(c, bits) \union {Cpu}
        /\ window.rest = "reset" /\ Wanted(c, bits) # bits
    BY <2>1, CommitsWanted DEF Commit
  <2>3. table' = [table EXCEPT ![call[c].vid] =
                    [bits |-> Wanted(c, bits) \union {Cpu}, rest |-> "reset"]]
    BY <2>1, <2>2 DEF Commit
  <2>4. QED
    BY <2>2, <2>3
<1>2. QED
  BY <1>1, TypeCorrect, WindowCorrect, PTL DEF Spec, ChangesAreExact

\* For any number of callers and ports: a call that no other overlaps returns 0
\* only when the VLAN is as the caller asked.
THEOREM LoneSuccessMeansDone == Spec => SuccessMeansDone
<1>1. TypeOK /\ WindowInv /\ [Next]_vars =>
        [\A c \in Caller :
           (pc[c] # "idle" /\ pc'[c] = "idle" /\ result'[c] = "ok" /\ overlapped = "no")
             => LET bits == table'[call[c].vid].bits IN bits = Wanted(c, bits)]_vars
  <2> SUFFICES ASSUME TypeOK, WindowInv, [Next]_vars, NEW c \in Caller,
                      pc[c] # "idle", pc'[c] = "idle", result'[c] = "ok", overlapped = "no"
               PROVE  LET bits == table'[call[c].vid].bits IN bits = Wanted(c, bits)
    OBVIOUS
  <2>type. /\ pc \in [Caller -> Access \union {"idle"}]
           /\ result \in [Caller -> {"none", "ok", "error"}]
           /\ table \in [Vid -> Entry] /\ call[c].vid \in Vid
           /\ call[c].ports \in SUBSET (Low \union High)
    BY DEF TypeOK, Call
  <2>1. \/ GetHigh(c) /\ Return(c, "ok")
        \/ Commit(c)
    <3>1. pc'[c] # pc[c]
      OBVIOUS
    <3>2. PICK d \in Caller : \/ Begin(d) \/ Fails(d)
                             \/ Select(d) \/ GetCommand(d) \/ GetLow(d) \/ GetHigh(d)
                             \/ SetLow(d) \/ SetHigh(d) \/ SetTail(d) \/ Commit(d)
      BY <3>1 DEF Next, vars
    <3>3. \E a : pc' = [pc EXCEPT ![d] = a]
      BY <3>2 DEF Begin, Fails, Select, GetCommand, GetLow, GetHigh, SetLow, SetHigh, SetTail,
                  Commit, Return, Goto
    <3>4. d = c
      BY <3>1, <3>3, <2>type
    <3>5. ~Begin(c) /\ ~Select(c) /\ ~GetCommand(c) /\ ~GetLow(c)
      BY <2>type DEF Begin, Select, GetCommand, GetLow, Goto
    <3>6. ~SetLow(c) /\ ~SetHigh(c) /\ ~SetTail(c) /\ ~Fails(c)
      BY <2>type DEF SetLow, SetHigh, SetTail, Fails, Return, Goto
    <3>7. GetHigh(c) => Return(c, "ok")
      BY <2>type DEF GetHigh, Goto
    <3>8. QED
      BY <3>2, <3>4, <3>5, <3>6, <3>7
  <2>2. CASE GetHigh(c) /\ Return(c, "ok")
    <3>1. /\ pc[c] = "high" /\ UNCHANGED table /\ Settled(c, WithHigh(c))
      BY <2>2, <2>type DEF GetHigh, Goto, Return
    <3>2. /\ old[c] = table[call[c].vid].bits \intersect Low
          /\ window.high = table[call[c].vid].bits \intersect HighWord
      BY <3>1 DEF WindowInv, Alone, Reading, HalfRead
    <3>3. WithHigh(c) = table[call[c].vid].bits
      BY <3>2, <2>type DEF WithHigh, Entry, PortSet
    <3>4. QED
      BY <3>1, <3>3 DEF Settled, Wanted
  <2>3. CASE Commit(c)
    <3>1. table'[call[c].vid].bits = Wanted(c, table[call[c].vid].bits) \union {Cpu}
      BY <2>3, <2>type, CommitsWanted DEF Commit
    <3>2. Cpu \notin call[c].ports
      BY <2>type, VlanAssumption DEF VlanAssumption
    <3>3. QED
      BY <3>1, <3>2 DEF Wanted
  <2>4. QED
    BY <2>1, <2>2, <2>3
<1>2. QED
  BY <1>1, TypeCorrect, WindowCorrect, PTL DEF Spec, SuccessMeansDone

=============================================================================
