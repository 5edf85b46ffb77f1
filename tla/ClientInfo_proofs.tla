-------------------------- MODULE ClientInfo_proofs --------------------------
(***************************************************************************)
(* What ClientInfo's runs check on small /proc files, for all of them.     *)
(*                                                                         *)
(* The invariant has three parts.  StateInv types the state.  ReadInv says *)
(* that the lines still to be read are lines of the open file and that     *)
(* every value set is one the file gives under that name, so that the      *)
(* condition the loop ends with speaks of the file.  UseInv says that      *)
(* while the agent sleeps the idle counter is ahead of the first reading   *)
(* by the ticks of this sleep.                                             *)
(***************************************************************************)
EXTENDS ClientInfo, SequenceTheorems, TLAPS

StateInv ==
    /\ TypeOK
    /\ meminfo \in Seq(Line) /\ lines \in Seq(Line)
    /\ machine \in [idle : Int, cpus : 0 .. Cpus,
                    mem : [MemNames -> -IntMax - 1 .. IntMax], total : 0 .. IntMax]

ReadInv ==
    /\ \A j \in DOMAIN lines : \E i \in DOMAIN meminfo : meminfo[i] = lines[j]
    /\ \A n \in MemNames : mem[n] # 0 => mem[n] \in ValuesOf(meminfo, n)
    /\ MemoryDone => /\ (mem = Unread /\ meminfo = << >>) \/ AllSet
                     /\ machine.mem = [n \in MemNames |-> Int32(mem[n])]

UseInv ==
    /\ pc = "sleep" => idle = idle_value1 + ticks
    /\ pc = "count" => idle_value2 - idle_value1 \in 0 .. MaxTicks
    /\ pc \in {"open", "mem", "process", "ready"} => machine.idle \in 0 .. MaxTicks

IInv == StateInv /\ ReadInv /\ UseInv

-----------------------------------------------------------------------------
\* The low bits of a long are an int; a value that fits is kept, a larger one
\* becomes another.
LEMMA Int32Fact ==
    ASSUME NEW n \in Nat
    PROVE  /\ Int32(n) \in -IntMax - 1 .. IntMax
           /\ n <= IntMax => Int32(n) = n
           /\ n > IntMax => Int32(n) # n
  BY StatisticsAssumption DEF Int32

LEMMA StateInvStep ==
    ASSUME StateInv, [Next]_vars
    PROVE  StateInv'
<1> USE StatisticsAssumption
<1> USE DEF StateInv, TypeOK
<1>1. CASE FirstReading \/ NoReading \/ SecondReading \/ Tick \/ Fork
  <2>1. CASE FirstReading
    BY <2>1 DEF FirstReading, Goto, kernelVars
  <2>2. CASE NoReading
    BY <2>2 DEF NoReading, Goto, kernelVars
  <2>3. CASE SecondReading
    BY <2>3 DEF SecondReading, Goto, kernelVars
  <2>4. CASE Tick
    BY <2>4 DEF Tick
  <2>5. CASE Fork
    BY <2>5 DEF Fork
  <2>6. QED
    BY <1>1, <2>1, <2>2, <2>3, <2>4, <2>5
<1>2. CASE Count
  <2>1. PICK count \in {0, Cpus} :
            machine' = [machine EXCEPT !.idle = idle_value2 - idle_value1, !.cpus = count]
    BY <1>2 DEF Count
  <2>2. /\ machine' \in [idle : Int, cpus : 0 .. Cpus,
                         mem : [MemNames -> -IntMax - 1 .. IntMax], total : 0 .. IntMax]
        /\ machine'.mem = machine.mem /\ machine'.cpus = count
        /\ machine'.total = machine.total
    <3>1. idle_value2 - idle_value1 \in Int /\ count \in 0 .. Cpus
      BY <2>1
    <3>2. QED
      BY <2>1, <3>1
  <2>3. QED
    BY <1>2, <2>2 DEF Count, Goto, kernelVars
<1>3. CASE OpenMemInfo
  BY <1>3 DEF OpenMemInfo, Goto, Unread, kernelVars
<1>4. ASSUME NEW values \in [MemNames -> Nat], SetMemory(values)
      PROVE  /\ machine' \in [idle : Int, cpus : 0 .. Cpus,
                              mem : [MemNames -> -IntMax - 1 .. IntMax], total : 0 .. IntMax]
             /\ machine'.mem \in [MemNames -> -IntMax - 1 .. IntMax]
             /\ machine'.cpus = machine.cpus /\ machine'.total = machine.total
  <2>1. [n \in MemNames |-> Int32(values[n])] \in [MemNames -> -IntMax - 1 .. IntMax]
    BY <1>4, Int32Fact
  <2>2. QED
    BY <1>4, <2>1 DEF SetMemory
<1>5. CASE NoMemInfo
  <2>1. Unread \in [MemNames -> Nat]
    BY DEF Unread
  <2>2. QED
    BY <1>4, <1>5, <2>1, EmptySeq DEF NoMemInfo, Goto, kernelVars
<1>6. CASE ReadLine
  <2>1. lines # << >>
    BY <1>6 DEF ReadLine
  <2>2. Tail(lines) \in Seq(Line) /\ Head(lines) \in Line
    BY <2>1, HeadTailProperties
  <2>3. Head(lines).value \in Nat
    BY <2>2 DEF Line
  <2>4. QED
    BY <1>6, <2>2, <2>3 DEF ReadLine, kernelVars
<1>7. CASE MemoryRead
  BY <1>4, <1>7 DEF MemoryRead, Goto, kernelVars
<1>8. CASE ReadProcesses
  <2>1. processes \in 0 .. IntMax
    BY <1>8 DEF ReadProcesses
  <2>2. /\ machine' \in [idle : Int, cpus : 0 .. Cpus,
                         mem : [MemNames -> -IntMax - 1 .. IntMax], total : 0 .. IntMax]
        /\ machine'.mem = machine.mem /\ machine'.cpus = machine.cpus
        /\ machine'.total = processes
    BY <1>8, <2>1 DEF ReadProcesses
  <2>3. QED
    BY <1>8, <2>1, <2>2 DEF ReadProcesses, Goto, kernelVars
<1>9. CASE NoProcesses \/ StoiThrows
  BY <1>9 DEF NoProcesses, StoiThrows, Goto, kernelVars
<1>10. CASE NextReport
  BY <1>10 DEF NextReport, NoStatistics, Unread, Goto, kernelVars
<1>11. CASE SpinAtEof \/ Terminated \/ UNCHANGED vars
  BY <1>11 DEF SpinAtEof, Terminated, vars, kernelVars
<1>12. QED
  BY <1>1, <1>2, <1>3, <1>5, <1>6, <1>7, <1>8, <1>9, <1>10, <1>11 DEF Next, Agent

LEMMA ReadInvStep ==
    ASSUME StateInv, ReadInv, [Next]_vars
    PROVE  ReadInv'
<1> USE DEF StateInv, TypeOK, ReadInv, MemoryDone, AllSet, ValuesOf
<1>0. ASSUME UNCHANGED <<meminfo, lines, mem>>,
             MemoryDone' => MemoryDone /\ machine'.mem = machine.mem
      PROVE  ReadInv'
  BY <1>0
<1>1. CASE FirstReading \/ NoReading \/ SecondReading \/ Count \/ NextReport \/ Tick \/ Fork
  <2>1. UNCHANGED <<meminfo, lines, mem>>
    BY <1>1 DEF FirstReading, NoReading, SecondReading, Count, NextReport, Tick, Fork
  <2>2. ~MemoryDone' \/ UNCHANGED <<pc, machine>>
    BY <1>1 DEF FirstReading, NoReading, SecondReading, Count, NextReport, Tick, Fork, Goto
  <2>3. QED
    BY <1>0, <2>1, <2>2
<1>2. CASE OpenMemInfo
  BY <1>2 DEF OpenMemInfo, Goto, Unread, kernelVars
<1>3. CASE NoMemInfo
  <2>1. machine'.mem = [n \in MemNames |-> Int32(mem'[n])]
    BY <1>3 DEF NoMemInfo, SetMemory
  <2>2. QED
    BY <1>3, <2>1 DEF NoMemInfo, Goto, Unread, kernelVars
<1>4. CASE ReadLine
  <2>1. /\ lines # << >> /\ pc = "mem" /\ pc' = pc /\ meminfo' = meminfo
        /\ lines' = Tail(lines)
    BY <1>4 DEF ReadLine
  <2>2. \A j \in DOMAIN lines' : \E i \in DOMAIN meminfo' : meminfo'[i] = lines'[j]
    <3>1. \A j \in DOMAIN lines' : j + 1 \in DOMAIN lines /\ lines'[j] = lines[j + 1]
      BY <2>1
    <3>2. QED
      BY <2>1, <3>1
  <2>3. ASSUME NEW n \in MemNames, mem'[n] # 0
        PROVE  mem'[n] \in ValuesOf(meminfo, n)
    <3>1. CASE Head(lines).name = n
      <4>1. mem'[n] = Head(lines).value
        BY <1>4, <3>1 DEF ReadLine
      <4>2. PICK i \in DOMAIN meminfo : meminfo[i] = Head(lines)
        <5>1. 1 \in DOMAIN lines /\ Head(lines) = lines[1]
          BY <2>1
        <5>2. QED
          BY <5>1
      <4>3. meminfo[i].value \in ValuesOf(meminfo, n)
        BY <3>1, <4>2
      <4>4. QED
        BY <4>1, <4>2, <4>3
    <3>2. CASE Head(lines).name # n
      <4>1. mem'[n] = mem[n]
        BY <1>4, <3>2 DEF ReadLine
      <4>2. QED
        BY <2>3, <4>1
    <3>3. QED
      BY <3>1, <3>2
  <2>4. QED
    BY <2>1, <2>2, <2>3
<1>5. CASE MemoryRead
  <2>1. machine'.mem = [n \in MemNames |-> Int32(mem'[n])]
    BY <1>5 DEF MemoryRead, SetMemory
  <2>2. QED
    BY <1>5, <2>1 DEF MemoryRead, Goto, kernelVars
<1>6. CASE ReadProcesses
  <2>1. machine'.mem = machine.mem
    BY <1>6 DEF ReadProcesses
  <2>2. QED
    BY <1>0, <1>6, <2>1 DEF ReadProcesses, Goto
<1>7. CASE NoProcesses \/ StoiThrows
  <2>1. MemoryDone /\ UNCHANGED <<meminfo, lines, mem, machine>>
    BY <1>7 DEF NoProcesses, StoiThrows, Goto
  <2>2. QED
    BY <1>0, <2>1
<1>8. CASE SpinAtEof \/ Terminated \/ UNCHANGED vars
  <2>1. UNCHANGED <<pc, meminfo, lines, mem, machine>>
    BY <1>8 DEF SpinAtEof, Terminated, vars
  <2>2. QED
    BY <1>0, <2>1
<1>9. QED
  BY <1>1, <1>2, <1>3, <1>4, <1>5, <1>6, <1>7, <1>8 DEF Next, Agent

LEMMA UseInvStep ==
    ASSUME StateInv, UseInv, [Next]_vars
    PROVE  UseInv'
<1> USE StatisticsAssumption
<1> USE DEF StateInv, TypeOK, UseInv
<1>1. CASE FirstReading
  BY <1>1 DEF FirstReading, Goto, kernelVars
<1>2. CASE NoReading
  BY <1>2 DEF NoReading, Goto, kernelVars
<1>3. CASE SecondReading
  BY <1>3 DEF SecondReading, Goto, kernelVars
<1>4. CASE Count
  BY <1>4 DEF Count, Goto, kernelVars
<1>5. CASE OpenMemInfo
  BY <1>5 DEF OpenMemInfo, Goto, Unread, kernelVars
<1>6. CASE NoMemInfo
  BY <1>6 DEF NoMemInfo, Goto, SetMemory, Unread, kernelVars
<1>7. CASE ReadLine
  BY <1>7 DEF ReadLine, kernelVars
<1>8. CASE MemoryRead
  BY <1>8 DEF MemoryRead, Goto, SetMemory, kernelVars
<1>9. CASE SpinAtEof
  BY <1>9 DEF SpinAtEof, vars, kernelVars
<1>10. CASE ReadProcesses
  BY <1>10 DEF ReadProcesses, Goto, kernelVars
<1>11. CASE NoProcesses
  BY <1>11 DEF NoProcesses, Goto, kernelVars
<1>12. CASE StoiThrows
  BY <1>12 DEF StoiThrows, Goto, kernelVars
<1>13. CASE NextReport
  BY <1>13 DEF NextReport, Goto, Unread, NoStatistics, kernelVars
<1>14. CASE Terminated
  BY <1>14 DEF Terminated, vars, kernelVars
<1>15. CASE Tick
  BY <1>15 DEF Tick, kernelVars
<1>16. CASE Fork
  BY <1>16 DEF Fork, kernelVars
<1>17. CASE UNCHANGED vars
  BY <1>17 DEF vars, kernelVars
<1>18. QED
  BY <1>1, <1>2, <1>3, <1>4, <1>5, <1>6, <1>7, <1>8, <1>9, <1>10, <1>11, <1>12, <1>13, <1>14, <1>15, <1>16, <1>17 DEF Next, Agent

-----------------------------------------------------------------------------
\* The invariant of ClientInfo.
THEOREM Invariance == Spec => []IInv
<1>1. Init => IInv
  BY StatisticsAssumption, Int32Fact
  DEF Init, IInv, StateInv, TypeOK, ReadInv, UseInv, MemoryDone, Unread, NoStatistics, MemNames
<1>2. IInv /\ [Next]_vars => IInv'
  BY StateInvStep, ReadInvStep, UseInvStep DEF IInv
<1>3. QED
  BY <1>1, <1>2, PTL DEF Spec

-----------------------------------------------------------------------------
\* Every part of the state has its type; what is reported fits an int.
THEOREM TypeTheorem == Spec => []TypeOK
<1>1. IInv => TypeOK
  BY DEF IInv, StateInv
<1>2. QED
  BY <1>1, Invariance, PTL

\* get_mem_info returns only from a /proc/meminfo that gives its three values.
THEOREM WholeTheorem == Spec => []MemoryIsWhole
<1>1. IInv => MemoryIsWhole
  BY DEF IInv, ReadInv, MemoryIsWhole, AllSet
<1>2. QED
  BY <1>1, Invariance, PTL

\* What get_mem_info reports are values of the file, under their own names.
THEOREM FilesTheorem == Spec => []MemoryIsTheFiles
<1>1. IInv => MemoryIsTheFiles
  <2>1. SUFFICES ASSUME IInv, MemoryDone, meminfo # << >>, NEW n \in MemNames
                 PROVE  \E v \in ValuesOf(meminfo, n) :
                            IF v <= IntMax THEN machine.mem[n] = v ELSE machine.mem[n] # v
    BY DEF MemoryIsTheFiles
  <2>2. mem[n] \in ValuesOf(meminfo, n) /\ machine.mem[n] = Int32(mem[n])
    BY <2>1 DEF IInv, ReadInv, AllSet
  <2>3. mem[n] \in Nat /\ IntMax \in Nat
    BY <2>1, StatisticsAssumption DEF IInv, StateInv, TypeOK
  <2>4. QED
    BY <2>2, <2>3, Int32Fact
<1>2. QED
  BY <1>1, Invariance, PTL

\* The idle time get_cpu_idle_values reports passed during its own sleep.
THEOREM UseTheorem == Spec => []UseIsOfOneSecond
<1>1. IInv => UseIsOfOneSecond
  BY DEF IInv, UseInv, UseIsOfOneSecond
<1>2. QED
  BY <1>1, Invariance, PTL

=============================================================================
