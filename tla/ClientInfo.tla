------------------------------ MODULE ClientInfo ------------------------------
(***************************************************************************)
(* The agent's statistics: ClientInfo::get_machine_info                    *)
(* (client/src/client_info.cpp) reads /proc/stat twice, a second apart,    *)
(* once more to count the CPUs, then /proc/meminfo line by line, then      *)
(* /proc/stat for the processes, while the kernel goes on counting.  The   *)
(* main loop makes a new ClientInfo for every report.                      *)
(***************************************************************************)
EXTENDS Integers, Sequences

CONSTANTS
    Cpus,       \* CPUs of the machine
    MemInfos,   \* what /proc/meminfo may hold: sequences of [name, value]
    IntMax,     \* largest int; INT_MIN is -IntMax - 1
    MaxTicks,   \* bound: idle ticks, of all CPUs, during one sleep(1)
    MaxIdle,    \* bound: the kernel's idle counter
    MaxForks    \* bound: the kernel's count of processes

\* A line of /proc/meminfo: its name and its number of kB.
Line == [name : STRING, value : Nat]

ASSUME StatisticsAssumption ==
    /\ Cpus \in Nat \ {0} /\ IntMax \in Nat
    /\ MaxTicks \in Nat /\ MaxIdle \in Nat \ {0} /\ MaxForks \in Nat
    /\ MemInfos \subseteq Seq(Line)

VARIABLES
    idle,       \* /proc/stat: idle field of the line "cpu"
    processes,  \* /proc/stat: "processes", the forks since boot
    pc,         \* what get_machine_info does next
    ticks,      \* idle ticks since the first reading of this report
    idle_value1, idle_value2,
    meminfo,    \* the open /proc/meminfo, and the lines not yet read of it
    lines,
    mem,        \* mem_total, mem_free and mem_available
    machine     \* the statistics set so far

kernelVars == <<idle, processes>>
vars == <<kernelVars, pc, ticks, idle_value1, idle_value2, meminfo, lines, mem, machine>>

MemNames == {"MemTotal", "MemFree", "MemAvailable"}

Unread == [n \in MemNames |-> 0]

NoStatistics == [idle |-> 0, cpus |-> 0, mem |-> Unread, total |-> 0]

\* A long assigned to an int32 field keeps its low bits.
Int32(n) == ((n + IntMax + 1) % (2 * (IntMax + 1))) - IntMax - 1

TypeOK ==
    /\ idle \in 0 .. MaxIdle /\ processes \in 0 .. MaxForks
    /\ pc \in {"first", "sleep", "count", "open", "mem", "process", "ready", "terminated"}
    /\ idle_value1 \in 0 .. MaxIdle /\ idle_value2 \in 0 .. MaxIdle
    /\ ticks \in 0 .. MaxTicks
    /\ mem \in [MemNames -> Nat]
    /\ machine.mem \in [MemNames -> -IntMax - 1 .. IntMax]
    /\ machine.cpus \in 0 .. Cpus /\ machine.total \in 0 .. IntMax

Init ==
    /\ idle \in 0 .. 1 /\ processes = 0
    /\ pc = "first" /\ ticks = 0
    /\ idle_value1 = 0 /\ idle_value2 = 0
    /\ meminfo = << >> /\ lines = << >> /\ mem = Unread
    /\ machine = NoStatistics

-----------------------------------------------------------------------------
\* The kernel.

\* An idle tick of some CPU; between the two readings sleep(1) bounds them.
Tick ==
    /\ idle < MaxIdle
    /\ pc = "sleep" => ticks < MaxTicks
    /\ idle' = idle + 1
    /\ ticks' = IF pc = "sleep" THEN ticks + 1 ELSE ticks
    /\ UNCHANGED <<processes, pc, idle_value1, idle_value2, meminfo, lines, mem, machine>>

Fork ==
    /\ processes < MaxForks
    /\ processes' = processes + 1
    /\ UNCHANGED <<idle, pc, ticks, idle_value1, idle_value2, meminfo, lines, mem, machine>>

-----------------------------------------------------------------------------
\* get_cpu_idle_values and get_cpu_count.

Goto(from, to) == pc = from /\ pc' = to

\* Mutant: the first reading is kept from the report before.
FirstReading_Kept ==
    /\ idle # 0
    /\ Goto("first", "sleep")
    /\ idle_value1' = IF idle_value1 = 0 THEN idle ELSE idle_value1
    /\ ticks' = 0
    /\ UNCHANGED <<kernelVars, idle_value2, meminfo, lines, mem, machine>>

\* The line "cpu" gives an idle value: sleep(1), then read it again.
FirstReading ==
    /\ idle # 0
    /\ Goto("first", "sleep")
    /\ idle_value1' = idle
    /\ ticks' = 0
    /\ UNCHANGED <<kernelVars, idle_value2, meminfo, lines, mem, machine>>

\* /proc/stat cannot be opened, or no line gives an idle value but 0.
NoReading ==
    /\ Goto("first", "count")
    /\ idle_value1' = 0 /\ idle_value2' = 0
    /\ UNCHANGED <<kernelVars, ticks, meminfo, lines, mem, machine>>

\* Mutant: the second reading must differ from the first.
SecondReading_Different ==
    /\ idle # idle_value1
    /\ Goto("sleep", "count")
    /\ idle_value2' = idle
    /\ UNCHANGED <<kernelVars, ticks, idle_value1, meminfo, lines, mem, machine>>

\* seekg(0) makes the kernel write the file anew.
SecondReading ==
    /\ Goto("sleep", "count")
    /\ idle_value2' = idle
    /\ UNCHANGED <<kernelVars, ticks, idle_value1, meminfo, lines, mem, machine>>

\* cpu_idle and cpu_use of the two readings and get_cpu_count, which is 0
\* when /proc/stat cannot be opened this time: both are quotients by it.
Count ==
    /\ Goto("count", "open")
    /\ \E count \in {0, Cpus} :
           machine' = [machine EXCEPT !.idle = idle_value2 - idle_value1, !.cpus = count]
    /\ UNCHANGED <<kernelVars, ticks, idle_value1, idle_value2, meminfo, lines, mem>>

-----------------------------------------------------------------------------
\* get_mem_info.

OpenMemInfo ==
    /\ Goto("open", "mem")
    /\ meminfo' \in MemInfos /\ lines' = meminfo'
    /\ mem' = Unread
    /\ UNCHANGED <<kernelVars, ticks, idle_value1, idle_value2, machine>>

SetMemory(values) ==
    machine' = [machine EXCEPT !.mem = [n \in MemNames |-> Int32(values[n])]]

\* /proc/meminfo cannot be opened: all zeros.
NoMemInfo ==
    /\ Goto("open", "process")
    /\ meminfo' = << >> /\ lines' = << >> /\ mem' = Unread
    /\ SetMemory(Unread)
    /\ UNCHANGED <<kernelVars, ticks, idle_value1, idle_value2>>

\* Mutant: a field is taken from the line after the one that names it.
ReadLine_Next ==
    /\ pc = "mem" /\ lines # << >>
    /\ mem' = IF Head(lines).name \in MemNames /\ Tail(lines) # << >>
              THEN [mem EXCEPT ![Head(lines).name] = lines[2].value] ELSE mem
    /\ lines' = Tail(lines)
    /\ UNCHANGED <<kernelVars, pc, ticks, idle_value1, idle_value2, meminfo, machine>>

\* getline succeeds: a line with one of the three names sets its value.
ReadLine ==
    /\ pc = "mem" /\ lines # << >>
    /\ mem' = IF Head(lines).name \in MemNames
              THEN [mem EXCEPT ![Head(lines).name] = Head(lines).value] ELSE mem
    /\ lines' = Tail(lines)
    /\ UNCHANGED <<kernelVars, pc, ticks, idle_value1, idle_value2, meminfo, machine>>

AllSet == \A n \in MemNames : mem[n] # 0

\* Mutant: one value is enough.
MemoryRead_OneSet ==
    /\ lines = << >> /\ \E n \in MemNames : mem[n] # 0
    /\ Goto("mem", "process")
    /\ SetMemory(mem)
    /\ UNCHANGED <<kernelVars, ticks, idle_value1, idle_value2, meminfo, lines, mem>>

\* getline fails and all three values are set: the loop ends.
MemoryRead ==
    /\ lines = << >> /\ AllSet
    /\ Goto("mem", "process")
    /\ SetMemory(mem)
    /\ UNCHANGED <<kernelVars, ticks, idle_value1, idle_value2, meminfo, lines, mem>>

\* getline fails and a value is still 0: the condition of the loop is true,
\* its body finds an empty line.
SpinAtEof ==
    /\ pc = "mem" /\ lines = << >> /\ ~AllSet
    /\ UNCHANGED vars

-----------------------------------------------------------------------------
\* get_process_info, and the end of get_machine_info.

ReadProcesses ==
    /\ processes <= IntMax
    /\ Goto("process", "ready")
    /\ machine' = [machine EXCEPT !.total = processes]
    /\ UNCHANGED <<kernelVars, ticks, idle_value1, idle_value2, meminfo, lines, mem>>

\* /proc/stat cannot be opened.
NoProcesses ==
    /\ Goto("process", "ready")
    /\ UNCHANGED <<kernelVars, ticks, idle_value1, idle_value2, meminfo, lines, mem, machine>>

\* stoi throws out_of_range, which nothing catches.
StoiThrows ==
    /\ processes > IntMax
    /\ Goto("process", "terminated")
    /\ UNCHANGED <<kernelVars, ticks, idle_value1, idle_value2, meminfo, lines, mem, machine>>

\* The main loop sends the report, sleeps, and makes a new ClientInfo.
NextReport ==
    /\ Goto("ready", "first")
    /\ machine' = NoStatistics
    /\ UNCHANGED <<kernelVars, ticks, idle_value1, idle_value2, meminfo, lines, mem>>

Terminated == pc = "terminated" /\ UNCHANGED vars

Agent ==
    \/ FirstReading \/ NoReading \/ SecondReading \/ Count
    \/ OpenMemInfo \/ NoMemInfo \/ ReadLine \/ MemoryRead
    \/ ReadProcesses \/ NoProcesses \/ StoiThrows \/ NextReport

Next == Agent \/ SpinAtEof \/ Terminated \/ Tick \/ Fork

Spec == Init /\ [][Next]_vars

\* The agent is scheduled.
FairSpec == Spec /\ WF_vars(Agent)

-----------------------------------------------------------------------------
\* The values a /proc/meminfo gives for a name.
ValuesOf(file, name) == {file[i].value : i \in {j \in DOMAIN file : file[j].name = name}}

MemoryDone == pc \in {"process", "ready"}

\* A report is made only of a /proc/meminfo that gives all three values, and
\* none of them 0, or of none at all: a machine whose kernel gives no
\* MemAvailable, or one with nothing available, is never reported.
MemoryIsWhole ==
    MemoryDone => \/ mem = Unread /\ meminfo = << >>
                  \/ \A n \in MemNames : ValuesOf(meminfo, n) \ {0} # {}

\* The memory that is reported is the file's, each value under its own name,
\* if it fits an int; if it does not, it is another number.
MemoryIsTheFiles ==
    MemoryDone /\ meminfo # << >> =>
        \A n \in MemNames :
            \E v \in ValuesOf(meminfo, n) :
                IF v <= IntMax THEN machine.mem[n] = v ELSE machine.mem[n] # v

\* The CPU use that is reported is of one second: the idle time of the ticks
\* between the two readings, nothing older, and never below 0.
UseIsOfOneSecond ==
    pc \in {"open", "mem", "process", "ready"} =>
        machine.idle \in 0 .. MaxTicks

\* Every report gets ready, unless the count of processes has outgrown int or
\* the agent spins on a /proc/meminfo that does not give the three values.
GetsReady ==
    pc = "first" ~> \/ pc \in {"ready", "terminated"}
                    \/ /\ pc = "mem" /\ lines = << >>
                       /\ \E n \in MemNames : ValuesOf(meminfo, n) \ {0} = {}

=============================================================================
