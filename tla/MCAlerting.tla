------------------------------ MODULE MCAlerting ------------------------------
(* Small lists of clients and the reports held against them. *)
EXTENDS Alerting

None == << >>

A(part) == [attributes |-> part, elements |-> None]
E(part) == [attributes |-> None, elements |-> part]

\* Alerts in both layouts, and the ways to get one wrong.
MemoryUnder == A([type |-> "memory", under |-> Number(25)])
CpuOver     == E([type |-> "cpu", over |-> Number(19)])
ProcEqual   == A([type |-> "process", equal |-> Number(2)])
MemoryEqual == E([type |-> "memory", equal |-> Number(33)])
TwoOfThem   == A([type |-> "process", over |-> Number(1), under |-> Number(5)])
Mixed       == [attributes |-> [type |-> "cpu"], elements |-> [over |-> Number(0)]]
Both        == [attributes |-> [type |-> "cpu", over |-> Number(50)],
                elements |-> [type |-> "memory", under |-> Number(90)]]
NotANumber  == A([type |-> "cpu", over |-> NoNumber])
NoSuchType  == A([type |-> "disk", over |-> Number(1)])
NoType      == A([over |-> Number(1)])

AlertLists == { << >>, <<MemoryUnder, CpuOver>>, <<ProcEqual, Mixed>>, <<Both, MemoryEqual>>,
                <<NoType, NotANumber, CpuOver>>, <<NoSuchType, TwoOfThem>> }

EntriesOf(keys, emails, lists) == [key : keys, mail : emails, alerts : lists]

SomeEntries == EntriesOf({"a"}, {"m1"}, AlertLists)
               \cup EntriesOf({"", "a", "b"}, {"", "m2"}, {<<CpuOver>>, <<NotANumber>>})

Lists == UNION {[1 .. n -> SomeEntries] : n \in 0 .. 2}

SmallDocuments == [wellFormed : BOOLEAN, entries : Lists]

TwoKeys == {"a", "b"}

Stats(total, free, idle, cpus, run) ==
    [mem_total |-> total, mem_free |-> free, idle |-> idle, cpus |-> cpus, running |-> run]

\* A machine with all memory free, one whose CPU use is a little negative (more
\* than a second passed between the two readings), one that could not count
\* its CPUs and one that cannot read /proc.
SomeStatistics ==
    { Stats(3, 3, 805, 10, 1), Stats(3, 2, 1003, 10, 2), Stats(3, 1, 5, 0, 2),
      Stats(0, 0, 0, 0, 0) }

=============================================================================
