--------------------------- MODULE MachineMessages ---------------------------
(***************************************************************************)
(* The messages of machine.proto as machine.pb.cc writes them to bytes and *)
(* reads them again.  A submessage is a sequence of no or one message, a   *)
(* float its four bytes, a string its bytes.  The library's readers and    *)
(* writers of a field, and its Timestamp, are external; groups, which      *)
(* proto3 does not have, and lengths of 2^31 and more are not among the    *)
(* inputs.  Unknown fields, which nothing here writes again, are skipped.  *)
(***************************************************************************)
EXTENDS Integers, Sequences, SequencesExt, FiniteSetsExt

CONSTANTS
    Messages,    \* MachineInfo messages that are sent
    Others,      \* those whose bytes follow
    Noise        \* bytes no agent has written

-----------------------------------------------------------------------------
\* The library: fields on the wire.

Field(number, type, name) == [number |-> number, type |-> type, name |-> name]

WireType(type) == CASE type = "int" -> 0 [] type = "float" -> 5 [] OTHER -> 2
Tag(f)         == 8 * f.number + WireType(f.type)

\* Seven bits to a byte, the lowest first; a negative number has all 64 bits.
Varint(n) ==
    LET rest[k \in 0 .. 9] == IF k = 0 THEN n ELSE rest[k - 1] \div 128
        digits == IF n < 0 THEN 10 ELSE 1 + Cardinality({k \in 1 .. 9 : rest[k] # 0})
    IN  [k \in 1 .. digits |-> IF k = 10 THEN 1
                               ELSE (rest[k - 1] % 128) + (IF k < digits THEN 128 ELSE 0)]

\* Mutant: a negative number is thought to need the five bytes of 32 bits.
VarintSize_32(n) == IF n < 0 THEN 5 ELSE Len(Varint(n))

VarintSize(n) == Len(Varint(n))

Unread == [ok |-> FALSE]

\* What is read from position at: the low 32 bits, and where to go on.
ReadVarint(bytes, at) ==
    LET ends     == {k \in at .. at + 9 : k <= Len(bytes) /\ bytes[k] < 128}
        end      == CHOOSE k \in ends : \A j \in ends : k <= j
        Digit(k) == IF at + k <= end THEN bytes[at + k] % 128 ELSE 0
        top      == Digit(4) % 16
    IN  IF ends = {} THEN Unread
        ELSE [ok |-> TRUE, next |-> end + 1,
              n  |-> (IF top < 8 THEN top ELSE top - 16) * 268435456
                     + Digit(0) + 128 * Digit(1) + 16384 * Digit(2) + 2097152 * Digit(3)]

Read(number, wire, value, next) ==
    [ok |-> TRUE, number |-> number, wire |-> wire, value |-> value, next |-> next]

\* n bytes.  The length of a submessage that the class knows is a limit and
\* may reach past the end; that of a string or an unknown field may not.
ReadBytes(bytes, at, n, number, wire, submessages) ==
    IF n \in 0 .. Len(bytes) - at + 1 THEN Read(number, wire, SubSeq(bytes, at, at + n - 1), at + n)
    ELSE IF wire = 2 /\ number \in submessages
         THEN Read(number, wire, SubSeq(bytes, at, Len(bytes)), Len(bytes) + 1)
    ELSE Unread

\* What follows a tag; first is the varint there, if it is one.
ReadValue(bytes, at, first, number, wire, submessages) ==
    CASE wire = 0 /\ first.ok -> Read(number, wire, first.n, first.next)
      [] wire = 1             -> ReadBytes(bytes, at, 8, number, wire, submessages)
      [] wire = 5             -> ReadBytes(bytes, at, 4, number, wire, submessages)
      [] wire = 2 /\ first.ok -> ReadBytes(bytes, first.next, first.n, number, wire, submessages)
      [] OTHER                -> Unread

ReadField(bytes, tag, submessages) ==
    IF ~ tag.ok \/ tag.n \div 8 = 0 THEN Unread
    ELSE ReadValue(bytes, tag.next, ReadVarint(bytes, tag.next), tag.n \div 8, tag.n % 8, submessages)

Followed(f, after) ==
    IF ~ f.ok \/ ~ after[f.next].ok THEN Unread
    ELSE [ok |-> TRUE, fields |-> <<f>> \o after[f.next].fields]

\* All the fields, in their order.
ReadFields(bytes, submessages) ==
    LET after[at \in 1 .. Len(bytes) + 1] ==
            IF at > Len(bytes) THEN [ok |-> TRUE, fields |-> << >>]
            ELSE Followed(ReadField(bytes, ReadVarint(bytes, at), submessages), after)
    IN  after[1]

\* VerifyUtf8String, for characters of one and two bytes.
IsUtf8(s) ==
    \A i \in DOMAIN s : /\ s[i] < 224
                        /\ s[i] >= 192 => i < Len(s) /\ s[i + 1] \in 128 .. 191
                        /\ s[i] \in 128 .. 191 => i > 1 /\ s[i - 1] >= 192

-----------------------------------------------------------------------------
\* What the classes without submessages have in common.

Zero      == <<0, 0, 0, 0>>
MinusZero == <<0, 0, 0, 128>>

Default(f)  == CASE f.type = "int" -> 0 [] f.type = "float" -> Zero [] OTHER -> << >>
IsSet(f, v) == v # Default(f) /\ ~ (f.type = "float" /\ v = MinusZero)
Bytes(f, v) == CASE f.type = "int" -> Varint(v) [] f.type = "float" -> v
                 [] OTHER -> Varint(Len(v)) \o v
Size(f, v)  == CASE f.type = "int" -> VarintSize(v) [] f.type = "float" -> 4
                 [] OTHER -> VarintSize(Len(v)) + Len(v)

Cleared(fields) == [name \in {f.name : f \in ToSet(fields)} |->
                      Default(CHOOSE f \in ToSet(fields) : f.name = name)]

Written(fields, m) ==
    FlattenSeq([i \in DOMAIN fields |->
        IF IsSet(fields[i], m[fields[i].name]) THEN <<Tag(fields[i])>> \o Bytes(fields[i], m[fields[i].name])
        ELSE << >>])

Sized(fields, m) ==
    FoldLeft(LAMBDA n, f : IF IsSet(f, m[f.name]) THEN n + 1 + Size(f, m[f.name]) ELSE n, 0, fields)

Overlaid(fields, m, from) ==
    [name \in DOMAIN m |-> LET f == CHOOSE g \in ToSet(fields) : g.name = name
                           IN  IF IsSet(f, from[name]) THEN from[name] ELSE m[name]]

\* The field that a number and a wire type stand for; others are skipped.
Known(fields, read) == {g \in ToSet(fields) : g.number = read.number /\ WireType(g.type) = read.wire}

Assigned(m, g, value) ==
    IF g.type = "string" /\ ~ IsUtf8(value) THEN << >> ELSE <<[m EXCEPT ![g.name] = value]>>

\* <<the message>> with the fields that were read, << >> when one is bad.
WithFields(Assign(_, _, _), fields, m, read) ==
    IF ~ read.ok THEN << >>
    ELSE FoldLeft(LAMBDA r, f :
                    IF r = << >> \/ Known(fields, f) = {} THEN r
                    ELSE Assign(r[1], CHOOSE g \in Known(fields, f) : TRUE, f.value),
                  <<m>>, read.fields)

Merged(fields, m, bytes) == WithFields(Assigned, fields, m, ReadFields(bytes, {}))

-----------------------------------------------------------------------------
MemoryFields == <<Field(1, "int", "mem_total"), Field(2, "int", "mem_available"), Field(3, "int", "mem_free")>>
MemoryClear              == Cleared(MemoryFields)
MemoryMerge(m, bytes)    == Merged(MemoryFields, m, bytes)
MemorySerialize(m)       == Written(MemoryFields, m)
MemoryByteSize(m)        == Sized(MemoryFields, m)
MemoryMergeFrom(m, from) == Overlaid(MemoryFields, m, from)

CPUFields == <<Field(1, "float", "idle_time"), Field(2, "float", "use_time")>>
CPUClear              == Cleared(CPUFields)
CPUMerge(m, bytes)    == Merged(CPUFields, m, bytes)
CPUSerialize(m)       == Written(CPUFields, m)
CPUByteSize(m)        == Sized(CPUFields, m)
CPUMergeFrom(m, from) == Overlaid(CPUFields, m, from)

ProcessFields == <<Field(1, "int", "total"), Field(2, "int", "running"),
                   Field(3, "int", "blocked")>>
ProcessClear              == Cleared(ProcessFields)
ProcessMerge(m, bytes)    == Merged(ProcessFields, m, bytes)
ProcessSerialize(m)       == Written(ProcessFields, m)
ProcessByteSize(m)        == Sized(ProcessFields, m)
ProcessMergeFrom(m, from) == Overlaid(ProcessFields, m, from)

SystemInfoFields == <<Field(1, "string", "system_ip"), Field(2, "string", "system_name")>>
SystemInfoClear              == Cleared(SystemInfoFields)
SystemInfoMerge(m, bytes)    == Merged(SystemInfoFields, m, bytes)
SystemInfoSerialize(m)       == Written(SystemInfoFields, m)
SystemInfoByteSize(m)        == Sized(SystemInfoFields, m)
SystemInfoMergeFrom(m, from) == Overlaid(SystemInfoFields, m, from)

TimestampFields == <<Field(1, "int", "seconds"), Field(2, "int", "nanos")>>

-----------------------------------------------------------------------------
\* Machine: each operation is its class's on the submessages there are.

MachineFields == <<Field(5, "Timestamp", "last_updated"), Field(6, "Memory", "memory"), Field(7, "CPU", "cpu"),
                   Field(8, "Process", "process"), Field(9, "SystemInfo", "systeminfo")>>

OfClass(type, timestamp, memory, cpu, process, systeminfo) ==
    CASE type = "Timestamp" -> timestamp [] type = "Memory" -> memory [] type = "CPU" -> cpu
      [] type = "Process" -> process [] type = "SystemInfo" -> systeminfo

New(type) == OfClass(type, Cleared(TimestampFields), MemoryClear, CPUClear, ProcessClear, SystemInfoClear)

\* The submessage, a new one if there is none.
Mutable(g, sub) == IF sub = << >> THEN New(g.type) ELSE sub[1]

MachineClear == [name \in {f.name : f \in ToSet(MachineFields)} |-> << >>]

Put(m, g, sub) == IF sub = << >> THEN << >> ELSE <<[m EXCEPT ![g.name] = sub]>>

SubMerge(type, sub, bytes) ==
    OfClass(type, Merged(TimestampFields, sub, bytes), MemoryMerge(sub, bytes), CPUMerge(sub, bytes),
            ProcessMerge(sub, bytes), SystemInfoMerge(sub, bytes))

MachineField(m, g, bytes) == Put(m, g, SubMerge(g.type, Mutable(g, m[g.name]), bytes))

MachineMerge(m, bytes) ==
    WithFields(MachineField, MachineFields, m, ReadFields(bytes, {f.number : f \in ToSet(MachineFields)}))

MachinePart(g, m) ==
    OfClass(g.type, Written(TimestampFields, m), MemorySerialize(m), CPUSerialize(m), ProcessSerialize(m),
            SystemInfoSerialize(m))

MachinePartSize(g, m) ==
    OfClass(g.type, Sized(TimestampFields, m), MemoryByteSize(m), CPUByteSize(m), ProcessByteSize(m),
            SystemInfoByteSize(m))

\* The length in front of a submessage is the size ByteSizeLong has left in it.
MachineSerialize(m) ==
    FlattenSeq([i \in DOMAIN MachineFields |->
        LET g == MachineFields[i]   sub == m[g.name]
        IN  IF sub = << >> THEN << >>
            ELSE <<Tag(g)>> \o Varint(MachinePartSize(g, sub[1])) \o MachinePart(g, sub[1])])

MachineByteSize(m) ==
    LET Step(n, g) == IF m[g.name] = << >> THEN n
                      ELSE LET size == MachinePartSize(g, m[g.name][1]) IN n + 1 + VarintSize(size) + size
    IN  FoldLeft(Step, 0, MachineFields)

MachineMergeFrom(m, from) ==
    [name \in DOMAIN m |->
        IF from[name] = << >> THEN m[name]
        ELSE LET g   == CHOOSE f \in ToSet(MachineFields) : f.name = name
                 sub == Mutable(g, m[name])
             IN  <<OfClass(g.type, Overlaid(TimestampFields, sub, from[name][1]),
                           MemoryMergeFrom(sub, from[name][1]), CPUMergeFrom(sub, from[name][1]),
                           ProcessMergeFrom(sub, from[name][1]), SystemInfoMergeFrom(sub, from[name][1]))>>]

-----------------------------------------------------------------------------
\* MachineInfo: no or one Machine.

MachineInfoFields == <<Field(1, "Machine", "machine")>>

MachineInfoClear == [machine |-> << >>]

MachineInfoField(m, g, bytes) ==
    Put(m, g, MachineMerge(IF m.machine = << >> THEN MachineClear ELSE m.machine[1], bytes))

MachineInfoMerge(m, bytes) == WithFields(MachineInfoField, MachineInfoFields, m, ReadFields(bytes, {1}))

MachineInfoSerialize(m) ==
    IF m.machine = << >> THEN << >>
    ELSE <<Tag(MachineInfoFields[1])>> \o Varint(MachineByteSize(m.machine[1])) \o MachineSerialize(m.machine[1])

MachineInfoByteSize(m) ==
    IF m.machine = << >> THEN 0
    ELSE LET size == MachineByteSize(m.machine[1]) IN 1 + VarintSize(size) + size

MachineInfoMergeFrom(m, from) ==
    IF from.machine = << >> THEN m
    ELSE [machine |-> <<MachineMergeFrom(IF m.machine = << >> THEN MachineClear ELSE m.machine[1],
                                         from.machine[1])>>]

\* << >> when the bytes are refused.
ParseFromString(bytes) == MachineInfoMerge(MachineInfoClear, bytes)

-----------------------------------------------------------------------------
VARIABLES
    kind,     \* where the bytes come from
    input,    \* what they are made of
    got       \* <<what ParseFromString gives>>, << >> before

vars == <<kind, input, got>>

Init ==
    /\ \/ kind = "one" /\ input \in Messages
       \/ kind = "two" /\ input \in Messages \X Others
       \/ kind = "cut" /\ \E m \in Messages : input \in {m} \X (0 .. MachineInfoByteSize(m))
       \/ kind = "bytes" /\ input \in Noise
    /\ got = << >>

Parse(k, bytes) == kind = k /\ got = << >> /\ got' = <<ParseFromString(bytes)>> /\ UNCHANGED <<kind, input>>

Next ==
    \/ Parse("one", MachineInfoSerialize(input))
    \/ Parse("two", MachineInfoSerialize(input[1]) \o MachineInfoSerialize(input[2]))
    \/ Parse("cut", SubSeq(MachineInfoSerialize(input[1]), 1, input[2]))
    \/ Parse("bytes", input)

Spec == Init /\ [][Next]_vars

-----------------------------------------------------------------------------
Done(k) == kind = k /\ got # << >>

\* The plain fields a message has, as <<submessage, field, value>>.
Leaves(m) ==
    IF m.machine = << >> THEN {}
    ELSE UNION {LET sub == m.machine[1][name]
                IN  IF sub = << >> THEN {} ELSE {<<name, f, sub[1][f]>> : f \in DOMAIN sub[1]} :
                name \in DOMAIN m.machine[1]}

\* All the strings can be sent.
Sendable(m) == \A l \in Leaves(m) : l[2] \in {"system_ip", "system_name"} => IsUtf8(l[3])

\* A float that is minus zero is not written: it is zero when it is read.
AsRead(l) == IF l[1] = "cpu" /\ l[3] = MinusZero THEN <<l[1], l[2], Zero>> ELSE l

\* What is serialized is read again, all of it and with the submessages it
\* had, empty ones included; the message is refused exactly when one of its
\* strings is not UTF-8.
RoundTrip ==
    Done("one") =>
        IF ~ Sendable(input) THEN got[1] = << >>
        ELSE /\ got[1] # << >>
             /\ Leaves(got[1][1]) = {AsRead(l) : l \in Leaves(input)}
             /\ (got[1][1].machine = << >>) = (input.machine = << >>)

\* ByteSizeLong, which sizes the buffer and is written in front of every
\* submessage, is the number of bytes that are written.
SizeIsExact == kind = "one" => Len(MachineInfoSerialize(input)) = MachineInfoByteSize(input)

\* Bytes that follow other bytes, as when a body holds two reports, are read
\* as MergeFrom merges the messages: one report made of both.
ConcatenationMerges ==
    Done("two") /\ Sendable(input[1]) /\ Sendable(input[2]) =>
        /\ got[1] # << >>
        /\ Leaves(got[1][1]) = {AsRead(l) : l \in Leaves(MachineInfoMergeFrom(input[1], input[2]))}

\* A report that is cut off is refused or read as a part of itself: no value
\* is another one, but those behind the cut are missing.  (A cut between two
\* fields is not noticed: the length of a submessage is a limit only.)
CutIsPart ==
    Done("cut") /\ got[1] # << >> =>
        \A l \in Leaves(got[1][1]) :
            \/ l \in {AsRead(k) : k \in Leaves(input[1])}
            \/ \E g \in ToSet(MachineFields) : g.name = l[1] /\ l[3] = New(g.type)[l[2]]

\* Whatever is accepted can be sent again, and is then read as it is.
AcceptedIsStable ==
    Done("bytes") /\ got[1] # << >> =>
        LET again == ParseFromString(MachineInfoSerialize(got[1][1]))
        IN  again # << >> /\ Leaves(again[1]) = {AsRead(l) : l \in Leaves(got[1][1])}

=============================================================================
