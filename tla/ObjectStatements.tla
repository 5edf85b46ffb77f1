--------------------------- MODULE ObjectStatements ---------------------------
(***************************************************************************)
(* machine_info-odb.cpp: the statements of one connection for machineinfo. *)
(* They share one image of an object.  The image's texts lie in buffers    *)
(* that are replaced when they are too small; each statement is bound to   *)
(* the addresses of buffers, and has to be bound anew before it is         *)
(* executed with others.  A buffer only grows, so that its capacity tells  *)
(* it from those before it.  The library (odb, the database) is external;  *)
(* callbacks and caches, which do nothing for machineinfo, are left out,   *)
(* and with them the case that a find is called during another one.        *)
(***************************************************************************)
EXTENDS Naturals, Sequences, SequencesExt, FiniteSetsExt

CONSTANTS
    Objects,     \* machineinfo objects without their id
    Keys,        \* client keys that are asked for
    Capacity,    \* of a buffer that is new
    MaxId        \* bound: rows that are ever stored

\* A machineinfo has these members and no others; its texts are characters.
ASSUME StatementsAssumption ==
    /\ Capacity \in Nat
    /\ \A o \in Objects :
          /\ o = [client_key |-> o.client_key,
                  memory |-> [mem_total |-> o.memory.mem_total, mem_available |-> o.memory.mem_available,
                              mem_free |-> o.memory.mem_free],
                  cpu |-> [idle_time |-> o.cpu.idle_time, use_time |-> o.cpu.use_time],
                  process |-> [total |-> o.process.total, running |-> o.process.running,
                               blocked |-> o.process.blocked],
                  system_info |-> [system_ip |-> o.system_info.system_ip,
                                   system_name |-> o.system_info.system_name],
                  time_stamp |-> o.time_stamp]
          /\ {o.client_key, o.system_info.system_ip, o.system_info.system_name} \subseteq Seq(Nat)

VARIABLES
    table,       \* id -> row, by columns
    used,        \* ids that were given
    rows,        \* what a query found and has not been read yet
    answer,      \* what the last call returned
    image,       \* the image: values, sizes and capacities, and a version
    id_image,    \* the id that a statement asks for
    sts          \* what each statement is bound to, and the version it saw

statementVars == <<table, used, rows, answer, image, id_image, sts>>

Freed   == <<"freed">>       \* what is read from a buffer that is no more
Nothing == <<"nothing">>

TextSlots == {"client_key", "system_info_system_ip", "system_info_system_name"}

-----------------------------------------------------------------------------
\* The composites: their columns, and their values to and from the image.

Number(slot)   == <<slot, 0>>
Text(im, slot) == <<slot, im.capacity[slot]>>

MemoryBind == <<Number("memory_mem_total"), Number("memory_mem_available"), Number("memory_mem_free")>>
MemoryImage(i, v) == [i EXCEPT !.memory_mem_total = v.mem_total, !.memory_mem_available = v.mem_available,
                               !.memory_mem_free = v.mem_free]
MemoryValue(i) == [mem_total |-> i.memory_mem_total, mem_available |-> i.memory_mem_available,
                   mem_free |-> i.memory_mem_free]

CPUBind == <<Number("cpu_idle_time"), Number("cpu_use_time")>>
CPUImage(i, v) == [i EXCEPT !.cpu_idle_time = v.idle_time, !.cpu_use_time = v.use_time]
CPUValue(i) == [idle_time |-> i.cpu_idle_time, use_time |-> i.cpu_use_time]

ProcessBind == <<Number("process_total"), Number("process_running"), Number("process_blocked")>>
ProcessImage(i, v) == [i EXCEPT !.process_total = v.total, !.process_running = v.running,
                                !.process_blocked = v.blocked]
ProcessValue(i) == [total |-> i.process_total, running |-> i.process_running, blocked |-> i.process_blocked]

SystemInfoBind(im) == <<Text(im, "system_info_system_ip"), Text(im, "system_info_system_name")>>
SystemInfoImage(i, v) == [i EXCEPT !.system_info_system_ip = v.system_ip,
                                   !.system_info_system_name = v.system_name]
SystemInfoValue(i) == [system_ip |-> i.system_info_system_ip, system_name |-> i.system_info_system_name]

\* A buffer that a text did not fit in is made as large as the text.  Of the
\* flags, t is the set of columns that were cut; the numbers never are.
Enlarged(im, slots) ==
    [im EXCEPT !.capacity = [s \in TextSlots |-> IF s \in slots THEN Max({@[s], im.size[s]}) ELSE @[s]]]

MemoryGrow(im, t, first)  == im
CPUGrow(im, t, first)     == im
ProcessGrow(im, t, first) == im
SystemInfoGrow(im, t, first) ==
    Enlarged(im, {s \in TextSlots : \/ s = "system_info_system_ip" /\ first \in t
                                    \/ s = "system_info_system_name" /\ first + 1 \in t})

-----------------------------------------------------------------------------
\* The object.

grow(im, t) ==
    LET key == Enlarged(im, IF 1 \in t THEN {"client_key"} ELSE {})
    IN  SystemInfoGrow(ProcessGrow(CPUGrow(MemoryGrow(key, t, 2), t, 5), t, 7), t, 10)

bind(im, kind) ==
    (IF kind \in {"insert", "update"} THEN << >> ELSE <<Number("id")>>)
    \o <<Text(im, "client_key")>> \o MemoryBind \o CPUBind \o ProcessBind \o SystemInfoBind(im)
    \o <<Number("time_stamp")>>

\* Values into the image; a text that does not fit gets a buffer that does.
init(im, o) ==
    LET own   == [im.value EXCEPT !.client_key = o.client_key, !.time_stamp = o.time_stamp]
        value == SystemInfoImage(ProcessImage(CPUImage(MemoryImage(own, o.memory), o.cpu), o.process), o.system_info)
    IN  Enlarged([im EXCEPT !.value = value, !.size = [s \in TextSlots |-> Len(value[s])]], TextSlots)

\* if (init (...)) im.version++
Versioned(before, after) ==
    IF before.capacity = after.capacity THEN after ELSE [after EXCEPT !.version = @ + 1]

object(i) ==
    [client_key |-> i.client_key, memory |-> MemoryValue(i), cpu |-> CPUValue(i), process |-> ProcessValue(i),
     system_info |-> SystemInfoValue(i), time_stamp |-> i.time_stamp]

-----------------------------------------------------------------------------
\* The statements: the columns they name, in their order.

persist_statement ==
    <<"client_key", "memory_mem_total", "memory_mem_available", "memory_mem_free", "cpu_idle_time",
      "cpu_use_time", "process_total", "process_running", "process_blocked", "system_info_system_ip",
      "system_info_system_name", "time_stamp">>

find_statement ==
    <<"id", "client_key", "memory_mem_total", "memory_mem_available", "memory_mem_free", "cpu_idle_time",
      "cpu_use_time", "process_total", "process_running", "process_blocked", "system_info_system_ip",
      "system_info_system_name", "time_stamp">>

update_statement ==
    <<"client_key", "memory_mem_total", "memory_mem_available", "memory_mem_free", "cpu_idle_time",
      "cpu_use_time", "process_total", "process_running", "process_blocked", "system_info_system_ip",
      "system_info_system_name", "time_stamp">>

query_statement ==
    <<"id", "client_key", "memory_mem_total", "memory_mem_available", "memory_mem_free", "cpu_idle_time",
      "cpu_use_time", "process_total", "process_running", "process_blocked", "system_info_system_ip",
      "system_info_system_name", "time_stamp">>

\* What a statement sends of its k-th buffer.
Sent(im, b) == IF b[1] \in TextSlots /\ b[2] # im.capacity[b[1]] THEN Freed ELSE im.value[b[1]]

Row(im, columns, bound) == [c \in ToSet(columns) |-> Sent(im, bound[CHOOSE k \in DOMAIN columns : columns[k] = c])]

\* A row into the buffers of a statement: the columns that were cut, and the
\* image; a text that is cut off is there as far as it fits.
Fetched(im, columns, bound, row) ==
    LET At(slot) == CHOOSE k \in DOMAIN bound : bound[k][1] = slot
        Cut(slot) == slot \in TextSlots /\ Len(row[columns[At(slot)]]) > bound[At(slot)][2]
        Value(slot) ==
            CASE slot \notin TextSlots -> row[columns[At(slot)]]
              [] slot \in TextSlots /\ bound[At(slot)][2] # im.capacity[slot] -> Freed
              [] OTHER -> LET text == row[columns[At(slot)]] IN SubSeq(text, 1, Min({Len(text), bound[At(slot)][2]}))
    IN  [cut   |-> {At(slot) - 1 : slot \in {s \in DOMAIN im.value : Cut(s)}},
         image |-> [im EXCEPT !.value = [s \in DOMAIN @ |-> Value(s)],
                              !.size = [s \in TextSlots |-> Len(row[columns[At(s)]])]]]

\* A statement's binding, made anew if there is none or the image has another
\* version.
Bound(b, im, kind) ==
    IF im.version # b.seen \/ b.to = << >> THEN [to |-> bind(im, kind), seen |-> im.version] ELSE b

\* Mutant: after the buffers have grown the statement keeps its binding.
Load_Stale(im, select, columns, row) ==
    LET b       == Bound(select, im, "select")
        first   == Fetched(im, columns, b.to, row)
        larger  == Versioned(first.image, grow(first.image, first.cut))
    IN  IF first.cut = {} \/ larger.version = b.seen THEN [image |-> larger, select |-> b]
        ELSE [image |-> Fetched(larger, columns, b.to, row).image, select |-> b]

\* One row into the image: fetch, and if it was cut, grow, bind and refetch.
Load(im, select, columns, row) ==
    LET b       == Bound(select, im, "select")
        first   == Fetched(im, columns, b.to, row)
        larger  == Versioned(first.image, grow(first.image, first.cut))
        again   == Bound(b, larger, "select")
    IN  IF first.cut = {} \/ larger.version = b.seen THEN [image |-> larger, select |-> b]
        ELSE [image |-> Fetched(larger, columns, again.to, row).image, select |-> again]

-----------------------------------------------------------------------------
NoBinding == [to |-> << >>, seen |-> 0]
NoImage ==
    [value    |-> [s \in ToSet(find_statement) |-> IF s \in TextSlots THEN << >> ELSE 0],
     size     |-> [s \in TextSlots |-> 0],
     capacity |-> [s \in TextSlots |-> Capacity], version |-> 0]
Unprepared == [insert |-> NoBinding, update |-> NoBinding, select |-> NoBinding]

StatementsInit ==
    /\ table = [id \in {} |-> 0] /\ used = 0 /\ rows = << >> /\ answer = Nothing
    /\ image = NoImage /\ id_image = 0 /\ sts = Unprepared

\* Another connection to the same database, with statements of its own.
Connect ==
    /\ rows' = << >> /\ answer' = Nothing /\ image' = NoImage /\ id_image' = 0 /\ sts' = Unprepared
    /\ UNCHANGED <<table, used>>

Except(t, ids) == [id \in DOMAIN t \ ids |-> t[id]]
With(t, id, r) == [k \in DOMAIN t \cup {id} |-> IF k = id THEN r ELSE t[k]]

\* The database fails: what was bound stays bound, an odb::exception leaves.
Failed == answer' = <<"exception">> /\ UNCHANGED <<table, used, rows>>

persist(o) ==
    LET im == Versioned(image, init(image, o))
        b  == Bound(sts.insert, im, "insert")
    IN  /\ image' = im /\ sts' = [sts EXCEPT !.insert = b]
        /\ \/ Failed /\ UNCHANGED id_image
           \/ /\ used < MaxId /\ used' = used + 1 /\ id_image' = used + 1
              /\ table' = With(table, used + 1, Row(im, persist_statement, b.to))
              /\ answer' = <<"id", id_image'>> /\ UNCHANGED rows

update(id, o) ==
    LET im == Versioned(image, init(image, o))
        b  == Bound(sts.update, im, "update")
    IN  /\ image' = im /\ id_image' = id /\ sts' = [sts EXCEPT !.update = b]
        /\ \/ Failed
           \/ /\ id_image' \in DOMAIN table /\ answer' = Nothing
              /\ table' = With(table, id_image', Row(im, update_statement, b.to)) /\ UNCHANGED <<used, rows>>
           \/ /\ id_image' \notin DOMAIN table /\ answer' = <<"not persistent">> /\ UNCHANGED <<table, used, rows>>

erase(id) ==
    /\ id_image' = id /\ UNCHANGED <<image, sts>>
    /\ \/ Failed
       \/ /\ id_image' \in DOMAIN table /\ answer' = Nothing
          /\ table' = Except(table, {id_image'}) /\ UNCHANGED <<used, rows>>
       \/ /\ id_image' \notin DOMAIN table /\ answer' = <<"not persistent">> /\ UNCHANGED <<table, used, rows>>

\* What the database sends of a row.
WithId(id) == [c \in ToSet(find_statement) |-> IF c = "id" THEN id ELSE table[id][c]]

\* find_: the row with this id is in the image, if there is one.
find_(id) ==
    LET loaded == Load(image, sts.select, find_statement, WithId(id))
    IN  IF id \in DOMAIN table
        THEN image' = loaded.image /\ sts' = [sts EXCEPT !.select = loaded.select]
        ELSE image' = image /\ sts' = [sts EXCEPT !.select = Bound(@, image, "select")]

\* find makes the object, or fills one of its caller's; reload fills one that
\* has the id already.
find(id) ==
    /\ id_image' = id
    /\ \/ /\ Failed /\ image' = image /\ sts' = [sts EXCEPT !.select = Bound(@, image, "select")]
       \/ /\ find_(id_image') /\ UNCHANGED <<table, used, rows>>
          /\ answer' = IF id_image' \in DOMAIN table THEN <<"object", image'.value.id, object(image'.value)>>
                       ELSE <<"absent">>

\* The clause of a query: a client_key, or none.
Matching(key) == {id \in DOMAIN table : key = << >> \/ table[id].client_key = key}

query(key) ==
    /\ sts' = [sts EXCEPT !.select = Bound(@, image, "select")] /\ UNCHANGED <<image, id_image>>
    /\ \/ Failed
       \/ /\ rows' \in {[i \in DOMAIN order |-> WithId(order[i])] :
                          order \in SetToSeqs(Matching(key))}
          /\ answer' = Nothing /\ UNCHANGED <<table, used>>

\* The result of a query loads its next row; other statements may have been
\* executed since the query.
Next_row ==
    /\ rows # << >> /\ rows' = Tail(rows)
    /\ LET loaded == Load(image, sts.select, query_statement, rows[1])
       IN  image' = loaded.image /\ sts' = [sts EXCEPT !.select = loaded.select]
    /\ answer' = <<"object", image'.value.id, object(image'.value)>>
    /\ UNCHANGED <<table, used, id_image>>

erase_query(key) ==
    /\ UNCHANGED <<image, id_image, sts>>
    /\ \/ Failed
       \/ /\ table' = Except(table, Matching(key)) /\ UNCHANGED <<used, rows>>
          /\ answer' = <<"erased", Cardinality(Matching(key))>>

StatementsNext ==
    \/ \E o \in Objects : persist(o) \/ \E id \in 1 .. MaxId : update(id, o)
    \/ \E id \in 1 .. MaxId : erase(id) \/ find(id)
    \/ \E key \in Keys \cup {<< >>} : query(key) \/ erase_query(key)
    \/ Next_row \/ Connect

StatementsSpec == StatementsInit /\ [][StatementsNext]_statementVars

=============================================================================
