---------------------------- MODULE MessageObjects ----------------------------
(***************************************************************************)
(* The message classes of machine.pb.h as objects on the heap: who owns    *)
(* what when messages are put into each other, taken out, copied, merged,  *)
(* swapped, moved and destroyed.  A class's numbers are one number, 0 when *)
(* nothing is set.  A string field of SystemInfo is a pointer to a string, *)
(* NULL standing for the library's one empty string.  Whole objects are    *)
(* numbered in the order of allocation, so that a new one takes the least  *)
(* number that is free.                                                    *)
(***************************************************************************)
EXTENDS Naturals, FiniteSets, Sequences

CONSTANTS
    Programs,   \* what the programs that use the messages may do
    Values      \* the numbers and texts, 0 for none

VARIABLES
    program, \* the program: a member of Programs
    heap,    \* the objects, Gone where there is none
    held     \* those that the program owns itself

vars == <<program, heap, held>>

Ids     == program.Ids      \* the objects there is room for
MaxHeld == program.MaxHeld  \* how many of them the program owns itself
Classes == program.Classes  \* the classes whose objects it makes
Parts   == program.Parts    \* the submessages of Machine it uses

ASSUME MessageObjectsAssumption ==
    /\ \A p \in Programs :
         /\ p.Ids \subseteq Nat \ {0} /\ IsFiniteSet(p.Ids) /\ p.MaxHeld \in Nat
         /\ p.Parts \subseteq {"last_updated", "memory", "cpu", "process", "systeminfo"}
    /\ 0 \in Values /\ Values \subseteq Nat

NULL == 0
Gone == [class |-> "gone"]

Strings == {"system_ip", "system_name"}

FieldsOf(class) == CASE class = "MachineInfo" -> {"machine"}
                     [] class = "Machine"     -> Parts
                     [] class = "SystemInfo"  -> Strings
                     [] OTHER                 -> {}

ClassOf(f) == CASE f = "machine" -> "Machine" [] f = "last_updated" -> "Timestamp" [] f = "memory" -> "Memory"
                [] f = "cpu" -> "CPU" [] f = "process" -> "Process" [] f = "systeminfo" -> "SystemInfo"
                [] OTHER -> "string"

Live(h) == {o \in Ids : h[o] # Gone}
Init    == program \in Programs /\ heap = [o \in Ids |-> Gone] /\ held = {}

-----------------------------------------------------------------------------
\* SharedCtor: nothing in it.
Made(class) == [class |-> class, sub |-> [f \in FieldsOf(class) |-> NULL], value |-> 0]

\* The n-th free number.
Fresh(h, n) == CHOOSE o \in Ids \ Live(h) : Cardinality({p \in Ids \ Live(h) : p <= o}) = n
Room(h, n)  == Cardinality(Ids \ Live(h)) >= n

\* The objects under one, itself included.
Children(h, set) == (UNION {{h[p].sub[f] : f \in DOMAIN h[p].sub} : p \in set}) \ {NULL}
Below(h, o) == LET one == Children(h, {o})   two == Children(h, one)
               IN  {o} \cup one \cup two \cup Children(h, two)

\* SharedDtor: an object takes those under it with it.
Deleted(h, o) == IF o = NULL THEN h ELSE [p \in Ids |-> IF p \in Below(h, o) THEN Gone ELSE h[p]]

\* The ways from an object to those under it, without strings that are empty.
Object(h, o, path) ==
    CASE path = << >>   -> o
      [] Len(path) = 1  -> h[o].sub[path[1]]
      [] Len(path) = 2  -> h[h[o].sub[path[1]]].sub[path[2]]
      [] OTHER          -> h[h[h[o].sub[path[1]]].sub[path[2]]].sub[path[3]]

Onward(h, o, paths) ==
    UNION {{Append(path, f) : f \in {g \in FieldsOf(h[Object(h, o, path)].class) :
                                        h[Object(h, o, path)].sub[g] # NULL}} : path \in paths}
Paths(h, o) == LET one == Onward(h, o, {<< >>})   two == Onward(h, o, one)
               IN  {<< >>} \cup one \cup two \cup Onward(h, o, two)
Filled(h, o) == {path \in Paths(h, o) : LET s == h[Object(h, o, path)] IN s.class = "string" => s.value # 0}

\* What a program can read in a message: its submessages, numbers and texts.
Content(h, o) == [path \in Filled(h, o) |-> h[Object(h, o, path)].value]

-----------------------------------------------------------------------------
\* MergeFrom, level by level: mutable_x() makes what is missing, a number or
\* a text that is set overwrites.
Missing(h, to, from) == Filled(h, from) \ Paths(h, to)

MergeFrom(h, to, from) ==
    LET missing    == Missing(h, to, from)
        Before(p)  == Cardinality({q \in missing : Object(h, from, q) <= Object(h, from, p)})
        Node(p)    == IF p \in missing THEN Fresh(h, Before(p)) ELSE Object(h, to, p)
        Merged(p)  ==
            LET source == h[Object(h, from, p)]
                target == IF p \in missing THEN Made(source.class) ELSE h[Object(h, to, p)]
            IN  [target EXCEPT !.value = IF source.value # 0 THEN source.value ELSE @,
                               !.sub = [f \in DOMAIN @ |-> IF Append(p, f) \in missing THEN Node(Append(p, f))
                                                           ELSE @[f]]]
        at         == [o \in {Node(p) : p \in Filled(h, from)} |->
                         CHOOSE p \in Filled(h, from) : Node(p) = o]
    IN  [o \in Ids |-> IF o \in DOMAIN at THEN Merged(at[o]) ELSE h[o]]

\* Clear: submessages are deleted, strings stay and are emptied.
Cleared(h, o) ==
    LET messages == {f \in FieldsOf(h[o].class) : f \notin Strings}
        texts    == {h[o].sub[f] : f \in FieldsOf(h[o].class) \cap Strings}
        doomed   == UNION {Below(h, h[o].sub[f]) : f \in {g \in messages : h[o].sub[g] # NULL}}
    IN  [p \in Ids |-> IF p \in doomed THEN Gone
                       ELSE IF p \in texts THEN [h[p] EXCEPT !.value = 0]
                       ELSE IF p = o THEN [h[p] EXCEPT !.value = 0,
                                               !.sub = [f \in DOMAIN @ |-> IF f \in messages THEN NULL ELSE @[f]]]
                       ELSE h[p]]

\* Mutant: an object is not told from itself.
CopyFrom_Self(h, to, from) ==
    LET clear == Cleared(h, to) IN IF to = from THEN clear ELSE MergeFrom(clear, to, from)

CopyFrom(h, to, from) == IF to = from THEN h ELSE MergeFrom(Cleared(h, to), to, from)

InternalSwap(h, a, b) ==
    [h EXCEPT ![a] = [@ EXCEPT !.sub = h[b].sub, !.value = h[b].value],
              ![b] = [@ EXCEPT !.sub = h[a].sub, !.value = h[a].value]]

-----------------------------------------------------------------------------
\* Another object can be the program's own.
Hand == Cardinality(held) < MaxHeld

Of(class) == {o \in Live(heap) : heap[o].class = class}

\* new, the copy constructor, and delete of an object of the program's own.
Lifetime(class) ==
    \/ /\ class \in Classes /\ Hand /\ Room(heap, 1)
       /\ heap' = [heap EXCEPT ![Fresh(heap, 1)] = Made(class)]
       /\ held' = held \cup {Fresh(heap, 1)}
    \/ \E from \in Of(class) :
           LET made == [heap EXCEPT ![Fresh(heap, 1)] = Made(class)]
           IN  /\ class \in Classes /\ Hand /\ Room(heap, Cardinality(Filled(heap, from)))
               /\ heap' = MergeFrom(made, Fresh(heap, 1), from)
               /\ held' = held \cup {Fresh(heap, 1)}
    \/ \E o \in Of(class) \cap held : heap' = Deleted(heap, o) /\ held' = held \ {o}

\* Clear, CopyFrom, MergeFrom of another message, Swap.
Contents(class) ==
    /\ held' = held
    /\ \/ \E o \in Of(class) : heap' = Cleared(heap, o)
       \/ \E to, from \in Of(class) :
              \/ Room(Cleared(heap, to), Cardinality(Filled(heap, from))) /\ heap' = CopyFrom(heap, to, from)
              \/ /\ to # from /\ Room(heap, Cardinality(Missing(heap, to, from)))
                 /\ heap' = MergeFrom(heap, to, from)
              \/ heap' = InternalSwap(heap, to, from)

\* The move constructor swaps with a new object, the move assignment with the
\* one that is there.
Moves(class) ==
    \E from \in Of(class) :
        \/ /\ class \in Classes /\ Hand /\ Room(heap, 1)
           /\ heap' = InternalSwap([heap EXCEPT ![Fresh(heap, 1)] = Made(class)], Fresh(heap, 1), from)
           /\ held' = held \cup {Fresh(heap, 1)}
        \/ \E to \in Of(class) \ {from} : heap' = InternalSwap(heap, to, from) /\ held' = held

Setters(class) == \E o \in Of(class), v \in Values : heap' = [heap EXCEPT ![o].value = v] /\ held' = held

\* Mutant: what was there before is forgotten.
Replaced_Kept(h, o, f, x) == [h EXCEPT ![o].sub[f] = x]

\* set_allocated_f
Replaced(h, o, f, x) == [Deleted(h, h[o].sub[f]) EXCEPT ![o].sub[f] = x]

\* clear_f; a text that is there is emptied.
FieldCleared(h, o, f) ==
    IF f \in Strings THEN (IF h[o].sub[f] = NULL THEN h ELSE [h EXCEPT ![h[o].sub[f]].value = 0])
    ELSE Replaced(h, o, f, NULL)

\* The accessors of a field that change anything: clear_f, mutable_f,
\* release_f and set_allocated_f.  The program hands over what it owns, and
\* owns what it takes out.
Accessors(f) ==
    \E o \in Live(heap) :
        /\ f \in FieldsOf(heap[o].class)
        /\ \/ heap' = FieldCleared(heap, o, f) /\ held' = held
           \/ /\ heap[o].sub[f] = NULL /\ Room(heap, 1) /\ held' = held
              /\ heap' = [heap EXCEPT ![Fresh(heap, 1)] = Made(ClassOf(f)), ![o].sub[f] = Fresh(heap, 1)]
           \/ /\ heap[o].sub[f] # NULL /\ Hand
              /\ heap' = [heap EXCEPT ![o].sub[f] = NULL] /\ held' = held \cup {heap[o].sub[f]}
           \/ \E x \in {NULL} \cup (Of(ClassOf(f)) \cap held) :
                 heap' = Replaced(heap, o, f, x) /\ held' = held \ {x}

\* The texts: set_f(value) makes the string if there is none.
Texts(f) ==
    \/ Accessors(f)
    \/ \E o \in Of("SystemInfo"), v \in Values :
          /\ held' = held
          /\ \/ heap[o].sub[f] # NULL /\ heap' = [heap EXCEPT ![heap[o].sub[f]].value = v]
             \/ /\ heap[o].sub[f] = NULL /\ Room(heap, 1)
                /\ heap' = [heap EXCEPT ![Fresh(heap, 1)] = [Made("string") EXCEPT !.value = v],
                                        ![o].sub[f] = Fresh(heap, 1)]

DeleteString == \E o \in Of("string") \cap held : heap' = Deleted(heap, o) /\ held' = held \ {o}

MemoryLifetime      == Lifetime("Memory")
CPULifetime         == Lifetime("CPU")
ProcessLifetime     == Lifetime("Process")
SystemInfoLifetime  == Lifetime("SystemInfo")
TimestampLifetime   == Lifetime("Timestamp")
MachineLifetime     == Lifetime("Machine")
MachineInfoLifetime == Lifetime("MachineInfo")

MemoryContents      == Contents("Memory")
CPUContents         == Contents("CPU")
ProcessContents     == Contents("Process")
SystemInfoContents  == Contents("SystemInfo")
MachineContents     == Contents("Machine")
MachineInfoContents == Contents("MachineInfo")

MemoryMoves      == Moves("Memory")
CPUMoves         == Moves("CPU")
ProcessMoves     == Moves("Process")
SystemInfoMoves  == Moves("SystemInfo")
MachineMoves     == Moves("Machine")
MachineInfoMoves == Moves("MachineInfo")

MemorySetters  == Setters("Memory")
CPUSetters     == Setters("CPU")
ProcessSetters == Setters("Process")
system_ip      == Texts("system_ip")
system_name    == Texts("system_name")

last_updated == Accessors("last_updated")
memory       == Accessors("memory")
cpu          == Accessors("cpu")
process      == Accessors("process")
systeminfo   == Accessors("systeminfo")
machine      == Accessors("machine")

Next ==
    \/ MemoryLifetime \/ CPULifetime \/ ProcessLifetime \/ SystemInfoLifetime \/ TimestampLifetime
    \/ MachineLifetime \/ MachineInfoLifetime \/ DeleteString
    \/ MemoryContents \/ CPUContents \/ ProcessContents \/ SystemInfoContents \/ MachineContents
    \/ MachineInfoContents
    \/ MemoryMoves \/ CPUMoves \/ ProcessMoves \/ SystemInfoMoves \/ MachineMoves \/ MachineInfoMoves
    \/ MemorySetters \/ CPUSetters \/ ProcessSetters \/ system_ip \/ system_name
    \/ last_updated \/ memory \/ cpu \/ process \/ systeminfo \/ machine

Spec == Init /\ [][Next /\ UNCHANGED program]_vars

-----------------------------------------------------------------------------
Pointers(h) == {q \in Live(h) \X (Parts \cup Strings \cup {"machine"}) :
                   q[2] \in DOMAIN h[q[1]].sub /\ h[q[1]].sub[q[2]] # NULL}

\* Every object has one owner, the program or one field of one message: none
\* is destroyed twice, none is used after it is destroyed, none is lost.
OneOwner ==
    /\ held \subseteq Live(heap)
    /\ \A q \in Pointers(heap) : LET x == heap[q[1]].sub[q[2]]
                                 IN  x \in Live(heap) /\ heap[x].class = ClassOf(q[2])
    /\ \A o \in Live(heap) :
          Cardinality({q \in Pointers(heap) : heap[q[1]].sub[q[2]] = o})
              + (IF o \in held THEN 1 ELSE 0) = 1

Pairs == {q \in Live(heap) \X Live(heap) : q[1] # q[2] /\ heap[q[1]].class = heap[q[2]].class}

\* Messages the program owns that have no part in what is done to a and b.
Bystanders(a, b) == {r \in held : {a, b} \cap Below(heap, r) = {}}

\* CopyFrom makes a message equal to another one, changes no third one, and
\* the copy stays as it is when the other one is destroyed; copied from
\* itself, a message keeps what it has.
CopyOutlives ==
    /\ \A q \in Pairs :
          Room(Cleared(heap, q[1]), Cardinality(Filled(heap, q[2]))) =>
              LET copied == CopyFrom(heap, q[1], q[2])
              IN  /\ Content(copied, q[1]) = Content(heap, q[2])
                  /\ q[2] \in held =>
                        Content(Deleted(copied, q[2]), q[1]) = Content(heap, q[2])
                  /\ \A r \in Bystanders(q[1], q[2]) : Content(copied, r) = Content(heap, r)
    /\ \A o \in Live(heap) : Content(CopyFrom(heap, o, o), o) = Content(heap, o)

\* Swap exchanges what two messages hold, wherever they are, and nothing else.
SwapExchanges ==
    \A q \in Pairs :
        LET swapped == InternalSwap(heap, q[1], q[2])
        IN  /\ Content(swapped, q[1]) = Content(heap, q[2])
            /\ Content(swapped, q[2]) = Content(heap, q[1])
            /\ \A r \in Bystanders(q[1], q[2]) : Content(swapped, r) = Content(heap, r)

\* What a message holds survives what is done with other messages.
ContentsSurvive == CopyOutlives /\ SwapExchanges

=============================================================================
