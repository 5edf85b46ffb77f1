------------------------ MODULE MessageObjects_proofs ------------------------
(***************************************************************************)
(* That every object has one owner, whatever a program does with the       *)
(* messages, and that CopyFrom and Swap do to the contents of messages     *)
(* what they are for.                                                      *)
(*                                                                         *)
(* An object's fields are edges to other objects.  The invariant says that *)
(* these make a forest whose roots are what the program owns; that edges   *)
(* lead to lower classes is what keeps them from making a cycle.  First    *)
(* come facts of forests: what is below an object, and how a forest grows  *)
(* and shrinks.  Then what the operations make of a forest; last the ways  *)
(* through a message, of which the contents are made, and what MergeFrom   *)
(* makes of them.                                                          *)
(***************************************************************************)
EXTENDS MessageObjects, FiniteSetTheorems, WellFoundedInduction, SequenceTheorems, TLAPS

AllFields == Parts \cup Strings \cup {"machine"}

AllClasses == {"MachineInfo", "Machine", "SystemInfo", "Timestamp", "Memory", "CPU", "Process", "string"}

\* How many generations there can be below an object.
Level(class) == IF class = "MachineInfo" THEN 3 ELSE IF class = "Machine" THEN 2
                ELSE IF class = "SystemInfo" THEN 1 ELSE 0

Records(class) == [class : {class}, sub : [FieldsOf(class) -> Ids \cup {NULL}], value : Nat]

Typed(h) == h \in [Ids -> {Gone} \cup UNION {Records(class) : class \in AllClasses}]

\* Field f of p points to x.
Edge(h, p, f, x) == x # NULL /\ p \in Live(h) /\ f \in FieldsOf(h[p].class) /\ h[p].sub[f] = x

\* x is of the class of the field that points to it, no two fields do, and
\* the program owns it exactly when none does.
Owned(h, hd, x) ==
    /\ \A p \in Ids, f \in AllFields : Edge(h, p, f, x) => h[x].class = ClassOf(f)
    /\ \A p, q \in Ids, f, g \in AllFields : Edge(h, p, f, x) /\ Edge(h, q, g, x) => p = q /\ f = g
    /\ x \in hd <=> ~ \E p \in Ids, f \in AllFields : Edge(h, p, f, x)

Forest(h, hd) ==
    /\ Typed(h)
    /\ hd \subseteq Live(h)
    /\ \A p, x \in Ids, f \in AllFields : Edge(h, p, f, x) => x \in Live(h)
    /\ \A x \in Live(h) : Owned(h, hd, x)

\* The inductive invariant: the objects are a forest of which the program holds
\* the roots.
IInv == program \in Programs /\ Forest(heap, held)

-----------------------------------------------------------------------------
(* The classes and their fields.                                           *)

LEMMA Programming ==
  ASSUME program \in Programs
  PROVE  /\ Ids \subseteq Nat /\ NULL \notin Ids /\ NULL \in Nat /\ IsFiniteSet(Ids)
         /\ Parts \subseteq {"last_updated", "memory", "cpu", "process", "systeminfo"}
  BY MessageObjectsAssumption DEF Ids, Parts, NULL

LEMMA FieldTable ==
  ASSUME NEW c, c \notin {"MachineInfo", "Machine", "SystemInfo"}
  PROVE  /\ FieldsOf("MachineInfo") = {"machine"}
         /\ FieldsOf("Machine") = Parts
         /\ FieldsOf("SystemInfo") = Strings
         /\ FieldsOf(c) = {}
  <1>1. c # "MachineInfo" /\ c # "Machine" /\ c # "SystemInfo"
    OBVIOUS
  <1>. QED  BY <1>1, Zenon DEF FieldsOf

LEMMA ClassTable ==
  /\ ClassOf("machine") = "Machine" /\ ClassOf("last_updated") = "Timestamp"
  /\ ClassOf("memory") = "Memory" /\ ClassOf("cpu") = "CPU"
  /\ ClassOf("process") = "Process" /\ ClassOf("systeminfo") = "SystemInfo"
  /\ ClassOf("system_ip") = "string" /\ ClassOf("system_name") = "string"
  BY Zenon DEF ClassOf

LEMMA Fields ==
  ASSUME program \in Programs, NEW c \in AllClasses
  PROVE  /\ Level(c) \in 0 .. 3
         /\ FieldsOf(c) \subseteq AllFields
         /\ \A f \in FieldsOf(c) : ClassOf(f) \in AllClasses /\ Level(ClassOf(f)) < Level(c)
  <1>1. Parts \subseteq {"last_updated", "memory", "cpu", "process", "systeminfo"}
    BY Programming
  <1>2. CASE c = "MachineInfo"
    BY <1>2, FieldTable, ClassTable DEF Level, AllClasses, AllFields
  <1>3. CASE c = "Machine"
    <2>1. FieldsOf(c) = Parts /\ Level(c) = 2
      BY <1>3, FieldTable DEF Level
    <2>2. \A f \in Parts : ClassOf(f) \in AllClasses /\ Level(ClassOf(f)) < 2
      BY <1>1, ClassTable DEF Level, AllClasses
    <2>. QED  BY <2>1, <2>2 DEF AllFields
  <1>4. CASE c = "SystemInfo"
    BY <1>4, FieldTable, ClassTable DEF Level, AllClasses, AllFields, Strings
  <1>5. CASE c \notin {"MachineInfo", "Machine", "SystemInfo"}
    BY <1>5, FieldTable DEF Level
  <1>. QED  BY <1>2, <1>3, <1>4, <1>5

\* The strings are what string fields point to.
LEMMA StringFields ==
  ASSUME program \in Programs, NEW c \in AllClasses, NEW f \in FieldsOf(c)
  PROVE  /\ f \in Strings <=> ClassOf(f) = "string"
         /\ f \in Strings <=> c = "SystemInfo"
         /\ c # "string"
  <1>1. Parts \subseteq {"last_updated", "memory", "cpu", "process", "systeminfo"}
    BY Programming
  <1>2. CASE c = "MachineInfo"
    BY <1>2, FieldTable, ClassTable DEF Strings
  <1>3. CASE c = "Machine"
    BY <1>1, <1>3, FieldTable, ClassTable DEF Strings
  <1>4. CASE c = "SystemInfo"
    BY <1>4, FieldTable, ClassTable DEF Strings
  <1>5. CASE c \notin {"MachineInfo", "Machine", "SystemInfo"}
    BY <1>5, FieldTable
  <1>. QED  BY <1>2, <1>3, <1>4, <1>5

\* What is where an object is.
LEMMA Node ==
  ASSUME program \in Programs, NEW h, Typed(h), NEW o \in Ids
  PROVE  /\ o \in Live(h) <=> h[o].class \in AllClasses
         /\ o \notin Live(h) => h[o] = Gone
         /\ o \in Live(h) => /\ h[o] \in Records(h[o].class)
                             /\ h[o].sub \in [FieldsOf(h[o].class) -> Ids \cup {NULL}]
                             /\ h[o].value \in Nat
                             /\ h[o] = [class |-> h[o].class, sub |-> h[o].sub, value |-> h[o].value]
  <1>1. h[o] = Gone \/ \E class \in AllClasses : h[o] \in Records(class)
    BY DEF Typed
  <1>2. Gone.class \notin AllClasses
    BY DEF Gone, AllClasses
  <1>3. ASSUME NEW class \in AllClasses, h[o] \in Records(class)
        PROVE  /\ h[o].class = class
               /\ h[o].sub \in [FieldsOf(class) -> Ids \cup {NULL}]
               /\ h[o].value \in Nat
               /\ h[o] = [class |-> h[o].class, sub |-> h[o].sub, value |-> h[o].value]
    BY <1>3 DEF Records
  <1>4. CASE h[o] = Gone
    BY <1>2, <1>4 DEF Live
  <1>5. CASE \E class \in AllClasses : h[o] \in Records(class)
    BY <1>2, <1>3, <1>5 DEF Live
  <1>. QED  BY <1>1, <1>4, <1>5

LEMMA EdgeType ==
  ASSUME program \in Programs, NEW h, Typed(h), NEW p, NEW f, NEW x, Edge(h, p, f, x)
  PROVE  /\ p \in Ids /\ p \in Live(h) /\ h[p].class \in AllClasses
         /\ f \in FieldsOf(h[p].class) /\ f \in AllFields /\ x \in Ids
  <1>1. p \in Ids /\ p \in Live(h)
    BY DEF Edge, Live
  <1>2. h[p].class \in AllClasses /\ h[p].sub \in [FieldsOf(h[p].class) -> Ids \cup {NULL}]
    BY <1>1, Node
  <1>. QED  BY <1>1, <1>2, Fields DEF Edge

\* An edge leads down to an object of the field's class, and only one leads
\* to it.
LEMMA EdgeInForest ==
  ASSUME program \in Programs, NEW h, NEW hd, Forest(h, hd), NEW p, NEW f, NEW x, Edge(h, p, f, x)
  PROVE  /\ x \in Live(h) /\ x \in Ids /\ x \notin hd
         /\ h[x].class = ClassOf(f)
         /\ h[x].class \in AllClasses
         /\ Level(h[x].class) < Level(h[p].class)
         /\ \A q, g : Edge(h, q, g, x) => q = p /\ g = f
  <1>1. Typed(h)
    BY DEF Forest
  <1>2. p \in Ids /\ h[p].class \in AllClasses /\ f \in FieldsOf(h[p].class) /\ f \in AllFields /\ x \in Ids
    BY <1>1, EdgeType
  <1>3. x \in Live(h)
    BY <1>2 DEF Forest
  <1>4. Owned(h, hd, x)
    BY <1>3 DEF Forest
  <1>5. x \notin hd /\ h[x].class = ClassOf(f)
    BY <1>2, <1>4 DEF Owned
  <1>6. \A q, g : Edge(h, q, g, x) => q = p /\ g = f
    BY <1>1, <1>2, <1>4, EdgeType DEF Owned
  <1>. QED  BY <1>2, <1>3, <1>5, <1>6, Fields

-----------------------------------------------------------------------------
(* What is below an object.                                                *)

\* Whatever is in D has all that is below it in D.
Closed(h, D) == \A p \in D, f \in AllFields, x \in Ids : Edge(h, p, f, x) => x \in D

LEMMA ChildrenIs ==
  ASSUME program \in Programs, NEW h, Typed(h), NEW set, set \subseteq Live(h), NEW x
  PROVE  x \in Children(h, set) <=> \E p \in set, f \in AllFields : Edge(h, p, f, x)
  <1>1. ASSUME NEW p \in set
        PROVE  DOMAIN h[p].sub = FieldsOf(h[p].class) /\ p \in Live(h) /\ FieldsOf(h[p].class) \subseteq AllFields
    <2>1. p \in Ids /\ p \in Live(h)
      BY DEF Live
    <2>2. h[p].sub \in [FieldsOf(h[p].class) -> Ids \cup {NULL}] /\ h[p].class \in AllClasses
      BY <2>1, Node
    <2>3. DOMAIN h[p].sub = FieldsOf(h[p].class)
      BY ONLY <2>2
    <2>4. FieldsOf(h[p].class) \subseteq AllFields
      BY <2>2, Fields
    <2>. QED  BY <2>1, <2>3, <2>4
  <1>2. x \in Children(h, set) <=> x # NULL /\ \E p \in set : \E f \in DOMAIN h[p].sub : x = h[p].sub[f]
    BY DEF Children
  <1>. QED  BY <1>1, <1>2 DEF Edge

LEMMA BelowIs ==
  ASSUME program \in Programs, NEW h, NEW hd, Forest(h, hd), NEW o \in Live(h)
  PROVE  /\ o \in Below(h, o)
         /\ Below(h, o) \subseteq Live(h)
         /\ Closed(h, Below(h, o))
         /\ \A D : o \in D /\ Closed(h, D) => Below(h, o) \subseteq D
  <1>. DEFINE one == Children(h, {o})
              two == Children(h, one)
              three == Children(h, two)
  <1>1. Typed(h) /\ o \in Ids
    BY DEF Forest, Live
  <1>2. Below(h, o) = {o} \cup one \cup two \cup three
    BY DEF Below
  <1>3. \A x : x \in one <=> \E f \in AllFields : Edge(h, o, f, x)
    BY <1>1, ChildrenIs
  <1>. HIDE DEF one
  <1>4. one \subseteq Live(h)
    BY <1>3, EdgeInForest
  <1>5. \A x : x \in two <=> \E p \in one, f \in AllFields : Edge(h, p, f, x)
    BY <1>1, <1>4, ChildrenIs
  <1>. HIDE DEF two
  <1>6. two \subseteq Live(h)
    BY <1>5, EdgeInForest
  <1>7. \A x : x \in three <=> \E p \in two, f \in AllFields : Edge(h, p, f, x)
    BY <1>1, <1>6, ChildrenIs
  <1>. HIDE DEF three
  <1>8. three \subseteq Live(h)
    BY <1>7, EdgeInForest
  <1>9. \A x \in Live(h) : h[x].class \in AllClasses /\ Level(h[x].class) \in 0 .. 3
    BY <1>1, Node, Fields DEF Live
  <1>10. \A x \in one : Level(h[x].class) <= 2
    BY <1>3, <1>9, EdgeInForest
  <1>11. \A x \in two : Level(h[x].class) <= 1
    BY <1>4, <1>5, <1>6, <1>9, <1>10, EdgeInForest
  <1>12. \A x \in three : Level(h[x].class) <= 0
    BY <1>6, <1>7, <1>8, <1>9, <1>11, EdgeInForest
  <1>13. ASSUME NEW p \in three, NEW f, NEW x, Edge(h, p, f, x)
         PROVE  FALSE
    <2>1. x \in Live(h) /\ Level(h[x].class) < Level(h[p].class)
      BY <1>13, EdgeInForest
    <2>. QED  BY <2>1, <1>8, <1>9, <1>12
  <1>14. Closed(h, Below(h, o))
    BY <1>2, <1>3, <1>5, <1>7, <1>13 DEF Closed
  <1>15. ASSUME NEW D, o \in D, Closed(h, D)
         PROVE  Below(h, o) \subseteq D
    <2>1. one \subseteq D
      BY <1>3, <1>4, <1>15 DEF Closed, Live
    <2>2. two \subseteq D
      BY <2>1, <1>5, <1>6, <1>15 DEF Closed, Live
    <2>3. three \subseteq D
      BY <2>2, <1>7, <1>8, <1>15 DEF Closed, Live
    <2>. QED  BY <2>1, <2>2, <2>3, <1>2, <1>15
  <1>. QED  BY <1>2, <1>4, <1>6, <1>8, <1>14, <1>15

\* Each object but the first is below another one, and of a lower level.
LEMMA BelowParent ==
  ASSUME program \in Programs, NEW h, NEW hd, Forest(h, hd), NEW o \in Live(h),
         NEW x \in Below(h, o), x # o
  PROVE  /\ Level(h[x].class) < Level(h[o].class)
         /\ \E p \in Below(h, o), f \in AllFields : Edge(h, p, f, x)
  <1>. DEFINE low == {y \in Live(h) : y = o \/ Level(h[y].class) < Level(h[o].class)}
              led == {y \in Below(h, o) : y = o \/ \E p \in Below(h, o), f \in AllFields : Edge(h, p, f, y)}
  <1>1. \A y \in Live(h) : h[y].class \in AllClasses /\ Level(h[y].class) \in 0 .. 3
    BY Node, Fields DEF Live, Forest
  <1>2. Closed(h, low)
    <2>. SUFFICES ASSUME NEW p \in low, NEW f \in AllFields, NEW y \in Ids, Edge(h, p, f, y)
                  PROVE  y \in low
      BY DEF Closed
    <2>1. y \in Live(h) /\ Level(h[y].class) < Level(h[p].class)
      BY EdgeInForest
    <2>. QED  BY <2>1, <1>1
  <1>3. Closed(h, led)
    BY BelowIs DEF Closed
  <1>. QED  BY <1>2, <1>3, BelowIs

\* One that is not below the other: nothing is below both.
LEMMA Apart ==
  ASSUME program \in Programs, NEW h, NEW hd, Forest(h, hd), NEW a \in Live(h), NEW b \in Live(h),
         a \notin Below(h, b), b \notin Below(h, a)
  PROVE  Below(h, a) \cap Below(h, b) = {}
  <1>. DEFINE D == Below(h, a) \ Below(h, b)
  <1>1. Closed(h, D)
    <2>. SUFFICES ASSUME NEW p \in D, NEW f \in AllFields, NEW x \in Ids, Edge(h, p, f, x), x \in Below(h, b)
                  PROVE  FALSE
      BY BelowIs DEF Closed
    <2>1. x # b
      BY BelowIs DEF Closed
    <2>2. PICK q \in Below(h, b), g \in AllFields : Edge(h, q, g, x)
      BY <2>1, BelowParent
    <2>. QED  BY <2>2, EdgeInForest
  <1>2. a \in D
    BY BelowIs
  <1>. QED  BY <1>1, <1>2, BelowIs

\* Two objects of one class, and one that the program owns and another one.
LEMMA Strangers ==
  ASSUME program \in Programs, NEW h, NEW hd, Forest(h, hd), NEW a \in Live(h), NEW b \in Live(h), a # b
  PROVE  /\ h[a].class = h[b].class => Below(h, a) \cap Below(h, b) = {}
         /\ a \in hd /\ b \notin Below(h, a) => Below(h, a) \cap Below(h, b) = {}
  <1>1. \A y \in Live(h) : h[y].class \in AllClasses /\ Level(h[y].class) \in 0 .. 3
    BY Node, Fields DEF Live, Forest
  <1>2. ASSUME h[a].class = h[b].class
        PROVE  a \notin Below(h, b) /\ b \notin Below(h, a)
    BY <1>1, <1>2, BelowParent
  <1>3. ASSUME a \in hd
        PROVE  a \notin Below(h, b)
    BY <1>3, BelowParent, EdgeInForest
  <1>. QED  BY <1>2, <1>3, Apart

-----------------------------------------------------------------------------
(* What can be done to the heap.                                           *)

\* No more than edges and classes matter.
LEMMA Kept ==
  ASSUME NEW h, NEW h2, NEW hd, NEW hd2, NEW x, Owned(h, hd, x),
         h2[x].class = h[x].class, x \in hd2 <=> x \in hd,
         \A p \in Ids, f \in AllFields : Edge(h2, p, f, x) <=> Edge(h, p, f, x)
  PROVE  Owned(h2, hd2, x)
  BY Zenon DEF Owned

\* The objects D are gone in h2, and the pointers to them.
Shrunk(h, h2, D) ==
    /\ h2 = [p \in Ids |-> h2[p]]
    /\ \A p \in Ids : p \in D \/ p \notin Live(h) => h2[p] = Gone
    /\ \A p \in Live(h) : p \notin D => h2[p] \in Records(h[p].class)
    /\ \A p \in Live(h) : p \notin D => \A f \in FieldsOf(h[p].class) :
          /\ h[p].sub[f] \in D => h2[p].sub[f] = NULL
          /\ h[p].sub[f] \notin D => h2[p].sub[f] = h[p].sub[f]

LEMMA ShrunkLive ==
  ASSUME program \in Programs, NEW h, NEW hd, Forest(h, hd),
         NEW D, D \subseteq Live(h), NEW h2, Shrunk(h, h2, D)
  PROVE  /\ Typed(h2)
         /\ Live(h2) = Live(h) \ D
         /\ \A p \in Live(h) : p \notin D => h2[p].class = h[p].class
  <1>0. /\ h2 = [p \in Ids |-> h2[p]]
        /\ \A p \in Ids : p \in D \/ p \notin Live(h) => h2[p] = Gone
        /\ \A p \in Live(h) : p \notin D => h2[p] \in Records(h[p].class)
        /\ \A p \in Live(h) : p \notin D => \A f \in FieldsOf(h[p].class) :
              /\ h[p].sub[f] \in D => h2[p].sub[f] = NULL
              /\ h[p].sub[f] \notin D => h2[p].sub[f] = h[p].sub[f]
    BY DEF Shrunk
  <1>1. Typed(h) /\ \A p \in Live(h) : p \in Ids /\ h[p].class \in AllClasses
    BY Node DEF Forest, Live
  <1>2. Typed(h2)
    <2>1. \A p \in Ids : h2[p] \in {Gone} \cup UNION {Records(class) : class \in AllClasses}
      BY <1>0, <1>1
    <2>. QED  BY <1>0, <2>1 DEF Typed
  <1>3. \A p \in Live(h) : p \notin D => h2[p].class = h[p].class
    BY <1>0 DEF Records
  <1>4. \A p \in Ids : p \in Live(h2) <=> p \in Live(h) /\ p \notin D
    <2>1. Gone.class \notin AllClasses
      BY DEF Gone, AllClasses
    <2>2. \A p \in Ids : p \in Live(h2) <=> h2[p].class \in AllClasses
      BY <1>2, Node
    <2>. QED  BY <1>0, <1>1, <1>3, <2>1, <2>2
  <1>5. Live(h2) = Live(h) \ D
    <2>1. Live(h2) \subseteq Ids /\ Live(h) \subseteq Ids
      BY DEF Live
    <2>. QED  BY <1>4, <2>1
  <1>. QED  BY <1>2, <1>3, <1>5

\* Objects are taken away with all that is below them.
LEMMA Removal ==
  ASSUME program \in Programs, NEW h, NEW hd, Forest(h, hd),
         NEW D, D \subseteq Live(h), Closed(h, D), NEW h2, Shrunk(h, h2, D)
  PROVE  Forest(h2, hd \ D)
  <1>0. /\ h2 = [p \in Ids |-> h2[p]]
        /\ \A p \in Ids : p \in D \/ p \notin Live(h) => h2[p] = Gone
        /\ \A p \in Live(h) : p \notin D => h2[p] \in Records(h[p].class)
        /\ \A p \in Live(h) : p \notin D => \A f \in FieldsOf(h[p].class) :
              /\ h[p].sub[f] \in D => h2[p].sub[f] = NULL
              /\ h[p].sub[f] \notin D => h2[p].sub[f] = h[p].sub[f]
    BY DEF Shrunk
  <1>2. Typed(h2)
    BY ShrunkLive
  <1>3. \A p \in Live(h) : p \notin D => h2[p].class = h[p].class
    BY ShrunkLive
  <1>4. Live(h2) = Live(h) \ D
    BY ShrunkLive
  <1>5. ASSUME NEW p \in Ids, NEW f \in AllFields, NEW x \in Ids
        PROVE  Edge(h2, p, f, x) <=> Edge(h, p, f, x) /\ x \notin D
    <2>1. ASSUME p \notin Live(h) \ D
          PROVE  ~ Edge(h2, p, f, x) /\ (Edge(h, p, f, x) => x \in D)
      BY <1>4, <2>1 DEF Edge, Closed
    <2>2. ASSUME p \in Live(h) \ D
          PROVE  Edge(h2, p, f, x) <=> Edge(h, p, f, x) /\ x \notin D
      BY <1>0, <1>3, <1>4, <2>2, Programming DEF Edge
    <2>. QED  BY <2>1, <2>2
  <1>6. \A p, x \in Ids, f \in AllFields : Edge(h2, p, f, x) => x \in Live(h2)
    BY <1>4, <1>5, EdgeInForest
  <1>7. ASSUME NEW x \in Live(h2)
        PROVE  Owned(h2, hd \ D, x)
    <2>1. x \in Live(h) /\ x \notin D /\ x \in Ids
      BY <1>4 DEF Live
    <2>2. Owned(h, hd, x)
      BY <2>1 DEF Forest
    <2>. QED  BY <1>3, <1>5, <2>1, <2>2, Kept
  <1>8. hd \ D \subseteq Live(h2) /\ Live(h2) = Live(h) \ D
    BY <1>4 DEF Live, Forest
  <1>. QED  BY <1>2, <1>3, <1>6, <1>7, <1>8 DEF Forest

\* The objects N are new in h2, and pointers to them.
Grown(h, h2, N) ==
    /\ h2 = [p \in Ids |-> h2[p]]
    /\ \A p \in Ids : p \notin Live(h) /\ p \notin N => h2[p] = Gone
    /\ \A p \in Live(h) : h2[p] \in Records(h[p].class)
    /\ \A p \in Live(h) : \A f \in FieldsOf(h[p].class) :
          /\ h[p].sub[f] = NULL => h2[p].sub[f] \in N \cup {NULL}
          /\ h[p].sub[f] # NULL => h2[p].sub[f] = h[p].sub[f]
    /\ \A p \in N : \E class \in AllClasses :
          /\ h2[p] \in Records(class)
          /\ \A f \in FieldsOf(class) : h2[p].sub[f] \in N \cup {NULL}

LEMMA GrownLive ==
  ASSUME program \in Programs, NEW h, NEW hd, Forest(h, hd),
         NEW N, N \subseteq Ids \ Live(h), NEW h2, Grown(h, h2, N)
  PROVE  /\ Typed(h2)
         /\ Live(h2) = Live(h) \cup N
         /\ \A p \in Live(h) : h2[p].class = h[p].class
  <1>0. /\ h2 = [p \in Ids |-> h2[p]]
        /\ \A p \in Ids : p \notin Live(h) /\ p \notin N => h2[p] = Gone
        /\ \A p \in Live(h) : h2[p] \in Records(h[p].class)
        /\ \A p \in Live(h) : \A f \in FieldsOf(h[p].class) :
              /\ h[p].sub[f] = NULL => h2[p].sub[f] \in N \cup {NULL}
              /\ h[p].sub[f] # NULL => h2[p].sub[f] = h[p].sub[f]
        /\ \A p \in N : \E class \in AllClasses :
              /\ h2[p] \in Records(class)
              /\ \A f \in FieldsOf(class) : h2[p].sub[f] \in N \cup {NULL}
    BY DEF Grown
  <1>1. Typed(h) /\ \A p \in Live(h) : p \in Ids /\ h[p].class \in AllClasses
    BY Node DEF Forest, Live
  <1>2. Typed(h2)
    <2>1. \A p \in Ids : h2[p] \in {Gone} \cup UNION {Records(class) : class \in AllClasses}
      BY <1>0, <1>1
    <2>. QED  BY <1>0, <2>1 DEF Typed
  <1>3. \A p \in Live(h) : h2[p].class = h[p].class
    BY <1>0 DEF Records
  <1>4. \A p \in N : h2[p].class \in AllClasses /\ \A f \in FieldsOf(h2[p].class) : h2[p].sub[f] \in N \cup {NULL}
    BY <1>0 DEF Records
  <1>5. \A p \in Ids : p \in Live(h2) <=> p \in Live(h) \/ p \in N
    <2>1. Gone.class \notin AllClasses
      BY DEF Gone, AllClasses
    <2>2. \A p \in Ids : p \in Live(h2) <=> h2[p].class \in AllClasses
      BY <1>2, Node
    <2>. QED  BY <1>0, <1>1, <1>3, <1>4, <2>1, <2>2
  <1>6. Live(h2) = Live(h) \cup N
    <2>1. Live(h2) \subseteq Ids /\ Live(h) \cup N \subseteq Ids
      BY DEF Live
    <2>. QED  BY <1>5, <2>1
  <1>. QED  BY <1>2, <1>3, <1>6

\* Objects are added, each with one owner.
LEMMA Growth ==
  ASSUME program \in Programs, NEW h, NEW hd, Forest(h, hd),
         NEW N, N \subseteq Ids \ Live(h), NEW h2, Grown(h, h2, N),
         NEW hd2, hd2 \subseteq hd \cup N, hd \subseteq hd2, \A x \in N : Owned(h2, hd2, x)
  PROVE  Forest(h2, hd2)
  <1>0. /\ h2 = [p \in Ids |-> h2[p]]
        /\ \A p \in Ids : p \notin Live(h) /\ p \notin N => h2[p] = Gone
        /\ \A p \in Live(h) : h2[p] \in Records(h[p].class)
        /\ \A p \in Live(h) : \A f \in FieldsOf(h[p].class) :
              /\ h[p].sub[f] = NULL => h2[p].sub[f] \in N \cup {NULL}
              /\ h[p].sub[f] # NULL => h2[p].sub[f] = h[p].sub[f]
        /\ \A p \in N : \E class \in AllClasses :
              /\ h2[p] \in Records(class)
              /\ \A f \in FieldsOf(class) : h2[p].sub[f] \in N \cup {NULL}
    BY DEF Grown
  <1>1. Typed(h) /\ \A p \in Live(h) : p \in Ids /\ h[p].class \in AllClasses
    BY Node DEF Forest, Live
  <1>2. Typed(h2)
    BY GrownLive
  <1>3. \A p \in Live(h) : h2[p].class = h[p].class
    BY GrownLive
  <1>4. \A p \in N : h2[p].class \in AllClasses /\ \A f \in FieldsOf(h2[p].class) : h2[p].sub[f] \in N \cup {NULL}
    BY <1>0 DEF Records
  <1>5. Live(h2) = Live(h) \cup N
    BY GrownLive
  <1>6. ASSUME NEW p \in Ids, NEW f \in AllFields, NEW x \in Ids
        PROVE  /\ x \notin N => (Edge(h2, p, f, x) <=> Edge(h, p, f, x))
               /\ Edge(h2, p, f, x) => x \in Live(h) \/ x \in N
    <2>1. CASE p \in Live(h)
      <3>1. Edge(h, p, f, x) => x \in Live(h)
        BY EdgeInForest
      <3>2. CASE f \notin FieldsOf(h[p].class)
        BY <1>3, <2>1, <3>2 DEF Edge
      <3>3. CASE f \in FieldsOf(h[p].class) /\ h[p].sub[f] = NULL
        BY <1>0, <1>3, <2>1, <3>3 DEF Edge
      <3>4. CASE f \in FieldsOf(h[p].class) /\ h[p].sub[f] # NULL
        BY <1>0, <1>3, <1>5, <2>1, <3>1, <3>4 DEF Edge
      <3>. QED  BY <3>2, <3>3, <3>4
    <2>2. CASE p \in N
      BY <1>4, <2>2 DEF Edge
    <2>3. CASE p \notin Live(h) /\ p \notin N
      BY <1>5, <2>3 DEF Edge
    <2>. QED  BY <2>1, <2>2, <2>3
  <1>7. \A p, x \in Ids, f \in AllFields : Edge(h2, p, f, x) => x \in Live(h2)
    BY <1>5, <1>6
  <1>8. ASSUME NEW x \in Live(h)
        PROVE  Owned(h2, hd2, x)
    <2>1. Owned(h, hd, x) /\ x \in Ids /\ x \notin N /\ (x \in hd2 <=> x \in hd)
      BY <1>1 DEF Forest
    <2>. QED  BY <1>3, <1>6, <2>1, Kept
  <1>9. hd2 \subseteq Live(h2) /\ Live(h2) = Live(h) \cup N
    BY <1>5 DEF Forest
  <1>. QED  BY <1>2, <1>3, <1>7, <1>8, <1>9 DEF Forest

\* Nothing but values is changed.
LEMMA SameShape ==
  ASSUME program \in Programs, NEW h, NEW hd, Forest(h, hd),
         NEW h2, h2 = [p \in Ids |-> h2[p]],
         \A p \in Ids : p \notin Live(h) => h2[p] = Gone,
         \A p \in Live(h) : h2[p] \in Records(h[p].class) /\ h2[p].sub = h[p].sub
  PROVE  Forest(h2, hd)
  <1>1. Closed(h, {}) /\ hd \ {} = hd
    BY DEF Closed
  <1>2. Shrunk(h, h2, {})
    BY DEF Shrunk
  <1>3. Forest(h2, hd \ {})
    BY <1>1, <1>2, Removal
  <1>. QED  BY <1>1, <1>3

LEMMA ValueSet ==
  ASSUME program \in Programs, NEW h, NEW hd, Forest(h, hd), NEW o \in Live(h), NEW v \in Nat
  PROVE  Forest([h EXCEPT ![o].value = v], hd)
  <1>. DEFINE h2 == [h EXCEPT ![o].value = v]
  <1>1. h = [p \in Ids |-> h[p]] /\ o \in Ids /\ Typed(h)
    BY DEF Forest, Typed, Live
  <1>2. \A p \in Ids : h2[p] = IF p = o THEN [h[p] EXCEPT !.value = v] ELSE h[p]
    BY <1>1
  <1>3. h2 = [p \in Ids |-> h2[p]]
    BY <1>1
  <1>. HIDE DEF h2
  <1>4. \A p \in Live(h) : h[p] \in Records(h[p].class) /\ p \in Ids
    BY <1>1, Node DEF Live
  <1>5. ASSUME NEW p \in Live(h)
        PROVE  h2[p] \in Records(h[p].class) /\ h2[p].sub = h[p].sub
    <2>1. CASE p = o
      BY <1>2, <1>4, <2>1 DEF Records
    <2>2. CASE p # o
      BY <1>2, <1>4, <2>2
    <2>. QED  BY <2>1, <2>2
  <1>6. \A p \in Ids : p \notin Live(h) => h2[p] = Gone
    BY <1>1, <1>2, Node
  <1>7. Forest(h2, hd)
    BY <1>3, <1>5, <1>6, SameShape
  <1>. QED  BY <1>7 DEF h2

-----------------------------------------------------------------------------
(* The numbers of new objects.                                             *)

LEMMA Least ==
  ASSUME NEW S, S \subseteq Nat, S # {}
  PROVE  \E m \in S : \A n \in S : m <= n
  <1>. DEFINE less == {z \in Nat \X Nat : z[1] < z[2]}
  <1>1. IsWellFoundedOn(less, Nat)
    BY NatLessThanWellFounded DEF OpToRel
  <1>2. \A m, n \in Nat : n < m => <<n, m>> \in less
    OBVIOUS
  <1>. HIDE DEF less
  <1>3. \E m \in S : \A n \in S : ~ (<<n, m>> \in less)
    BY <1>1, WFMin
  <1>4. PICK m \in S : \A n \in S : ~ (<<n, m>> \in less)
    BY <1>3
  <1>5. \A n \in S : n \in Nat /\ m \in Nat
    OBVIOUS
  <1>6. \A n \in S : ~ (n < m)
    BY <1>2, <1>4, <1>5
  <1>. QED  BY <1>5, <1>6

LEMMA Greatest ==
  ASSUME NEW S, S \subseteq Nat, S # {}, IsFiniteSet(S)
  PROVE  \E m \in S : \A n \in S : n <= m
  <1>. DEFINE Above(o) == {p \in S : p > o}
              sizes    == {Cardinality(Above(o)) : o \in S}
  <1>1. \A o \in S : IsFiniteSet(Above(o)) /\ Cardinality(Above(o)) \in Nat
    BY FS_Subset, FS_CardinalityType
  <1>2. sizes \subseteq Nat /\ sizes # {}
    BY <1>1
  <1>3. PICK k \in sizes : \A n \in sizes : k <= n
    BY <1>2, Least
  <1>4. PICK m \in S : k = Cardinality(Above(m))
    BY <1>3
  <1>5. ASSUME NEW q \in S, q > m
        PROVE  FALSE
    <2>. q \in Nat /\ m \in Nat /\ \A p \in S : p \in Nat
      OBVIOUS
    <2>0. ~ q > q /\ \A p \in S : p > q => p > m
      BY <1>5
    <2>1. Above(q) \subseteq Above(m) /\ q \in Above(m) /\ q \notin Above(q)
      BY <1>5, <2>0
    <2>2. Above(q) \in SUBSET Above(m) /\ Above(q) # Above(m)
      BY <2>1
    <2>. HIDE DEF Above
    <2>3. Cardinality(Above(q)) <= Cardinality(Above(m)) /\ Cardinality(Above(q)) # Cardinality(Above(m))
      BY <1>1, <2>2, FS_Subset
    <2>4. Cardinality(Above(m)) <= Cardinality(Above(q))
      BY <1>3, <1>4
    <2>5. Cardinality(Above(q)) \in Nat /\ Cardinality(Above(m)) \in Nat
      BY <1>1
    <2>. QED  BY <2>3, <2>4, <2>5
  <1>6. \A q \in S : q \in Nat /\ m \in Nat
    OBVIOUS
  <1>. QED  BY <1>5, <1>6

\* Of the numbers of a finite set there is an n-th.
LEMMA Rank ==
  ASSUME NEW S, S \subseteq Nat, IsFiniteSet(S), NEW n \in Nat \ {0}, n <= Cardinality(S)
  PROVE  \E o \in S : Cardinality({p \in S : p <= o}) = n
  <1>. DEFINE UpTo(o) == {p \in S : p <= o}
              enough  == {o \in S : Cardinality(UpTo(o)) >= n}
  <1>1. \A T : T \subseteq S => IsFiniteSet(T) /\ Cardinality(T) \in Nat
    BY FS_Subset, FS_CardinalityType
  <1>2. S # {}
    BY FS_EmptySet
  <1>3. PICK top \in S : \A p \in S : p <= top
    BY <1>2, Greatest
  <1>4. top \in enough
    <2>1. UpTo(top) = S
      BY <1>3
    <2>. QED  BY <2>1, <1>1
  <1>5. PICK m \in enough : \A o \in enough : m <= o
    BY <1>4, Least
  <1>6. ASSUME Cardinality(UpTo(m)) # n
        PROVE  FALSE
    <2>. DEFINE below == UpTo(m) \ {m}
    <2>. m \in Nat
      OBVIOUS
    <2>1. m \in UpTo(m) /\ UpTo(m) \subseteq S /\ below \subseteq S
      BY <1>5
    <2>2. Cardinality(below) = Cardinality(UpTo(m)) - 1
      BY <1>1, <2>1, FS_RemoveElement
    <2>3. Cardinality(below) >= n
      BY <1>1, <1>5, <1>6, <2>1, <2>2
    <2>4. below # {}
      BY <2>3, FS_EmptySet
    <2>5. PICK b \in below : \A p \in below : p <= b
      BY <1>1, <2>1, <2>4, Greatest
    <2>. m \in Nat /\ b \in Nat /\ \A p \in S : p \in Nat
      OBVIOUS
    <2>6. b \in S /\ b <= m /\ b # m
      BY <1>5, <2>5
    <2>7. b < m /\ \A p \in S : p <= b <=> p \in below
      BY <1>5, <2>5, <2>6
    <2>8. UpTo(b) = below
      BY <2>1, <2>7
    <2>9. b \in enough
      BY <2>3, <2>6, <2>8
    <2>. QED  BY <1>5, <2>7, <2>9
  <1>. QED  BY <1>5, <1>6

\* There is an n-th free number, if there is room.
LEMMA FreshIs ==
  ASSUME program \in Programs, NEW h, NEW n \in Nat \ {0}, Room(h, n)
  PROVE  /\ Fresh(h, n) \in Ids \ Live(h)
         /\ Cardinality({p \in Ids \ Live(h) : p <= Fresh(h, n)}) = n
  <1>1. Ids \ Live(h) \subseteq Nat /\ IsFiniteSet(Ids \ Live(h))
    BY Programming, FS_Subset
  <1>2. \E o \in Ids \ Live(h) : Cardinality({p \in Ids \ Live(h) : p <= o}) = n
    BY <1>1, FS_CardinalityType, Rank DEF Room
  <1>. QED  BY <1>2 DEF Fresh

-----------------------------------------------------------------------------
(* What the operations do, but for MergeFrom.                              *)

LEMMA HeapIs ==
  ASSUME program \in Programs, NEW h, NEW hd, Forest(h, hd)
  PROVE  /\ Typed(h) /\ h = [p \in Ids |-> h[p]] /\ DOMAIN h = Ids
         /\ \A p \in Ids : p \notin Live(h) => h[p] = Gone
         /\ \A p \in Live(h) : /\ p \in Ids /\ p # NULL
                               /\ h[p] \in Records(h[p].class)
                               /\ h[p].class \in AllClasses
                               /\ h[p].sub \in [FieldsOf(h[p].class) -> Ids \cup {NULL}]
                               /\ h[p].value \in Nat
  BY Node, Programming DEF Forest, Typed, Live

LEMMA MadeIs ==
  ASSUME program \in Programs, NEW class
  PROVE  /\ Made(class).class = class
         /\ Made(class) \in Records(class)
         /\ Made(class).value = 0
         /\ \A f \in FieldsOf(class) : Made(class).sub[f] = NULL
  BY DEF Made, Records

Put(h, o, f, x) == [h EXCEPT ![o].sub[f] = x]

\* Only field f of o has changed: it is x now.
Rewritten(h, h2, o, f, x) ==
    /\ h2 = [p \in Ids |-> h2[p]]
    /\ \A p \in Ids : p # o => h2[p] = h[p]
    /\ h2[o] \in Records(h[o].class) /\ h2[o].value = h[o].value
    /\ \A g \in FieldsOf(h[o].class) : h2[o].sub[g] = IF g = f THEN x ELSE h[o].sub[g]

Relinked(h, h2, o, f, x) ==
    /\ Typed(h2) /\ Live(h2) = Live(h)
    /\ \A p \in Live(h) : h2[p].class = h[p].class
    /\ \A p \in Ids, g \in AllFields, y \in Ids :
          Edge(h2, p, g, y) <=> (p = o /\ g = f /\ y = x) \/ (~ (p = o /\ g = f) /\ Edge(h, p, g, y))

LEMMA FieldSet ==
  ASSUME program \in Programs, NEW h, NEW hd, Forest(h, hd), NEW o \in Live(h),
         NEW f \in FieldsOf(h[o].class), NEW x \in Ids \cup {NULL}
  PROVE  Rewritten(h, Put(h, o, f, x), o, f, x) /\ Relinked(h, Put(h, o, f, x), o, f, x)
  <1>0. PICK h2 : h2 = Put(h, o, f, x)
    OBVIOUS
  <1>1. /\ Typed(h) /\ h = [p \in Ids |-> h[p]]
        /\ o \in Ids /\ h[o] \in Records(h[o].class) /\ h[o].class \in AllClasses
        /\ h[o].sub \in [FieldsOf(h[o].class) -> Ids \cup {NULL}]
    BY HeapIs
  <1>2. h2 = [p \in Ids |-> h2[p]] /\ \A p \in Ids : p # o => h2[p] = h[p]
    BY <1>0, <1>1 DEF Put
  <1>3. h2[o] = [h[o] EXCEPT !.sub = [h[o].sub EXCEPT ![f] = x]]
    BY <1>0, <1>1 DEF Put
  <1>4. DEFINE s == [h[o].sub EXCEPT ![f] = x]
  <1>5. s \in [FieldsOf(h[o].class) -> Ids \cup {NULL}] /\ \A g \in FieldsOf(h[o].class) : s[g] = IF g = f THEN x ELSE h[o].sub[g]
    BY <1>1
  <1>. HIDE DEF s
  <1>6. h2[o] = [h[o] EXCEPT !.sub = s]
    BY <1>3 DEF s
  <1>7. h2[o] \in Records(h[o].class) /\ h2[o].class = h[o].class /\ h2[o].value = h[o].value /\ h2[o].sub = s
    BY <1>1, <1>5, <1>6 DEF Records
  <1>8. Typed(h2)
    <2>1. \A p \in Ids : h2[p] \in {Gone} \cup UNION {Records(class) : class \in AllClasses}
      <3>1. \A p \in Ids : h[p] \in {Gone} \cup UNION {Records(class) : class \in AllClasses}
        BY <1>1 DEF Typed
      <3>. QED  BY <1>1, <1>2, <1>7, <3>1
    <2>. QED  BY <1>2, <2>1 DEF Typed
  <1>9. \A p \in Ids : h2[p].class = h[p].class
    BY <1>2, <1>7
  <1>10. \A p \in Ids : p \in Live(h2) <=> p \in Live(h)
    <2>1. \A p \in Ids : p \in Live(h) <=> h[p].class \in AllClasses
      BY <1>1, Node
    <2>2. \A p \in Ids : p \in Live(h2) <=> h2[p].class \in AllClasses
      BY <1>8, Node
    <2>. QED  BY <1>9, <2>1, <2>2
  <1>11. Live(h2) = Live(h)
    <2>1. Live(h2) \subseteq Ids /\ Live(h) \subseteq Ids
      BY DEF Live
    <2>. QED  BY <1>10, <2>1
  <1>12. ASSUME NEW p \in Ids, NEW g \in AllFields, NEW y \in Ids
         PROVE  Edge(h2, p, g, y) <=> (p = o /\ g = f /\ y = x) \/ (~ (p = o /\ g = f) /\ Edge(h, p, g, y))
    <2>1. y # NULL
      BY Programming
    <2>2. CASE p = o
      BY <1>5, <1>7, <1>11, <2>1, <2>2 DEF Edge
    <2>3. CASE p # o
      BY <1>2, <1>11, <2>3 DEF Edge
    <2>. QED  BY <2>2, <2>3
  <1>13. \A p \in Live(h) : h2[p].class = h[p].class
    BY <1>9 DEF Live
  <1>14. Rewritten(h, h2, o, f, x)
    BY <1>2, <1>5, <1>7 DEF Rewritten
  <1>15. Relinked(h, h2, o, f, x)
    BY <1>8, <1>11, <1>12, <1>13 DEF Relinked
  <1>. QED  BY <1>0, <1>14, <1>15

\* What the program owns becomes part of a message.
LEMMA Link ==
  ASSUME program \in Programs, NEW h, NEW hd, Forest(h, hd), NEW o \in Live(h),
         NEW f \in FieldsOf(h[o].class), h[o].sub[f] = NULL,
         NEW x \in hd, h[x].class = ClassOf(f)
  PROVE  Forest(Put(h, o, f, x), hd \ {x})
  <1>0. PICK h2 : h2 = Put(h, o, f, x)
    OBVIOUS
  <1>1. x \in Live(h) /\ x \in Ids /\ x # NULL /\ o \in Ids /\ f \in AllFields
    BY HeapIs, Fields DEF Forest
  <1>2. /\ Typed(h2) /\ Live(h2) = Live(h)
        /\ \A p \in Live(h) : h2[p].class = h[p].class
        /\ \A p \in Ids, g \in AllFields, y \in Ids :
               Edge(h2, p, g, y) <=> (p = o /\ g = f /\ y = x) \/ (~ (p = o /\ g = f) /\ Edge(h, p, g, y))
    <2>1. Relinked(h, h2, o, f, x)
      BY <1>0, <1>1, FieldSet
    <2>. QED  BY <2>1, Programming DEF Relinked
  <1>3. \A y \in Ids : ~ Edge(h, o, f, y)
    BY Programming DEF Edge
  <1>4. \A p, g : ~ Edge(h, p, g, x)
    BY EdgeInForest
  <1>5. \A p, y \in Ids, g \in AllFields : Edge(h2, p, g, y) => y \in Live(h2)
    <2>1. \A p, g, y : Edge(h, p, g, y) => y \in Live(h)
      BY EdgeInForest
    <2>. QED  BY <1>1, <1>2, <2>1
  <1>6. ASSUME NEW y \in Live(h2)
        PROVE  Owned(h2, hd \ {x}, y)
    <2>1. y \in Live(h) /\ y \in Ids /\ Owned(h, hd, y)
      BY <1>2 DEF Live, Forest
    <2>2. CASE y = x
      BY <1>1, <1>2, <1>4, <2>2 DEF Owned
    <2>3. CASE y # x
      <3>1. \A p \in Ids, g \in AllFields : Edge(h2, p, g, y) <=> Edge(h, p, g, y)
        BY <1>2, <1>3, <2>1, <2>3
      <3>. QED  BY <1>2, <2>1, <2>3, <3>1, Kept
    <2>. QED  BY <2>2, <2>3
  <1>7. hd \ {x} \subseteq Live(h2)
    BY <1>2 DEF Forest
  <1>8. Forest(h2, hd \ {x})
    BY <1>2, <1>5, <1>6, <1>7 DEF Forest
  <1>. QED  BY <1>0, <1>8

\* What is taken out of a message is the program's own.
LEMMA Unlink ==
  ASSUME program \in Programs, NEW h, NEW hd, Forest(h, hd), NEW o, NEW f, NEW x, Edge(h, o, f, x)
  PROVE  Forest(Put(h, o, f, NULL), hd \cup {x})
  <1>0. PICK h2 : h2 = Put(h, o, f, NULL)
    OBVIOUS
  <1>1. /\ x \in Live(h) /\ x \in Ids /\ o \in Live(h) /\ o \in Ids
        /\ f \in AllFields /\ f \in FieldsOf(h[o].class)
    BY EdgeInForest, EdgeType DEF Forest
  <1>2. /\ Typed(h2) /\ Live(h2) = Live(h)
        /\ \A p \in Live(h) : h2[p].class = h[p].class
        /\ \A p \in Ids, g \in AllFields, y \in Ids :
               Edge(h2, p, g, y) <=> ~ (p = o /\ g = f) /\ Edge(h, p, g, y)
    <2>1. Relinked(h, h2, o, f, NULL)
      BY <1>0, <1>1, FieldSet
    <2>. QED  BY <2>1, Programming DEF Relinked
  <1>3. \A y \in Ids : y # NULL
    BY Programming
  <1>4. \A p, g : Edge(h, p, g, x) => p = o /\ g = f
    BY EdgeInForest
  <1>5. \A p, y \in Ids, g \in AllFields : Edge(h2, p, g, y) => y \in Live(h2)
    <2>1. \A p, g, y : Edge(h, p, g, y) => y \in Live(h)
      BY EdgeInForest
    <2>. QED  BY <1>1, <1>2, <1>3, <2>1
  <1>6. ASSUME NEW y \in Live(h2)
        PROVE  Owned(h2, hd \cup {x}, y)
    <2>1. y \in Live(h) /\ y \in Ids /\ Owned(h, hd, y)
      BY <1>2 DEF Live, Forest
    <2>2. CASE y = x
      <3>1. \A p \in Ids, g \in AllFields : ~ Edge(h2, p, g, y)
        BY <1>2, <1>3, <1>4, <2>1, <2>2
      <3>. QED  BY <2>2, <3>1 DEF Owned
    <2>3. CASE y # x
      <3>1. \A p \in Ids, g \in AllFields : Edge(h2, p, g, y) <=> Edge(h, p, g, y)
        <4>1. ~ Edge(h, o, f, y)
          BY <2>3 DEF Edge
        <4>. QED  BY <1>2, <1>3, <2>1, <4>1
      <3>. QED  BY <1>2, <2>1, <2>3, <3>1, Kept
    <2>. QED  BY <2>2, <2>3
  <1>7. hd \cup {x} \subseteq Live(h2)
    BY <1>1, <1>2 DEF Forest
  <1>8. Forest(h2, hd \cup {x})
    BY <1>2, <1>5, <1>6, <1>7 DEF Forest
  <1>. QED  BY <1>0, <1>8

\* A new object with nothing in it.
Unset(class, node) ==
    class \in AllClasses /\ node \in Records(class) /\ \A f \in FieldsOf(class) : node.sub[f] = NULL

With(h, o, node) == [h EXCEPT ![o] = node]

AddedTo(h, h2, o, node) ==
    Live(h2) = Live(h) \cup {o} /\ h2[o] = node /\ \A p \in Live(h) : p # o /\ h2[p] = h[p]

LEMMA Added ==
  ASSUME program \in Programs, NEW h, NEW hd, Forest(h, hd), NEW o \in Ids \ Live(h),
         NEW class, NEW node, Unset(class, node), NEW h2, h2 = With(h, o, node)
  PROVE  Forest(h2, hd \cup {o}) /\ AddedTo(h, h2, o, node)
  <1>1. /\ h = [p \in Ids |-> h[p]]
        /\ \A p \in Ids : p \notin Live(h) => h[p] = Gone
        /\ \A p \in Live(h) : p \in Ids /\ p # o /\ h[p] \in Records(h[p].class)
    BY HeapIs
  <1>2. class \in AllClasses /\ node \in Records(class) /\ \A f \in FieldsOf(class) : node.sub[f] = NULL
    BY DEF Unset
  <1>3. h2 = [p \in Ids |-> h2[p]] /\ \A p \in Ids : h2[p] = IF p = o THEN node ELSE h[p]
    BY <1>1 DEF With
  <1>4. node.class = class
    BY <1>2 DEF Records
  <1>5. \A f \in AllFields : ~ Edge(h2, o, f, o)
    BY <1>2, <1>3, <1>4 DEF Edge, Live
  <1>6. \A p \in Live(h), f \in AllFields : ~ Edge(h2, p, f, o)
    <2>1. \A p \in Live(h), f \in AllFields : ~ Edge(h, p, f, o)
      BY EdgeInForest
    <2>. QED  BY <1>1, <1>3, <2>1 DEF Edge
  <1>7. \A p \in Ids, f \in AllFields : ~ Edge(h2, p, f, o)
    <2>1. \A p \in Ids : p # o /\ p \notin Live(h) => p \notin Live(h2)
      BY <1>1, <1>3 DEF Live
    <2>. QED  BY <1>5, <1>6, <2>1 DEF Edge
  <1>8. Owned(h2, hd \cup {o}, o)
    BY <1>7 DEF Owned
  <1>9. Forest(h2, hd \cup {o}) /\ Live(h2) = Live(h) \cup {o}
    <2>1. PICK N, hd2 : N = {o} /\ hd2 = hd \cup {o}
      OBVIOUS
    <2>2. N \subseteq Ids \ Live(h) /\ hd2 \subseteq hd \cup N /\ hd \subseteq hd2
      BY <2>1
    <2>3. \A p \in Live(h) : \A f \in FieldsOf(h[p].class) :
             /\ h[p].sub[f] = NULL => h2[p].sub[f] \in N \cup {NULL}
             /\ h[p].sub[f] # NULL => h2[p].sub[f] = h[p].sub[f]
      BY <1>1, <1>3
    <2>4. \A p \in N : \E c \in AllClasses :
             /\ h2[p] \in Records(c)
             /\ \A f \in FieldsOf(c) : h2[p].sub[f] \in N \cup {NULL}
      BY <1>2, <1>3, <2>1
    <2>5. Grown(h, h2, N)
      <3>1. \A p \in Live(h) : h2[p] \in Records(h[p].class)
        BY <1>1, <1>3
      <3>2. \A p \in Ids : p \notin Live(h) /\ p \notin N => h2[p] = Gone
        BY <1>1, <1>3, <2>1
      <3>3. h2 = [p \in Ids |-> h2[p]]
        BY <1>3
      <3>. QED  BY <2>3, <2>4, <3>1, <3>2, <3>3, Zenon DEF Grown
    <2>6. \A x \in N : Owned(h2, hd2, x)
      BY <1>8, <2>1
    <2>7. Forest(h2, hd2)
      BY <2>2, <2>5, <2>6, Growth
    <2>8. Live(h2) = Live(h) \cup N
      BY <2>2, <2>5, GrownLive
    <2>. QED  BY <2>1, <2>7, <2>8
  <1>. QED  BY <1>1, <1>3, <1>9 DEF AddedTo

LEMMA SwapKeeps ==
  ASSUME program \in Programs, NEW h, NEW hd, Forest(h, hd),
         NEW a \in Live(h), NEW b \in Live(h), h[a].class = h[b].class
  PROVE  /\ Forest(InternalSwap(h, a, b), hd)
         /\ \A p \in Ids : p # a /\ p # b => InternalSwap(h, a, b)[p] = h[p]
         /\ InternalSwap(h, a, b)[a] = h[b]
         /\ InternalSwap(h, a, b)[b] = h[a]
  <1>1. Typed(h) /\ h = [p \in Ids |-> h[p]] /\ a \in Ids /\ b \in Ids
    BY HeapIs
  <1>2. /\ h[a] = [class |-> h[a].class, sub |-> h[a].sub, value |-> h[a].value]
        /\ h[b] = [class |-> h[b].class, sub |-> h[b].sub, value |-> h[b].value]
    BY <1>1, Node
  <1>3. PICK h2 : h2 = InternalSwap(h, a, b)
    OBVIOUS
  <1>. DEFINE Other(p) == IF p = a THEN b ELSE IF p = b THEN a ELSE p
  <1>4. h2 = [p \in Ids |-> h2[p]] /\ \A p \in Ids : p # a /\ p # b => h2[p] = h[p]
    BY <1>1, <1>3 DEF InternalSwap
  <1>5. h2[a] = h[b] /\ h2[b] = h[a]
    <2>1. h2[a] = [h[a] EXCEPT !.sub = h[b].sub, !.value = h[b].value]
      BY <1>1, <1>2, <1>3 DEF InternalSwap
    <2>2. h2[b] = [h[b] EXCEPT !.sub = h[a].sub, !.value = h[a].value]
      BY <1>1, <1>2, <1>3 DEF InternalSwap
    <2>. QED  BY <1>2, <2>1, <2>2
  <1>6. \A p \in Ids : Other(p) \in Ids /\ h2[p] = h[Other(p)] /\ h2[p].class = h[p].class /\ Other(Other(p)) = p
    BY <1>1, <1>4, <1>5
  <1>7. Live(h2) = Live(h) /\ \A p \in Ids : p \in Live(h) <=> Other(p) \in Live(h)
    BY <1>1, <1>6 DEF Live
  <1>8. Typed(h2)
    BY <1>1, <1>4, <1>6 DEF Typed
  <1>9. ASSUME NEW p \in Ids, NEW f \in AllFields, NEW x \in Ids
        PROVE  Edge(h2, p, f, x) <=> Edge(h, Other(p), f, x)
    BY <1>6, <1>7 DEF Edge
  <1>. HIDE DEF Other
  <1>10. \A p, x \in Ids, f \in AllFields : Edge(h2, p, f, x) => x \in Live(h2)
    BY <1>6, <1>7, <1>9, EdgeInForest
  <1>11. ASSUME NEW x \in Live(h2)
         PROVE  Owned(h2, hd, x)
    <2>1. Owned(h, hd, x) /\ x \in Ids
      BY <1>7 DEF Forest, Live
    <2>2. \A p \in Ids, f \in AllFields : Edge(h2, p, f, x) <=> Edge(h, Other(p), f, x)
      BY <1>9, <2>1
    <2>3. \A p \in Ids, f \in AllFields : Edge(h2, p, f, x) => h2[x].class = ClassOf(f)
      BY <1>6, <2>1, <2>2 DEF Owned
    <2>4. ASSUME NEW p \in Ids, NEW q \in Ids, NEW f \in AllFields, NEW g \in AllFields,
                 Edge(h2, p, f, x), Edge(h2, q, g, x)
          PROVE  p = q /\ f = g
      <3>1. Other(p) = Other(q) /\ f = g
        BY <1>6, <2>1, <2>2, <2>4 DEF Owned
      <3>2. p = Other(Other(p)) /\ q = Other(Other(q))
        BY <1>6
      <3>. QED  BY <3>1, <3>2
    <2>5. x \in hd <=> ~ \E p \in Ids, f \in AllFields : Edge(h2, p, f, x)
      <3>1. \A p \in Ids, f \in AllFields : Edge(h, p, f, x) <=> Edge(h2, Other(p), f, x)
        BY <1>6, <2>2
      <3>. QED  BY <1>6, <2>1, <2>2, <3>1 DEF Owned
    <2>. QED  BY <2>3, <2>4, <2>5 DEF Owned
  <1>12. Forest(h2, hd)
    BY <1>7, <1>8, <1>10, <1>11 DEF Forest
  <1>. QED  BY <1>3, <1>4, <1>5, <1>12

\* An object that the program owns, and what is below it.
LEMMA DeletedIs ==
  ASSUME program \in Programs, NEW h, NEW hd, Forest(h, hd), NEW o \in hd
  PROVE  /\ Forest(Deleted(h, o), hd \ {o})
         /\ Live(Deleted(h, o)) = Live(h) \ Below(h, o)
         /\ \A p \in Live(h) : p \notin Below(h, o) => Deleted(h, o)[p] = h[p]
  <1>. DEFINE D == Below(h, o)
  <1>1. /\ h = [p \in Ids |-> h[p]]
        /\ \A p \in Ids : p \notin Live(h) => h[p] = Gone
        /\ \A p \in Live(h) : p \in Ids /\ h[p] \in Records(h[p].class)
    BY HeapIs
  <1>2. o \in Live(h) /\ o # NULL
    BY HeapIs DEF Forest
  <1>3. o \in D /\ D \subseteq Live(h) /\ Closed(h, D)
    BY <1>2, BelowIs
  <1>4. PICK h2 : h2 = Deleted(h, o)
    OBVIOUS
  <1>5. h2 = [p \in Ids |-> IF p \in D THEN Gone ELSE h[p]]
    BY <1>2, <1>4 DEF Deleted
  <1>6. \A x \in D : x = o \/ \E p \in D, f \in AllFields : Edge(h, p, f, x)
    BY <1>2, BelowParent
  <1>. HIDE DEF D
  <1>7. h2 = [p \in Ids |-> h2[p]] /\ \A p \in Ids : h2[p] = IF p \in D THEN Gone ELSE h[p]
    BY <1>5
  <1>8. \A f : \A p \in Live(h) : p \notin D => ~ \E x \in D : Edge(h, p, f, x)
    BY <1>6, EdgeInForest
  <1>9. \A p \in Live(h) : p \notin D => \A f \in FieldsOf(h[p].class) : h[p].sub[f] \notin D
    <2>1. NULL \notin D
      BY <1>1, <1>3, Programming
    <2>. QED  BY <1>8, <2>1 DEF Edge
  <1>10. Shrunk(h, h2, D)
    <2>1. \A p \in Ids : p \in D \/ p \notin Live(h) => h2[p] = Gone
      BY <1>1, <1>7
    <2>2. \A p \in Live(h) : p \notin D => h2[p] \in Records(h[p].class)
      BY <1>1, <1>7
    <2>3. \A p \in Live(h) : p \notin D => \A f \in FieldsOf(h[p].class) :
             /\ h[p].sub[f] \in D => h2[p].sub[f] = NULL
             /\ h[p].sub[f] \notin D => h2[p].sub[f] = h[p].sub[f]
      BY <1>1, <1>7, <1>9
    <2>. QED  BY <1>7, <2>1, <2>2, <2>3 DEF Shrunk
  <1>11. hd \ D = hd \ {o}
    <2>1. \A x \in hd : \A p, f : ~ Edge(h, p, f, x)
      BY EdgeInForest
    <2>. QED  BY <1>3, <1>6, <2>1
  <1>12. Forest(h2, hd \ D)
    BY <1>3, <1>10, Removal
  <1>13. Live(h2) = Live(h) \ D
    BY <1>3, <1>10, ShrunkLive
  <1>14. \A p \in Live(h) : p \notin D => h2[p] = h[p]
    BY <1>1, <1>7
  <1>. QED  BY <1>4, <1>11, <1>12, <1>13, <1>14 DEF D

\* A field that holds something is emptied, and what it holds destroyed.
LEMMA Emptied ==
  ASSUME program \in Programs, NEW h, NEW hd, Forest(h, hd), NEW o, NEW f, NEW y, Edge(h, o, f, y)
  PROVE  /\ Forest(Put(Deleted(h, y), o, f, NULL), hd)
         /\ o \in Live(Put(Deleted(h, y), o, f, NULL))
         /\ hd \subseteq Live(Put(Deleted(h, y), o, f, NULL))
         /\ \A p \in Live(Put(Deleted(h, y), o, f, NULL)) : Put(Deleted(h, y), o, f, NULL)[p].class = h[p].class
         /\ Put(Deleted(h, y), o, f, NULL)[o].sub[f] = NULL
         /\ \A x : Put(Put(Deleted(h, y), o, f, NULL), o, f, x) = Put(Deleted(h, y), o, f, x)
  <1>. DEFINE D == Below(h, y)
  <1>1. /\ h = [p \in Ids |-> h[p]]
        /\ \A p \in Ids : p \notin Live(h) => h[p] = Gone
        /\ \A p \in Live(h) : p \in Ids /\ h[p] \in Records(h[p].class)
    BY HeapIs
  <1>2. /\ y \in Live(h) /\ y # NULL /\ o \in Live(h) /\ o \in Ids /\ o # y
        /\ f \in FieldsOf(h[o].class) /\ h[o].class \in AllClasses
        /\ h[o].sub[f] = y
        /\ h[o].sub \in [FieldsOf(h[o].class) -> Ids \cup {NULL}]
    <2>1. y \in Live(h) /\ Level(h[y].class) < Level(h[o].class) /\ h[y].class \in AllClasses
      BY EdgeInForest
    <2>2. o \in Live(h) /\ f \in FieldsOf(h[o].class) /\ h[o].sub[f] = y
      BY DEF Edge
    <2>3. o \in Ids /\ h[o].class \in AllClasses /\ h[o].sub \in [FieldsOf(h[o].class) -> Ids \cup {NULL}]
      BY <2>2, HeapIs
    <2>4. y # NULL
      BY <2>1, HeapIs
    <2>5. Level(h[o].class) \in 0 .. 3
      BY <2>3, Fields
    <2>. QED  BY <2>1, <2>2, <2>3, <2>4, <2>5
  <1>3. y \in D /\ D \subseteq Live(h) /\ Closed(h, D)
    BY <1>2, BelowIs
  <1>4. o \notin D
    <2>1. Level(h[y].class) < Level(h[o].class) /\ Level(h[y].class) \in 0 .. 3 /\ Level(h[o].class) \in 0 .. 3
      BY <1>2, EdgeInForest, Fields
    <2>. QED  BY <1>2, <2>1, BelowParent
  <1>5. \A x \in D : x = y \/ \E p \in D, g \in AllFields : Edge(h, p, g, x)
    BY <1>2, BelowParent
  <1>6. PICK h1 : h1 = Deleted(h, y)
    OBVIOUS
  <1>7. h1 = [p \in Ids |-> IF p \in D THEN Gone ELSE h[p]]
    BY <1>2, <1>6 DEF Deleted
  <1>8. PICK h2 : h2 = Put(h1, o, f, NULL)
    OBVIOUS
  <1>. HIDE DEF D
  <1>9. DEFINE s == [h[o].sub EXCEPT ![f] = NULL]
  <1>10. /\ s \in [FieldsOf(h[o].class) -> Ids \cup {NULL}]
         /\ \A g \in FieldsOf(h[o].class) : s[g] = IF g = f THEN NULL ELSE h[o].sub[g]
    BY <1>2
  <1>11. /\ h2 = [p \in Ids |-> h2[p]]
         /\ \A p \in Ids : p # o => h2[p] = IF p \in D THEN Gone ELSE h[p]
         /\ h2[o] = [h[o] EXCEPT !.sub = s]
    BY <1>2, <1>4, <1>7, <1>8 DEF Put
  <1>. HIDE DEF s
  <1>12. h2[o] \in Records(h[o].class) /\ h2[o].sub = s
    BY <1>1, <1>2, <1>10, <1>11 DEF Records
  <1>13. \A p \in Live(h) : \A g : p \notin D /\ ~ (p = o /\ g = f) => ~ \E x \in D : Edge(h, p, g, x)
    <2>1. \A p, g : Edge(h, p, g, y) => p = o /\ g = f
      BY EdgeInForest
    <2>. QED  BY <1>5, <2>1, EdgeInForest
  <1>14. NULL \notin D
    BY <1>1, <1>3, Programming
  <1>15. \A p \in Live(h) : p \notin D => \A g \in FieldsOf(h[p].class) : h[p].sub[g] \in D => p = o /\ g = f
    BY <1>13, <1>14 DEF Edge
  <1>16. Shrunk(h, h2, D)
    <2>1. \A p \in Ids : p \in D \/ p \notin Live(h) => h2[p] = Gone
      BY <1>1, <1>2, <1>4, <1>11
    <2>2. \A p \in Live(h) : p \notin D => h2[p] \in Records(h[p].class)
      BY <1>1, <1>11, <1>12
    <2>3. \A p \in Live(h) : p \notin D => \A g \in FieldsOf(h[p].class) :
             /\ h[p].sub[g] \in D => h2[p].sub[g] = NULL
             /\ h[p].sub[g] \notin D => h2[p].sub[g] = h[p].sub[g]
      <3>1. ASSUME NEW p \in Live(h), p \notin D, NEW g \in FieldsOf(h[p].class)
            PROVE  /\ h[p].sub[g] \in D => h2[p].sub[g] = NULL
                   /\ h[p].sub[g] \notin D => h2[p].sub[g] = h[p].sub[g]
        <4>1. CASE p = o
          BY <1>2, <1>3, <1>10, <1>12, <1>15, <3>1, <4>1
        <4>2. CASE p # o
          BY <1>1, <1>11, <1>15, <3>1, <4>2
        <4>. QED  BY <4>1, <4>2
      <3>. QED  BY <3>1
    <2>. QED  BY <1>11, <2>1, <2>2, <2>3 DEF Shrunk
  <1>17. hd \ D = hd /\ hd \subseteq Live(h)
    <2>1. \A x \in hd : \A p, g : ~ Edge(h, p, g, x)
      BY EdgeInForest
    <2>. QED  BY <1>5, <2>1 DEF Forest
  <1>18. Forest(h2, hd)
    <2>1. Forest(h2, hd \ D)
      BY <1>3, <1>16, Removal
    <2>. QED  BY <1>17, <2>1
  <1>19. Live(h2) = Live(h) \ D /\ \A p \in Live(h) : p \notin D => h2[p].class = h[p].class
    <2>1. Live(h2) = Live(h) \ D
      BY <1>3, <1>16, ShrunkLive
    <2>2. \A p \in Live(h) : p \notin D => h2[p].class = h[p].class
      BY <1>3, <1>16, ShrunkLive
    <2>. QED  BY <2>1, <2>2
  <1>20. h2[o].sub[f] = NULL
    BY <1>2, <1>10, <1>12
  <1>21. \A x : Put(h2, o, f, x) = Put(h1, o, f, x)
    <2>1. h1 = [p \in Ids |-> h1[p]] /\ h1[o] = h[o]
      BY <1>2, <1>4, <1>7
    <2>. SUFFICES ASSUME NEW x PROVE Put(h2, o, f, x) = Put(h1, o, f, x)
      OBVIOUS
    <2>2. h2 = [h1 EXCEPT ![o] = [h[o] EXCEPT !.sub = s]]
      BY <1>8, <2>1 DEF Put, s
    <2>3. [[h[o] EXCEPT !.sub = s] EXCEPT !.sub = [s EXCEPT ![f] = x]] = [h[o] EXCEPT !.sub = [h[o].sub EXCEPT ![f] = x]]
      <3>1. [s EXCEPT ![f] = x] = [h[o].sub EXCEPT ![f] = x]
        BY <1>2 DEF s
      <3>2. h[o] = [class |-> h[o].class, sub |-> h[o].sub, value |-> h[o].value]
        BY <1>1, <1>2 DEF Records
      <3>. QED  BY <3>1, <3>2
    <2>4. h2[o] = [h[o] EXCEPT !.sub = s]
      BY <1>11
    <2>. QED  BY <1>2, <1>12, <2>1, <2>2, <2>3, <2>4 DEF Put
  <1>. QED  BY <1>2, <1>4, <1>6, <1>8, <1>17, <1>18, <1>19, <1>20, <1>21

LEMMA ReplacedKeeps ==
  ASSUME program \in Programs, NEW h, NEW hd, Forest(h, hd), NEW o \in Live(h),
         NEW f \in FieldsOf(h[o].class), NEW x, x = NULL \/ (x \in hd /\ h[x].class = ClassOf(f))
  PROVE  Forest(Replaced(h, o, f, x), hd \ {x})
  <1>1. Replaced(h, o, f, x) = Put(Deleted(h, h[o].sub[f]), o, f, x)
    BY DEF Replaced, Put
  <1>2. x = NULL => hd \ {x} = hd
    BY HeapIs DEF Forest
  <1>3. CASE h[o].sub[f] = NULL
    <2>1. Replaced(h, o, f, x) = Put(h, o, f, x)
      BY <1>1, <1>3 DEF Deleted
    <2>2. CASE x = NULL
      <3>1. /\ h = [p \in Ids |-> h[p]] /\ o \in Ids /\ h[o] \in Records(h[o].class)
            /\ h[o].sub \in [FieldsOf(h[o].class) -> Ids \cup {NULL}]
        BY HeapIs
      <3>2. [h[o].sub EXCEPT ![f] = NULL] = h[o].sub
        BY <1>3, <3>1
      <3>3. [h[o] EXCEPT !.sub = h[o].sub] = h[o]
        BY <3>1 DEF Records
      <3>4. Put(h, o, f, NULL) = h
        BY <3>1, <3>2, <3>3 DEF Put
      <3>. QED  BY <1>2, <2>1, <2>2, <3>4
    <2>3. CASE x \in hd /\ h[x].class = ClassOf(f)
      BY <1>3, <2>1, <2>3, Link
    <2>. QED  BY <2>2, <2>3
  <1>4. CASE h[o].sub[f] # NULL
    <2>1. PICK y : y = h[o].sub[f]
      OBVIOUS
    <2>2. Edge(h, o, f, y)
      BY <1>4, <2>1 DEF Edge
    <2>3. PICK h2 : h2 = Put(Deleted(h, y), o, f, NULL)
      OBVIOUS
    <2>4. /\ Forest(h2, hd) /\ o \in Live(h2) /\ hd \subseteq Live(h2)
          /\ \A p \in Live(h2) : h2[p].class = h[p].class
          /\ h2[o].sub[f] = NULL
          /\ \A z : Put(h2, o, f, z) = Put(Deleted(h, y), o, f, z)
      BY <2>2, <2>3, Emptied
    <2>5. CASE x = NULL
      BY <1>1, <1>2, <2>1, <2>3, <2>4, <2>5
    <2>6. CASE x \in hd /\ h[x].class = ClassOf(f)
      <3>1. h2[x].class = ClassOf(f) /\ f \in FieldsOf(h2[o].class)
        BY <2>4, <2>6
      <3>2. Forest(Put(h2, o, f, x), hd \ {x})
        BY <2>4, <2>6, <3>1, Link
      <3>. QED  BY <1>1, <2>1, <2>4, <3>2
    <2>. QED  BY <2>5, <2>6
  <1>. QED  BY <1>3, <1>4

\* clear: submessages are gone with what is below them, strings are empty.
Bare(h, o) ==
    /\ h[o].value = 0
    /\ \A f \in FieldsOf(h[o].class) : h[o].sub[f] # NULL => f \in Strings /\ h[h[o].sub[f]].value = 0

LEMMA ClearedIs ==
  ASSUME program \in Programs, NEW h, NEW hd, Forest(h, hd), NEW o \in Live(h)
  PROVE  /\ Forest(Cleared(h, o), hd)
         /\ o \in Live(Cleared(h, o)) /\ Cleared(h, o)[o].class = h[o].class
         /\ Live(Cleared(h, o)) \subseteq Live(h)
         /\ \A p \in Live(h) : p \notin Below(h, o) => Cleared(h, o)[p] = h[p]
         /\ Bare(Cleared(h, o), o)
         /\ \A f, x : Edge(Cleared(h, o), o, f, x) => Edge(h, o, f, x)
  <1>. DEFINE fields   == FieldsOf(h[o].class)
              messages == {f \in fields : f \notin Strings}
              texts    == {h[o].sub[f] : f \in fields \cap Strings}
              D        == UNION {Below(h, h[o].sub[f]) : f \in {g \in messages : h[o].sub[g] # NULL}}
  <1>1. /\ h = [p \in Ids |-> h[p]]
        /\ \A p \in Ids : p \notin Live(h) => h[p] = Gone
        /\ \A p \in Live(h) : /\ p \in Ids /\ p # NULL /\ h[p] \in Records(h[p].class)
                              /\ h[p].class \in AllClasses
    BY HeapIs
  <1>2. /\ o \in Ids /\ h[o].class \in AllClasses
        /\ h[o].sub \in [fields -> Ids \cup {NULL}] /\ DOMAIN h[o].sub = fields
    BY HeapIs
  <1>3. PICK h2 : h2 = Cleared(h, o)
    OBVIOUS
  <1>4. h2 = [p \in Ids |-> IF p \in D THEN Gone
                            ELSE IF p \in texts THEN [h[p] EXCEPT !.value = 0]
                            ELSE IF p = o THEN [h[p] EXCEPT !.value = 0,
                                                    !.sub = [f \in DOMAIN @ |-> IF f \in messages THEN NULL ELSE @[f]]]
                            ELSE h[p]]
    BY <1>3 DEF Cleared
  <1>5. \A f \in fields : h[o].sub[f] # NULL => Edge(h, o, f, h[o].sub[f])
    BY DEF Edge
  <1>6. ASSUME NEW x
        PROVE  x \in D <=> \E f \in messages : \E y : Edge(h, o, f, y) /\ x \in Below(h, y)
    BY <1>5 DEF Edge
  <1>7. fields \cap Strings = {} \/ messages = {}
    BY <1>2, StringFields
  <1>8. \A p \in texts : p = NULL \/ \E f \in fields : Edge(h, o, f, p)
    BY <1>5
  <1>9. \A f, y : Edge(h, o, f, y) => /\ y \in Live(h) /\ y # o /\ y # NULL
                                      /\ Below(h, y) \subseteq Below(h, o)
                                      /\ y \in Below(h, y) /\ Below(h, y) \subseteq Live(h)
                                      /\ Closed(h, Below(h, y)) /\ o \notin Below(h, y)
    <2>. SUFFICES ASSUME NEW f, NEW y, Edge(h, o, f, y)
                  PROVE  /\ y \in Live(h) /\ y # o /\ y # NULL
                         /\ Below(h, y) \subseteq Below(h, o)
                         /\ y \in Below(h, y) /\ Below(h, y) \subseteq Live(h)
                         /\ Closed(h, Below(h, y)) /\ o \notin Below(h, y)
      OBVIOUS
    <2>1. /\ y \in Live(h) /\ Level(h[y].class) < Level(h[o].class) /\ h[y].class \in AllClasses
          /\ y \in Ids /\ f \in AllFields
      BY EdgeInForest, EdgeType DEF Forest
    <2>2. Level(h[o].class) \in 0 .. 3 /\ Level(h[y].class) \in 0 .. 3
      BY <1>2, <2>1, Fields
    <2>3. y # o /\ o \notin Below(h, y)
      BY <2>1, <2>2, BelowParent
    <2>4. y \in Below(h, o) /\ Closed(h, Below(h, o))
      BY <2>1, BelowIs DEF Closed
    <2>5. Below(h, y) \subseteq Below(h, o)
      BY <2>1, <2>4, BelowIs
    <2>. QED  BY <1>1, <2>1, <2>3, <2>5, BelowIs
  <1>10. ASSUME NEW x \in D
         PROVE  /\ x \in Live(h) /\ x \in Below(h, o) /\ x # o
                /\ \A p, g, z : Edge(h, x, g, z) => z \in D
                /\ \E p, g : Edge(h, p, g, x) /\ (p \in D \/ (p = o /\ g \in messages))
    <2>0. PICK f \in messages : \E y : Edge(h, o, f, y) /\ x \in Below(h, y)
      BY <1>6
    <2>1. PICK y : Edge(h, o, f, y) /\ x \in Below(h, y)
      BY <2>0
    <2>2. x \in Live(h) /\ x \in Below(h, o) /\ x # o
      BY <1>9, <2>1
    <2>3. \A p, g, z : Edge(h, x, g, z) => z \in Below(h, y)
      BY <1>9, <2>1, EdgeType DEF Closed, Forest
    <2>4. Below(h, y) \subseteq D
      BY <1>6, <2>1
    <2>5. x = y \/ \E p \in Below(h, y) : \E g : Edge(h, p, g, x)
      BY <1>9, <2>1, BelowParent
    <2>. QED  BY <2>1, <2>2, <2>3, <2>4, <2>5
  <1>11. \A f \in messages : \A y : Edge(h, o, f, y) => y \in D
    BY <1>6, <1>9
  <1>12. NULL \notin D /\ D \subseteq Live(h) /\ Closed(h, D)
    BY <1>1, <1>10 DEF Closed
  <1>13. o \notin texts
    BY <1>1, <1>8, <1>9
  <1>14. texts \cap D = {}
    <2>1. \A p \in texts : \A q, g : Edge(h, q, g, p) => q = o /\ g \notin messages
      <3>. SUFFICES ASSUME NEW p \in texts, NEW q, NEW g, Edge(h, q, g, p)
                    PROVE  q = o /\ g \notin messages
        OBVIOUS
      <3>1. PICK f \in fields \cap Strings : p = h[o].sub[f]
        OBVIOUS
      <3>2. Edge(h, o, f, p)
        BY <3>1 DEF Edge
      <3>. QED  BY <3>1, <3>2, EdgeInForest
    <2>2. \A x \in D : \E p, g : Edge(h, p, g, x) /\ (p \in D \/ (p = o /\ g \in messages))
      BY <1>10
    <2>3. o \notin D
      BY <1>10
    <2>. QED  BY <2>1, <2>2, <2>3
  <1>15. DEFINE s == [f \in fields |-> IF f \in messages THEN NULL ELSE h[o].sub[f]]
  <1>16. /\ s \in [fields -> Ids \cup {NULL}]
         /\ \A f \in fields : s[f] = IF f \in Strings THEN h[o].sub[f] ELSE NULL
    BY <1>2
  <1>17. o \notin D
    BY <1>10
  <1>18. h2[o] = [h[o] EXCEPT !.value = 0, !.sub = s]
    BY <1>2, <1>4, <1>13, <1>17
  <1>19. /\ h2 = [p \in Ids |-> h2[p]]
         /\ \A p \in Ids : p # o => h2[p] = IF p \in D THEN Gone
                                            ELSE IF p \in texts THEN [h[p] EXCEPT !.value = 0] ELSE h[p]
    BY <1>4
  <1>. HIDE DEF s, D, texts
  <1>20. h2[o] \in Records(h[o].class) /\ h2[o].sub = s /\ h2[o].value = 0 /\ h2[o].class = h[o].class
    <2>1. h[o] = [class |-> h[o].class, sub |-> h[o].sub, value |-> h[o].value]
      BY <1>1 DEF Records
    <2>2. h2[o] = [class |-> h[o].class, sub |-> s, value |-> 0]
      BY <1>18, <2>1
    <2>. QED  BY <1>16, <2>2 DEF Records
  <1>21. \A p \in Live(h) : p # o /\ p \notin D =>
             /\ h2[p] \in Records(h[p].class) /\ h2[p].sub = h[p].sub
             /\ p \in texts => h2[p].value = 0
             /\ p \notin texts => h2[p] = h[p]
    <2>1. \A p \in Live(h) : p # o /\ p \notin D =>
             h2[p] = IF p \in texts THEN [h[p] EXCEPT !.value = 0] ELSE h[p]
      BY <1>1, <1>19
    <2>2. \A p \in Live(h) : /\ [h[p] EXCEPT !.value = 0] \in Records(h[p].class)
                             /\ [h[p] EXCEPT !.value = 0].sub = h[p].sub
                             /\ [h[p] EXCEPT !.value = 0].value = 0
      BY <1>1 DEF Records
    <2>. QED  BY <1>1, <2>1, <2>2
  <1>22. \A f \in fields : h[o].sub[f] \in D <=> f \in messages /\ h[o].sub[f] # NULL
    <2>1. \A f \in fields : f \in messages /\ h[o].sub[f] # NULL => h[o].sub[f] \in D
      BY <1>5, <1>11
    <2>2. \A f \in fields : h[o].sub[f] \in D => f \in messages
      <3>. SUFFICES ASSUME NEW f \in fields, f \in Strings
                    PROVE  h[o].sub[f] \notin D
        OBVIOUS
      <3>. QED  BY <1>14 DEF texts
    <2>. QED  BY <1>12, <2>1, <2>2
  <1>23. \A p \in Live(h) : p \notin D /\ p # o => \A g \in FieldsOf(h[p].class) : h[p].sub[g] \notin D
    <2>1. \A p \in Live(h) : \A g : p \notin D /\ p # o => \A x \in D : ~ Edge(h, p, g, x)
      BY <1>10, EdgeInForest
    <2>. QED  BY <1>12, <2>1 DEF Edge
  <1>24. Shrunk(h, h2, D)
    <2>1. \A p \in Ids : p \in D \/ p \notin Live(h) => h2[p] = Gone
      <3>1. \A p \in texts : p \in D \/ p \in Live(h) \/ p = NULL
        BY <1>8, <1>9
      <3>2. \A p \in Ids : p # NULL
        BY Programming
      <3>. QED  BY <1>1, <1>17, <1>19, <3>1, <3>2
    <2>2. \A p \in Live(h) : p \notin D => h2[p] \in Records(h[p].class)
      BY <1>20, <1>21
    <2>3. \A p \in Live(h) : p \notin D => \A g \in FieldsOf(h[p].class) :
             /\ h[p].sub[g] \in D => h2[p].sub[g] = NULL
             /\ h[p].sub[g] \notin D => h2[p].sub[g] = h[p].sub[g]
      <3>1. ASSUME NEW p \in Live(h), p \notin D, NEW g \in FieldsOf(h[p].class)
            PROVE  /\ h[p].sub[g] \in D => h2[p].sub[g] = NULL
                   /\ h[p].sub[g] \notin D => h2[p].sub[g] = h[p].sub[g]
        <4>1. CASE p = o
          BY <1>16, <1>20, <1>22, <3>1, <4>1
        <4>2. CASE p # o
          BY <1>21, <1>23, <3>1, <4>2
        <4>. QED  BY <4>1, <4>2
      <3>. QED  BY <3>1
    <2>. QED  BY <1>19, <2>1, <2>2, <2>3 DEF Shrunk
  <1>25. Forest(h2, hd)
    <2>1. Forest(h2, hd \ D)
      BY <1>12, <1>24, Removal
    <2>2. hd \ D = hd
      <3>1. \A x \in hd : \A p, g : ~ Edge(h, p, g, x)
        BY EdgeInForest
      <3>. QED  BY <1>10, <3>1
    <2>. QED  BY <2>1, <2>2
  <1>26. Live(h2) = Live(h) \ D
    BY <1>12, <1>24, ShrunkLive
  <1>27. \A p \in Live(h) : p \notin Below(h, o) => h2[p] = h[p]
    <2>1. \A p \in texts : p = NULL \/ p \in Below(h, o)
      BY <1>8, <1>9
    <2>2. o \in Below(h, o)
      BY BelowIs
    <2>. QED  BY <1>1, <1>10, <1>21, <2>1, <2>2
  <1>28. Bare(h2, o)
    <2>. SUFFICES ASSUME NEW f \in fields, h2[o].sub[f] # NULL
                  PROVE  f \in Strings /\ h2[h2[o].sub[f]].value = 0
      BY <1>20 DEF Bare
    <2>1. f \in Strings /\ h2[o].sub[f] = h[o].sub[f]
      BY <1>16, <1>20
    <2>2. h[o].sub[f] \in texts
      BY <2>1 DEF texts
    <2>3. h[o].sub[f] \in Live(h) /\ h[o].sub[f] # o
      BY <1>5, <1>9, <2>1
    <2>. QED  BY <1>14, <1>21, <2>1, <2>2, <2>3
  <1>29. \A f, x : Edge(h2, o, f, x) => Edge(h, o, f, x)
    BY <1>16, <1>20 DEF Edge
  <1>. QED  BY <1>3, <1>17, <1>20, <1>25, <1>26, <1>27, <1>28, <1>29

-----------------------------------------------------------------------------
(* The ways from an object to those under it.                              *)

LEMMA Appended ==
  ASSUME NEW p \in Seq(AllFields), NEW f \in AllFields
  PROVE  /\ Append(p, f) \in Seq(AllFields)
         /\ Len(Append(p, f)) = Len(p) + 1 /\ Len(p) \in Nat
         /\ Append(p, f) # << >>
         /\ \A i \in 1 .. Len(p) : Append(p, f)[i] = p[i]
         /\ Append(p, f)[Len(p) + 1] = f
  <1>1. Append(p, f) \in Seq(AllFields) /\ Len(Append(p, f)) = Len(p) + 1 /\ Len(p) \in Nat
    BY AppendProperties, LenProperties
  <1>2. Append(p, f) # << >>
    BY <1>1, EmptySeq
  <1>. QED  BY <1>1, <1>2, AppendProperties

LEMMA AppendedOnce ==
  ASSUME NEW p \in Seq(AllFields), NEW q \in Seq(AllFields), NEW f \in AllFields, NEW g \in AllFields,
         Append(p, f) = Append(q, g)
  PROVE  p = q /\ f = g
  <1>1. Len(p) = Len(q) /\ Len(p) \in Nat
    BY Appended
  <1>2. \A i \in 1 .. Len(p) : p[i] = q[i]
    <2>1. \A i \in 1 .. Len(p) : Append(p, f)[i] = p[i]
      BY Appended
    <2>2. \A i \in 1 .. Len(q) : Append(q, g)[i] = q[i]
      BY Appended
    <2>. QED  BY <1>1, <2>1, <2>2
  <1>3. p = q
    BY <1>1, <1>2, SeqEqual
  <1>4. f = g
    BY <1>1, Appended
  <1>. QED  BY <1>3, <1>4

LEMMA ObjectAppend ==
  ASSUME NEW h, NEW o, NEW p \in Seq(AllFields), NEW f \in AllFields, Len(p) <= 2
  PROVE  Object(h, o, Append(p, f)) = h[Object(h, o, p)].sub[f]
  <1>1. PICK q, m, n : q = Append(p, f) /\ m = Len(p) /\ n = Len(q)
    OBVIOUS
  <1>2. /\ n = m + 1 /\ m \in Nat /\ q # << >>
        /\ \A i \in 1 .. m : q[i] = p[i]
        /\ q[m + 1] = f
    BY <1>1, Appended
  <1>3. m = 0 <=> p = << >>
    BY <1>1, EmptySeq
  <1>4. m \in {0, 1, 2}
    BY <1>1, <1>2
  <1>5. CASE m = 0
    <2>1. n = 1 /\ q[1] = f /\ p = << >>
      BY <1>2, <1>3, <1>5
    <2>2. Object(h, o, p) = o
      <3>1. p = << >> /\ Len(p) # 1 /\ Len(p) # 2
        BY <1>1, <1>5, <2>1
      <3>. QED  BY <3>1, Zenon DEF Object
    <2>3. Object(h, o, q) = h[o].sub[q[1]]
      <3>1. q # << >> /\ Len(q) = 1 /\ Len(q) # 2
        BY <1>1, <1>2, <2>1
      <3>. QED  BY <3>1, Zenon DEF Object
    <2>. QED  BY <1>1, <2>1, <2>2, <2>3
  <1>6. CASE m = 1
    <2>1. n # 1 /\ n = 2 /\ q[1] = p[1] /\ q[2] = f /\ p # << >>
      BY <1>2, <1>3, <1>6
    <2>2. Object(h, o, p) = h[o].sub[p[1]]
      <3>1. p # << >> /\ Len(p) = 1 /\ Len(p) # 2
        BY <1>1, <1>6, <2>1
      <3>. QED  BY <3>1, Zenon DEF Object
    <2>3. Object(h, o, q) = h[h[o].sub[q[1]]].sub[q[2]]
      <3>1. q # << >> /\ Len(q) # 1 /\ Len(q) = 2
        BY <1>1, <1>2, <2>1
      <3>. QED  BY <3>1, Zenon DEF Object
    <2>. QED  BY <1>1, <2>1, <2>2, <2>3, Zenon
  <1>7. CASE m = 2
    <2>1. n # 1 /\ n # 2 /\ m # 1 /\ q[1] = p[1] /\ q[2] = p[2] /\ q[3] = f /\ p # << >>
      BY <1>2, <1>3, <1>7
    <2>2. Object(h, o, p) = h[h[o].sub[p[1]]].sub[p[2]]
      <3>1. p # << >> /\ Len(p) # 1 /\ Len(p) = 2
        BY <1>1, <1>7, <2>1
      <3>. QED  BY <3>1, Zenon DEF Object
    <2>3. Object(h, o, q) = h[h[h[o].sub[q[1]]].sub[q[2]]].sub[q[3]]
      <3>1. q # << >> /\ Len(q) # 1 /\ Len(q) # 2
        BY <1>1, <1>2, <2>1
      <3>. QED  BY <3>1, Zenon DEF Object
    <2>. QED  BY <1>1, <2>1, <2>2, <2>3, Zenon
  <1>. QED  BY <1>4, <1>5, <1>6, <1>7

\* S are the ways from o, and ob the objects they lead to.
Tree(h, o, S, ob) ==
    /\ S \subseteq Seq(AllFields) /\ << >> \in S /\ ob[<< >>] = o
    /\ \A p \in S : ob[p] \in Live(h)
    /\ \A p \in S, f \in AllFields : Append(p, f) \in S => Edge(h, ob[p], f, ob[Append(p, f)])
    /\ \A p \in S, f \in AllFields, x \in Ids : Edge(h, ob[p], f, x) => Append(p, f) \in S
    /\ \A p \in S : p = << >> \/ \E q \in S, f \in AllFields : p = Append(q, f)

\* There is one such set only, and the objects are determined.
LEMMA TreeUnique ==
  ASSUME program \in Programs, NEW h, Typed(h), NEW o, NEW S, NEW ob, NEW T, NEW oc,
         Tree(h, o, S, ob), Tree(h, o, T, oc)
  PROVE  \A p \in S : p \in T /\ ob[p] = oc[p]
  <1>. DEFINE odd  == {p \in S : ~ (p \in T /\ ob[p] = oc[p])}
              lens == {Len(p) : p \in odd}
  <1>1. S \subseteq Seq(AllFields) /\ << >> \in S /\ << >> \in T /\ ob[<< >>] = oc[<< >>]
    BY DEF Tree
  <1>2. \A p \in S : Len(p) \in Nat
    BY <1>1, LenProperties
  <1>. SUFFICES ASSUME odd # {}
                PROVE  FALSE
    OBVIOUS
  <1>3. lens \subseteq Nat /\ lens # {}
    BY <1>2
  <1>4. PICK n \in lens : \A k \in lens : n <= k
    BY <1>3, Least
  <1>5. PICK p \in odd : n = Len(p)
    OBVIOUS
  <1>6. p # << >>
    BY <1>1
  <1>7. PICK q \in S, f \in AllFields : p = Append(q, f)
    BY <1>6 DEF Tree
  <1>8. q \notin odd
    <2>1. Len(p) = Len(q) + 1
      BY <1>1, <1>7, Appended
    <2>. QED  BY <1>2, <1>4, <1>5, <2>1
  <1>9. q \in T /\ ob[q] = oc[q]
    BY <1>8
  <1>10. Edge(h, ob[q], f, ob[p]) /\ ob[p] \in Ids
    BY <1>7, EdgeType DEF Tree
  <1>11. p \in T /\ Edge(h, oc[q], f, oc[p])
    BY <1>7, <1>9, <1>10 DEF Tree
  <1>12. ob[p] = oc[p]
    BY <1>9, <1>10, <1>11 DEF Edge
  <1>. QED  BY <1>11, <1>12

\* A generation of ways: they are n fields long, and so many generations
\* less can follow.
Generation(h, o, n, S) ==
    /\ S \subseteq Seq(AllFields)
    /\ \A p \in S : Len(p) = n /\ Object(h, o, p) \in Live(h) /\ Level(h[Object(h, o, p)].class) + n <= 3

\* The ways that are a field longer than those of S.
Longer(h, o, S, T) ==
    \A r : r \in T <=> \E p \in S, f \in AllFields : r = Append(p, f) /\ Edge(h, Object(h, o, p), f, Object(h, o, r))

LEMMA OnwardIs ==
  ASSUME program \in Programs, NEW h, NEW hd, Forest(h, hd), NEW o,
         NEW n \in 0 .. 2, NEW m, m = n + 1, NEW S, Generation(h, o, n, S)
  PROVE  Longer(h, o, S, Onward(h, o, S)) /\ Generation(h, o, m, Onward(h, o, S))
  <1>1. \A p \in S : /\ p \in Seq(AllFields) /\ Len(p) = n /\ Len(p) <= 2
                     /\ Object(h, o, p) \in Live(h)
                     /\ Level(h[Object(h, o, p)].class) + n <= 3
    BY DEF Generation
  <1>2. \A p \in S : h[Object(h, o, p)].class \in AllClasses /\ FieldsOf(h[Object(h, o, p)].class) \subseteq AllFields
    BY <1>1, HeapIs, Fields
  <1>3. \A p \in S, f \in AllFields : Object(h, o, Append(p, f)) = h[Object(h, o, p)].sub[f]
    BY <1>1, ObjectAppend
  <1>4. ASSUME NEW r
        PROVE  r \in Onward(h, o, S) <=>
                 \E p \in S, f \in AllFields : r = Append(p, f) /\ Edge(h, Object(h, o, p), f, Object(h, o, r))
    <2>1. r \in Onward(h, o, S) <=>
            \E p \in S : \E f \in FieldsOf(h[Object(h, o, p)].class) :
                r = Append(p, f) /\ h[Object(h, o, p)].sub[f] # NULL
      BY DEF Onward
    <2>2. ASSUME NEW p \in S, NEW f \in FieldsOf(h[Object(h, o, p)].class),
                 r = Append(p, f), h[Object(h, o, p)].sub[f] # NULL
          PROVE  f \in AllFields /\ Edge(h, Object(h, o, p), f, Object(h, o, r))
      BY <1>1, <1>2, <1>3, <2>2 DEF Edge
    <2>3. ASSUME NEW p \in S, NEW f \in AllFields, r = Append(p, f), Edge(h, Object(h, o, p), f, Object(h, o, r))
          PROVE  f \in FieldsOf(h[Object(h, o, p)].class) /\ h[Object(h, o, p)].sub[f] # NULL
      BY <2>3 DEF Edge
    <2>. QED  BY <2>1, <2>2, <2>3
  <1>5. ASSUME NEW r \in Onward(h, o, S)
        PROVE  /\ r \in Seq(AllFields) /\ Len(r) = n + 1
               /\ Object(h, o, r) \in Live(h) /\ Level(h[Object(h, o, r)].class) + (n + 1) <= 3
    <2>1. PICK p \in S, f \in AllFields : r = Append(p, f) /\ Edge(h, Object(h, o, p), f, Object(h, o, r))
      BY <1>4
    <2>2. r \in Seq(AllFields) /\ Len(r) = n + 1
      BY <1>1, <2>1, Appended
    <2>3. PICK x, y : x = Object(h, o, p) /\ y = Object(h, o, r)
      OBVIOUS
    <2>4. y \in Live(h) /\ h[y].class \in AllClasses /\ Level(h[y].class) < Level(h[x].class)
      BY <2>1, <2>3, EdgeInForest
    <2>5. Level(h[y].class) \in 0 .. 3 /\ Level(h[x].class) \in 0 .. 3 /\ Level(h[x].class) + n <= 3
      BY <1>1, <1>2, <2>3, <2>4, Fields
    <2>. QED  BY <2>2, <2>3, <2>4, <2>5
  <1>6. Longer(h, o, S, Onward(h, o, S))
    BY <1>4 DEF Longer
  <1>7. Generation(h, o, m, Onward(h, o, S))
    BY <1>5 DEF Generation
  <1>. QED  BY <1>6, <1>7

LEMMA PathsTree ==
  ASSUME program \in Programs, NEW h, NEW hd, Forest(h, hd), NEW o \in Live(h)
  PROVE  Tree(h, o, Paths(h, o), [p \in Paths(h, o) |-> Object(h, o, p)])
  <1>1. PICK zero, one, two, three :
            /\ zero = {<< >>} /\ one = Onward(h, o, zero)
            /\ two = Onward(h, o, one) /\ three = Onward(h, o, two)
    OBVIOUS
  <1>2. PICK S : S = Paths(h, o)
    OBVIOUS
  <1>3. S = zero \cup one \cup two \cup three
    BY <1>1, <1>2 DEF Paths
  <1>4. Object(h, o, << >>) = o
    <2>1. Len(<< >>) # 1 /\ Len(<< >>) # 2
      BY EmptySeq
    <2>. QED  BY <2>1, Zenon DEF Object
  <1>5. Generation(h, o, 0, zero)
    <2>1. << >> \in Seq(AllFields) /\ Len(<< >>) = 0
      BY EmptySeq
    <2>2. Level(h[o].class) \in 0 .. 3
      BY HeapIs, Fields
    <2>. QED  BY <1>1, <1>4, <2>1, <2>2 DEF Generation
  <1>6. 0 \in 0 .. 2 /\ 1 \in 0 .. 2 /\ 2 \in 0 .. 2 /\ 1 = 0 + 1 /\ 2 = 1 + 1 /\ 3 = 2 + 1
    OBVIOUS
  <1>7. Longer(h, o, zero, one) /\ Generation(h, o, 1, one)
    BY <1>1, <1>5, <1>6, OnwardIs
  <1>8. Longer(h, o, one, two) /\ Generation(h, o, 2, two)
    BY <1>1, <1>6, <1>7, OnwardIs
  <1>9. Longer(h, o, two, three) /\ Generation(h, o, 3, three)
    BY <1>1, <1>6, <1>8, OnwardIs
  <1>12. \A p \in S : /\ p \in Seq(AllFields) /\ Object(h, o, p) \in Live(h)
                      /\ p \notin three => Len(p) <= 2
    <2>1. \A p \in zero : p \in Seq(AllFields) /\ Object(h, o, p) \in Live(h) /\ Len(p) <= 2
      BY <1>5 DEF Generation
    <2>2. \A p \in one : p \in Seq(AllFields) /\ Object(h, o, p) \in Live(h) /\ Len(p) <= 2
      <3>1. \A p \in one : p \in Seq(AllFields) /\ Object(h, o, p) \in Live(h) /\ Len(p) = 1
        BY <1>7 DEF Generation
      <3>2. 1 <= 2
        OBVIOUS
      <3>. QED  BY <3>1, <3>2, Zenon
    <2>3. \A p \in two : p \in Seq(AllFields) /\ Object(h, o, p) \in Live(h) /\ Len(p) <= 2
      <3>1. \A p \in two : p \in Seq(AllFields) /\ Object(h, o, p) \in Live(h) /\ Len(p) = 2
        BY <1>8 DEF Generation
      <3>2. 2 <= 2
        OBVIOUS
      <3>. QED  BY <3>1, <3>2, Zenon
    <2>4. \A p \in three : p \in Seq(AllFields) /\ Object(h, o, p) \in Live(h)
      BY <1>9 DEF Generation
    <2>. QED  BY <1>3, <2>1, <2>2, <2>3, <2>4
  <1>13. ASSUME NEW p \in S, NEW f \in AllFields, NEW x, Edge(h, Object(h, o, p), f, x)
         PROVE  Append(p, f) \in S
    <2>1. p \notin three
      <3>. SUFFICES ASSUME p \in three PROVE FALSE
        OBVIOUS
      <3>1. PICK y : y = Object(h, o, p)
        OBVIOUS
      <3>2. y \in Live(h) /\ Level(h[y].class) + 3 <= 3
        BY <1>9, <3>1 DEF Generation
      <3>3. Level(h[x].class) < Level(h[y].class) /\ h[x].class \in AllClasses /\ h[y].class \in AllClasses
        BY <1>13, <3>1, <3>2, EdgeInForest, HeapIs
      <3>4. Level(h[x].class) \in 0 .. 3 /\ Level(h[y].class) \in 0 .. 3
        BY <3>3, Fields
      <3>. QED  BY <3>2, <3>3, <3>4
    <2>2. Object(h, o, Append(p, f)) = h[Object(h, o, p)].sub[f]
      BY <1>12, <2>1, ObjectAppend
    <2>3. Edge(h, Object(h, o, p), f, Object(h, o, Append(p, f)))
      BY <1>13, <2>2 DEF Edge
    <2>. QED  BY <1>3, <1>7, <1>8, <1>9, <2>1, <2>3 DEF Longer
  <1>14. \A r \in S : \/ r = << >>
                      \/ \E p \in S, f \in AllFields : r = Append(p, f) /\ Edge(h, Object(h, o, p), f, Object(h, o, r))
    BY <1>1, <1>3, <1>7, <1>8, <1>9 DEF Longer
  <1>15. ASSUME NEW p \in S, NEW f \in AllFields, Append(p, f) \in S
         PROVE  Edge(h, Object(h, o, p), f, Object(h, o, Append(p, f)))
    <2>1. Append(p, f) # << >>
      BY <1>12, Appended
    <2>2. PICK q \in S, g \in AllFields :
              Append(p, f) = Append(q, g) /\ Edge(h, Object(h, o, q), g, Object(h, o, Append(p, f)))
      BY <1>14, <1>15, <2>1
    <2>3. p = q /\ f = g
      BY <1>12, <2>2, AppendedOnce
    <2>. QED  BY <2>2, <2>3
  <1>16. PICK ob : ob = [p \in S |-> Object(h, o, p)]
    OBVIOUS
  <1>17. \A p \in S : ob[p] = Object(h, o, p)
    BY <1>16
  <1>18. S \subseteq Seq(AllFields) /\ << >> \in S /\ ob[<< >>] = o
    BY <1>1, <1>3, <1>4, <1>12, <1>17
  <1>19. \A p \in S : ob[p] \in Live(h)
    BY <1>12, <1>17
  <1>20. \A p \in S, f \in AllFields : Append(p, f) \in S => Edge(h, ob[p], f, ob[Append(p, f)])
    BY <1>15, <1>17
  <1>21. \A p \in S, f \in AllFields, x \in Ids : Edge(h, ob[p], f, x) => Append(p, f) \in S
    BY <1>13, <1>17
  <1>22. \A p \in S : p = << >> \/ \E q \in S, f \in AllFields : p = Append(q, f)
    BY <1>14
  <1>23. Tree(h, o, S, ob)
    BY <1>18, <1>19, <1>20, <1>21, <1>22, Zenon DEF Tree
  <1>. QED  BY <1>2, <1>16, <1>23

\* Paths and Object are what a set of ways and the objects they lead to are.
LEMMA TreeIs ==
  ASSUME program \in Programs, NEW h, NEW hd, Forest(h, hd), NEW o \in Live(h), NEW S, NEW ob, Tree(h, o, S, ob)
  PROVE  /\ Paths(h, o) = S
         /\ \A p \in S : Object(h, o, p) = ob[p]
  <1>1. PICK T, oc : T = Paths(h, o) /\ oc = [p \in T |-> Object(h, o, p)]
    OBVIOUS
  <1>2. Tree(h, o, T, oc) /\ Typed(h)
    BY <1>1, PathsTree DEF Forest
  <1>3. \A p \in S : p \in T /\ ob[p] = oc[p]
    BY <1>2, TreeUnique
  <1>4. \A p \in T : p \in S
    BY <1>2, TreeUnique
  <1>5. \A p \in T : oc[p] = Object(h, o, p)
    BY <1>1
  <1>. QED  BY <1>1, <1>3, <1>4, <1>5

\* What Paths and Object are, in a forest.
LEMMA PathsIs ==
  ASSUME program \in Programs, NEW h, NEW hd, Forest(h, hd), NEW o \in Live(h)
  PROVE  /\ Paths(h, o) \subseteq Seq(AllFields) /\ << >> \in Paths(h, o) /\ Object(h, o, << >>) = o
         /\ \A p \in Paths(h, o) : Object(h, o, p) \in Live(h)
         /\ \A p \in Paths(h, o), f \in AllFields :
               Append(p, f) \in Paths(h, o) => Edge(h, Object(h, o, p), f, Object(h, o, Append(p, f)))
         /\ \A p \in Paths(h, o), f \in AllFields, x \in Ids :
               Edge(h, Object(h, o, p), f, x) => Append(p, f) \in Paths(h, o)
         /\ \A p \in Paths(h, o) : p = << >> \/ \E q \in Paths(h, o), f \in AllFields : p = Append(q, f)
  <1>1. PICK T, oc : T = Paths(h, o) /\ oc = [p \in T |-> Object(h, o, p)]
    OBVIOUS
  <1>2. Tree(h, o, T, oc)
    BY <1>1, PathsTree
  <1>3. \A p \in T : oc[p] = Object(h, o, p)
    BY <1>1
  <1>4. T \subseteq Seq(AllFields) /\ << >> \in T /\ Object(h, o, << >>) = o
    BY <1>2, <1>3 DEF Tree
  <1>5. \A p \in T : Object(h, o, p) \in Live(h)
    BY <1>2, <1>3 DEF Tree
  <1>6. \A p \in T, f \in AllFields : Append(p, f) \in T => Edge(h, Object(h, o, p), f, Object(h, o, Append(p, f)))
    BY <1>2, <1>3 DEF Tree
  <1>7. \A p \in T, f \in AllFields, x \in Ids : Edge(h, Object(h, o, p), f, x) => Append(p, f) \in T
    BY <1>2, <1>3 DEF Tree
  <1>8. \A p \in T : p = << >> \/ \E q \in T, f \in AllFields : p = Append(q, f)
    BY <1>2 DEF Tree
  <1>. QED  BY <1>1, <1>4, <1>5, <1>6, <1>7, <1>8, Zenon

-----------------------------------------------------------------------------
(* The ways and what is below.                                             *)

LEMMA PathsBelow ==
  ASSUME program \in Programs, NEW h, NEW hd, Forest(h, hd), NEW o \in Live(h)
  PROVE  \A x : x \in Below(h, o) <=> \E p \in Paths(h, o) : x = Object(h, o, p)
  <1>1. PICK P : P = Paths(h, o)
    OBVIOUS
  <1>. DEFINE reached == {Object(h, o, p) : p \in P}
  <1>2. /\ P \subseteq Seq(AllFields) /\ << >> \in P /\ Object(h, o, << >>) = o
        /\ \A p \in P : Object(h, o, p) \in Live(h)
    BY <1>1, PathsIs
  <1>3. \A p \in P, f \in AllFields : Append(p, f) \in P => Edge(h, Object(h, o, p), f, Object(h, o, Append(p, f)))
    BY <1>1, PathsIs
  <1>4. \A p \in P, f \in AllFields, x \in Ids : Edge(h, Object(h, o, p), f, x) => Append(p, f) \in P
    BY <1>1, PathsIs
  <1>5. \A p \in P : p = << >> \/ \E q \in P, f \in AllFields : p = Append(q, f)
    BY <1>1, PathsIs
  <1>6. Closed(h, reached)
    <2>. SUFFICES ASSUME NEW p \in P, NEW f \in AllFields, NEW x \in Ids, Edge(h, Object(h, o, p), f, x)
                  PROVE  x \in reached
      BY DEF Closed
    <2>1. Append(p, f) \in P /\ Edge(h, Object(h, o, p), f, Object(h, o, Append(p, f)))
      BY <1>3, <1>4
    <2>2. x = Object(h, o, Append(p, f))
      BY <2>1 DEF Edge
    <2>. QED  BY <2>1, <2>2
  <1>7. Below(h, o) \subseteq reached
    <2>1. o \in reached
      BY <1>2
    <2>. QED  BY <1>6, <2>1, BelowIs
  <1>8. ASSUME NEW z \in P, Object(h, o, z) \notin Below(h, o)
        PROVE  FALSE
    <2>. DEFINE odd  == {p \in P : Object(h, o, p) \notin Below(h, o)}
                lens == {Len(p) : p \in odd}
    <2>1. \A p \in P : Len(p) \in Nat
      BY <1>2, LenProperties
    <2>2. lens \subseteq Nat /\ lens # {}
      BY <1>8, <2>1
    <2>3. PICK n \in lens : \A k \in lens : n <= k
      BY <2>2, Least
    <2>4. PICK p \in odd : n = Len(p)
      OBVIOUS
    <2>5. p # << >>
      BY <1>2, BelowIs
    <2>6. PICK q \in P, f \in AllFields : p = Append(q, f)
      BY <1>5, <2>5
    <2>7. q \notin odd
      <3>1. Len(p) = Len(q) + 1
        BY <1>2, <2>6, Appended
      <3>. QED  BY <2>1, <2>3, <2>4, <3>1
    <2>8. Edge(h, Object(h, o, q), f, Object(h, o, p)) /\ Object(h, o, p) \in Ids
      BY <1>2, <1>3, <2>6 DEF Live
    <2>9. Closed(h, Below(h, o))
      BY BelowIs
    <2>. QED  BY <2>7, <2>8, <2>9 DEF Closed
  <1>. QED  BY <1>1, <1>7, <1>8

\* Two ways lead to two objects.
LEMMA PathOnce ==
  ASSUME program \in Programs, NEW h, NEW hd, Forest(h, hd), NEW o \in Live(h),
         NEW s \in Paths(h, o), NEW t \in Paths(h, o), Object(h, o, s) = Object(h, o, t)
  PROVE  s = t
  <1>1. PICK P : P = Paths(h, o)
    OBVIOUS
  <1>2. /\ P \subseteq Seq(AllFields) /\ << >> \in P /\ Object(h, o, << >>) = o
        /\ \A p \in P : Object(h, o, p) \in Live(h)
    BY <1>1, PathsIs
  <1>3. \A p \in P, f \in AllFields : Append(p, f) \in P => Edge(h, Object(h, o, p), f, Object(h, o, Append(p, f)))
    BY <1>1, PathsIs
  <1>4. \A p \in P : p = << >> \/ \E q \in P, f \in AllFields : p = Append(q, f)
    BY <1>1, PathsIs
  <1>. DEFINE odd  == {p \in P : \E q \in P : p # q /\ Object(h, o, p) = Object(h, o, q)}
              lens == {Len(p) : p \in odd}
  <1>. SUFFICES ASSUME odd # {}
                PROVE  FALSE
    BY <1>1
  <1>5. \A p \in P : Len(p) \in Nat
    BY <1>2, LenProperties
  <1>6. lens \subseteq Nat /\ lens # {}
    BY <1>5
  <1>7. PICK n \in lens : \A k \in lens : n <= k
    BY <1>6, Least
  <1>8. PICK p \in odd : n = Len(p)
    OBVIOUS
  <1>9. PICK q \in P : p # q /\ Object(h, o, p) = Object(h, o, q)
    OBVIOUS
  <1>10. ASSUME NEW r \in P, r # << >>
         PROVE  Object(h, o, r) # o
    <2>1. PICK r0 \in P, f \in AllFields : r = Append(r0, f)
      BY <1>4, <1>10
    <2>2. PICK x, y : x = Object(h, o, r0) /\ y = Object(h, o, r)
      OBVIOUS
    <2>3. Edge(h, x, f, y)
      BY <1>3, <2>1, <2>2
    <2>4. Level(h[y].class) < Level(h[x].class) /\ x \in Live(h) /\ y \in Live(h)
      BY <1>2, <2>2, <2>3, EdgeInForest
    <2>5. x \in Below(h, o)
      BY <1>1, <2>2, PathsBelow
    <2>6. x = o \/ Level(h[x].class) < Level(h[o].class)
      BY <2>5, BelowParent
    <2>7. Level(h[x].class) \in 0 .. 3 /\ Level(h[y].class) \in 0 .. 3 /\ Level(h[o].class) \in 0 .. 3
      BY <2>4, HeapIs, Fields
    <2>. QED  BY <2>2, <2>4, <2>6, <2>7
  <1>11. p # << >> /\ q # << >>
    BY <1>2, <1>9, <1>10
  <1>12. PICK p0 \in P, f \in AllFields : p = Append(p0, f)
    BY <1>4, <1>11
  <1>13. PICK q0 \in P, g \in AllFields : q = Append(q0, g)
    BY <1>4, <1>11
  <1>14. Edge(h, Object(h, o, p0), f, Object(h, o, p)) /\ Edge(h, Object(h, o, q0), g, Object(h, o, p))
    BY <1>3, <1>9, <1>12, <1>13
  <1>15. Object(h, o, p0) = Object(h, o, q0) /\ f = g
    BY <1>14, EdgeInForest
  <1>16. p0 \in odd
    BY <1>9, <1>12, <1>13, <1>15
  <1>17. Len(p) = Len(p0) + 1
    BY <1>2, <1>12, Appended
  <1>. QED  BY <1>5, <1>7, <1>8, <1>16, <1>17

\* The way to a field, and the field's object.
LEMMA PathEnds ==
  ASSUME program \in Programs, NEW h, NEW hd, Forest(h, hd), NEW o \in Live(h),
         NEW p \in Seq(AllFields), NEW f \in AllFields, Append(p, f) \in Paths(h, o)
  PROVE  /\ p \in Paths(h, o)
         /\ Edge(h, Object(h, o, p), f, Object(h, o, Append(p, f)))
         /\ h[Object(h, o, Append(p, f))].class = ClassOf(f)
  <1>1. Append(p, f) # << >>
    BY Appended
  <1>2. PICK q \in Paths(h, o), g \in AllFields : Append(p, f) = Append(q, g)
    BY <1>1, PathsIs
  <1>3. q \in Seq(AllFields)
    BY PathsIs
  <1>4. p = q /\ f = g
    BY <1>2, <1>3, AppendedOnce
  <1>5. Edge(h, Object(h, o, p), f, Object(h, o, Append(p, f)))
    BY <1>2, <1>4, PathsIs
  <1>. QED  BY <1>2, <1>4, <1>5, EdgeInForest

\* One way from two objects of a class leads to two objects of a class.
LEMMA PathClass ==
  ASSUME program \in Programs, NEW h, NEW hd, Forest(h, hd), NEW a \in Live(h), NEW b \in Live(h),
         h[a].class = h[b].class, NEW p \in Paths(h, a), p \in Paths(h, b)
  PROVE  h[Object(h, a, p)].class = h[Object(h, b, p)].class
  <1>1. CASE p = << >>
    BY <1>1, PathsIs
  <1>2. CASE p # << >>
    <2>1. PICK q \in Paths(h, a), f \in AllFields : p = Append(q, f)
      BY <1>2, PathsIs
    <2>2. q \in Seq(AllFields)
      BY PathsIs
    <2>3. h[Object(h, a, p)].class = ClassOf(f)
      BY <2>1, <2>2, PathEnds
    <2>4. h[Object(h, b, p)].class = ClassOf(f)
      BY <2>1, <2>2, PathEnds
    <2>. QED  BY <2>3, <2>4
  <1>. QED  BY <1>1, <1>2

\* What is filled: a finite set of ways, with those that lead there.
LEMMA FilledIs ==
  ASSUME program \in Programs, NEW h, NEW hd, Forest(h, hd), NEW o \in Live(h)
  PROVE  /\ Filled(h, o) \subseteq Paths(h, o)
         /\ IsFiniteSet(Filled(h, o)) /\ Cardinality(Filled(h, o)) \in Nat
         /\ \A p \in Paths(h, o) : h[Object(h, o, p)].class # "string" => p \in Filled(h, o)
         /\ \A p \in Seq(AllFields), f \in AllFields : Append(p, f) \in Filled(h, o) => p \in Filled(h, o)
  <1>1. PICK P, F : P = Paths(h, o) /\ F = Filled(h, o)
    OBVIOUS
  <1>2. F = {p \in P : h[Object(h, o, p)].class = "string" => h[Object(h, o, p)].value # 0}
    BY <1>1 DEF Filled
  <1>3. F \subseteq P
    BY <1>2
  <1>4. IsFiniteSet(F) /\ Cardinality(F) \in Nat
    <2>. DEFINE ob == [p \in F |-> Object(h, o, p)]
    <2>1. \A p \in F : Object(h, o, p) \in Ids
      <3>1. \A p \in P : Object(h, o, p) \in Live(h)
        BY <1>1, PathsIs
      <3>. QED  BY <1>3, <3>1 DEF Live
    <2>2. \A p, q \in F : Object(h, o, p) = Object(h, o, q) => p = q
      BY <1>1, <1>3, PathOnce
    <2>3. ob \in Injection(F, Ids)
      <3>1. ob \in [F -> Ids]
        BY <2>1
      <3>2. \A p, q \in F : ob[p] = ob[q] => p = q
        BY <2>2
      <3>. HIDE DEF ob
      <3>. QED  BY <3>1, <3>2 DEF Injection, IsInjective
    <2>. HIDE DEF ob
    <2>4. IsFiniteSet(Ids)
      BY Programming
    <2>5. IsFiniteSet(F)
      BY <2>3, <2>4, FS_Injection
    <2>. QED  BY <2>5, FS_CardinalityType
  <1>5. ASSUME NEW p \in Seq(AllFields), NEW f \in AllFields, Append(p, f) \in F
        PROVE  p \in F
    <2>1. p \in P /\ Edge(h, Object(h, o, p), f, Object(h, o, Append(p, f)))
      BY <1>1, <1>3, <1>5, PathEnds
    <2>2. f \in FieldsOf(h[Object(h, o, p)].class) /\ h[Object(h, o, p)].class \in AllClasses
      BY <2>1, EdgeType DEF Forest
    <2>3. h[Object(h, o, p)].class # "string"
      BY <2>2, StringFields
    <2>. QED  BY <1>2, <2>1, <2>3
  <1>6. \A p \in P : h[Object(h, o, p)].class # "string" => p \in F
    BY <1>2
  <1>. QED  BY <1>1, <1>3, <1>4, <1>5, <1>6

\* What is filled, and what is read, along the ways S.
FilledOn(h, S, ob)  == {p \in S : h[ob[p]].class = "string" => h[ob[p]].value # 0}
ContentOn(h, S, ob) == [p \in FilledOn(h, S, ob) |-> h[ob[p]].value]

LEMMA TreeContent ==
  ASSUME program \in Programs, NEW h, NEW hd, Forest(h, hd), NEW o \in Live(h), NEW S, NEW ob, Tree(h, o, S, ob)
  PROVE  Filled(h, o) = FilledOn(h, S, ob) /\ Content(h, o) = ContentOn(h, S, ob)
  <1>1. PICK P, F : P = Paths(h, o) /\ F = FilledOn(h, S, ob)
    OBVIOUS
  <1>2. P = S
    BY <1>1, TreeIs
  <1>3. \A p \in P : Object(h, o, p) = ob[p]
    BY <1>2, TreeIs
  <1>4. Filled(h, o) = {p \in P : h[Object(h, o, p)].class = "string" => h[Object(h, o, p)].value # 0}
    BY <1>1 DEF Filled
  <1>5. Filled(h, o) = F
    BY <1>1, <1>2, <1>3, <1>4 DEF FilledOn
  <1>6. \A p \in F : h[Object(h, o, p)].value = h[ob[p]].value
    BY <1>1, <1>2, <1>3 DEF FilledOn
  <1>7. Content(h, o) = [p \in F |-> h[Object(h, o, p)].value]
    BY <1>5 DEF Content
  <1>8. ContentOn(h, S, ob) = [p \in F |-> h[ob[p]].value]
    BY <1>1 DEF ContentOn
  <1>. QED  BY <1>1, <1>5, <1>6, <1>7, <1>8

\* A message of which nothing has changed is read as before.
LEMMA Agree ==
  ASSUME program \in Programs, NEW h, NEW hd, Forest(h, hd), NEW o \in Live(h),
         NEW h2, NEW hd2, Forest(h2, hd2), \A p \in Below(h, o) : h2[p] = h[p]
  PROVE  /\ o \in Live(h2)
         /\ Paths(h2, o) = Paths(h, o)
         /\ \A p \in Paths(h, o) : Object(h2, o, p) = Object(h, o, p)
         /\ Filled(h2, o) = Filled(h, o)
         /\ Content(h2, o) = Content(h, o)
  <1>1. PICK P, ob : P = Paths(h, o) /\ ob = [p \in P |-> Object(h, o, p)]
    OBVIOUS
  <1>2. Tree(h, o, P, ob)
    BY <1>1, PathsTree
  <1>3. \A p \in P : ob[p] = Object(h, o, p) /\ ob[p] \in Below(h, o)
    BY <1>1, PathsBelow
  <1>4. \A x \in Below(h, o) : x \in Live(h2) /\ h2[x] = h[x] /\ x \in Live(h)
    <2>1. Below(h, o) \subseteq Live(h)
      BY BelowIs
    <2>. QED  BY <2>1 DEF Live
  <1>5. o \in Live(h2)
    BY <1>4, BelowIs
  <1>6. \A x \in Below(h, o) : \A f, y : Edge(h2, x, f, y) <=> Edge(h, x, f, y)
    BY <1>4 DEF Edge
  <1>7. Tree(h2, o, P, ob)
    <2>1. P \subseteq Seq(AllFields) /\ << >> \in P /\ ob[<< >>] = o
      BY <1>2 DEF Tree
    <2>2. \A p \in P : ob[p] \in Live(h2)
      BY <1>3, <1>4
    <2>3. \A p \in P, f \in AllFields : Append(p, f) \in P => Edge(h2, ob[p], f, ob[Append(p, f)])
      BY <1>2, <1>3, <1>6 DEF Tree
    <2>4. \A p \in P, f \in AllFields, x \in Ids : Edge(h2, ob[p], f, x) => Append(p, f) \in P
      BY <1>2, <1>3, <1>6 DEF Tree
    <2>5. \A p \in P : p = << >> \/ \E q \in P, f \in AllFields : p = Append(q, f)
      BY <1>2 DEF Tree
    <2>. QED  BY <2>1, <2>2, <2>3, <2>4, <2>5, Zenon DEF Tree
  <1>8. Paths(h2, o) = P
    BY <1>5, <1>7, TreeIs
  <1>9. \A p \in P : Object(h2, o, p) = ob[p]
    BY <1>5, <1>7, TreeIs
  <1>10. Filled(h, o) = FilledOn(h, P, ob) /\ Content(h, o) = ContentOn(h, P, ob)
    BY <1>2, TreeContent
  <1>11. Filled(h2, o) = FilledOn(h2, P, ob) /\ Content(h2, o) = ContentOn(h2, P, ob)
    BY <1>5, <1>7, TreeContent
  <1>12. \A p \in P : h2[ob[p]] = h[ob[p]]
    BY <1>3, <1>4
  <1>13. FilledOn(h2, P, ob) = FilledOn(h, P, ob)
    BY <1>12 DEF FilledOn
  <1>14. ContentOn(h2, P, ob) = ContentOn(h, P, ob)
    BY <1>12, <1>13 DEF ContentOn, FilledOn
  <1>15. \A p \in P : Object(h2, o, p) = Object(h, o, p)
    BY <1>3, <1>9
  <1>. QED  BY <1>1, <1>5, <1>8, <1>10, <1>11, <1>13, <1>14, <1>15

-----------------------------------------------------------------------------
(* MergeFrom.                                                              *)

\* Two messages of a class, and room for what the one misses.
Mergeable(h, hd, to, from) ==
    /\ Forest(h, hd) /\ to \in Live(h) /\ from \in Live(h) /\ to # from
    /\ h[to].class = h[from].class
    /\ Room(h, Cardinality(Missing(h, to, from)))

Before(h, to, from, p) == Cardinality({q \in Missing(h, to, from) : Object(h, from, q) <= Object(h, from, p)})

\* Where p leads to in the merged message.
MergedNode(h, to, from, p) ==
    IF p \in Missing(h, to, from) THEN Fresh(h, Before(h, to, from, p)) ELSE Object(h, to, p)

LEMMA MissingIs ==
  ASSUME program \in Programs, NEW h, NEW hd, NEW to, NEW from, Mergeable(h, hd, to, from)
  PROVE  /\ Missing(h, to, from) \subseteq Filled(h, from)
         /\ Filled(h, from) \subseteq Paths(h, from)
         /\ IsFiniteSet(Missing(h, to, from)) /\ Cardinality(Missing(h, to, from)) \in Nat
         /\ << >> \notin Missing(h, to, from)
         /\ \A p \in Filled(h, from) : p \in Missing(h, to, from) <=> p \notin Paths(h, to)
         /\ \A p \in Paths(h, from) : Object(h, from, p) \in Nat /\ Object(h, from, p) \in Live(h)
  <1>1. PICK F, M, P : F = Filled(h, from) /\ M = Missing(h, to, from) /\ P = Paths(h, to)
    OBVIOUS
  <1>2. M = F \ P /\ Forest(h, hd) /\ to \in Live(h) /\ from \in Live(h)
    BY <1>1 DEF Missing, Mergeable
  <1>3. F \subseteq Paths(h, from) /\ IsFiniteSet(F)
    BY <1>1, <1>2, FilledIs
  <1>4. M \subseteq F /\ IsFiniteSet(M)
    <2>1. M \subseteq F
      BY <1>2
    <2>. QED  BY <1>3, <2>1, FS_Subset
  <1>5. Cardinality(M) \in Nat
    BY <1>4, FS_CardinalityType
  <1>6. << >> \notin M
    BY <1>1, <1>2, PathsIs
  <1>7. \A p \in Paths(h, from) : Object(h, from, p) \in Live(h)
    BY <1>2, PathsIs
  <1>8. \A p \in Paths(h, from) : Object(h, from, p) \in Nat
    <2>1. \A x \in Live(h) : x \in Nat
      BY Programming DEF Live
    <2>. QED  BY <1>7, <2>1
  <1>. QED  BY <1>1, <1>2, <1>3, <1>4, <1>5, <1>6, <1>7, <1>8

\* What is missing is numbered from 1.
LEMMA BeforeIs ==
  ASSUME program \in Programs, NEW h, NEW hd, NEW to, NEW from, Mergeable(h, hd, to, from),
         NEW p \in Missing(h, to, from)
  PROVE  /\ Before(h, to, from, p) \in Nat \ {0}
         /\ Room(h, Before(h, to, from, p))
         /\ \A q \in Missing(h, to, from) : Before(h, to, from, p) = Before(h, to, from, q) => p = q
  <1>1. PICK M : M = Missing(h, to, from)
    OBVIOUS
  <1>2. /\ IsFiniteSet(M) /\ Cardinality(M) \in Nat
        /\ \A q \in M : q \in Paths(h, from) /\ Object(h, from, q) \in Nat
    BY <1>1, MissingIs
  <1>. DEFINE upTo(n) == {q \in M : Object(h, from, q) <= n}
  <1>3. \A n : upTo(n) \subseteq M
    OBVIOUS
  <1>4. \A T : T \subseteq M => IsFiniteSet(T) /\ Cardinality(T) \in Nat /\ Cardinality(T) <= Cardinality(M)
    BY <1>2, FS_Subset, FS_CardinalityType
  <1>5. \A q : Before(h, to, from, q) = Cardinality(upTo(Object(h, from, q)))
    BY <1>1 DEF Before
  <1>6. \A q \in M : q \in upTo(Object(h, from, q))
    BY <1>2
  <1>7. \A m, n \in Nat : m <= n => upTo(m) \subseteq upTo(n)
    BY <1>2
  <1>8. \A m, q \in M : Object(h, from, m) < Object(h, from, q) => q \notin upTo(Object(h, from, m))
    BY <1>2
  <1>. HIDE DEF upTo
  <1>9. Before(h, to, from, p) \in Nat /\ Before(h, to, from, p) <= Cardinality(M)
    BY <1>3, <1>4, <1>5
  <1>10. Before(h, to, from, p) # 0
    <2>1. upTo(Object(h, from, p)) # {}
      BY <1>1, <1>6
    <2>2. IsFiniteSet(upTo(Object(h, from, p)))
      BY <1>3, <1>4
    <2>. QED  BY <1>5, <2>1, <2>2, FS_EmptySet
  <1>11. Room(h, Before(h, to, from, p))
    <2>1. Cardinality(Ids \ Live(h)) >= Cardinality(M)
      BY <1>1 DEF Mergeable, Room
    <2>2. Cardinality(Ids \ Live(h)) \in Nat
      <3>1. IsFiniteSet(Ids \ Live(h))
        BY Programming, FS_Subset
      <3>. QED  BY <3>1, FS_CardinalityType
    <2>. QED  BY <1>2, <1>9, <2>1, <2>2 DEF Room
  <1>12. ASSUME NEW m \in M, NEW q \in M, Object(h, from, m) < Object(h, from, q)
         PROVE  Before(h, to, from, m) # Before(h, to, from, q)
    <2>1. PICK A, B : A = upTo(Object(h, from, m)) /\ B = upTo(Object(h, from, q))
      OBVIOUS
    <2>2. A \subseteq B /\ q \in B /\ q \notin A
      BY <1>2, <1>6, <1>7, <1>8, <1>12, <2>1
    <2>3. A \in SUBSET B /\ A # B /\ IsFiniteSet(B)
      BY <1>3, <1>4, <2>1, <2>2
    <2>4. Cardinality(A) # Cardinality(B)
      BY <2>3, FS_Subset
    <2>. QED  BY <1>5, <2>1, <2>4
  <1>13. ASSUME NEW q \in M, p # q
         PROVE  Before(h, to, from, p) # Before(h, to, from, q)
    <2>1. Object(h, from, p) # Object(h, from, q)
      BY <1>1, <1>2, <1>13, PathOnce DEF Mergeable
    <2>2. Object(h, from, p) < Object(h, from, q) \/ Object(h, from, q) < Object(h, from, p)
      BY <1>1, <1>2, <2>1
    <2>. QED  BY <1>1, <1>12, <2>2
  <1>. QED  BY <1>1, <1>9, <1>10, <1>11, <1>13

LEMMA MergedNodeIs ==
  ASSUME program \in Programs, NEW h, NEW hd, NEW to, NEW from, Mergeable(h, hd, to, from)
  PROVE  /\ \A p \in Missing(h, to, from) : MergedNode(h, to, from, p) \in Ids \ Live(h)
         /\ \A p \in Filled(h, from) : p \notin Missing(h, to, from) =>
               /\ MergedNode(h, to, from, p) = Object(h, to, p)
               /\ MergedNode(h, to, from, p) \in Live(h)
         /\ \A p, q \in Filled(h, from) : MergedNode(h, to, from, p) = MergedNode(h, to, from, q) => p = q
  <1>1. PICK M, F : M = Missing(h, to, from) /\ F = Filled(h, from)
    OBVIOUS
  <1>2. M \subseteq F /\ \A p \in F : p \notin M => p \in Paths(h, to)
    <2>1. M \subseteq F
      BY <1>1, MissingIs
    <2>2. \A p \in F : p \notin M => p \in Paths(h, to)
      BY <1>1, MissingIs
    <2>. QED  BY <2>1, <2>2
  <1>3. Forest(h, hd) /\ to \in Live(h)
    BY DEF Mergeable
  <1>4. ASSUME NEW p \in M
        PROVE  /\ MergedNode(h, to, from, p) = Fresh(h, Before(h, to, from, p))
               /\ Fresh(h, Before(h, to, from, p)) \in Ids \ Live(h)
               /\ Cardinality({x \in Ids \ Live(h) : x <= Fresh(h, Before(h, to, from, p))}) = Before(h, to, from, p)
    <2>1. PICK n : n = Before(h, to, from, p)
      OBVIOUS
    <2>2. n \in Nat \ {0} /\ Room(h, n)
      BY <1>1, <2>1, BeforeIs
    <2>3. Fresh(h, n) \in Ids \ Live(h)
      BY <2>2, FreshIs
    <2>4. Cardinality({x \in Ids \ Live(h) : x <= Fresh(h, n)}) = n
      BY <2>2, FreshIs
    <2>5. MergedNode(h, to, from, p) = Fresh(h, n)
      BY <1>1, <2>1 DEF MergedNode
    <2>. QED  BY <2>1, <2>3, <2>4, <2>5
  <1>5. ASSUME NEW p \in M, NEW q \in M, MergedNode(h, to, from, p) = MergedNode(h, to, from, q)
        PROVE  p = q
    <2>1. Before(h, to, from, p) = Before(h, to, from, q)
      BY <1>4, <1>5
    <2>. QED  BY <1>1, <2>1, BeforeIs
  <1>6. ASSUME NEW p \in F, p \notin M
        PROVE  MergedNode(h, to, from, p) = Object(h, to, p) /\ MergedNode(h, to, from, p) \in Live(h)
    <2>1. MergedNode(h, to, from, p) = Object(h, to, p)
      BY <1>1, <1>6 DEF MergedNode
    <2>2. Object(h, to, p) \in Live(h)
      BY <1>2, <1>3, <1>6, PathsIs
    <2>. QED  BY <2>1, <2>2
  <1>7. ASSUME NEW p \in F, NEW q \in F, MergedNode(h, to, from, p) = MergedNode(h, to, from, q)
        PROVE  p = q
    <2>1. CASE p \in M /\ q \in M
      BY <1>5, <1>7, <2>1
    <2>2. CASE p \notin M /\ q \notin M
      <3>1. Object(h, to, p) = Object(h, to, q) /\ p \in Paths(h, to) /\ q \in Paths(h, to)
        BY <1>2, <1>6, <1>7, <2>2
      <3>. QED  BY <1>3, <3>1, PathOnce
    <2>3. CASE p \in M /\ q \notin M
      BY <1>4, <1>6, <1>7, <2>3
    <2>4. CASE p \notin M /\ q \in M
      BY <1>4, <1>6, <1>7, <2>4
    <2>. QED  BY <2>1, <2>2, <2>3, <2>4
  <1>8. \A p \in M : MergedNode(h, to, from, p) \in Ids \ Live(h)
    BY <1>4
  <1>. QED  BY <1>1, <1>6, <1>7, <1>8

\* The node that p leads to, after the merge.
MergedValue(h, to, from, p) ==
    IF h[Object(h, from, p)].value # 0 THEN h[Object(h, from, p)].value
    ELSE IF p \in Missing(h, to, from) THEN 0 ELSE h[Object(h, to, p)].value

MergedSub(h, to, from, p) ==
    [f \in FieldsOf(h[Object(h, from, p)].class) |->
        IF Append(p, f) \in Missing(h, to, from) THEN MergedNode(h, to, from, Append(p, f))
        ELSE IF p \in Missing(h, to, from) THEN NULL ELSE h[Object(h, to, p)].sub[f]]

Merged(h, to, from, p) ==
    [class |-> h[Object(h, from, p)].class, sub |-> MergedSub(h, to, from, p), value |-> MergedValue(h, to, from, p)]

LEMMA MergeFromIs ==
  ASSUME program \in Programs, NEW h, NEW hd, NEW to, NEW from, Mergeable(h, hd, to, from)
  PROVE  /\ MergeFrom(h, to, from) = [o \in Ids |-> MergeFrom(h, to, from)[o]]
         /\ \A p \in Filled(h, from) : MergeFrom(h, to, from)[MergedNode(h, to, from, p)] = Merged(h, to, from, p)
         /\ \A o \in Ids : (\A p \in Filled(h, from) : o # MergedNode(h, to, from, p)) =>
               MergeFrom(h, to, from)[o] = h[o]
  <1>. DEFINE node(p) == MergedNode(h, to, from, p)
              F       == Filled(h, from)
              M       == Missing(h, to, from)
              merged(p) ==
                LET source == h[Object(h, from, p)]
                    target == IF p \in M THEN Made(source.class) ELSE h[Object(h, to, p)]
                IN  [target EXCEPT !.value = IF source.value # 0 THEN source.value ELSE @,
                                   !.sub = [f \in DOMAIN @ |-> IF Append(p, f) \in M THEN node(Append(p, f))
                                                               ELSE @[f]]]
              at == [o \in {node(p) : p \in F} |-> CHOOSE p \in F : node(p) = o]
  <1>1. PICK h2 : h2 = MergeFrom(h, to, from)
    OBVIOUS
  <1>2. h2 = [o \in Ids |-> IF o \in DOMAIN at THEN merged(at[o]) ELSE h[o]]
    BY <1>1 DEF MergeFrom, MergedNode, Before
  <1>3. \A p, q \in F : node(p) = node(q) => p = q
    BY MergedNodeIs
  <1>4. \A p \in F : node(p) \in Ids
    <2>1. \A p \in M : node(p) \in Ids
      BY MergedNodeIs
    <2>2. \A p \in F : p \notin M => node(p) \in Live(h)
      BY MergedNodeIs
    <2>. QED  BY <2>1, <2>2 DEF Live
  <1>. HIDE DEF node, F, M
  <1>5. \A p \in F : node(p) \in DOMAIN at /\ at[node(p)] = p
    BY <1>3
  <1>6. \A o : o \in DOMAIN at => \E p \in F : o = node(p)
    OBVIOUS
  <1>. HIDE DEF at, merged
  <1>7. h2 = [o \in Ids |-> h2[o]]
    BY <1>2
  <1>8. \A p \in F : h2[node(p)] = merged(p)
    BY <1>2, <1>4, <1>5
  <1>9. \A o \in Ids : (\A p \in F : o # node(p)) => h2[o] = h[o]
    BY <1>2, <1>6
  <1>10. ASSUME NEW p \in F
         PROVE  merged(p) = Merged(h, to, from, p)
    <2>1. PICK s, c : s = h[Object(h, from, p)] /\ c = s.class
      OBVIOUS
    <2>2. PICK t : t = IF p \in M THEN Made(c) ELSE h[Object(h, to, p)]
      OBVIOUS
    <2>3. /\ t = [class |-> c, sub |-> t.sub, value |-> t.value] /\ DOMAIN t.sub = FieldsOf(c)
          /\ p \in M => t.value = 0 /\ \A f \in FieldsOf(c) : t.sub[f] = NULL
          /\ p \notin M => t = h[Object(h, to, p)]
      <3>1. CASE p \in M
        BY <2>2, <3>1 DEF Made
      <3>2. CASE p \notin M
        <4>1. /\ Forest(h, hd) /\ to \in Live(h) /\ from \in Live(h) /\ h[to].class = h[from].class
              /\ t = h[Object(h, to, p)]
          BY <2>2, <3>2 DEF Mergeable
        <4>2. p \in Paths(h, to) /\ p \in Paths(h, from)
          <5>1. p \in Paths(h, to)
            BY <3>2, MissingIs DEF F, M
          <5>2. Filled(h, from) \subseteq Paths(h, from)
            BY MissingIs
          <5>. QED  BY <5>1, <5>2 DEF F
        <4>3. t.class = c
          BY <2>1, <4>1, <4>2, PathClass
        <4>4. Object(h, to, p) \in Live(h)
          BY <4>1, <4>2, PathsIs
        <4>5. t \in Records(c)
          BY <4>1, <4>3, <4>4, HeapIs
        <4>6. t = [class |-> c, sub |-> t.sub, value |-> t.value] /\ DOMAIN t.sub = FieldsOf(c)
          BY <4>5 DEF Records
        <4>. QED  BY <3>2, <4>1, <4>6
      <3>. QED  BY <3>1, <3>2
    <2>4. merged(p) = [t EXCEPT !.value = IF s.value # 0 THEN s.value ELSE @,
                                !.sub = [f \in DOMAIN @ |-> IF Append(p, f) \in M THEN node(Append(p, f)) ELSE @[f]]]
      BY <2>1, <2>2 DEF merged
    <2>5. PICK sub, value : /\ sub = [f \in FieldsOf(c) |-> IF Append(p, f) \in M THEN node(Append(p, f)) ELSE t.sub[f]]
                            /\ value = IF s.value # 0 THEN s.value ELSE t.value
      OBVIOUS
    <2>6. merged(p) = [t EXCEPT !.value = value, !.sub = sub]
      BY <2>3, <2>4, <2>5
    <2>7. merged(p) = [class |-> c, sub |-> sub, value |-> value]
      <3>1. PICK ts, tv : ts = t.sub /\ tv = t.value
        OBVIOUS
      <3>2. t = [class |-> c, sub |-> ts, value |-> tv]
        BY <2>3, <3>1
      <3>. QED  BY ONLY <2>6, <3>2
    <2>8. value = MergedValue(h, to, from, p)
      BY <2>1, <2>3, <2>5 DEF MergedValue, M
    <2>9. MergedSub(h, to, from, p) =
            [f \in FieldsOf(c) |-> IF Append(p, f) \in M THEN node(Append(p, f))
                                   ELSE IF p \in M THEN NULL ELSE h[Object(h, to, p)].sub[f]]
      BY <2>1 DEF MergedSub, M, node
    <2>10. sub = MergedSub(h, to, from, p)
      BY <2>3, <2>5, <2>9
    <2>. QED  BY <2>1, <2>7, <2>8, <2>10 DEF Merged
  <1>11. \A p \in F : h2[node(p)] = Merged(h, to, from, p)
    BY <1>8, <1>10
  <1>. QED  BY <1>1, <1>7, <1>9, <1>11 DEF node, F

LEMMA MergedIs ==
  ASSUME program \in Programs, NEW h, NEW hd, NEW to, NEW from, Mergeable(h, hd, to, from),
         NEW p \in Filled(h, from), NEW c, c = h[Object(h, from, p)].class
  PROVE  /\ c \in AllClasses /\ Merged(h, to, from, p) \in Records(c)
         /\ p \notin Missing(h, to, from) => h[MergedNode(h, to, from, p)].class = c
         /\ \A f \in FieldsOf(c) : Append(p, f) \in Missing(h, to, from) =>
               /\ Append(p, f) \notin Paths(h, to)
               /\ Merged(h, to, from, p).sub[f] = MergedNode(h, to, from, Append(p, f))
         /\ \A f \in FieldsOf(c) : Append(p, f) \notin Missing(h, to, from) =>
               /\ p \in Missing(h, to, from) => Merged(h, to, from, p).sub[f] = NULL
               /\ p \notin Missing(h, to, from) =>
                     Merged(h, to, from, p).sub[f] = h[MergedNode(h, to, from, p)].sub[f]
  <1>1. PICK M, F, x : M = Missing(h, to, from) /\ F = Filled(h, from) /\ x = MergedNode(h, to, from, p)
    OBVIOUS
  <1>2. Forest(h, hd) /\ to \in Live(h) /\ from \in Live(h) /\ h[to].class = h[from].class
    BY DEF Mergeable
  <1>3. p \in Paths(h, from) /\ Object(h, from, p) \in Live(h)
    <2>1. Filled(h, from) \subseteq Paths(h, from)
      BY MissingIs
    <2>2. \A q \in Paths(h, from) : Object(h, from, q) \in Live(h)
      BY MissingIs
    <2>. QED  BY <2>1, <2>2
  <1>4. /\ c \in AllClasses /\ h[Object(h, from, p)].value \in Nat
    BY <1>2, <1>3, HeapIs
  <1>5. ASSUME p \notin M
        PROVE  /\ x = Object(h, to, p) /\ x \in Live(h) /\ h[x].class = c
               /\ h[x].sub \in [FieldsOf(c) -> Ids \cup {NULL}]
               /\ h[x].value \in Nat
    <2>1. x = Object(h, to, p)
      BY <1>1, <1>5, MergedNodeIs
    <2>2. p \in Paths(h, to)
      BY <1>1, <1>5, MissingIs
    <2>3. x \in Live(h)
      BY <1>2, <2>1, <2>2, PathsIs
    <2>4. h[x].class = c
      BY <1>2, <1>3, <2>1, <2>2, PathClass
    <2>. QED  BY <1>2, <2>1, <2>3, <2>4, HeapIs
  <1>6. \A f \in FieldsOf(c) : Append(p, f) \in M =>
            /\ Append(p, f) \notin Paths(h, to) /\ MergedNode(h, to, from, Append(p, f)) \in Ids
    <2>1. \A q \in M : MergedNode(h, to, from, q) \in Ids
      BY <1>1, MergedNodeIs
    <2>2. \A q \in M : q \notin Paths(h, to)
      BY <1>1 DEF Missing
    <2>. QED  BY <2>1, <2>2
  <1>7. PICK sub, value : sub = MergedSub(h, to, from, p) /\ value = MergedValue(h, to, from, p)
    OBVIOUS
  <1>8. sub = [f \in FieldsOf(c) |-> IF Append(p, f) \in M THEN MergedNode(h, to, from, Append(p, f))
                                     ELSE IF p \in M THEN NULL ELSE h[Object(h, to, p)].sub[f]]
    BY <1>1, <1>7 DEF MergedSub
  <1>9. \A f \in FieldsOf(c) : sub[f] = IF Append(p, f) \in M THEN MergedNode(h, to, from, Append(p, f))
                                        ELSE IF p \in M THEN NULL ELSE h[x].sub[f]
    BY <1>5, <1>8
  <1>10. sub \in [FieldsOf(c) -> Ids \cup {NULL}]
    <2>1. \A f \in FieldsOf(c) : sub[f] \in Ids \cup {NULL}
      BY <1>5, <1>6, <1>9
    <2>. QED  BY <1>8, <2>1
  <1>11. value \in Nat
    BY <1>1, <1>4, <1>5, <1>7 DEF MergedValue
  <1>12. Merged(h, to, from, p) = [class |-> c, sub |-> sub, value |-> value]
    BY <1>7 DEF Merged
  <1>13. Merged(h, to, from, p) \in Records(c) /\ Merged(h, to, from, p).sub = sub
    BY <1>10, <1>11, <1>12 DEF Records
  <1>14. \A f \in FieldsOf(c) : Append(p, f) \in M =>
               /\ Append(p, f) \notin Paths(h, to)
               /\ Merged(h, to, from, p).sub[f] = MergedNode(h, to, from, Append(p, f))
    BY <1>6, <1>9, <1>13
  <1>15. \A f \in FieldsOf(c) : Append(p, f) \notin M =>
               /\ p \in M => Merged(h, to, from, p).sub[f] = NULL
               /\ p \notin M => Merged(h, to, from, p).sub[f] = h[x].sub[f]
    BY <1>9, <1>13
  <1>. QED  BY <1>1, <1>4, <1>5, <1>13, <1>14, <1>15

\* The objects that are made.
NewNodes(h, to, from) == {MergedNode(h, to, from, p) : p \in Missing(h, to, from)}

LEMMA MergeGrows ==
  ASSUME program \in Programs, NEW h, NEW hd, NEW to, NEW from, Mergeable(h, hd, to, from)
  PROVE  /\ NewNodes(h, to, from) \subseteq Ids \ Live(h)
         /\ Grown(h, MergeFrom(h, to, from), NewNodes(h, to, from))
  <1>1. PICK M, F, N, h2 : /\ M = Missing(h, to, from) /\ F = Filled(h, from)
                           /\ N = NewNodes(h, to, from) /\ h2 = MergeFrom(h, to, from)
    OBVIOUS
  <1>. DEFINE node(p) == MergedNode(h, to, from, p)
              new(p)  == Merged(h, to, from, p)
  <1>2. /\ Forest(h, hd) /\ to \in Live(h) /\ from \in Live(h)
    BY DEF Mergeable
  <1>3. N \subseteq Ids \ Live(h) /\ M \subseteq F
    <2>1. \A p \in M : node(p) \in Ids \ Live(h)
      BY <1>1, MergedNodeIs
    <2>2. M \subseteq F
      BY <1>1, MissingIs
    <2>. QED  BY <1>1, <2>1, <2>2 DEF NewNodes
  <1>4. /\ h2 = [o \in Ids |-> h2[o]]
        /\ \A p \in F : h2[node(p)] = new(p)
        /\ \A o \in Ids : (\A p \in F : o # node(p)) => h2[o] = h[o]
    BY <1>1, MergeFromIs
  <1>5. \A p \in F : p \notin M => node(p) \in Live(h) /\ node(p) = Object(h, to, p) /\ p \in Paths(h, to)
    <2>1. \A p \in F : p \notin M => node(p) = Object(h, to, p)
      BY <1>1, MergedNodeIs
    <2>2. \A p \in F : p \notin M => node(p) \in Live(h)
      BY <1>1, MergedNodeIs
    <2>3. \A p \in F : p \notin M => p \in Paths(h, to)
      BY <1>1, MissingIs
    <2>. QED  BY <2>1, <2>2, <2>3
  <1>6. \A p \in M : node(p) \in N
    BY <1>1 DEF NewNodes
  <1>7. ASSUME NEW o \in Live(h)
        PROVE  /\ h2[o] \in Records(h[o].class)
               /\ \A f \in FieldsOf(h[o].class) :
                     /\ h[o].sub[f] = NULL => h2[o].sub[f] \in N \cup {NULL}
                     /\ h[o].sub[f] # NULL => h2[o].sub[f] = h[o].sub[f]
    <2>1. h[o] \in Records(h[o].class) /\ o \in Ids /\ h[o].class \in AllClasses
      BY <1>2, HeapIs
    <2>2. CASE \A p \in F : o # node(p)
      BY <1>4, <2>1, <2>2
    <2>3. ASSUME NEW p \in F, o = node(p)
          PROVE  /\ h2[o] \in Records(h[o].class)
                 /\ \A f \in FieldsOf(h[o].class) :
                       /\ h[o].sub[f] = NULL => h2[o].sub[f] \in N \cup {NULL}
                       /\ h[o].sub[f] # NULL => h2[o].sub[f] = h[o].sub[f]
      <3>1. p \notin M
        BY <1>3, <1>6, <2>3
      <3>2. PICK c : c = h[Object(h, from, p)].class
        OBVIOUS
      <3>3. new(p) \in Records(c)
        BY <1>1, <3>2, MergedIs
      <3>4. h[o].class = c
        BY <1>1, <2>3, <3>1, <3>2, MergedIs
      <3>5. \A f \in FieldsOf(c) : Append(p, f) \in M =>
               Append(p, f) \notin Paths(h, to) /\ new(p).sub[f] = node(Append(p, f))
        BY <1>1, <3>2, MergedIs
      <3>6. \A f \in FieldsOf(c) : Append(p, f) \notin M => new(p).sub[f] = h[o].sub[f]
        BY <1>1, <2>3, <3>1, <3>2, MergedIs
      <3>7. h2[o] = new(p) /\ o = Object(h, to, p) /\ p \in Paths(h, to)
        BY <1>4, <1>5, <2>3, <3>1
      <3>8. ASSUME NEW f \in FieldsOf(c), h[o].sub[f] # NULL
            PROVE  Append(p, f) \in Paths(h, to)
        <4>1. Edge(h, o, f, h[o].sub[f])
          BY <3>4, <3>8 DEF Edge
        <4>2. f \in AllFields /\ h[o].sub[f] \in Ids
          BY <1>2, <4>1, EdgeType DEF Forest
        <4>. QED  BY <1>2, <3>7, <4>1, <4>2, PathsIs
      <3>. QED  BY <1>6, <3>3, <3>4, <3>5, <3>6, <3>7, <3>8
    <2>. QED  BY <2>2, <2>3
  <1>8. ASSUME NEW o \in N
        PROVE  \E c \in AllClasses : /\ h2[o] \in Records(c)
                                     /\ \A f \in FieldsOf(c) : h2[o].sub[f] \in N \cup {NULL}
    <2>1. PICK p \in M : o = node(p)
      BY <1>1 DEF NewNodes
    <2>2. PICK c : c = h[Object(h, from, p)].class
      OBVIOUS
    <2>3. p \in F /\ h2[o] = new(p)
      BY <1>3, <1>4, <2>1
    <2>4. c \in AllClasses /\ new(p) \in Records(c)
      BY <1>1, <2>2, <2>3, MergedIs
    <2>5. \A f \in FieldsOf(c) : Append(p, f) \in M => new(p).sub[f] = node(Append(p, f))
      BY <1>1, <2>2, <2>3, MergedIs
    <2>6. \A f \in FieldsOf(c) : Append(p, f) \notin M => new(p).sub[f] = NULL
      BY <1>1, <2>1, <2>2, <2>3, MergedIs
    <2>. QED  BY <1>6, <2>3, <2>4, <2>5, <2>6
  <1>9. ASSUME NEW o \in Ids, o \notin Live(h), o \notin N
        PROVE  h2[o] = Gone
    <2>1. \A p \in F : o # node(p)
      BY <1>5, <1>6, <1>9
    <2>. QED  BY <1>2, <1>4, <1>9, <2>1, HeapIs
  <1>10. Grown(h, h2, N)
    <2>1. \A o \in Live(h) : h2[o] \in Records(h[o].class)
      BY <1>7
    <2>2. \A o \in Live(h) : \A f \in FieldsOf(h[o].class) :
             /\ h[o].sub[f] = NULL => h2[o].sub[f] \in N \cup {NULL}
             /\ h[o].sub[f] # NULL => h2[o].sub[f] = h[o].sub[f]
      BY <1>7
    <2>3. h2 = [o \in Ids |-> h2[o]]
      BY <1>4
    <2>. QED  BY <1>8, <1>9, <2>1, <2>2, <2>3, Zenon DEF Grown
  <1>. QED  BY <1>1, <1>3, <1>10

\* MergeFrom keeps to the one owner, and leaves alone what is not below to.
LEMMA MergeKeeps ==
  ASSUME program \in Programs, NEW h, NEW hd, NEW to, NEW from, Mergeable(h, hd, to, from)
  PROVE  /\ Forest(MergeFrom(h, to, from), hd)
         /\ Live(MergeFrom(h, to, from)) = Live(h) \cup NewNodes(h, to, from)
         /\ \A o \in Live(h) : MergeFrom(h, to, from)[o].class = h[o].class
         /\ \A o \in Live(h) : o \notin Below(h, to) => MergeFrom(h, to, from)[o] = h[o]
  <1>1. PICK M, F, N, h2 : /\ M = Missing(h, to, from) /\ F = Filled(h, from)
                           /\ N = NewNodes(h, to, from) /\ h2 = MergeFrom(h, to, from)
    OBVIOUS
  <1>. DEFINE node(p) == MergedNode(h, to, from, p)
              new(p)  == Merged(h, to, from, p)
  <1>2. /\ Forest(h, hd) /\ to \in Live(h) /\ from \in Live(h)
    BY DEF Mergeable
  <1>3. N \subseteq Ids \ Live(h) /\ Grown(h, h2, N)
    BY <1>1, MergeGrows
  <1>4. Live(h2) = Live(h) \cup N /\ \A o \in Live(h) : h2[o].class = h[o].class
    BY <1>2, <1>3, GrownLive
  <1>5. M \subseteq F /\ F \subseteq Paths(h, from) /\ << >> \notin M
    BY <1>1, MissingIs
  <1>6. /\ \A p \in F : h2[node(p)] = new(p)
        /\ \A o \in Ids : (\A p \in F : o # node(p)) => h2[o] = h[o]
    BY <1>1, MergeFromIs
  <1>7. \A p \in F : p \notin M => node(p) \in Live(h) /\ node(p) = Object(h, to, p) /\ p \in Paths(h, to)
    <2>1. \A p \in F : p \notin M => node(p) = Object(h, to, p)
      BY <1>1, MergedNodeIs
    <2>2. \A p \in F : p \notin M => node(p) \in Live(h)
      BY <1>1, MergedNodeIs
    <2>3. \A p \in F : p \notin M => p \in Paths(h, to)
      BY <1>1, MissingIs
    <2>. QED  BY <2>1, <2>2, <2>3
  <1>8. \A p \in M : node(p) \in N /\ node(p) \notin Live(h) /\ node(p) \in Ids /\ node(p) # NULL
    <2>1. \A p \in M : node(p) \in N
      BY <1>1 DEF NewNodes
    <2>. QED  BY <1>3, <2>1, Programming
  <1>9. \A p, q \in F : node(p) = node(q) => p = q
    BY <1>1, MergedNodeIs
  <1>10. \A p \in F : h[Object(h, from, p)].class \in AllClasses /\ new(p) \in Records(h[Object(h, from, p)].class)
    BY <1>1, MergedIs
  <1>11. \A p \in F : h2[node(p)].class = h[Object(h, from, p)].class
    BY <1>6, <1>10 DEF Records
  <1>12. ASSUME NEW s \in F, NEW g \in FieldsOf(h[Object(h, from, s)].class), Append(s, g) \in M
         PROVE  new(s).sub[g] = node(Append(s, g))
    BY <1>1, <1>12, MergedIs
  <1>13. ASSUME NEW q, NEW g, NEW r \in M, Edge(h2, q, g, node(r))
         PROVE  \E s \in F : q = node(s) /\ g \in AllFields /\ r = Append(s, g)
    <2>1. q \in Live(h2) /\ q \in Ids /\ g \in FieldsOf(h2[q].class) /\ h2[q].sub[g] = node(r)
      BY <1>13 DEF Edge, Live
    <2>2. node(r) \notin Live(h) /\ node(r) # NULL
      BY <1>8
    <2>3. ~ Edge(h, q, g, node(r))
      BY <1>2, <2>2, EdgeInForest
    <2>4. PICK s \in F : q = node(s)
      <3>. SUFFICES ASSUME \A p \in F : q # node(p)
                    PROVE  FALSE
        OBVIOUS
      <3>1. h2[q] = h[q]
        BY <1>6, <2>1
      <3>2. q \in Live(h)
        BY <2>1, <3>1 DEF Live
      <3>. QED  BY <2>1, <2>2, <2>3, <3>1, <3>2 DEF Edge
    <2>5. PICK c : c = h[Object(h, from, s)].class
      OBVIOUS
    <2>6. h2[q] = new(s) /\ g \in FieldsOf(c) /\ g \in AllFields
      <3>1. h2[q] = new(s) /\ h2[q].class = c
        BY <1>6, <1>11, <2>4, <2>5
      <3>2. c \in AllClasses
        BY <1>10, <2>5
      <3>. QED  BY <2>1, <3>1, <3>2, Fields
    <2>7. Append(s, g) \in M
      <3>. SUFFICES ASSUME Append(s, g) \notin M
                    PROVE  FALSE
        OBVIOUS
      <3>1. s \in M => new(s).sub[g] = NULL
        BY <1>1, <2>5, <2>6, MergedIs
      <3>2. s \notin M => new(s).sub[g] = h[node(s)].sub[g] /\ h[node(s)].class = c
        BY <1>1, <2>5, <2>6, MergedIs
      <3>3. s \notin M /\ q \in Live(h)
        BY <1>7, <2>1, <2>2, <2>4, <2>6, <3>1
      <3>4. Edge(h, q, g, node(r))
        BY <2>1, <2>2, <2>4, <2>6, <3>2, <3>3 DEF Edge
      <3>. QED  BY <2>3, <3>4
    <2>8. node(Append(s, g)) = node(r)
      BY <1>12, <2>1, <2>5, <2>6, <2>7
    <2>9. Append(s, g) = r
      BY <1>5, <1>9, <2>7, <2>8
    <2>. QED  BY <2>4, <2>6, <2>9
  <1>14. ASSUME NEW r \in M
         PROVE  Owned(h2, hd, node(r))
    <2>1. F \subseteq Seq(AllFields)
      <3>1. Paths(h, from) \subseteq Seq(AllFields)
        BY <1>2, PathsIs
      <3>. QED  BY <1>5, <3>1
    <2>2. r \in Paths(h, from) /\ r # << >>
      BY <1>5
    <2>3. PICK p \in Paths(h, from), f \in AllFields : r = Append(p, f)
      BY <1>2, <2>2, PathsIs
    <2>4. p \in F
      <3>1. p \in Seq(AllFields)
        BY <1>2, PathsIs
      <3>2. Append(p, f) \in Filled(h, from)
        BY <1>1, <1>5, <2>3
      <3>3. p \in Filled(h, from)
        BY <1>2, <3>1, <3>2, FilledIs
      <3>. QED  BY <1>1, <3>3
    <2>5. PICK x, c : x = node(r) /\ c = h[Object(h, from, p)].class
      OBVIOUS
    <2>6. f \in FieldsOf(c) /\ h[Object(h, from, r)].class = ClassOf(f)
      <3>1. p \in Seq(AllFields)
        BY <2>1, <2>4
      <3>2. Edge(h, Object(h, from, p), f, Object(h, from, Append(p, f)))
        BY <1>2, <2>2, <2>3, <3>1, PathEnds
      <3>3. h[Object(h, from, Append(p, f))].class = ClassOf(f)
        BY <1>2, <2>2, <2>3, <3>1, PathEnds
      <3>. QED  BY <2>3, <2>5, <3>2, <3>3 DEF Edge
    <2>7. h2[x].class = ClassOf(f)
      BY <1>5, <1>11, <2>5, <2>6
    <2>8. Edge(h2, node(p), f, x)
      <3>1. h2[node(p)] = new(p) /\ h2[node(p)].class = c
        BY <1>6, <1>11, <2>4, <2>5
      <3>2. new(p).sub[f] = x
        BY <1>12, <2>3, <2>4, <2>5, <2>6
      <3>3. node(p) \in Live(h2)
        BY <1>4, <1>7, <1>8, <2>4
      <3>. QED  BY <1>8, <2>5, <2>6, <3>1, <3>2, <3>3 DEF Edge
    <2>9. \A q, g : Edge(h2, q, g, x) => q = node(p) /\ g = f
      <3>. SUFFICES ASSUME NEW q, NEW g, Edge(h2, q, g, x)
                    PROVE  q = node(p) /\ g = f
        OBVIOUS
      <3>1. PICK s \in F : q = node(s) /\ g \in AllFields /\ r = Append(s, g)
        BY <1>13, <2>5
      <3>2. s \in Seq(AllFields) /\ p \in Seq(AllFields) /\ Append(s, g) = Append(p, f)
        BY <2>1, <2>3, <2>4, <3>1
      <3>3. s = p /\ g = f
        BY <3>1, <3>2, AppendedOnce
      <3>. QED  BY <3>1, <3>3
    <2>10. x \notin hd /\ node(p) \in Ids
      <3>1. hd \subseteq Live(h)
        BY <1>2 DEF Forest
      <3>2. x \notin Live(h)
        BY <1>8, <2>5
      <3>3. node(p) \in Live(h2)
        BY <2>8 DEF Edge
      <3>. QED  BY <3>1, <3>2, <3>3 DEF Live
    <2>11. Owned(h2, hd, x)
      BY <2>7, <2>8, <2>9, <2>10 DEF Owned
    <2>. QED  BY <2>5, <2>11
  <1>15. \A x \in N : Owned(h2, hd, x)
    BY <1>1, <1>14 DEF NewNodes
  <1>16. Forest(h2, hd)
    BY <1>2, <1>3, <1>15, Growth
  <1>17. ASSUME NEW o \in Live(h), o \notin Below(h, to)
         PROVE  h2[o] = h[o]
    <2>1. \A p \in F : o # node(p)
      <3>. SUFFICES ASSUME NEW p \in F, o = node(p)
                    PROVE  FALSE
        OBVIOUS
      <3>1. p \notin M
        BY <1>8
      <3>2. o = Object(h, to, p) /\ p \in Paths(h, to)
        BY <1>7, <3>1
      <3>. QED  BY <1>2, <1>17, <3>2, PathsBelow
    <2>. QED  BY <1>6, <2>1 DEF Live
  <1>. QED  BY <1>1, <1>4, <1>16, <1>17

-----------------------------------------------------------------------------
(* What is in a message that another one has been merged into.             *)

MergedTree(h, to, from) ==
    [p \in Paths(h, to) \cup Filled(h, from) |->
        IF p \in Filled(h, from) THEN MergedNode(h, to, from, p) ELSE Object(h, to, p)]

LEMMA MergeTree ==
  ASSUME program \in Programs, NEW h, NEW hd, NEW to, NEW from, Mergeable(h, hd, to, from)
  PROVE  Tree(MergeFrom(h, to, from), to, Paths(h, to) \cup Filled(h, from), MergedTree(h, to, from))
  <1>1. PICK M, F, P, S, h2, ob : /\ M = Missing(h, to, from) /\ F = Filled(h, from) /\ P = Paths(h, to)
                                  /\ S = P \cup F /\ h2 = MergeFrom(h, to, from)
                                  /\ ob = MergedTree(h, to, from)
    OBVIOUS
  <1>. DEFINE node(p) == MergedNode(h, to, from, p)
              new(p)  == Merged(h, to, from, p)
  <1>2. /\ Forest(h, hd) /\ to \in Live(h) /\ from \in Live(h)
    BY DEF Mergeable
  <1>3. Forest(h2, hd) /\ Live(h2) = Live(h) \cup NewNodes(h, to, from)
    BY <1>1, MergeKeeps
  <1>4. M \subseteq F /\ F \subseteq Paths(h, from) /\ \A p \in F : p \in M <=> p \notin P
    <2>1. M \subseteq F /\ F \subseteq Paths(h, from)
      BY <1>1, MissingIs
    <2>2. \A p \in F : p \in M <=> p \notin P
      BY <1>1, MissingIs
    <2>. QED  BY <2>1, <2>2
  <1>5. /\ \A p \in F : h2[node(p)] = new(p)
        /\ \A o \in Ids : (\A p \in F : o # node(p)) => h2[o] = h[o]
    BY <1>1, MergeFromIs
  <1>6. \A p \in F : p \notin M => node(p) \in Live(h) /\ node(p) = Object(h, to, p)
    <2>1. \A p \in F : p \notin M => node(p) = Object(h, to, p)
      BY <1>1, MergedNodeIs
    <2>2. \A p \in F : p \notin M => node(p) \in Live(h)
      BY <1>1, MergedNodeIs
    <2>. QED  BY <2>1, <2>2
  <1>7. \A p \in M : node(p) \in Live(h2) /\ node(p) \notin Live(h) /\ node(p) # NULL
    <2>1. \A p \in M : node(p) \in NewNodes(h, to, from)
      BY <1>1 DEF NewNodes
    <2>2. \A p \in M : node(p) \in Ids \ Live(h)
      BY <1>1, MergedNodeIs
    <2>. QED  BY <1>3, <2>1, <2>2, Programming
  <1>8. P \subseteq Seq(AllFields) /\ << >> \in P /\ Object(h, to, << >>) = to
    BY <1>1, <1>2, PathsIs
  <1>9. \A p \in P : Object(h, to, p) \in Live(h)
    BY <1>1, <1>2, PathsIs
  <1>10. \A p \in P, f \in AllFields, x \in Ids : Edge(h, Object(h, to, p), f, x) => Append(p, f) \in P
    BY <1>1, <1>2, PathsIs
  <1>11. \A p \in P : p = << >> \/ \E q \in P, f \in AllFields : p = Append(q, f)
    BY <1>1, <1>2, PathsIs
  <1>12. F \subseteq Seq(AllFields)
    <2>1. Paths(h, from) \subseteq Seq(AllFields)
      BY <1>2, PathsIs
    <2>. QED  BY <1>4, <2>1
  <1>13. \A p \in Seq(AllFields), f \in AllFields : Append(p, f) \in F => p \in F
    BY <1>1, <1>2, FilledIs
  <1>14. \A p \in Seq(AllFields), f \in AllFields : Append(p, f) \in P =>
             p \in P /\ Edge(h, Object(h, to, p), f, Object(h, to, Append(p, f)))
    <2>1. \A p \in Seq(AllFields), f \in AllFields : Append(p, f) \in P => p \in P
      BY <1>1, <1>2, PathEnds
    <2>2. \A p \in Seq(AllFields), f \in AllFields : Append(p, f) \in P =>
             Edge(h, Object(h, to, p), f, Object(h, to, Append(p, f)))
      BY <1>1, <1>2, PathEnds
    <2>. QED  BY <2>1, <2>2
  <1>15. \A p \in S : ob[p] = IF p \in F THEN node(p) ELSE Object(h, to, p)
    BY <1>1 DEF MergedTree
  <1>16. \A p \in P : ob[p] = Object(h, to, p)
    BY <1>1, <1>4, <1>6, <1>15
  <1>17. \A p \in S : ob[p] \in Live(h2)
    BY <1>1, <1>3, <1>6, <1>7, <1>9, <1>15
  <1>18. ASSUME NEW p \in P, p \notin F
         PROVE  h2[Object(h, to, p)] = h[Object(h, to, p)]
    <2>1. PICK o : o = Object(h, to, p)
      OBVIOUS
    <2>2. \A q \in F : o # node(q)
      <3>. SUFFICES ASSUME NEW q \in F, o = node(q)
                    PROVE  FALSE
        OBVIOUS
      <3>1. q \notin M
        BY <1>7, <1>9, <2>1
      <3>2. Object(h, to, p) = Object(h, to, q) /\ q \in P
        BY <1>4, <1>6, <2>1, <3>1
      <3>3. p = q
        BY <1>1, <1>2, <3>2, PathOnce
      <3>. QED  BY <1>18, <3>3
    <2>. QED  BY <1>5, <1>9, <2>1, <2>2 DEF Live
  <1>19. ASSUME NEW p \in F, NEW c, c = h[Object(h, from, p)].class
         PROVE  /\ h2[node(p)].class = c /\ c \in AllClasses
                /\ \A f \in FieldsOf(c) : Append(p, f) \in M => new(p).sub[f] = node(Append(p, f))
                /\ \A f \in FieldsOf(c) : Append(p, f) \notin M /\ p \in M => new(p).sub[f] = NULL
                /\ p \notin M => h[node(p)].class = c
                /\ \A f \in FieldsOf(c) : Append(p, f) \notin M /\ p \notin M => new(p).sub[f] = h[node(p)].sub[f]
    <2>1. c \in AllClasses /\ new(p) \in Records(c)
      BY <1>1, <1>19, MergedIs
    <2>2. \A f \in FieldsOf(c) : Append(p, f) \in M => new(p).sub[f] = node(Append(p, f))
      BY <1>1, <1>19, MergedIs
    <2>3. \A f \in FieldsOf(c) : Append(p, f) \notin M /\ p \in M => new(p).sub[f] = NULL
      BY <1>1, <1>19, MergedIs
    <2>4. p \notin M => h[node(p)].class = c
      BY <1>1, <1>19, MergedIs
    <2>5. \A f \in FieldsOf(c) : Append(p, f) \notin M /\ p \notin M => new(p).sub[f] = h[node(p)].sub[f]
      BY <1>1, <1>19, MergedIs
    <2>6. h2[node(p)].class = c
      BY <1>5, <2>1 DEF Records
    <2>. QED  BY <2>1, <2>2, <2>3, <2>4, <2>5, <2>6
  <1>20. ASSUME NEW p \in S, NEW f \in AllFields, Append(p, f) \in S
         PROVE  Edge(h2, ob[p], f, ob[Append(p, f)])
    <2>1. p \in Seq(AllFields)
      BY <1>1, <1>8, <1>12
    <2>2. CASE Append(p, f) \in P
      <3>1. p \in P /\ Edge(h, Object(h, to, p), f, Object(h, to, Append(p, f)))
        BY <1>14, <2>1, <2>2
      <3>2. PICK x, y : x = Object(h, to, p) /\ y = Object(h, to, Append(p, f))
        OBVIOUS
      <3>3. ob[p] = x /\ ob[Append(p, f)] = y /\ x \in Live(h2)
        BY <1>16, <1>17, <2>2, <3>1, <3>2
      <3>4. x \in Live(h) /\ f \in FieldsOf(h[x].class) /\ h[x].sub[f] = y /\ y # NULL
        BY <3>1, <3>2 DEF Edge
      <3>5. CASE p \notin F
        <4>1. h2[x] = h[x]
          BY <1>18, <3>1, <3>2, <3>5
        <4>. QED  BY <3>3, <3>4, <4>1 DEF Edge
      <3>6. CASE p \in F
        <4>1. p \notin M /\ Append(p, f) \notin M
          BY <1>4, <2>2, <3>1, <3>6
        <4>2. node(p) = x /\ h2[x] = new(p)
          BY <1>5, <1>6, <3>2, <3>6, <4>1
        <4>3. h2[x].class = h[x].class /\ new(p).sub[f] = h[x].sub[f]
          BY <1>19, <3>4, <3>6, <4>1, <4>2
        <4>. QED  BY <3>3, <3>4, <4>2, <4>3 DEF Edge
      <3>. QED  BY <3>5, <3>6
    <2>3. CASE Append(p, f) \notin P
      <3>1. Append(p, f) \in F /\ Append(p, f) \in M /\ p \in F
        BY <1>1, <1>4, <1>13, <2>1, <2>3, <1>20
      <3>2. ob[p] = node(p) /\ ob[Append(p, f)] = node(Append(p, f))
        BY <1>15, <1>20, <3>1
      <3>3. PICK c : c = h[Object(h, from, p)].class
        OBVIOUS
      <3>4. f \in FieldsOf(c)
        <4>1. Append(p, f) \in Paths(h, from)
          BY <1>4, <3>1
        <4>2. Edge(h, Object(h, from, p), f, Object(h, from, Append(p, f)))
          BY <1>2, <2>1, <4>1, PathEnds
        <4>. QED  BY <3>3, <4>2 DEF Edge
      <3>5. new(p).sub[f] = node(Append(p, f))
        BY <1>19, <3>1, <3>3, <3>4
      <3>6. h2[node(p)] = new(p) /\ h2[node(p)].class = c
        BY <1>5, <1>19, <3>1, <3>3
      <3>. QED  BY <1>7, <1>17, <3>1, <3>2, <3>4, <3>5, <3>6 DEF Edge
    <2>. QED  BY <2>2, <2>3
  <1>21. ASSUME NEW p \in S, NEW f \in AllFields, NEW x \in Ids, Edge(h2, ob[p], f, x), Append(p, f) \notin S
         PROVE  FALSE
    <2>1. CASE p \in F
      <3>1. PICK c : c = h[Object(h, from, p)].class
        OBVIOUS
      <3>2. ob[p] = node(p) /\ h2[node(p)] = new(p) /\ h2[node(p)].class = c
        BY <1>5, <1>15, <1>19, <2>1, <3>1
      <3>3. f \in FieldsOf(c) /\ new(p).sub[f] = x /\ x # NULL
        BY <1>21, <3>2 DEF Edge
      <3>4. Append(p, f) \notin M
        BY <1>1, <1>4, <1>21
      <3>5. p \notin M
        BY <1>19, <2>1, <3>1, <3>3, <3>4
      <3>6. h[node(p)].class = c /\ new(p).sub[f] = h[node(p)].sub[f]
        BY <1>19, <2>1, <3>1, <3>3, <3>4, <3>5
      <3>7. Edge(h, Object(h, to, p), f, x)
        BY <1>6, <2>1, <3>3, <3>5, <3>6 DEF Edge
      <3>. QED  BY <1>1, <1>4, <1>10, <1>21, <2>1, <3>5, <3>7
    <2>2. CASE p \notin F
      <3>1. p \in P /\ ob[p] = Object(h, to, p) /\ Object(h, to, p) \in Live(h)
        BY <1>1, <1>9, <1>16, <2>2
      <3>2. h2[ob[p]] = h[ob[p]]
        BY <1>18, <2>2, <3>1
      <3>3. Edge(h, Object(h, to, p), f, x)
        BY <1>21, <3>1, <3>2 DEF Edge
      <3>. QED  BY <1>1, <1>10, <1>21, <3>1, <3>3
    <2>. QED  BY <2>1, <2>2
  <1>22. \A p \in S : p = << >> \/ \E q \in S, f \in AllFields : p = Append(q, f)
    <2>. SUFFICES ASSUME NEW p \in S, p \notin P
                  PROVE  p = << >> \/ \E q \in S, f \in AllFields : p = Append(q, f)
      BY <1>1, <1>11
    <2>1. p \in F /\ p \in Paths(h, from) /\ p # << >>
      BY <1>1, <1>4, <1>8
    <2>2. PICK q \in Paths(h, from), f \in AllFields : p = Append(q, f)
      BY <1>2, <2>1, PathsIs
    <2>3. q \in Seq(AllFields)
      BY <1>2, PathsIs
    <2>4. q \in F
      BY <1>13, <2>1, <2>2, <2>3
    <2>. QED  BY <1>1, <2>2, <2>4
  <1>23. S \subseteq Seq(AllFields) /\ << >> \in S /\ ob[<< >>] = to
    BY <1>1, <1>8, <1>12, <1>16
  <1>24. \A p \in S, f \in AllFields, x \in Ids : Edge(h2, ob[p], f, x) => Append(p, f) \in S
    BY <1>21
  <1>25. Tree(h2, to, S, ob)
    BY <1>17, <1>20, <1>22, <1>23, <1>24, Zenon DEF Tree
  <1>. QED  BY <1>1, <1>25

\* Merged into a message with nothing in it, but for empty strings, a message
\* is read there as it was.
Blank(h, o) == \A p \in Paths(h, o) : /\ h[Object(h, o, p)].value = 0
                                      /\ p = << >> \/ h[Object(h, o, p)].class = "string"

LEMMA MergeContent ==
  ASSUME program \in Programs, NEW h, NEW hd, NEW to, NEW from, Mergeable(h, hd, to, from), Blank(h, to)
  PROVE  Content(MergeFrom(h, to, from), to) = Content(h, from)
  <1>1. PICK M, F, P, S, h2, ob : /\ M = Missing(h, to, from) /\ F = Filled(h, from) /\ P = Paths(h, to)
                                  /\ S = P \cup F /\ h2 = MergeFrom(h, to, from)
                                  /\ ob = MergedTree(h, to, from)
    OBVIOUS
  <1>. DEFINE node(p) == MergedNode(h, to, from, p)
  <1>2. /\ Forest(h, hd) /\ to \in Live(h) /\ from \in Live(h) /\ h[to].class = h[from].class
    BY DEF Mergeable
  <1>3. Forest(h2, hd) /\ to \in Live(h2)
    <2>1. Forest(h2, hd)
      BY <1>1, MergeKeeps
    <2>2. Live(h2) = Live(h) \cup NewNodes(h, to, from)
      BY <1>1, MergeKeeps
    <2>. QED  BY <1>2, <2>1, <2>2
  <1>4. Tree(h2, to, S, ob)
    BY <1>1, MergeTree
  <1>5. Content(h2, to) = ContentOn(h2, S, ob)
    BY <1>3, <1>4, TreeContent
  <1>6. F \subseteq Paths(h, from) /\ \A p \in F : p \in M <=> p \notin P
    <2>1. F \subseteq Paths(h, from)
      BY <1>1, MissingIs
    <2>2. \A p \in F : p \in M <=> p \notin P
      BY <1>1, MissingIs
    <2>. QED  BY <2>1, <2>2
  <1>7. F = {p \in Paths(h, from) : h[Object(h, from, p)].class = "string" => h[Object(h, from, p)].value # 0}
    BY <1>1 DEF Filled
  <1>8. \A p \in S : ob[p] = IF p \in F THEN node(p) ELSE Object(h, to, p)
    BY <1>1 DEF MergedTree
  <1>9. ASSUME NEW p \in F
        PROVE  h2[ob[p]].class = h[Object(h, from, p)].class /\ h2[ob[p]].value = h[Object(h, from, p)].value
    <2>1. h2[ob[p]] = Merged(h, to, from, p)
      <3>1. h2[node(p)] = Merged(h, to, from, p)
        BY <1>1, MergeFromIs
      <3>2. p \in S
        BY <1>1
      <3>. QED  BY <1>8, <3>1, <3>2
    <2>2. p \notin M => h[Object(h, to, p)].value = 0
      BY <1>1, <1>6 DEF Blank
    <2>3. MergedValue(h, to, from, p) = h[Object(h, from, p)].value
      BY <1>1, <2>2 DEF MergedValue
    <2>. QED  BY <2>1, <2>3 DEF Merged
  <1>10. ASSUME NEW p \in P, p \notin F
         PROVE  h2[ob[p]].class = "string" /\ h2[ob[p]].value = 0
    <2>1. ob[p] = Object(h, to, p) /\ Object(h, to, p) \in Live(h) /\ Object(h, to, p) \in Ids
      <3>1. ob[p] = Object(h, to, p)
        BY <1>1, <1>8, <1>10
      <3>2. Object(h, to, p) \in Live(h)
        BY <1>1, <1>2, PathsIs
      <3>. QED  BY <3>1, <3>2 DEF Live
    <2>2. \A q \in F : Object(h, to, p) # node(q)
      <3>. SUFFICES ASSUME NEW q \in F, Object(h, to, p) = node(q)
                    PROVE  FALSE
        OBVIOUS
      <3>1. q \notin M
        <4>1. q \in M => node(q) \in Ids \ Live(h)
          BY <1>1, MergedNodeIs
        <4>. QED  BY <2>1, <4>1
      <3>2. Object(h, to, p) = Object(h, to, q) /\ q \in P
        BY <1>1, <1>6, <3>1, MergedNodeIs
      <3>3. p = q
        BY <1>1, <1>2, <3>2, PathOnce
      <3>. QED  BY <1>10, <3>3
    <2>3. h2[ob[p]] = h[Object(h, to, p)]
      BY <1>1, <2>1, <2>2, MergeFromIs
    <2>4. h[Object(h, to, p)].value = 0
      BY <1>1 DEF Blank
    <2>5. h[Object(h, to, p)].class = "string"
      <3>1. CASE p # << >>
        BY <1>1, <3>1 DEF Blank
      <3>2. CASE p = << >>
        <4>1. << >> \in Paths(h, from) /\ Object(h, from, << >>) = from /\ Object(h, to, << >>) = to
          BY <1>2, PathsIs
        <4>2. h[from].class = "string"
          BY <1>7, <1>10, <3>2, <4>1
        <4>. QED  BY <1>2, <3>2, <4>1, <4>2
      <3>. QED  BY <3>1, <3>2
    <2>. QED  BY <2>3, <2>4, <2>5
  <1>11. FilledOn(h2, S, ob) = F
    <2>1. \A p \in F : p \in FilledOn(h2, S, ob)
      BY <1>1, <1>7, <1>9 DEF FilledOn
    <2>2. \A p \in FilledOn(h2, S, ob) : p \in F
      BY <1>1, <1>10 DEF FilledOn
    <2>. QED  BY <2>1, <2>2
  <1>12. ContentOn(h2, S, ob) = [p \in F |-> h[Object(h, from, p)].value]
    BY <1>9, <1>11 DEF ContentOn
  <1>13. Content(h, from) = [p \in F |-> h[Object(h, from, p)].value]
    BY <1>1 DEF Content
  <1>. QED  BY <1>1, <1>5, <1>12, <1>13

-----------------------------------------------------------------------------
(* CopyFrom and the copy constructor.                                      *)

\* After clear there is nothing but the message and its empty strings.
LEMMA BareIs ==
  ASSUME program \in Programs, NEW h, NEW hd, Forest(h, hd), NEW o \in Live(h), Bare(h, o)
  PROVE  /\ Blank(h, o)
         /\ \A x \in Below(h, o) : x = o \/ \E f \in Strings : Edge(h, o, f, x)
  <1>1. h[o].class \in AllClasses /\ h[o].value = 0
    BY HeapIs DEF Bare
  <1>2. ASSUME NEW f, NEW x, Edge(h, o, f, x)
        PROVE  /\ f \in Strings /\ h[x].value = 0 /\ h[x].class = "string"
               /\ \A g, y : ~ Edge(h, x, g, y)
    <2>1. f \in FieldsOf(h[o].class) /\ h[o].sub[f] = x /\ x # NULL
      BY <1>2 DEF Edge
    <2>2. f \in Strings /\ h[x].value = 0
      BY <2>1 DEF Bare
    <2>3. h[x].class = ClassOf(f) /\ h[x].class \in AllClasses
      BY <1>2, EdgeInForest
    <2>4. ClassOf(f) = "string"
      BY <1>1, <2>1, <2>2, StringFields
    <2>5. \A g : g \notin FieldsOf("string")
      <3>1. FieldsOf("string") = {}
        BY FieldTable
      <3>. QED  BY <3>1
    <2>. QED  BY <2>2, <2>3, <2>4, <2>5 DEF Edge
  <1>3. \A x \in Below(h, o) : x = o \/ \E f : Edge(h, o, f, x)
    <2>. DEFINE D == {x \in Live(h) : x = o \/ \E f : Edge(h, o, f, x)}
    <2>1. Closed(h, D)
      <3>. SUFFICES ASSUME NEW p \in D, NEW f \in AllFields, NEW x \in Ids, Edge(h, p, f, x)
                    PROVE  x \in D
        BY DEF Closed
      <3>1. x \in Live(h)
        BY EdgeInForest
      <3>. QED  BY <1>2, <3>1
    <2>2. o \in D
      OBVIOUS
    <2>3. Below(h, o) \subseteq D
      BY <2>1, <2>2, BelowIs
    <2>. QED  BY <2>3
  <1>4. ASSUME NEW p \in Paths(h, o)
        PROVE  /\ h[Object(h, o, p)].value = 0
               /\ p = << >> \/ h[Object(h, o, p)].class = "string"
    <2>1. PICK x : x = Object(h, o, p)
      OBVIOUS
    <2>2. x \in Below(h, o)
      BY <2>1, PathsBelow
    <2>3. CASE x = o
      <3>1. << >> \in Paths(h, o) /\ Object(h, o, << >>) = o
        BY PathsIs
      <3>2. p = << >>
        BY <2>1, <2>3, <3>1, PathOnce
      <3>. QED  BY <1>1, <2>1, <2>3, <3>2
    <2>4. CASE x # o
      BY <1>2, <1>3, <2>1, <2>2, <2>4
    <2>. QED  BY <2>3, <2>4
  <1>. QED  BY <1>2, <1>3, <1>4 DEF Blank

\* Nothing is known of h2 but this, and it is enough.
Copied(h, h2, hd2, to, from) ==
    /\ Forest(h2, hd2) /\ to \in Live(h2) /\ from \in Live(h2)
    /\ h2[to].class = h[from].class /\ h2[from].class = h[from].class
    /\ Content(h2, to) = Content(h, from)
    /\ \A x \in Live(h) : x \notin Below(h, to) => h2[x] = h[x]

LEMMA CopyIs ==
  ASSUME program \in Programs, NEW h, NEW hd, Forest(h, hd), NEW to \in Live(h), NEW from \in Live(h),
         to # from, h[to].class = h[from].class,
         Room(Cleared(h, to), Cardinality(Filled(h, from)))
  PROVE  Copied(h, CopyFrom(h, to, from), hd, to, from)
  <1>1. PICK c, h2 : c = Cleared(h, to) /\ h2 = CopyFrom(h, to, from)
    OBVIOUS
  <1>2. h2 = MergeFrom(c, to, from)
    BY <1>1 DEF CopyFrom
  <1>3. Forest(c, hd) /\ to \in Live(c) /\ c[to].class = h[to].class /\ Live(c) \subseteq Live(h)
    BY <1>1, ClearedIs
  <1>4. Bare(c, to) /\ \A x \in Live(h) : x \notin Below(h, to) => c[x] = h[x]
    BY <1>1, ClearedIs
  <1>5. \A f, x : Edge(c, to, f, x) => Edge(h, to, f, x)
    BY <1>1, ClearedIs
  <1>6. Below(h, from) \cap Below(h, to) = {} /\ Below(h, from) \subseteq Live(h) /\ from \in Below(h, from)
    <2>1. Below(h, from) \cap Below(h, to) = {}
      BY Strangers
    <2>2. Below(h, from) \subseteq Live(h)
      BY BelowIs
    <2>. QED  BY <2>1, <2>2, BelowIs
  <1>7. \A x \in Below(h, from) : c[x] = h[x]
    BY <1>4, <1>6
  <1>8. /\ from \in Live(c) /\ Filled(c, from) = Filled(h, from) /\ Content(c, from) = Content(h, from)
        /\ c[from].class = h[from].class
    <2>1. from \in Live(c) /\ Filled(c, from) = Filled(h, from) /\ Content(c, from) = Content(h, from)
      BY <1>3, <1>7, Agree
    <2>. QED  BY <1>6, <1>7, <2>1
  <1>9. Room(c, Cardinality(Missing(c, to, from)))
    <2>1. PICK F, M : F = Filled(c, from) /\ M = Missing(c, to, from)
      OBVIOUS
    <2>2. IsFiniteSet(F) /\ M \subseteq F
      BY <1>3, <1>8, <2>1, FilledIs DEF Missing
    <2>3. Cardinality(M) <= Cardinality(F) /\ Cardinality(M) \in Nat /\ Cardinality(F) \in Nat
      <3>1. IsFiniteSet(M)
        BY <2>2, FS_Subset
      <3>. QED  BY <2>2, <3>1, FS_Subset, FS_CardinalityType
    <2>4. Cardinality(Ids \ Live(c)) >= Cardinality(F)
      BY <1>1, <1>8, <2>1 DEF Room
    <2>5. Cardinality(Ids \ Live(c)) \in Nat
      <3>1. IsFiniteSet(Ids \ Live(c))
        BY Programming, FS_Subset
      <3>. QED  BY <3>1, FS_CardinalityType
    <2>. QED  BY <2>1, <2>3, <2>4, <2>5 DEF Room
  <1>10. Mergeable(c, hd, to, from)
    BY <1>3, <1>8, <1>9 DEF Mergeable
  <1>11. Blank(c, to) /\ \A x \in Below(c, to) : x = to \/ \E f \in Strings : Edge(c, to, f, x)
    BY <1>3, <1>4, BareIs
  <1>12. Content(h2, to) = Content(h, from)
    BY <1>2, <1>8, <1>10, <1>11, MergeContent
  <1>13. Forest(h2, hd) /\ Live(c) \subseteq Live(h2)
    <2>1. Forest(h2, hd)
      BY <1>2, <1>10, MergeKeeps
    <2>2. Live(h2) = Live(c) \cup NewNodes(c, to, from)
      BY <1>2, <1>10, MergeKeeps
    <2>. QED  BY <2>1, <2>2
  <1>14. \A x \in Live(c) : h2[x].class = c[x].class
    BY <1>2, <1>10, MergeKeeps
  <1>15. \A x \in Live(c) : x \notin Below(c, to) => h2[x] = c[x]
    BY <1>2, <1>10, MergeKeeps
  <1>16. \A x \in Below(c, to) : x \in Below(h, to)
    <2>1. to \in Below(h, to) /\ Closed(h, Below(h, to))
      BY BelowIs
    <2>2. \A f, x : Edge(h, to, f, x) => x \in Below(h, to)
      BY <2>1, EdgeType DEF Closed, Forest
    <2>. QED  BY <1>5, <1>11, <2>1, <2>2
  <1>17. \A x \in Live(h) : x \notin Below(h, to) => h2[x] = h[x]
    <2>. SUFFICES ASSUME NEW x \in Live(h), x \notin Below(h, to)
                  PROVE  h2[x] = h[x]
      OBVIOUS
    <2>1. c[x] = h[x]
      BY <1>4
    <2>2. x \in Live(c)
      BY <2>1 DEF Live
    <2>. QED  BY <1>15, <1>16, <2>1, <2>2
  <1>. QED  BY <1>1, <1>3, <1>8, <1>12, <1>13, <1>14, <1>17 DEF Copied

\* The copy constructor.
LEMMA CopyMade ==
  ASSUME program \in Programs, NEW h, NEW hd, Forest(h, hd), NEW from \in Live(h),
         NEW o \in Ids \ Live(h), Room(h, Cardinality(Filled(h, from))), h[from].class # "string"
  PROVE  Forest(MergeFrom([h EXCEPT ![o] = Made(h[from].class)], o, from), hd \cup {o})
  <1>1. PICK class, hd2, h1 : class = h[from].class /\ hd2 = hd \cup {o} /\ h1 = [h EXCEPT ![o] = Made(class)]
    OBVIOUS
  <1>2. PICK node : node = Made(class)
    OBVIOUS
  <1>3. /\ class \in AllClasses /\ node \in Records(class) /\ node.class = class /\ node.value = 0
        /\ \A f \in FieldsOf(class) : node.sub[f] = NULL
    <2>1. class \in AllClasses
      BY <1>1, HeapIs
    <2>. QED  BY <1>2, <2>1, MadeIs
  <1>4. h1 = With(h, o, node) /\ Unset(class, node)
    BY <1>1, <1>2, <1>3 DEF With, Unset
  <1>5. Forest(h1, hd2)
    <2>1. Forest(h1, hd \cup {o})
      BY <1>4, Added
    <2>. QED  BY <1>1, <2>1
  <1>6. Live(h1) = Live(h) \cup {o} /\ h1[o] = node /\ \A p \in Live(h) : p # o /\ h1[p] = h[p]
    <2>1. AddedTo(h, h1, o, node)
      BY <1>4, Added
    <2>. QED  BY <2>1 DEF AddedTo
  <1>7. Below(h, from) \subseteq Live(h)
    BY BelowIs
  <1>8. from \in Live(h1) /\ Filled(h1, from) = Filled(h, from) /\ h1[from] = h[from] /\ from # o
    <2>1. \A p \in Below(h, from) : h1[p] = h[p]
      BY <1>6, <1>7
    <2>2. from \in Live(h1) /\ Filled(h1, from) = Filled(h, from)
      BY <1>5, <2>1, Agree
    <2>. QED  BY <1>6, <2>2
  <1>9. Room(h1, Cardinality(Missing(h1, o, from)))
    <2>1. PICK F, M, free, free1 : /\ F = Filled(h1, from) /\ M = Missing(h1, o, from)
                                   /\ free = Ids \ Live(h) /\ free1 = Ids \ Live(h1)
      OBVIOUS
    <2>2. << >> \in F /\ << >> \notin M /\ M \subseteq F /\ IsFiniteSet(F)
      <3>1. << >> \in Paths(h1, from) /\ Object(h1, from, << >>) = from
        BY <1>5, <1>8, PathsIs
      <3>2. << >> \in F
        BY <1>8, <2>1, <3>1 DEF Filled
      <3>3. o \in Live(h1)
        BY <1>6
      <3>4. << >> \in Paths(h1, o)
        BY <1>5, <3>3, PathsIs
      <3>5. IsFiniteSet(F)
        BY <1>5, <1>8, <2>1, FilledIs
      <3>. QED  BY <2>1, <3>2, <3>4, <3>5 DEF Missing
    <2>3. IsFiniteSet(free) /\ free1 = free \ {o} /\ o \in free
      <3>1. IsFiniteSet(free)
        BY <2>1, Programming, FS_Subset
      <3>. QED  BY <1>6, <2>1, <3>1
    <2>4. Cardinality(free1) = Cardinality(free) - 1 /\ Cardinality(free) \in Nat
      BY <2>3, FS_RemoveElement, FS_CardinalityType
    <2>5. Cardinality(F \ {<< >>}) = Cardinality(F) - 1 /\ IsFiniteSet(F \ {<< >>}) /\ Cardinality(F) \in Nat
      BY <2>2, FS_RemoveElement, FS_CardinalityType
    <2>6. M \subseteq F \ {<< >>}
      BY <2>2
    <2>7. Cardinality(M) <= Cardinality(F \ {<< >>}) /\ IsFiniteSet(M)
      BY <2>5, <2>6, FS_Subset
    <2>8. Cardinality(M) \in Nat
      BY <2>7, FS_CardinalityType
    <2>9. Cardinality(free) >= Cardinality(F)
      BY <1>8, <2>1 DEF Room
    <2>. QED  BY <2>1, <2>4, <2>5, <2>7, <2>8, <2>9 DEF Room
  <1>10. Mergeable(h1, hd2, o, from)
    <2>1. o \in Live(h1)
      BY <1>6
    <2>2. h1[o].class = h1[from].class
      BY <1>1, <1>3, <1>6, <1>8
    <2>. QED  BY <1>5, <1>8, <1>9, <2>1, <2>2 DEF Mergeable
  <1>11. Forest(MergeFrom(h1, o, from), hd2)
    BY <1>10, MergeKeeps
  <1>. QED  BY <1>1, <1>11

-----------------------------------------------------------------------------
(* What swap and delete leave in the messages.                             *)

\* The nodes of a and b are exchanged in h2.
Exchanged(h, h2, a, b) == h2[a] = h[b] /\ h2[b] = h[a] /\ \A p \in Ids : p # a /\ p # b => h2[p] = h[p]

LEMMA SwapReads ==
  ASSUME program \in Programs, NEW h, NEW hd, Forest(h, hd), NEW a \in Live(h), NEW b \in Live(h),
         a # b, h[a].class = h[b].class, NEW h2, NEW hd2, Forest(h2, hd2), Exchanged(h, h2, a, b)
  PROVE  Content(h2, a) = Content(h, b)
  <1>1. PICK P, oc : P = Paths(h, b) /\ oc = [p \in P |-> Object(h, b, p)]
    OBVIOUS
  <1>2. PICK ob : ob = [p \in P |-> IF p = << >> THEN a ELSE Object(h, b, p)]
    OBVIOUS
  <1>3. h2[a] = h[b] /\ h2[b] = h[a] /\ \A p \in Ids : p # a /\ p # b => h2[p] = h[p]
    BY DEF Exchanged
  <1>4. a \in Ids /\ b \in Ids /\ h[a] # Gone /\ h[b] # Gone
    BY DEF Live
  <1>5. \A p \in Ids : p \in Live(h2) <=> p \in Live(h)
    BY <1>3, <1>4 DEF Live
  <1>6. P \subseteq Seq(AllFields) /\ << >> \in P /\ Object(h, b, << >>) = b
    BY <1>1, PathsIs
  <1>7. \A p \in P : Object(h, b, p) \in Live(h)
    BY <1>1, PathsIs
  <1>8. \A p \in P, f \in AllFields : Append(p, f) \in P => Edge(h, Object(h, b, p), f, Object(h, b, Append(p, f)))
    BY <1>1, PathsIs
  <1>9. \A p \in P, f \in AllFields, x \in Ids : Edge(h, Object(h, b, p), f, x) => Append(p, f) \in P
    BY <1>1, PathsIs
  <1>10. \A p \in P : p = << >> \/ \E q \in P, f \in AllFields : p = Append(q, f)
    BY <1>1, PathsIs
  <1>11. a \notin Below(h, b)
    <2>1. Below(h, a) \cap Below(h, b) = {}
      BY Strangers
    <2>. QED  BY <2>1, BelowIs
  <1>12. ASSUME NEW p \in P, p # << >>
         PROVE  Object(h, b, p) # a /\ Object(h, b, p) # b
    <2>1. Object(h, b, p) \in Below(h, b)
      BY <1>1, PathsBelow
    <2>2. Object(h, b, p) # b
      BY <1>1, <1>6, <1>12, PathOnce
    <2>. QED  BY <1>11, <2>1, <2>2
  <1>13. ASSUME NEW p \in P
         PROVE  ob[p] \in Live(h2) /\ h2[ob[p]] = h[Object(h, b, p)]
    <2>1. CASE p = << >>
      <3>1. ob[p] = a
        BY <1>2, <2>1
      <3>. QED  BY <1>3, <1>4, <1>5, <1>6, <2>1, <3>1
    <2>2. CASE p # << >>
      <3>1. ob[p] = Object(h, b, p) /\ ob[p] \in Live(h) /\ ob[p] \in Ids
        BY <1>2, <1>7, <2>2 DEF Live
      <3>. QED  BY <1>3, <1>5, <1>12, <2>2, <3>1
    <2>. QED  BY <2>1, <2>2
  <1>14. \A p \in P : \A f, x : Edge(h2, ob[p], f, x) <=> Edge(h, Object(h, b, p), f, x)
    BY <1>7, <1>13 DEF Edge
  <1>15. \A p \in P, f \in AllFields : Append(p, f) \in P => ob[Append(p, f)] = Object(h, b, Append(p, f))
    <2>1. \A p \in P, f \in AllFields : Append(p, f) # << >>
      BY <1>6, Appended
    <2>. QED  BY <1>2, <2>1
  <1>16. Tree(h2, a, P, ob)
    <2>1. P \subseteq Seq(AllFields) /\ << >> \in P /\ ob[<< >>] = a
      BY <1>2, <1>6
    <2>2. \A p \in P : ob[p] \in Live(h2)
      BY <1>13
    <2>3. \A p \in P, f \in AllFields : Append(p, f) \in P => Edge(h2, ob[p], f, ob[Append(p, f)])
      BY <1>8, <1>14, <1>15
    <2>4. \A p \in P, f \in AllFields, x \in Ids : Edge(h2, ob[p], f, x) => Append(p, f) \in P
      BY <1>9, <1>14
    <2>. QED  BY <1>10, <2>1, <2>2, <2>3, <2>4, Zenon DEF Tree
  <1>17. a \in Live(h2)
    BY <1>4, <1>5
  <1>18. Content(h2, a) = ContentOn(h2, P, ob)
    BY <1>16, <1>17, TreeContent
  <1>19. Content(h, b) = ContentOn(h, P, oc)
    BY <1>1, PathsTree, TreeContent
  <1>20. \A p \in P : h2[ob[p]] = h[oc[p]]
    BY <1>1, <1>13
  <1>21. FilledOn(h2, P, ob) = FilledOn(h, P, oc)
    BY <1>20 DEF FilledOn
  <1>22. ContentOn(h2, P, ob) = ContentOn(h, P, oc)
    BY <1>20, <1>21 DEF ContentOn, FilledOn
  <1>. QED  BY <1>18, <1>19, <1>22

\* What is apart from what has changed is read as before.
LEMMA ReadAsBefore ==
  ASSUME program \in Programs, NEW h, NEW hd, Forest(h, hd), NEW r \in Live(h), NEW D, Below(h, r) \cap D = {},
         NEW h2, NEW hd2, Forest(h2, hd2), \A x \in Live(h) : x \notin D => h2[x] = h[x]
  PROVE  Content(h2, r) = Content(h, r)
  <1>1. Below(h, r) \subseteq Live(h)
    BY BelowIs
  <1>2. \A x \in Below(h, r) : h2[x] = h[x]
    BY <1>1
  <1>. QED  BY <1>2, Agree

\* The other messages of the program have nothing in common with a message
\* that is not below them.
LEMMA BystanderIs ==
  ASSUME program \in Programs, NEW h, NEW hd, Forest(h, hd), NEW r \in hd, NEW a \in Live(h), a \notin Below(h, r)
  PROVE  r \in Live(h) /\ Below(h, r) \cap Below(h, a) = {}
  <1>1. r \in Live(h)
    BY DEF Forest
  <1>2. r # a
    BY <1>1, BelowIs
  <1>. QED  BY <1>1, <1>2, Strangers

\* What CopyFrom and delete do to the contents of messages.
LEMMA CopyReads ==
  ASSUME program \in Programs, NEW h, NEW hd, Forest(h, hd), NEW to \in Live(h), NEW from \in Live(h),
         to # from, h[to].class = h[from].class, NEW h2, Copied(h, h2, hd, to, from)
  PROVE  /\ Content(h2, to) = Content(h, from)
         /\ from \in hd => Content(Deleted(h2, from), to) = Content(h, from)
         /\ \A r \in hd : {to, from} \cap Below(h, r) = {} => Content(h2, r) = Content(h, r)
  <1>1. /\ Forest(h2, hd) /\ to \in Live(h2) /\ from \in Live(h2)
        /\ h2[to].class = h2[from].class
        /\ Content(h2, to) = Content(h, from)
        /\ \A x \in Live(h) : x \notin Below(h, to) => h2[x] = h[x]
    BY DEF Copied
  <1>2. ASSUME from \in hd
        PROVE  Content(Deleted(h2, from), to) = Content(h, from)
    <2>1. PICK h3 : h3 = Deleted(h2, from)
      OBVIOUS
    <2>2. Forest(h3, hd \ {from})
      BY <1>1, <1>2, <2>1, DeletedIs
    <2>3. \A x \in Live(h2) : x \notin Below(h2, from) => h3[x] = h2[x]
      BY <1>1, <1>2, <2>1, DeletedIs
    <2>4. Below(h2, to) \cap Below(h2, from) = {}
      BY <1>1, Strangers
    <2>5. Content(h3, to) = Content(h2, to)
      BY <1>1, <2>2, <2>3, <2>4, ReadAsBefore
    <2>. QED  BY <1>1, <2>1, <2>5
  <1>3. ASSUME NEW r \in hd, {to, from} \cap Below(h, r) = {}
        PROVE  Content(h2, r) = Content(h, r)
    <2>1. r \in Live(h) /\ Below(h, r) \cap Below(h, to) = {}
      BY <1>3, BystanderIs
    <2>. QED  BY <1>1, <2>1, ReadAsBefore
  <1>. QED  BY <1>1, <1>2, <1>3

LEMMA CopyOutlivesLemma ==
  ASSUME IInv
  PROVE  CopyOutlives
  <1>1. program \in Programs /\ Forest(heap, held)
    BY DEF IInv
  <1>2. ASSUME NEW q \in Pairs, Room(Cleared(heap, q[1]), Cardinality(Filled(heap, q[2])))
        PROVE  LET copied == CopyFrom(heap, q[1], q[2])
               IN  /\ Content(copied, q[1]) = Content(heap, q[2])
                   /\ q[2] \in held => Content(Deleted(copied, q[2]), q[1]) = Content(heap, q[2])
                   /\ \A r \in Bystanders(q[1], q[2]) : Content(copied, r) = Content(heap, r)
    <2>1. PICK to \in Live(heap), from \in Live(heap) :
              to = q[1] /\ from = q[2] /\ to # from /\ heap[to].class = heap[from].class
      BY DEF Pairs
    <2>2. Room(Cleared(heap, to), Cardinality(Filled(heap, from)))
      BY <1>2, <2>1
    <2>3. PICK copied : copied = CopyFrom(heap, to, from)
      OBVIOUS
    <2>4. Copied(heap, copied, held, to, from)
      BY <1>1, <2>1, <2>2, <2>3, CopyIs
    <2>5. Content(copied, to) = Content(heap, from)
      BY <1>1, <2>1, <2>4, CopyReads
    <2>6. from \in held => Content(Deleted(copied, from), to) = Content(heap, from)
      BY <1>1, <2>1, <2>4, CopyReads
    <2>7. \A r \in Bystanders(to, from) : Content(copied, r) = Content(heap, r)
      <3>1. \A r \in held : {to, from} \cap Below(heap, r) = {} => Content(copied, r) = Content(heap, r)
        BY <1>1, <2>1, <2>4, CopyReads
      <3>. QED  BY <3>1 DEF Bystanders
    <2>. QED  BY <2>1, <2>3, <2>5, <2>6, <2>7
  <1>3. \A o \in Live(heap) : Content(CopyFrom(heap, o, o), o) = Content(heap, o)
    BY DEF CopyFrom
  <1>. QED  BY <1>2, <1>3 DEF CopyOutlives

LEMMA SwapExchangesLemma ==
  ASSUME IInv
  PROVE  SwapExchanges
  <1>1. program \in Programs /\ Forest(heap, held)
    BY DEF IInv
  <1>2. ASSUME NEW q \in Pairs
        PROVE  LET swapped == InternalSwap(heap, q[1], q[2])
               IN  /\ Content(swapped, q[1]) = Content(heap, q[2])
                   /\ Content(swapped, q[2]) = Content(heap, q[1])
                   /\ \A r \in Bystanders(q[1], q[2]) : Content(swapped, r) = Content(heap, r)
    <2>1. PICK a \in Live(heap), b \in Live(heap) :
              a = q[1] /\ b = q[2] /\ a # b /\ heap[a].class = heap[b].class
      BY DEF Pairs
    <2>2. PICK h2 : h2 = InternalSwap(heap, a, b)
      OBVIOUS
    <2>3. Forest(h2, held)
      BY <1>1, <2>1, <2>2, SwapKeeps
    <2>4. \A p \in Ids : p # a /\ p # b => h2[p] = heap[p]
      BY <1>1, <2>1, <2>2, SwapKeeps
    <2>5. h2[a] = heap[b] /\ h2[b] = heap[a]
      BY <1>1, <2>1, <2>2, SwapKeeps
    <2>6. Exchanged(heap, h2, a, b) /\ Exchanged(heap, h2, b, a)
      BY <2>4, <2>5 DEF Exchanged
    <2>7. Content(h2, a) = Content(heap, b)
      BY <1>1, <2>1, <2>3, <2>6, SwapReads
    <2>8. Content(h2, b) = Content(heap, a)
      BY <1>1, <2>1, <2>3, <2>6, SwapReads
    <2>9. ASSUME NEW r \in Bystanders(a, b)
          PROVE  Content(h2, r) = Content(heap, r)
      <3>1. r \in held /\ a \notin Below(heap, r) /\ b \notin Below(heap, r)
        BY DEF Bystanders
      <3>0. PICK D : D = {a, b}
        OBVIOUS
      <3>2. r \in Live(heap) /\ Below(heap, r) \cap D = {}
        BY <1>1, <3>0, <3>1 DEF Forest
      <3>3. \A x \in Live(heap) : x \notin D => h2[x] = heap[x]
        BY <2>4, <3>0 DEF Live
      <3>. QED  BY <1>1, <2>3, <3>2, <3>3, ReadAsBefore
    <2>. QED  BY <2>1, <2>2, <2>7, <2>8, <2>9
  <1>. QED  BY <1>2 DEF SwapExchanges

-----------------------------------------------------------------------------
(* Every step keeps to the one owner.                                      *)

\* A new object of the program's own.
LEMMA FreshOne ==
  ASSUME program \in Programs, NEW h, Room(h, 1)
  PROVE  Fresh(h, 1) \in Ids \ Live(h)
  <1>1. 1 \in Nat \ {0}
    OBVIOUS
  <1>. QED  BY <1>1, FreshIs

LEMMA NewKeeps ==
  ASSUME IInv, NEW class \in AllClasses, Room(heap, 1), heap' = [heap EXCEPT ![Fresh(heap, 1)] = Made(class)],
         held' = held \cup {Fresh(heap, 1)}
  PROVE  Forest(heap', held')
  <1>1. program \in Programs /\ Forest(heap, held)
    BY DEF IInv
  <1>2. PICK o, node : o = Fresh(heap, 1) /\ node = Made(class)
    OBVIOUS
  <1>3. o \in Ids \ Live(heap)
    BY <1>1, <1>2, FreshOne
  <1>4. Unset(class, node)
    BY <1>1, <1>2, MadeIs DEF Unset
  <1>5. PICK h2 : h2 = With(heap, o, node)
    OBVIOUS
  <1>6. Forest(h2, held \cup {o})
    BY <1>1, <1>3, <1>4, <1>5, Added
  <1>7. heap' = h2
    BY <1>2, <1>5 DEF With
  <1>. QED  BY <1>2, <1>6, <1>7

LEMMA LifetimeKeeps ==
  ASSUME IInv, NEW class \in AllClasses, class # "string", Lifetime(class)
  PROVE  Forest(heap', held')
  <1>1. program \in Programs /\ Forest(heap, held)
    BY DEF IInv
  <1>2. CASE /\ class \in Classes /\ Hand /\ Room(heap, 1)
             /\ heap' = [heap EXCEPT ![Fresh(heap, 1)] = Made(class)]
             /\ held' = held \cup {Fresh(heap, 1)}
    BY <1>2, NewKeeps
  <1>3. ASSUME NEW from \in Of(class), Room(heap, Cardinality(Filled(heap, from))),
               heap' = MergeFrom([heap EXCEPT ![Fresh(heap, 1)] = Made(class)], Fresh(heap, 1), from),
               held' = held \cup {Fresh(heap, 1)}
        PROVE  Forest(heap', held')
    <2>1. from \in Live(heap) /\ heap[from].class = class
      BY DEF Of
    <2>2. Room(heap, 1)
      <3>1. PICK F, free : F = Filled(heap, from) /\ free = Ids \ Live(heap)
        OBVIOUS
      <3>2. << >> \in F
        <4>1. << >> \in Paths(heap, from) /\ Object(heap, from, << >>) = from
          BY <1>1, <2>1, PathsIs
        <4>. QED  BY <2>1, <3>1, <4>1 DEF Filled
      <3>3. IsFiniteSet(F) /\ Cardinality(F) \in Nat
        BY <1>1, <2>1, <3>1, FilledIs
      <3>4. Cardinality(F) # 0
        BY <3>2, <3>3, FS_EmptySet
      <3>5. Cardinality(free) >= Cardinality(F)
        BY <1>3, <3>1 DEF Room
      <3>6. Cardinality(free) \in Nat
        <4>1. IsFiniteSet(free)
          BY <1>1, <3>1, Programming, FS_Subset
        <4>. QED  BY <4>1, FS_CardinalityType
      <3>. QED  BY <3>1, <3>3, <3>4, <3>5, <3>6 DEF Room
    <2>3. PICK o : o = Fresh(heap, 1)
      OBVIOUS
    <2>4. o \in Ids \ Live(heap)
      BY <1>1, <2>2, <2>3, FreshOne
    <2>5. Forest(MergeFrom([heap EXCEPT ![o] = Made(heap[from].class)], o, from), held \cup {o})
      BY <1>1, <1>3, <2>1, <2>4, CopyMade
    <2>. QED  BY <1>3, <2>1, <2>3, <2>5
  <1>4. ASSUME NEW o \in Of(class) \cap held, heap' = Deleted(heap, o), held' = held \ {o}
        PROVE  Forest(heap', held')
    <2>1. Forest(Deleted(heap, o), held \ {o})
      BY <1>1, DeletedIs
    <2>. QED  BY <1>4, <2>1
  <1>. QED  BY <1>2, <1>3, <1>4 DEF Lifetime

LEMMA SwapStep ==
  ASSUME IInv, NEW class, NEW a \in Of(class), NEW b \in Of(class)
  PROVE  Forest(InternalSwap(heap, a, b), held)
  <1>1. program \in Programs /\ Forest(heap, held)
    BY DEF IInv
  <1>2. a \in Live(heap) /\ b \in Live(heap) /\ heap[a].class = heap[b].class
    BY DEF Of
  <1>. QED  BY <1>1, <1>2, SwapKeeps

LEMMA ContentsKeep ==
  ASSUME IInv, NEW class, Contents(class)
  PROVE  Forest(heap', held')
  <1>1. program \in Programs /\ Forest(heap, held) /\ held' = held
    BY DEF IInv, Contents
  <1>2. ASSUME NEW o \in Of(class), heap' = Cleared(heap, o)
        PROVE  Forest(heap', held')
    <2>1. o \in Live(heap)
      BY DEF Of
    <2>2. Forest(Cleared(heap, o), held)
      BY <1>1, <2>1, ClearedIs
    <2>. QED  BY <1>1, <1>2, <2>2
  <1>3. ASSUME NEW to \in Of(class), NEW from \in Of(class),
               Room(Cleared(heap, to), Cardinality(Filled(heap, from))), heap' = CopyFrom(heap, to, from)
        PROVE  Forest(heap', held')
    <2>1. to \in Live(heap) /\ from \in Live(heap) /\ heap[to].class = heap[from].class
      BY DEF Of
    <2>2. CASE to = from
      BY <1>1, <1>3, <2>2 DEF CopyFrom
    <2>3. CASE to # from
      <3>1. Copied(heap, CopyFrom(heap, to, from), held, to, from)
        BY <1>1, <1>3, <2>1, <2>3, CopyIs
      <3>. QED  BY <1>1, <1>3, <3>1 DEF Copied
    <2>. QED  BY <2>2, <2>3
  <1>4. ASSUME NEW to \in Of(class), NEW from \in Of(class), to # from,
               Room(heap, Cardinality(Missing(heap, to, from))), heap' = MergeFrom(heap, to, from)
        PROVE  Forest(heap', held')
    <2>1. Mergeable(heap, held, to, from)
      BY <1>1, <1>4 DEF Mergeable, Of
    <2>2. Forest(MergeFrom(heap, to, from), held)
      BY <1>1, <2>1, MergeKeeps
    <2>. QED  BY <1>1, <1>4, <2>2
  <1>5. ASSUME NEW to \in Of(class), NEW from \in Of(class), heap' = InternalSwap(heap, to, from)
        PROVE  Forest(heap', held')
    BY <1>1, <1>5, SwapStep
  <1>. QED  BY <1>2, <1>3, <1>4, <1>5 DEF Contents

LEMMA MovesKeep ==
  ASSUME IInv, NEW class \in AllClasses, Moves(class)
  PROVE  Forest(heap', held')
  <1>1. program \in Programs /\ Forest(heap, held)
    BY DEF IInv
  <1>2. ASSUME NEW from \in Of(class), Room(heap, 1),
               heap' = InternalSwap([heap EXCEPT ![Fresh(heap, 1)] = Made(class)], Fresh(heap, 1), from),
               held' = held \cup {Fresh(heap, 1)}
        PROVE  Forest(heap', held')
    <2>1. PICK o, node : o = Fresh(heap, 1) /\ node = Made(class)
      OBVIOUS
    <2>2. PICK h1, hd1 : h1 = With(heap, o, node) /\ hd1 = held \cup {o}
      OBVIOUS
    <2>3. o \in Ids \ Live(heap)
      BY <1>1, <1>2, <2>1, FreshOne
    <2>4. Unset(class, node) /\ node.class = class
      BY <1>1, <2>1, MadeIs DEF Unset
    <2>5. Forest(h1, hd1)
      <3>1. Forest(h1, held \cup {o})
        BY <1>1, <2>2, <2>3, <2>4, Added
      <3>. QED  BY <2>2, <3>1
    <2>6. Live(h1) = Live(heap) \cup {o} /\ h1[o] = node /\ \A p \in Live(heap) : h1[p] = heap[p]
      <3>1. AddedTo(heap, h1, o, node)
        BY <1>1, <2>2, <2>3, <2>4, Added
      <3>. QED  BY <3>1 DEF AddedTo
    <2>7. o \in Live(h1) /\ from \in Live(h1) /\ h1[o].class = h1[from].class
      BY <2>4, <2>6 DEF Of
    <2>8. Forest(InternalSwap(h1, o, from), hd1)
      BY <1>1, <2>5, <2>7, SwapKeeps
    <2>. QED  BY <1>2, <2>1, <2>2, <2>8 DEF With
  <1>3. ASSUME NEW from \in Of(class), NEW to \in Of(class), heap' = InternalSwap(heap, to, from), held' = held
        PROVE  Forest(heap', held')
    BY <1>3, SwapStep
  <1>. QED  BY <1>2, <1>3 DEF Moves

LEMMA SettersKeep ==
  ASSUME IInv, NEW class, Setters(class)
  PROVE  Forest(heap', held')
  <1>1. program \in Programs /\ Forest(heap, held)
    BY DEF IInv
  <1>2. PICK o \in Of(class), v \in Values : heap' = [heap EXCEPT ![o].value = v] /\ held' = held
    BY DEF Setters
  <1>3. o \in Live(heap) /\ v \in Nat
    BY MessageObjectsAssumption DEF Of
  <1>4. Forest([heap EXCEPT ![o].value = v], held)
    BY <1>1, <1>3, ValueSet
  <1>. QED  BY <1>2, <1>4

\* A new object in a field that is empty.
LEMMA FieldMade ==
  ASSUME program \in Programs, NEW h, NEW hd, Forest(h, hd), NEW o \in Live(h),
         NEW f \in FieldsOf(h[o].class), h[o].sub[f] = NULL,
         NEW n \in Ids \ Live(h), NEW node, Unset(ClassOf(f), node)
  PROVE  Forest(Put(With(h, n, node), o, f, n), hd)
  <1>1. PICK h1, hd1, class : h1 = With(h, n, node) /\ hd1 = hd \cup {n} /\ class = ClassOf(f)
    OBVIOUS
  <1>2. Unset(class, node) /\ node.class = class
    BY <1>1 DEF Unset, Records
  <1>3. Forest(h1, hd1)
    <2>1. Forest(h1, hd \cup {n})
      BY <1>1, <1>2, Added
    <2>. QED  BY <1>1, <2>1
  <1>4. Live(h1) = Live(h) \cup {n} /\ h1[n] = node /\ \A p \in Live(h) : p # n /\ h1[p] = h[p]
    <2>1. AddedTo(h, h1, n, node)
      BY <1>1, <1>2, Added
    <2>. QED  BY <2>1 DEF AddedTo
  <1>5. /\ o \in Live(h1) /\ f \in FieldsOf(h1[o].class) /\ h1[o].sub[f] = NULL
        /\ n \in hd1 /\ h1[n].class = ClassOf(f)
    BY <1>1, <1>2, <1>4
  <1>6. Forest(Put(h1, o, f, n), hd1 \ {n})
    BY <1>3, <1>5, Link
  <1>7. hd1 \ {n} = hd
    BY <1>1 DEF Forest
  <1>. QED  BY <1>1, <1>6, <1>7

LEMMA AccessorsKeep ==
  ASSUME IInv, NEW f, Accessors(f)
  PROVE  Forest(heap', held')
  <1>1. program \in Programs /\ Forest(heap, held)
    BY DEF IInv
  <1>2. PICK o \in Live(heap) :
            /\ f \in FieldsOf(heap[o].class)
            /\ \/ heap' = FieldCleared(heap, o, f) /\ held' = held
               \/ /\ heap[o].sub[f] = NULL /\ Room(heap, 1) /\ held' = held
                  /\ heap' = [heap EXCEPT ![Fresh(heap, 1)] = Made(ClassOf(f)), ![o].sub[f] = Fresh(heap, 1)]
               \/ /\ heap[o].sub[f] # NULL /\ Hand
                  /\ heap' = [heap EXCEPT ![o].sub[f] = NULL] /\ held' = held \cup {heap[o].sub[f]}
               \/ \E x \in {NULL} \cup (Of(ClassOf(f)) \cap held) :
                     heap' = Replaced(heap, o, f, x) /\ held' = held \ {x}
    BY DEF Accessors
  <1>3. heap[o].class \in AllClasses /\ ClassOf(f) \in AllClasses
    <2>1. heap[o].class \in AllClasses
      BY <1>1, <1>2, HeapIs
    <2>. QED  BY <1>1, <1>2, <2>1, Fields
  <1>4. held \ {NULL} = held
    <2>1. NULL \notin Live(heap)
      BY <1>1, HeapIs
    <2>. QED  BY <1>1, <2>1 DEF Forest
  <1>5. heap[o].sub[f] # NULL => Edge(heap, o, f, heap[o].sub[f])
    BY <1>2 DEF Edge
  <1>6. CASE heap' = FieldCleared(heap, o, f) /\ held' = held
    <2>1. CASE f \in Strings /\ heap[o].sub[f] = NULL
      BY <1>1, <1>6, <2>1 DEF FieldCleared
    <2>2. CASE f \in Strings /\ heap[o].sub[f] # NULL
      <3>1. PICK x : x = heap[o].sub[f]
        OBVIOUS
      <3>2. x \in Live(heap) /\ 0 \in Nat
        BY <1>1, <1>5, <2>2, <3>1, EdgeInForest
      <3>3. Forest([heap EXCEPT ![x].value = 0], held)
        BY <1>1, <3>2, ValueSet
      <3>. QED  BY <1>6, <2>2, <3>1, <3>3 DEF FieldCleared
    <2>3. CASE f \notin Strings
      <3>1. Forest(Replaced(heap, o, f, NULL), held \ {NULL})
        BY <1>1, <1>2, ReplacedKeeps
      <3>. QED  BY <1>4, <1>6, <2>3, <3>1 DEF FieldCleared
    <2>. QED  BY <2>1, <2>2, <2>3
  <1>7. CASE /\ heap[o].sub[f] = NULL /\ Room(heap, 1) /\ held' = held
             /\ heap' = [heap EXCEPT ![Fresh(heap, 1)] = Made(ClassOf(f)), ![o].sub[f] = Fresh(heap, 1)]
    <2>1. PICK n, node : n = Fresh(heap, 1) /\ node = Made(ClassOf(f))
      OBVIOUS
    <2>2. n \in Ids \ Live(heap)
      BY <1>1, <1>7, <2>1, FreshOne
    <2>3. Unset(ClassOf(f), node)
      BY <1>1, <1>3, <2>1, MadeIs DEF Unset
    <2>4. Forest(Put(With(heap, n, node), o, f, n), held)
      BY <1>1, <1>2, <1>7, <2>2, <2>3, FieldMade
    <2>5. heap' = Put(With(heap, n, node), o, f, n)
      BY <1>7, <2>1 DEF Put, With
    <2>. QED  BY <1>7, <2>4, <2>5
  <1>8. CASE /\ heap[o].sub[f] # NULL /\ Hand
             /\ heap' = [heap EXCEPT ![o].sub[f] = NULL] /\ held' = held \cup {heap[o].sub[f]}
    <2>1. PICK x : x = heap[o].sub[f]
      OBVIOUS
    <2>2. Edge(heap, o, f, x)
      BY <1>5, <1>8, <2>1
    <2>3. Forest(Put(heap, o, f, NULL), held \cup {x})
      BY <1>1, <2>2, Unlink
    <2>. QED  BY <1>8, <2>1, <2>3 DEF Put
  <1>9. ASSUME NEW x \in {NULL} \cup (Of(ClassOf(f)) \cap held), heap' = Replaced(heap, o, f, x), held' = held \ {x}
        PROVE  Forest(heap', held')
    <2>1. x = NULL \/ (x \in held /\ heap[x].class = ClassOf(f))
      BY DEF Of
    <2>2. Forest(Replaced(heap, o, f, x), held \ {x})
      BY <1>1, <1>2, <2>1, ReplacedKeeps
    <2>. QED  BY <1>9, <2>2
  <1>. QED  BY <1>2, <1>6, <1>7, <1>8, <1>9

LEMMA TextsKeep ==
  ASSUME IInv, NEW f \in Strings, Texts(f)
  PROVE  Forest(heap', held')
  <1>1. program \in Programs /\ Forest(heap, held)
    BY DEF IInv
  <1>2. ASSUME NEW o \in Of("SystemInfo"), NEW v \in Values, held' = held,
               \/ heap[o].sub[f] # NULL /\ heap' = [heap EXCEPT ![heap[o].sub[f]].value = v]
               \/ /\ heap[o].sub[f] = NULL /\ Room(heap, 1)
                  /\ heap' = [heap EXCEPT ![Fresh(heap, 1)] = [Made("string") EXCEPT !.value = v],
                                          ![o].sub[f] = Fresh(heap, 1)]
        PROVE  Forest(heap', held')
    <2>1. o \in Live(heap) /\ heap[o].class = "SystemInfo" /\ v \in Nat
      BY MessageObjectsAssumption DEF Of
    <2>2. f \in FieldsOf(heap[o].class) /\ ClassOf(f) = "string"
      <3>1. FieldsOf("SystemInfo") = Strings
        BY FieldTable
      <3>. QED  BY <2>1, <3>1, ClassTable DEF Strings
    <2>3. CASE heap[o].sub[f] # NULL /\ heap' = [heap EXCEPT ![heap[o].sub[f]].value = v]
      <3>1. PICK x : x = heap[o].sub[f]
        OBVIOUS
      <3>2. Edge(heap, o, f, x)
        BY <2>1, <2>2, <2>3, <3>1 DEF Edge
      <3>3. x \in Live(heap)
        BY <1>1, <3>2, EdgeInForest
      <3>4. Forest([heap EXCEPT ![x].value = v], held)
        BY <1>1, <2>1, <3>3, ValueSet
      <3>. QED  BY <1>2, <2>3, <3>1, <3>4
    <2>4. CASE /\ heap[o].sub[f] = NULL /\ Room(heap, 1)
               /\ heap' = [heap EXCEPT ![Fresh(heap, 1)] = [Made("string") EXCEPT !.value = v],
                                       ![o].sub[f] = Fresh(heap, 1)]
      <3>1. PICK n, node : n = Fresh(heap, 1) /\ node = [Made("string") EXCEPT !.value = v]
        OBVIOUS
      <3>2. n \in Ids \ Live(heap)
        BY <1>1, <2>4, <3>1, FreshOne
      <3>3. Unset(ClassOf(f), node)
        <4>1. FieldsOf("string") = {}
          BY FieldTable
        <4>2. node.class = "string" /\ node.sub = [g \in {} |-> NULL] /\ node.value = v
              /\ node \in [class : {"string"}, sub : [{} -> Ids \cup {NULL}], value : Nat]
          BY <2>1, <3>1, <4>1 DEF Made
        <4>. QED  BY <2>2, <4>1, <4>2 DEF Unset, Records, AllClasses
      <3>4. Forest(Put(With(heap, n, node), o, f, n), held)
        BY <1>1, <2>1, <2>2, <2>4, <3>2, <3>3, FieldMade
      <3>5. heap' = Put(With(heap, n, node), o, f, n)
        BY <2>4, <3>1 DEF Put, With
      <3>. QED  BY <1>2, <3>4, <3>5
    <2>. QED  BY <1>2, <2>3, <2>4
  <1>. QED  BY <1>2, AccessorsKeep DEF Texts

LEMMA DeleteStringKeeps ==
  ASSUME IInv, DeleteString
  PROVE  Forest(heap', held')
  <1>1. program \in Programs /\ Forest(heap, held)
    BY DEF IInv
  <1>2. PICK o \in Of("string") \cap held : heap' = Deleted(heap, o) /\ held' = held \ {o}
    BY DEF DeleteString
  <1>3. Forest(Deleted(heap, o), held \ {o})
    BY <1>1, DeletedIs
  <1>. QED  BY <1>2, <1>3

LEMMA StepKeeps ==
  ASSUME IInv, Next
  PROVE  Forest(heap', held')
  <1>1. {"Memory", "CPU", "Process", "SystemInfo", "Timestamp", "Machine", "MachineInfo"} \subseteq AllClasses
    BY DEF AllClasses
  <1>2. CASE \/ MemoryLifetime \/ CPULifetime \/ ProcessLifetime \/ SystemInfoLifetime \/ TimestampLifetime
             \/ MachineLifetime \/ MachineInfoLifetime
    BY <1>1, <1>2, LifetimeKeeps
       DEF MemoryLifetime, CPULifetime, ProcessLifetime, SystemInfoLifetime, TimestampLifetime,
           MachineLifetime, MachineInfoLifetime
  <1>3. CASE DeleteString
    BY <1>3, DeleteStringKeeps
  <1>4. CASE \/ MemoryContents \/ CPUContents \/ ProcessContents \/ SystemInfoContents \/ MachineContents
             \/ MachineInfoContents
    BY <1>4, ContentsKeep
       DEF MemoryContents, CPUContents, ProcessContents, SystemInfoContents, MachineContents, MachineInfoContents
  <1>5. CASE MemoryMoves \/ CPUMoves \/ ProcessMoves \/ SystemInfoMoves \/ MachineMoves \/ MachineInfoMoves
    BY <1>1, <1>5, MovesKeep
       DEF MemoryMoves, CPUMoves, ProcessMoves, SystemInfoMoves, MachineMoves, MachineInfoMoves
  <1>6. CASE MemorySetters \/ CPUSetters \/ ProcessSetters
    BY <1>6, SettersKeep DEF MemorySetters, CPUSetters, ProcessSetters
  <1>7. CASE system_ip \/ system_name
    BY <1>7, TextsKeep DEF system_ip, system_name, Strings
  <1>8. CASE last_updated \/ memory \/ cpu \/ process \/ systeminfo \/ machine
    BY <1>8, AccessorsKeep DEF last_updated, memory, cpu, process, systeminfo, machine
  <1>. QED  BY <1>2, <1>3, <1>4, <1>5, <1>6, <1>7, <1>8 DEF Next

\* The program stays what it is, and so do the classes and the room.
LEMMA SameProgram ==
  ASSUME program' = program, Forest(heap', held')
  PROVE  Forest(heap, held)'
  <1>1. Ids' = Ids /\ Parts' = Parts
    BY DEF Ids, Parts
  <1>2. \A c : FieldsOf(c)' = FieldsOf(c)
    BY <1>1, Zenon DEF FieldsOf
  <1>3. AllFields' = AllFields
    BY <1>1 DEF AllFields
  <1>4. Live(heap)' = Live(heap')
    BY <1>1 DEF Live
  <1>5. \A c : Records(c)' = Records(c)
    BY <1>1, <1>2 DEF Records
  <1>6. Typed(heap)'
    BY <1>1, <1>5 DEF Forest, Typed
  <1>7. \A p, f, x : Edge(heap, p, f, x)' <=> Edge(heap', p, f, x)
    BY <1>2, <1>4 DEF Edge
  <1>8. \A x : Owned(heap, held, x)' <=> Owned(heap', held', x)
    BY <1>1, <1>3, <1>7 DEF Owned
  <1>. QED  BY <1>1, <1>3, <1>4, <1>6, <1>7, <1>8 DEF Forest

LEMMA Start ==
  ASSUME Init
  PROVE  IInv
  <1>1. program \in Programs /\ heap = [o \in Ids |-> Gone] /\ held = {}
    BY DEF Init
  <1>2. Live(heap) = {}
    BY <1>1 DEF Live
  <1>3. Typed(heap)
    BY <1>1 DEF Typed
  <1>4. \A p, f, x : ~ Edge(heap, p, f, x)
    BY <1>2 DEF Edge
  <1>. QED  BY <1>1, <1>2, <1>3, <1>4 DEF IInv, Forest

\* The program stays one of Programs, and the objects are a forest whose
\* roots are what the program owns: new, delete, CopyFrom, MergeFrom, Clear,
\* Swap and the accessors keep to it.
THEOREM Invariance == Spec => []IInv
  <1>1. Init => IInv
    BY Start
  <1>2. IInv /\ [Next /\ UNCHANGED program]_vars => IInv'
    <2>. SUFFICES ASSUME IInv, [Next /\ UNCHANGED program]_vars
                  PROVE  IInv'
      OBVIOUS
    <2>1. program' = program
      BY DEF vars
    <2>2. Forest(heap', held')
      <3>1. CASE Next
        BY <3>1, StepKeeps
      <3>2. CASE UNCHANGED vars
        BY <3>2 DEF vars, IInv
      <3>. QED  BY <3>1, <3>2
    <2>3. Forest(heap, held)'
      BY <2>1, <2>2, SameProgram
    <2>. QED  BY <2>1, <2>3 DEF IInv
  <1>. QED  BY <1>1, <1>2, PTL DEF Spec

LEMMA PointersAre ==
  ASSUME program \in Programs, NEW h, NEW hd, Forest(h, hd)
  PROVE  /\ \A q \in Pointers(h) : Edge(h, q[1], q[2], h[q[1]].sub[q[2]])
         /\ \A q \in Pointers(h) : q = <<q[1], q[2]>>
         /\ \A p, f, x : Edge(h, p, f, x) => <<p, f>> \in Pointers(h) /\ h[p].sub[f] = x
  <1>1. \A p \in Live(h) : DOMAIN h[p].sub = FieldsOf(h[p].class) /\ FieldsOf(h[p].class) \subseteq AllFields
    <2>. SUFFICES ASSUME NEW p \in Live(h)
                  PROVE  DOMAIN h[p].sub = FieldsOf(h[p].class) /\ FieldsOf(h[p].class) \subseteq AllFields
      OBVIOUS
    <2>1. h[p].sub \in [FieldsOf(h[p].class) -> Ids \cup {NULL}] /\ h[p].class \in AllClasses
      BY HeapIs
    <2>2. FieldsOf(h[p].class) \subseteq AllFields
      BY <2>1, Fields
    <2>. QED  BY <2>1, <2>2
  <1>2. Pointers(h) = {q \in Live(h) \X AllFields : q[2] \in DOMAIN h[q[1]].sub /\ h[q[1]].sub[q[2]] # NULL}
    BY DEF Pointers, AllFields
  <1>3. \A q \in Pointers(h) : Edge(h, q[1], q[2], h[q[1]].sub[q[2]]) /\ q = <<q[1], q[2]>>
    BY <1>1, <1>2 DEF Edge
  <1>4. \A p, f, x : Edge(h, p, f, x) => <<p, f>> \in Pointers(h) /\ h[p].sub[f] = x
    BY <1>1, <1>2 DEF Edge
  <1>. QED  BY <1>3, <1>4

\* Whatever a program does with the messages, every object has one owner, the
\* program or one field of one message: none is destroyed twice, none is used
\* after it is destroyed, none is lost.
THEOREM OwnerTheorem == Spec => []OneOwner
  <1>1. IInv => OneOwner
    <2>. SUFFICES ASSUME IInv
                  PROVE  OneOwner
      OBVIOUS
    <2>1. program \in Programs /\ Forest(heap, held)
      BY DEF IInv
    <2>2. \A q \in Pointers(heap) : Edge(heap, q[1], q[2], heap[q[1]].sub[q[2]]) /\ q = <<q[1], q[2]>>
      BY <2>1, PointersAre
    <2>3. \A p, f, x : Edge(heap, p, f, x) => <<p, f>> \in Pointers(heap) /\ heap[p].sub[f] = x
      BY <2>1, PointersAre
    <2>4. held \subseteq Live(heap)
      BY <2>1 DEF Forest
    <2>5. \A q \in Pointers(heap) : LET x == heap[q[1]].sub[q[2]]
                                    IN  x \in Live(heap) /\ heap[x].class = ClassOf(q[2])
      <3>. SUFFICES ASSUME NEW q \in Pointers(heap)
                    PROVE  /\ heap[q[1]].sub[q[2]] \in Live(heap)
                           /\ heap[heap[q[1]].sub[q[2]]].class = ClassOf(q[2])
        OBVIOUS
      <3>1. PICK p, f, x : p = q[1] /\ f = q[2] /\ x = heap[p].sub[f]
        OBVIOUS
      <3>2. Edge(heap, p, f, x)
        BY <2>2, <3>1
      <3>3. x \in Live(heap) /\ heap[x].class = ClassOf(f)
        BY <2>1, <3>2, EdgeInForest
      <3>. QED  BY <3>1, <3>3
    <2>6. ASSUME NEW o \in Live(heap)
          PROVE  Cardinality({q \in Pointers(heap) : heap[q[1]].sub[q[2]] = o}) + (IF o \in held THEN 1 ELSE 0) = 1
      <3>1. PICK T : T = {q \in Pointers(heap) : heap[q[1]].sub[q[2]] = o}
        OBVIOUS
      <3>2. Owned(heap, held, o) /\ o \in Ids
        BY <2>1 DEF Forest, Live
      <3>3. CASE o \in held
        <4>1. \A q \in Pointers(heap) : heap[q[1]].sub[q[2]] # o
          <5>1. \A p, f : ~ Edge(heap, p, f, o)
            BY <2>1, <3>3, EdgeInForest
          <5>. QED  BY <2>2, <5>1
        <4>2. T = {}
          BY <3>1, <4>1
        <4>3. Cardinality(T) = 0
          BY <4>2, FS_EmptySet
        <4>. QED  BY <3>1, <3>3, <4>3
      <3>4. CASE o \notin held
        <4>1. PICK p \in Ids, f \in AllFields : Edge(heap, p, f, o)
          BY <3>2, <3>4 DEF Owned
        <4>2. <<p, f>> \in Pointers(heap) /\ heap[p].sub[f] = o
          BY <2>3, <4>1
        <4>3. \A q \in T : q = <<p, f>>
          <5>1. \A q \in T : Edge(heap, q[1], q[2], o) /\ q = <<q[1], q[2]>>
            BY <2>2, <3>1
          <5>2. \A r, g : Edge(heap, r, g, o) => r = p /\ g = f
            BY <2>1, <4>1, EdgeInForest
          <5>. QED  BY <5>1, <5>2
        <4>4. T = {<<p, f>>}
          BY <3>1, <4>2, <4>3
        <4>5. Cardinality(T) = 1
          BY <4>4, FS_Singleton
        <4>. QED  BY <3>1, <3>4, <4>5
      <3>. QED  BY <3>3, <3>4
    <2>. QED  BY <2>4, <2>5, <2>6 DEF OneOwner
  <1>. QED  BY <1>1, Invariance, PTL

\* Whatever a program has done with the messages, CopyFrom makes a message
\* equal to another one, the copy outlives the other one, Swap exchanges what
\* two messages hold, and neither touches a third message of the program.
THEOREM ContentsTheorem == Spec => []ContentsSurvive
  <1>1. IInv => ContentsSurvive
    BY CopyOutlivesLemma, SwapExchangesLemma DEF ContentsSurvive
  <1>. QED  BY <1>1, Invariance, PTL

=============================================================================
