------------------------------ MODULE ObjectStore ------------------------------
(***************************************************************************)
(* What the functions of machine_info-odb promise: machineinfo objects are *)
(* kept in a table under their id and come back as they were stored.       *)
(***************************************************************************)
EXTENDS Naturals, SequencesExt, FiniteSets

CONSTANTS
    Objects,    \* machineinfo objects without their id
    Keys,       \* client keys that are asked for
    MaxId       \* bound: rows that are ever stored

VARIABLES
    table,    \* id -> the object that is stored
    used,     \* ids that were given
    rows,     \* what a query found and has not been read yet
    answer    \* what the last call returned

vars == <<table, used, rows, answer>>

Except(t, ids) == [id \in DOMAIN t \ ids |-> t[id]]
With(t, id, o)  == [k \in DOMAIN t \cup {id} |-> IF k = id THEN o ELSE t[k]]

Nothing == <<"nothing">>

Init == table = [id \in {} |-> 0] /\ used = 0 /\ rows = << >> /\ answer = Nothing

\* A database that fails changes nothing.
Fail == answer' = <<"exception">> /\ UNCHANGED <<table, used, rows>>

Persist(o) ==
    /\ used < MaxId /\ used' = used + 1
    /\ table' = With(table, used + 1, o) /\ answer' = <<"id", used + 1>> /\ UNCHANGED rows

Update(id, o) ==
    /\ id \in DOMAIN table
    /\ table' = With(table, id, o) /\ answer' = Nothing /\ UNCHANGED <<used, rows>>

Erase(id) ==
    /\ id \in DOMAIN table
    /\ table' = Except(table, {id}) /\ answer' = Nothing /\ UNCHANGED <<used, rows>>

NotThere(id) == id \notin DOMAIN table /\ answer' = <<"not persistent">> /\ UNCHANGED <<table, used, rows>>

Find(id) ==
    /\ answer' = IF id \in DOMAIN table THEN <<"object", id, table[id]>> ELSE <<"absent">>
    /\ UNCHANGED <<table, used, rows>>

Matching(key) == {id \in DOMAIN table : key = << >> \/ table[id].client_key = key}

\* The rows a query finds are those of its own moment, in any order.
Query(key) ==
    /\ rows' \in {[i \in DOMAIN order |-> <<order[i], table[order[i]]>>] : order \in SetToSeqs(Matching(key))}
    /\ answer' = Nothing /\ UNCHANGED <<table, used>>

Read ==
    /\ rows # << >> /\ rows' = Tail(rows)
    /\ answer' = <<"object", rows[1][1], rows[1][2]>> /\ UNCHANGED <<table, used>>

EraseQuery(key) ==
    /\ table' = Except(table, Matching(key))
    /\ answer' = <<"erased", Cardinality(Matching(key))>>
    /\ UNCHANGED <<used, rows>>

\* A connection that is new knows of no query.
Connect == rows' = << >> /\ answer' = Nothing /\ UNCHANGED <<table, used>>

Next ==
    \/ Fail
    \/ \E o \in Objects : Persist(o) \/ \E id \in 1 .. MaxId : Update(id, o)
    \/ \E id \in 1 .. MaxId : Erase(id) \/ NotThere(id) \/ Find(id)
    \/ \E key \in Keys \cup {<< >>} : Query(key) \/ EraseQuery(key)
    \/ Read \/ Connect

Spec == Init /\ [][Next]_vars
=============================================================================
