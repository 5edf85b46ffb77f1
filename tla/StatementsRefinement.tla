------------------------- MODULE StatementsRefinement -------------------------
(***************************************************************************)
(* That the statements of one connection keep the promise of ObjectStore.  *)
(* A row stands for the object that object() makes of it.                  *)
(***************************************************************************)
EXTENDS ObjectStatements

\* A row as the object it stands for.
Stored(r) ==
    [client_key |-> r.client_key,
     memory |-> [mem_total |-> r.memory_mem_total, mem_available |-> r.memory_mem_available,
                 mem_free |-> r.memory_mem_free],
     cpu |-> [idle_time |-> r.cpu_idle_time, use_time |-> r.cpu_use_time],
     process |-> [total |-> r.process_total, running |-> r.process_running, blocked |-> r.process_blocked],
     system_info |-> [system_ip |-> r.system_info_system_ip, system_name |-> r.system_info_system_name],
     time_stamp |-> r.time_stamp]

Store == INSTANCE ObjectStore WITH
    table <- [id \in DOMAIN table |-> Stored(table[id])],
    rows  <- [i \in DOMAIN rows |-> <<rows[i].id, Stored(rows[i])>>]

\* Whatever statements are executed in whatever order, with texts that do not
\* fit, rows that are read late and a database that fails: an object is
\* stored under its id as it is, comes back as it was stored, and no other
\* row is changed.
ImplementsStore == Store!Spec

=============================================================================
