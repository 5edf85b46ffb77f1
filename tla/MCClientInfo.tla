----------------------------- MODULE MCClientInfo -----------------------------
(* Small /proc files. *)
EXTENDS ClientInfo

File(total, free, available) ==
    << [name |-> "MemTotal", value |-> total], [name |-> "MemFree", value |-> free],
       [name |-> "MemAvailable", value |-> available], [name |-> "Buffers", value |-> 1] >>

\* A machine, a full one, and one with more memory than fits.
WholeFiles == { File(3, 1, 2), File(3, 2, 2), File(5, 1, 2) }

\* A kernel without MemAvailable, and a machine with nothing available.
AnyFiles == WholeFiles \cup { SubSeq(File(3, 1, 2), 1, 2), File(3, 1, 0) }

=============================================================================
