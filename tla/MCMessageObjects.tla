--------------------------- MODULE MCMessageObjects ---------------------------
(* Programs that use the messages as the agent and the server do. *)
EXTENDS MessageObjects

Program(ids, own, classes, parts) ==
    [Ids |-> 1 .. ids, MaxHeld |-> own, Classes |-> classes, Parts |-> parts]

\* A report with its Machine and its Memory; a Machine whose parts the program
\* makes and hands over; a SystemInfo, whose strings are objects as well.
Report == Program(6, 2, {"MachineInfo"}, {"memory"})
ByHand == Program(5, 3, {"Machine", "CPU", "Process", "Timestamp"}, {"cpu", "process", "last_updated"})
Named  == Program(5, 3, {"SystemInfo"}, {"systeminfo"})

SomePrograms == {Report, ByHand, Named}

=============================================================================
