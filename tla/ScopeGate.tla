------------------------------- MODULE ScopeGate -------------------------------
(***************************************************************************)
(* What ScopeRunner (utility.hpp) promises its users: handlers run inside  *)
(* a gate that is closed when none of them is inside, and nobody enters a  *)
(* closed gate.                                                            *)
(***************************************************************************)
CONSTANT Threads  \* the threads that run asio handlers

VARIABLES
    inside,  \* the threads between continue_lock() and the end of its lock
    closed   \* stop() has taken effect

Init == inside = {} /\ closed = FALSE

Enter(t) ==
    /\ ~closed
    /\ inside' = inside \cup {t}
    /\ UNCHANGED closed

Leave(t) ==
    /\ inside' = inside \ {t}
    /\ UNCHANGED closed

Close ==
    /\ inside = {}
    /\ closed' = TRUE
    /\ UNCHANGED inside

Next == Close \/ \E t \in Threads : Enter(t) \/ Leave(t)

Spec == Init /\ [][Next]_<<inside, closed>>

=============================================================================
