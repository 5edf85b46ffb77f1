---------------------------- MODULE MCScopeRunner ----------------------------
(* Small instances of ScopeRunner for TLC. *)
EXTENDS ScopeRunner

CONSTANTS t1, t2, t3, s1, s2

ThreeThreads == {t1, t2, t3}
TwoStoppers == {s1, s2}

=============================================================================
