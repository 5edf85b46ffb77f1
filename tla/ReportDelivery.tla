---------------------------- MODULE ReportDelivery ----------------------------
(***************************************************************************)
(* What the system promises of each report an agent collects, whatever     *)
(* fails in between: it is stored and processed at most twice, never       *)
(* before it is submitted, the agent hears at most one verdict, and the    *)
(* verdict is "ok" only when the server has completed the report, which    *)
(* takes a mail (or the attempt at one) for every rule it satisfies.  The  *)
(* verdict and the storing may come in any order: a report given up may    *)
(* still be stored later.  This is the specification Monitoring is shown   *)
(* to implement.                                                           *)
(***************************************************************************)
EXTENDS Naturals

CONSTANTS
    AllReports,  \* the reports
    Rule,        \* what a report may have to be mailed for
    MaxCopies    \* how often a report may be stored and completed

VARIABLES
    verdict,    \* "none", "pending", "ok" or "failed"
    due,        \* rules the report satisfies
    copies,     \* rows stored for the report
    mailed,     \* rules a mail was sent, or tried, for
    completed   \* times the server has completed the report

deliveryVars == <<verdict, due, copies, mailed, completed>>

Init ==
    /\ verdict = [r \in AllReports |-> "none"]
    /\ due = [r \in AllReports |-> {}]
    /\ copies = [r \in AllReports |-> 0]
    /\ mailed = [r \in AllReports |-> {}]
    /\ completed = [r \in AllReports |-> 0]

Submit(r) ==
    /\ verdict[r] = "none"
    /\ verdict' = [verdict EXCEPT ![r] = "pending"]
    /\ \E R \in SUBSET Rule : due' = [due EXCEPT ![r] = R]
    /\ UNCHANGED <<copies, mailed, completed>>

Store(r) ==
    /\ verdict[r] # "none" /\ copies[r] < MaxCopies
    /\ copies' = [copies EXCEPT ![r] = @ + 1]
    /\ UNCHANGED <<verdict, due, mailed, completed>>

Mail(r) ==
    /\ \E i \in due[r] : mailed' = [mailed EXCEPT ![r] = @ \cup {i}]
    /\ UNCHANGED <<verdict, due, copies, completed>>

Complete(r) ==
    /\ due[r] \subseteq mailed[r]
    /\ verdict[r] # "none" /\ completed[r] < MaxCopies
    /\ completed' = [completed EXCEPT ![r] = @ + 1]
    /\ UNCHANGED <<verdict, due, copies, mailed>>

Confirm(r) ==
    /\ verdict[r] = "pending" /\ completed[r] > 0
    /\ verdict' = [verdict EXCEPT ![r] = "ok"]
    /\ UNCHANGED <<due, copies, mailed, completed>>

GiveUp(r) ==
    /\ verdict[r] = "pending"
    /\ verdict' = [verdict EXCEPT ![r] = "failed"]
    /\ UNCHANGED <<due, copies, mailed, completed>>

Next == \E r \in AllReports :
    Submit(r) \/ Store(r) \/ Mail(r) \/ Complete(r) \/ Confirm(r) \/ GiveUp(r)

Spec == Init /\ [][Next]_deliveryVars

=============================================================================
