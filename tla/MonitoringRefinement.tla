------------------------- MODULE MonitoringRefinement -------------------------
(***************************************************************************)
(* Monitoring implements ReportDelivery: the verdict is what send_data     *)
(* returned, the rest is read off the database, the mails and the ends of  *)
(* the handlers of the report's requests.                                  *)
(***************************************************************************)
EXTENDS Monitoring

\* A killed agent is, to its report, one that gave up.
Verdict(r) ==
    CASE result[r] = "sending" -> "pending"
      [] result[r] = "killed"  -> "failed"
      [] OTHER                 -> result[r]

\* The rules of a report are due from the moment it is submitted.
Due(r) ==
    IF r[1] \in Registered
    THEN {i \in DOMAIN Rules[r[1]] : Rules[r[1]][i] = "rule" /\ i \in content[r].met}
    ELSE {}

Delivery == INSTANCE ReportDelivery WITH
    Rule      <- UNION {DOMAIN Rules[k] : k \in Registered},
    MaxCopies <- 2,
    verdict   <- [r \in AllReports |-> Verdict(r)],
    due       <- [r \in AllReports |-> Due(r)],
    copies    <- [r \in AllReports |-> Cardinality(Rows(r))],
    mailed    <- [r \in AllReports |-> {a.rule : a \in {b \in alerts : ReportOf(b.via) = r}}],
    completed <- [r \in AllReports |-> Cardinality({c \in Via(r) : handled[c] = "done"})]

\* Every behaviour of the agents, the server and the network is one that
\* ReportDelivery allows: no report is stored or completed more than twice,
\* none before it is collected, and "ok" follows a completed handler.
DeliverySpec == Delivery!Spec

=============================================================================
