------------------------------ MODULE Transport ------------------------------
(***************************************************************************)
(* The TCP connections between the monitoring agents (client/) and the     *)
(* monitoring server (server/), as both sides use them.  An agent opens    *)
(* one connection for a report and at most one more when it reconnects;    *)
(* a connection carries one request and at most one response.  The kernel  *)
(* and the network are not part of the repository: this module is what     *)
(* client_http.hpp and server_http.hpp rely on.                            *)
(***************************************************************************)
EXTENDS Naturals, FiniteSets

CONSTANTS
    Keys,         \* client keys of the agents (client_id in context.json)
    Contents,     \* what the statistics of each key's agent may be
    MaxReports,   \* bound: reports one agent collects
    MaxAttempts,  \* bound: connections the model provides for one report
    MaxCuts       \* bound: connections the network breaks

\* The body of a request, as far as the server's decisions depend on it:
\* whether ParseFromString accepts it, and the positions in the key's
\* notify_events of the conditions its statistics satisfy.
Bodies == [parses : BOOLEAN, met : SUBSET Nat]

ASSUME TransportAssumption ==
    /\ Contents \in [Keys -> SUBSET Bodies]
    /\ MaxReports \in Nat
    /\ MaxAttempts \in Nat /\ MaxAttempts >= 2
    /\ MaxCuts \in Nat

Reports == 1 .. MaxReports

Conns == [key : Keys, report : Reports, attempt : 1 .. MaxAttempts]

AllReports == Keys \X Reports

\* The report a connection was opened for.
ReportOf(c) == <<c.key, c.report>>

VARIABLES
    up,        \* the server process runs and its acceptor listens
    peer,      \* agent end of each connection: "none", "open" or "closed"
    session,   \* server end: "none", "backlog" (connected, not yet accepted),
               \* "reading", "handling" (its handler runs) or "closed"
    request,   \* "none", "sent" (received by the server host), "taken" (read)
    response,  \* status on its way to the agent or received there, or "none"
    broken,    \* the network broke the connection
    content    \* body of the requests of each report

linkVars == <<up, peer, session, request, response, broken, content>>

Body(c) == content[ReportOf(c)]

Statuses == {"none", "created", "unauthorized", "notImplemented"}

LinkTypeOK ==
    /\ up \in BOOLEAN
    /\ peer \in [Conns -> {"none", "open", "closed"}]
    /\ session \in [Conns -> {"none", "backlog", "reading", "handling", "closed"}]
    /\ request \in [Conns -> {"none", "sent", "taken"}]
    /\ response \in [Conns -> Statuses]
    /\ broken \in [Conns -> BOOLEAN]
    /\ content \in [AllReports -> Bodies]

LinkInit ==
    /\ up = TRUE
    /\ peer = [c \in Conns |-> "none"]
    /\ session = [c \in Conns |-> "none"]
    /\ request = [c \in Conns |-> "none"]
    /\ response = [c \in Conns |-> "none"]
    /\ broken = [c \in Conns |-> FALSE]
    /\ content = [r \in AllReports |-> [parses |-> TRUE, met |-> {}]]

\* The agent's end learns that the connection is gone: the server closed it
\* and every byte it sent has been read, or the network broke it.
Lost(c) ==
    \/ session[c] = "closed" /\ response[c] = "none"
    \/ broken[c]

\* The network breaks an open connection.  A request that has reached the
\* server host may still be read there, or be lost with the connection.
Cut(c) ==
    /\ peer[c] = "open" /\ ~broken[c]
    /\ Cardinality({d \in Conns : broken[d]}) < MaxCuts
    /\ broken' = [broken EXCEPT ![c] = TRUE]
    /\ \/ UNCHANGED request
       \/ request[c] = "sent" /\ request' = [request EXCEPT ![c] = "none"]
    /\ UNCHANGED <<up, peer, session, response, content>>

=============================================================================
