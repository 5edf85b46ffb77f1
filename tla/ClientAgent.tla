----------------------------- MODULE ClientAgent -----------------------------
(***************************************************************************)
(* The agent (client/src/client.cpp, client/src/server.cpp) together with  *)
(* the synchronous request of SimpleWeb::Client it uses (client_http.hpp). *)
(* Each agent runs a loop: collect the statistics, serialize them, POST    *)
(* them to /machine/<client_id> over a new HttpClient, sleep.  When the    *)
(* response cannot be read the HttpClient opens a second connection and    *)
(* sends the request again.  Neither side of the agent has a timeout       *)
(* (Config::timeout = 0).                                                  *)
(***************************************************************************)
EXTENDS Transport

CONSTANT
    MaxKills  \* bound: agent processes killed and started again

ASSUME KillsAssumption == MaxKills \in Nat

VARIABLES
    pc,                 \* "idle" (collecting or sleeping), "connect", "write", "read"
    report,             \* number of reports collected so far
    attempt,            \* connections the current HttpClient has opened
    attempt_reconnect,  \* Connection::attempt_reconnect of the current one
    result              \* what became of every report on the agent's side

agentVars == <<pc, report, attempt, attempt_reconnect, result>>

AgentTypeOK ==
    /\ pc \in [Keys -> {"idle", "connect", "write", "read"}]
    /\ report \in [Keys -> 0 .. MaxReports]
    /\ attempt \in [Keys -> 1 .. MaxAttempts]
    /\ attempt_reconnect \in [Keys -> BOOLEAN]
    /\ \A k \in Keys : pc[k] # "idle" => report[k] \in Reports
    /\ result \in [AllReports -> {"none", "sending", "ok", "failed", "killed"}]

AgentInit ==
    /\ pc = [k \in Keys |-> "idle"]
    /\ report = [k \in Keys |-> 0]
    /\ attempt = [k \in Keys |-> 1]
    /\ attempt_reconnect = [k \in Keys |-> TRUE]
    /\ result = [r \in AllReports |-> "none"]

-----------------------------------------------------------------------------
\* The connection the agent is using.
Current(k) == [key |-> k, report |-> report[k], attempt |-> attempt[k]]

Goto(k, from, to) ==
    /\ pc[k] = from
    /\ pc' = [pc EXCEPT ![k] = to]

\* send_data returns; ~ClientBase closes the connection.
ReturnFromSend(k, outcome) ==
    /\ result' = [result EXCEPT ![<<k, report[k]>>] = outcome]
    /\ pc' = [pc EXCEPT ![k] = "idle"]
    /\ peer' = [peer EXCEPT ![Current(k)] = "closed"]
    /\ UNCHANGED <<report, attempt, attempt_reconnect>>
    /\ UNCHANGED <<up, session, request, response, broken, content>>

\* One iteration of the main loop up to the HttpClient's connect():
\* get_machine_info, SerializeToString, and get_connection, which creates
\* the first connection with attempt_reconnect set.
Collect(k) ==
    /\ report[k] < MaxReports
    /\ Goto(k, "idle", "connect")
    /\ report' = [report EXCEPT ![k] = @ + 1]
    /\ \E x \in Contents[k] : content' = [content EXCEPT ![<<k, report[k] + 1>>] = x]
    /\ result' = [result EXCEPT ![<<k, report[k] + 1>>] = "sending"]
    /\ attempt' = [attempt EXCEPT ![k] = 1]
    /\ attempt_reconnect' = [attempt_reconnect EXCEPT ![k] = TRUE]
    /\ UNCHANGED <<up, peer, session, request, response, broken>>

\* async_resolve and async_connect succeed; the server host queues the
\* connection whether or not the server's io thread is busy.
Connect(k) ==
    /\ up
    /\ Goto(k, "connect", "write")
    /\ peer' = [peer EXCEPT ![Current(k)] = "open"]
    /\ session' = [session EXCEPT ![Current(k)] = "backlog"]
    /\ UNCHANGED <<report, attempt, attempt_reconnect, result>>
    /\ UNCHANGED <<up, request, response, broken, content>>

\* async_resolve or async_connect fails: no reconnection, request() throws.
ConnectFails(k) ==
    /\ pc[k] = "connect"
    /\ ReturnFromSend(k, "failed")

\* async_write succeeds locally.  The request reaches the server host
\* unless the connection is gone already.
Write(k) ==
    /\ Goto(k, "write", "read")
    /\ request' = IF ~Lost(Current(k))
                  THEN [request EXCEPT ![Current(k)] = "sent"] ELSE request
    /\ UNCHANGED <<report, attempt, attempt_reconnect, result>>
    /\ UNCHANGED <<up, peer, session, response, broken, content>>

\* async_write fails: the callback gets the error, request() throws.
WriteFails(k) ==
    /\ pc[k] = "write"
    /\ Lost(Current(k))
    /\ ReturnFromSend(k, "failed")

\* The response header is read: send_data returns whether it says 201.
ReadResponse(k) ==
    /\ pc[k] = "read"
    /\ response[Current(k)] # "none"
    /\ ReturnFromSend(k, IF response[Current(k)] = "created" THEN "ok" ELSE "failed")

\* Mutant: the new connection may be replaced again.
Reconnect_Unlimited(k) ==
    /\ Goto(k, "read", "connect")
    /\ attempt_reconnect[k]
    /\ Lost(Current(k))
    /\ attempt[k] < MaxAttempts
    /\ attempt' = [attempt EXCEPT ![k] = @ + 1]
    /\ peer' = [peer EXCEPT ![Current(k)] = "closed"]
    /\ UNCHANGED <<report, attempt_reconnect, result>>
    /\ UNCHANGED <<up, session, request, response, broken, content>>

\* The response cannot be read and attempt_reconnect is set: the connection
\* is replaced by a new one, without attempt_reconnect, and the whole
\* session starts again with connect().
Reconnect(k) ==
    /\ Goto(k, "read", "connect")
    /\ attempt_reconnect[k]
    /\ Lost(Current(k))
    /\ attempt[k] < MaxAttempts
    /\ attempt' = [attempt EXCEPT ![k] = @ + 1]
    /\ attempt_reconnect' = [attempt_reconnect EXCEPT ![k] = FALSE]
    /\ peer' = [peer EXCEPT ![Current(k)] = "closed"]
    /\ UNCHANGED <<report, result>>
    /\ UNCHANGED <<up, session, request, response, broken, content>>

\* Mutant: the agent gives up on a connection that still works.
ReadFails_Impatient(k) ==
    /\ pc[k] = "read"
    /\ ReturnFromSend(k, "failed")

\* The response cannot be read on the second connection: request() throws.
ReadFails(k) ==
    /\ pc[k] = "read"
    /\ Lost(Current(k))
    /\ ~attempt_reconnect[k]
    /\ ReturnFromSend(k, "failed")

\* The agent process is killed in the middle of send_data and started again.
Kill(k) ==
    /\ pc[k] # "idle"
    /\ Cardinality({r \in AllReports : result[r] = "killed"}) < MaxKills
    /\ ReturnFromSend(k, "killed")

\* The steps of one request, from connect() to the return of send_data.
Exchange(k) ==
    \/ Connect(k) \/ ConnectFails(k)
    \/ Write(k) \/ WriteFails(k)
    \/ ReadResponse(k) \/ Reconnect(k) \/ ReadFails(k)

AgentNext(k) == Collect(k) \/ Exchange(k) \/ Kill(k)

=============================================================================
