------------------------------ MODULE Monitoring ------------------------------
(***************************************************************************)
(* The whole system: the agents of ClientAgent and the server of           *)
(* MonitorServer over the connections of Transport.                        *)
(***************************************************************************)
EXTENDS ClientAgent, MonitorServer

vars == <<linkVars, agentVars, serverVars>>

TypeOK == LinkTypeOK /\ AgentTypeOK /\ ServerTypeOK

Init == LinkInit /\ AgentInit /\ ServerInit

AgentStep(k) == AgentNext(k) /\ UNCHANGED serverVars

ServerStep == ServerNext /\ UNCHANGED agentVars

NetworkStep(c) == Cut(c) /\ UNCHANGED <<agentVars, serverVars>>

\* The agents have sent as many reports as the model bounds them to.
Finished ==
    /\ \A k \in Keys : pc[k] = "idle" /\ report[k] = MaxReports
    /\ UNCHANGED vars

Next ==
    \/ \E k \in Keys : AgentStep(k)
    \/ ServerStep
    \/ \E c \in Conns : NetworkStep(c)
    \/ Finished

\* The operating system schedules the agent processes and the io thread, and
\* the calls an agent or a handler blocks in return: the kernel reports a
\* connection that is gone, the database and the mail server answer or fail.
\* Nothing is assumed of collecting, of kills, cuts, crashes and restarts.
Fairness ==
    /\ \A k \in Keys : WF_vars(Exchange(k) /\ UNCHANGED serverVars)
    /\ \A c \in Conns : /\ WF_vars(Loop(c) /\ UNCHANGED agentVars)
                        /\ WF_vars(Handle(c) /\ UNCHANGED agentVars)

Spec == Init /\ [][Next]_vars

FairSpec == Spec /\ Fairness

-----------------------------------------------------------------------------
\* The requests of a report, and the table rows it produced.
Via(r) == {c \in Conns : ReportOf(c) = r}

Rows(r) == {i \in DOMAIN db : ReportOf(db[i]) = r}

\* The positions of the key's rules that c's statistics satisfy.
DueRules(c) == {i \in DOMAIN RuleOf(c) : RuleOf(c)[i] = "rule" /\ i \in Body(c).met}

Mailed(c, i) == [via |-> c, rule |-> i] \in alerts

(***************************************************************************)
(* Safety.                                                                 *)
(***************************************************************************)

\* A request is stored at most once: the keep-alive read that follows an
\* exception in the handler never hands the same request to it again.
OneRowPerRequest == \A i, j \in DOMAIN db : db[i] = db[j] => i = j

\* A report is stored at most twice, because the client reconnects at most
\* once: attempt_reconnect is false on the connection that replaces the first.
AtMostTwoRows == \A r \in AllReports : Cardinality(Rows(r)) <= 2

\* A report is stored twice only when the first answer could not be given or
\* could not arrive: its handler threw or died with the process, or the
\* network broke its connection.
DuplicateHasCause ==
    \A i, j \in DOMAIN db :
        /\ ReportOf(db[i]) = ReportOf(db[j])
        /\ db[i].attempt < db[j].attempt
        => handled[db[i]] \in {"threw", "died"} \/ broken[db[i]]

\* An acknowledged report had one handler run in which every satisfied rule
\* of its key was mailed, or at least tried at an unreachable mail server:
\* 201 is written after notify() has been through all of notify_events.
AckMeansAlerted ==
    \A r \in AllReports :
        result[r] = "ok" =>
            \E c \in Via(r) : /\ handled[c] = "done"
                              /\ \A i \in DueRules(c) : Mailed(c, i)

\* Mails of a request go out in the order of notify_events and stop at the
\* first failure: a mail for a rule means one for every satisfied rule
\* before it, and no rule before it with a value stoi rejects.
AlertsArePrefix ==
    \A a \in alerts : \A i \in DOMAIN RuleOf(a.via) :
        i < a.rule => /\ RuleOf(a.via)[i] # "bad"
                      /\ i \in DueRules(a.via) => Mailed(a.via, i)

\* A key one of whose alerts has a value stoi rejects never gets a report
\* acknowledged, however often it is sent: notify() throws every time, after
\* the row has been stored.
BadRuleNeverAcked ==
    \A k \in Registered :
        (\E i \in DOMAIN Rules[k] : Rules[k][i] = "bad") =>
            \A n \in Reports : result[<<k, n>>] # "ok"

\* A key that is not in client-list.xml, or a path no resource matches,
\* leaves nothing behind and is never acknowledged, whatever is resent.
RefusedLeavesNoTrace ==
    \A r \in AllReports : r[1] \notin Routable \cap Registered =>
        /\ result[r] # "ok"
        /\ Rows(r) = {}
        /\ \A a \in alerts : ReportOf(a.via) # r

\* The rows of one agent are in the order of its reports, except for reports
\* whose connection the network broke or whose agent was killed: otherwise
\* send_data returns only when the server is done with the report.
LateRowHasCause ==
    \A i, j \in DOMAIN db :
        /\ i < j
        /\ db[i].key = db[j].key /\ db[i].report > db[j].report
        => broken[db[j]] \/ result[ReportOf(db[j])] = "killed"

\* What the log line "client info persisted" and the status 201 say:
\* an acknowledged report is in the database.
AckMeansStored == \A r \in AllReports : result[r] = "ok" => Rows(r) # {}

(***************************************************************************)
(* Liveness.                                                               *)
(***************************************************************************)

\* send_data returns: whatever happens to the server, the agent gets back to
\* its loop, although it sets no timeout of its own.
SendReturns == \A k \in Keys : pc[k] # "idle" ~> pc[k] = "idle"

=============================================================================
