---------------------------- MODULE MonitorServer ----------------------------
(***************************************************************************)
(* The monitoring server: the POST handler of server/src/server.cpp with   *)
(* everything it calls (alert::Client, Persistence, SMTPClient), on the    *)
(* io_service loop of server_http.hpp.  thread_pool_size is 1, so one      *)
(* thread runs the handlers, the reads and the timers; a handler blocks it *)
(* while it talks to the database and to the mail server, and only the     *)
(* agents, the network and a crash can act in between.                     *)
(***************************************************************************)
EXTENDS Transport, Sequences

CONSTANTS
    Routable,    \* keys for which ^/machine/[a-zA-Z0-9]*$ matches the path
    Registered,  \* keys of client-list.xml
    Rules,       \* notify_events of each registered key, in order:
                 \* "none" (Alert::none), "bad" (value stoi rejects), "rule"
    MaxCrashes   \* bound: server crashes that are not the handler's own

RuleKinds == {"none", "bad", "rule"}

ASSUME RegistryAssumption ==
    /\ Registered \subseteq Keys /\ Routable \subseteq Keys
    /\ Rules \in [Registered -> Seq(RuleKinds)]
    /\ MaxCrashes \in Nat

VARIABLES
    stage,    \* what the io thread does: "loop", "persist" or "notify"
    event,    \* position in notify_events notify() has reached, 1 outside it
    db,       \* the machineinfo table: the connection each row came from, in
              \* the order of the rows' ids
    alerts,   \* mails SMTPClient::Send has returned for
    handled,  \* how the handler of each connection's request ended, if it did
    crashes   \* crashes so far

serverVars == <<stage, event, db, alerts, handled, crashes>>

RuleOf(c) == Rules[c.key]

ServerTypeOK ==
    /\ stage \in {"loop", "persist", "notify"}
    /\ event \in Nat \ {0}
    /\ db \in Seq(Conns)
    /\ alerts \subseteq [via : Conns, rule : Nat]
    /\ handled \in [Conns -> {"no", "refused", "done", "threw", "died"}]
    /\ crashes \in Nat

ServerInit ==
    /\ stage = "loop"
    /\ event = 1
    /\ db = << >>
    /\ alerts = {}
    /\ handled = [c \in Conns |-> "no"]
    /\ crashes = 0

-----------------------------------------------------------------------------
\* The io_service loop.

InLoop == up /\ stage = "loop"

\* accept(): the session of a queued connection starts to read.
Accept(c) ==
    /\ InLoop /\ session[c] = "backlog"
    /\ session' = [session EXCEPT ![c] = "reading"]
    /\ UNCHANGED <<up, peer, request, response, broken, content>>
    /\ UNCHANGED serverVars

\* Mutant: the request stays in the buffer of the next read.
TakeRequest_Kept(c) ==
    /\ InLoop /\ session[c] = "reading" /\ request[c] = "sent"
    /\ UNCHANGED request

\* read_request_and_content completes with a whole request.
TakeRequest(c) ==
    /\ InLoop /\ session[c] = "reading" /\ request[c] = "sent"
    /\ request' = [request EXCEPT ![c] = "taken"]

\* read_request_and_content ends with an error: on_error, session dropped.
SessionEof(c) ==
    /\ InLoop /\ session[c] = "reading" /\ request[c] # "sent"
    /\ peer[c] = "closed" \/ broken[c]
    /\ session' = [session EXCEPT ![c] = "closed"]
    /\ UNCHANGED <<up, peer, request, response, broken, content>>
    /\ UNCHANGED serverVars

\* The request timer (timeout_request) fires before the read completes.  It
\* does so even with a request waiting if the io thread was busy that long.
SessionTimeout(c) ==
    /\ InLoop /\ session[c] = "reading"
    /\ session' = [session EXCEPT ![c] = "closed"]
    /\ UNCHANGED <<up, peer, request, response, broken, content>>
    /\ UNCHANGED serverVars

\* The response's deleter sends what the handler wrote.  After a successful
\* send, and sending nothing always succeeds, the connection is read again;
\* after a failed one it is dropped.
Send(c, status) ==
    \/ /\ session' = [session EXCEPT ![c] = "reading"]
       /\ response' = IF broken[c] THEN response ELSE [response EXCEPT ![c] = status]
    \/ /\ broken[c] /\ status # "none"
       /\ session' = [session EXCEPT ![c] = "closed"]
       /\ UNCHANGED response

-----------------------------------------------------------------------------
\* The handlers.

\* default_resource["POST"]: no resource matches the path.
DefaultResource(c) ==
    /\ c.key \notin Routable
    /\ TakeRequest(c)
    /\ Send(c, "notImplemented")
    /\ handled' = [handled EXCEPT ![c] = "refused"]
    /\ UNCHANGED <<up, peer, broken, content, stage, event, db, alerts, crashes>>

\* authenticate_client fails: 401.
Unauthorized(c) ==
    /\ c.key \in Routable \ Registered
    /\ TakeRequest(c)
    /\ Send(c, "unauthorized")
    /\ handled' = [handled EXCEPT ![c] = "refused"]
    /\ UNCHANGED <<up, peer, broken, content, stage, event, db, alerts, crashes>>

\* Mutant: the handler does not return after a failed authentication.
StartHandler_AnyKey(c) ==
    /\ c.key \in Routable
    /\ TakeRequest(c)
    /\ session' = [session EXCEPT ![c] = "handling"]
    /\ stage' = "persist"
    /\ UNCHANGED <<up, peer, response, broken, content, event, db, alerts, handled, crashes>>

\* authenticate_client succeeds, get_orm_object parses the body.
StartHandler(c) ==
    /\ c.key \in Routable \cap Registered
    /\ TakeRequest(c)
    /\ session' = [session EXCEPT ![c] = "handling"]
    /\ stage' = "persist"
    /\ UNCHANGED <<up, peer, response, broken, content, event, db, alerts, handled, crashes>>

\* Mutant: a commit that reports an error is tried again.
Persist_Retried(c) ==
    /\ stage = "persist" /\ session[c] = "handling"
    /\ \/ Body(c).parses /\ db' \in {Append(db, c), Append(Append(db, c), c)}
       \/ UNCHANGED db
    /\ stage' = "notify"
    /\ UNCHANGED linkVars
    /\ UNCHANGED <<event, alerts, handled, crashes>>

\* write_client_info_db: the row is committed, or an odb::exception, possibly
\* before the object is looked at, is caught and logged.  The handler goes on
\* to notify() in both cases.
Persist(c) ==
    /\ stage = "persist" /\ session[c] = "handling"
    /\ \/ Body(c).parses /\ db' = Append(db, c)
       \/ UNCHANGED db
    /\ stage' = "notify"
    /\ UNCHANGED linkVars
    /\ UNCHANGED <<event, alerts, handled, crashes>>

Notifying(c) == stage = "notify" /\ session[c] = "handling"

AtRule(c, kind) == event \in DOMAIN RuleOf(c) /\ RuleOf(c)[event] = kind

\* Mutant: an event that is passed over is looked at again.
SkipEvent_Stuck(c) ==
    /\ Notifying(c)
    /\ \/ AtRule(c, "none")
       \/ AtRule(c, "rule") /\ Body(c).parses /\ event \notin Body(c).met
    /\ UNCHANGED <<linkVars, serverVars>>

\* notify() passes an event of unknown type, or whose condition is not met.
SkipEvent(c) ==
    /\ Notifying(c)
    /\ \/ AtRule(c, "none")
       \/ AtRule(c, "rule") /\ Body(c).parses /\ event \notin Body(c).met
    /\ event' = event + 1
    /\ UNCHANGED linkVars
    /\ UNCHANGED <<stage, db, alerts, handled, crashes>>

Firing(c) ==
    /\ Notifying(c) /\ AtRule(c, "rule")
    /\ Body(c).parses /\ event \in Body(c).met

\* SMTPClient::Send returns: the dialogue was written, or the mail server
\* could not be resolved or connected to, which is only logged.
SendAlert(c) ==
    /\ Firing(c)
    /\ alerts' = alerts \cup {[via |-> c, rule |-> event]}
    /\ event' = event + 1
    /\ UNCHANGED linkVars
    /\ UNCHANGED <<stage, db, handled, crashes>>

\* An exception leaves the handler: write_response catches it, nothing has
\* been written to the response.
Throw(c) ==
    /\ stage' = "loop" /\ event' = 1
    /\ Send(c, "none")
    /\ handled' = [handled EXCEPT ![c] = "threw"]
    /\ UNCHANGED <<up, peer, request, broken, content, db, alerts, crashes>>

\* Mutant: notify() catches the exception and goes on with the next event.
AlertThrows_Caught(c) ==
    /\ Firing(c)
    /\ event' = event + 1
    /\ UNCHANGED linkVars
    /\ UNCHANGED <<stage, db, alerts, handled, crashes>>

\* SMTPClient throws: asio::write in the middle of the dialogue, or stol on
\* the configured port.
AlertThrows(c) == Firing(c) /\ Throw(c)

\* Mutant: an event whose value cannot be converted is ignored.
BadTrigger_Ignored(c) ==
    /\ Notifying(c) /\ AtRule(c, "bad")
    /\ event' = event + 1
    /\ UNCHANGED linkVars
    /\ UNCHANGED <<stage, db, alerts, handled, crashes>>

\* stoi throws on the event's value.
BadTrigger(c) == Notifying(c) /\ AtRule(c, "bad") /\ Throw(c)

\* Mutant: the report is answered before its alerts are looked at.
Created_BeforeNotify(c) ==
    /\ Notifying(c)
    /\ stage' = "loop" /\ event' = 1
    /\ Send(c, "created")
    /\ handled' = [handled EXCEPT ![c] = "done"]
    /\ UNCHANGED <<up, peer, request, broken, content, db, alerts, crashes>>

\* Mutant: nothing is written to the response.
Created_Silent(c) ==
    /\ Notifying(c) /\ event \notin DOMAIN RuleOf(c)
    /\ stage' = "loop" /\ event' = 1
    /\ Send(c, "none")
    /\ handled' = [handled EXCEPT ![c] = "done"]
    /\ UNCHANGED <<up, peer, request, broken, content, db, alerts, crashes>>

\* The end of the handler: 201.
Created(c) ==
    /\ Notifying(c) /\ event \notin DOMAIN RuleOf(c)
    /\ stage' = "loop" /\ event' = 1
    /\ Send(c, "created")
    /\ handled' = [handled EXCEPT ![c] = "done"]
    /\ UNCHANGED <<up, peer, request, broken, content, db, alerts, crashes>>

-----------------------------------------------------------------------------
\* Crash and restart.

\* The process ends; the kernel closes its connections, and so does the
\* handler's, if one is running.
Die ==
    /\ up' = FALSE
    /\ stage' = "loop" /\ event' = 1
    /\ session' = [c \in Conns |-> IF session[c] = "none" THEN "none" ELSE "closed"]
    /\ handled' = [c \in Conns |-> IF session[c] = "handling" THEN "died" ELSE handled[c]]
    /\ UNCHANGED <<peer, request, response, broken, content, db, alerts>>

\* A body that does not parse yields a null MachineInfoPtr: persist() and
\* the alert functions dereference it.
NullDereference(c) ==
    /\ session[c] = "handling" /\ ~Body(c).parses
    /\ stage = "persist" \/ AtRule(c, "rule")
    /\ Die
    /\ UNCHANGED crashes

Crash ==
    /\ up /\ crashes < MaxCrashes
    /\ Die
    /\ crashes' = crashes + 1

Restart ==
    /\ ~up
    /\ up' = TRUE
    /\ UNCHANGED <<peer, session, request, response, broken, content>>
    /\ UNCHANGED serverVars

\* What the loop does for a connection.
Loop(c) ==
    \/ Accept(c) \/ SessionEof(c) \/ SessionTimeout(c)
    \/ DefaultResource(c) \/ Unauthorized(c) \/ StartHandler(c)

\* What a running handler does next.
Handle(c) ==
    \/ Persist(c) \/ SkipEvent(c) \/ SendAlert(c)
    \/ AlertThrows(c) \/ BadTrigger(c) \/ Created(c) \/ NullDereference(c)

ServerNext == Crash \/ Restart \/ \E c \in Conns : Loop(c) \/ Handle(c)

=============================================================================
