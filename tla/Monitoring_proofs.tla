-------------------------- MODULE Monitoring_proofs --------------------------
(***************************************************************************)
(* Proofs about Monitoring, for any agents, rules, contents and bounds:    *)
(* what is acknowledged, stored and mailed; then the rows of a report,     *)
(* when there are two of them and in which order they come, and that       *)
(* Monitoring implements ReportDelivery.  The first invariant is about the *)
(* server; the second one adds what an agent knows of a connection when it *)
(* leaves it.                                                              *)
(***************************************************************************)
EXTENDS MonitoringRefinement, FiniteSetTheorems, TLAPS

-----------------------------------------------------------------------------
(* The server's inductive invariant.                                       *)

\* The connections the agents have not sent their request on yet.
Unused(c) ==
    \/ c.report > report[c.key]
    \/ /\ c.report = report[c.key]
       /\ \/ c.attempt > attempt[c.key]
          \/ c.attempt = attempt[c.key] /\ pc[c.key] \in {"connect", "write"}

UnusedIsEmpty == \A c \in Conns : Unused(c) => request[c] = "none"

\* At most one handler runs, in a stage of its own, for a request that was
\* taken from a registered agent and has not been handled before.
HandlerInv ==
    /\ \A c \in Conns : session[c] = "handling" =>
          /\ stage # "loop"
          /\ request[c] = "taken"
          /\ handled[c] = "no"
          /\ c.key \in Routable \cap Registered
    /\ \A c, d \in Conns : session[c] = "handling" /\ session[d] = "handling" => c = d
    /\ \A c \in Conns : handled[c] # "no" => request[c] = "taken"

\* A row is in the table only when the handler of its request is past
\* write_client_info_db.
RowsInv ==
    /\ OneRowPerRequest
    /\ \A i \in DOMAIN db :
          /\ request[db[i]] = "taken"
          /\ db[i].key \in Routable \cap Registered
          /\ ~(session[db[i]] = "handling" /\ stage = "persist")

\* The events of c's key before position n were all passed by notify().
Passed(c, n) ==
    \A i \in DOMAIN RuleOf(c) :
        i < n => /\ RuleOf(c)[i] # "bad"
                 /\ i \in DueRules(c) => Mailed(c, i)

AllPassed(c) ==
    \A i \in DOMAIN RuleOf(c) :
        /\ RuleOf(c)[i] # "bad"
        /\ i \in DueRules(c) => Mailed(c, i)

\* How far notify() has got, in the running handler, in those that ended
\* with an answer and for every mail.
NotifyInv ==
    /\ stage # "notify" => event = 1
    /\ \A c \in Conns : session[c] = "handling" => Passed(c, event)
    /\ \A c \in Conns : handled[c] = "done" =>
          c.key \in Routable \cap Registered /\ AllPassed(c)
    /\ \A a \in alerts : /\ request[a.via] = "taken"
                         /\ a.via.key \in Routable \cap Registered
                         /\ Passed(a.via, a.rule)

\* An acknowledgement stems from a handler that reached its end.
AckInv ==
    /\ \A c \in Conns : response[c] = "created" => handled[c] = "done"
    /\ \A r \in AllReports : result[r] = "ok" => \E c \in Via(r) : handled[c] = "done"

IInv == TypeOK /\ UnusedIsEmpty /\ HandlerInv /\ RowsInv /\ NotifyInv /\ AckInv

-----------------------------------------------------------------------------
(* Facts about connections.                                                *)

\* The connection in use is one of the model's, of the report being sent.
LEMMA CurrentType ==
  ASSUME TypeOK, NEW k \in Keys, pc[k] # "idle"
  PROVE  /\ Current(k) \in Conns
         /\ Current(k).key = k
         /\ Current(k).report = report[k]
         /\ Current(k).attempt = attempt[k]
         /\ ReportOf(Current(k)) = <<k, report[k]>>
         /\ <<k, report[k]>> \in AllReports
  BY DEF TypeOK, AgentTypeOK, Current, Conns, ReportOf, AllReports

\* A connection belongs to one of the reports.
LEMMA ConnType ==
  ASSUME NEW c \in Conns
  PROVE  /\ c.key \in Keys /\ c.report \in Reports /\ c.attempt \in 1 .. MaxAttempts
         /\ ReportOf(c) \in AllReports
         /\ c.attempt \in Nat /\ c.report \in Nat
  BY DEF Conns, ReportOf, AllReports, Reports

\* The rules of a registered key are a sequence.
LEMMA RulesType ==
  ASSUME NEW c \in Conns, c.key \in Registered
  PROVE  RuleOf(c) \in Seq(RuleKinds)
  BY RegistryAssumption DEF RuleOf

-----------------------------------------------------------------------------
(* Type correctness.                                                       *)

LEMMA InitType == Init => TypeOK
  BY TransportAssumption, KillsAssumption, RegistryAssumption
  DEF Init, TypeOK, LinkInit, LinkTypeOK, AgentInit, AgentTypeOK, ServerInit,
      ServerTypeOK, Statuses, Bodies

\* The end of send_data keeps the types.
LEMMA ReturnType ==
  ASSUME TypeOK, NEW k \in Keys, pc[k] # "idle",
         NEW outcome \in {"ok", "failed", "killed"},
         ReturnFromSend(k, outcome), UNCHANGED serverVars
  PROVE  TypeOK'
  BY CurrentType
  DEF TypeOK, LinkTypeOK, AgentTypeOK, ServerTypeOK, serverVars, ReturnFromSend

LEMMA AgentType ==
  ASSUME TypeOK, NEW k \in Keys, AgentStep(k)
  PROVE  TypeOK'
<1>. USE DEF AgentStep
<1>1. CASE Collect(k)
  <2>1. report[k] + 1 \in Reports
    BY <1>1, TransportAssumption DEF Collect, TypeOK, AgentTypeOK, Reports
  <2>2. ASSUME NEW x \in Contents[k], content' = [content EXCEPT ![<<k, report[k] + 1>>] = x]
        PROVE  content' \in [AllReports -> Bodies]
    BY <2>1, <2>2, TransportAssumption DEF AllReports, TypeOK, LinkTypeOK
  <2>3. content' \in [AllReports -> Bodies]
    BY <1>1, <2>2 DEF Collect
  <2>4. LinkTypeOK'
    BY <1>1, <2>3 DEF Collect, TypeOK, LinkTypeOK
  <2>5. AgentTypeOK'
    BY <1>1, <2>1, TransportAssumption
    DEF Collect, Goto, TypeOK, AgentTypeOK, Reports, AllReports
  <2>. QED  BY <2>4, <2>5 DEF TypeOK, ServerTypeOK, serverVars
<1>2. CASE Connect(k)
  BY <1>2, CurrentType
  DEF Connect, Goto, TypeOK, LinkTypeOK, AgentTypeOK, ServerTypeOK, serverVars
<1>3. CASE ConnectFails(k)
  BY <1>3, ReturnType DEF ConnectFails
<1>4. CASE Write(k)
  BY <1>4, CurrentType
  DEF Write, Goto, TypeOK, LinkTypeOK, AgentTypeOK, ServerTypeOK, serverVars
<1>5. CASE WriteFails(k)
  BY <1>5, ReturnType DEF WriteFails
<1>6. CASE ReadResponse(k)
  <2>1. PICK o \in {"ok", "failed"} : ReturnFromSend(k, o)
    BY <1>6 DEF ReadResponse
  <2>. QED  BY <1>6, <2>1, ReturnType DEF ReadResponse
<1>7. CASE Reconnect(k)
  <2>1. LinkTypeOK'
    BY <1>7 DEF Reconnect, TypeOK, LinkTypeOK
  <2>2. attempt' \in [Keys -> 1 .. MaxAttempts]
    BY <1>7, TransportAssumption DEF Reconnect, TypeOK, AgentTypeOK
  <2>3. AgentTypeOK'
    BY <1>7, <2>2 DEF Reconnect, Goto, TypeOK, AgentTypeOK
  <2>. QED  BY <1>7, <2>1, <2>3 DEF Reconnect, TypeOK, ServerTypeOK, serverVars
<1>8. CASE ReadFails(k)
  BY <1>8, ReturnType DEF ReadFails
<1>9. CASE Kill(k)
  BY <1>9, ReturnType DEF Kill
<1>. QED
  BY <1>1, <1>2, <1>3, <1>4, <1>5, <1>6, <1>7, <1>8, <1>9 DEF AgentNext, Exchange

\* Sending a response keeps the types of what it touches.
LEMMA SendType ==
  ASSUME TypeOK, NEW c \in Conns, NEW status \in Statuses, Send(c, status)
  PROVE  /\ session' \in [Conns -> {"none", "backlog", "reading", "handling", "closed"}]
         /\ response' \in [Conns -> Statuses]
  BY DEF Send, TypeOK, LinkTypeOK

LEMMA DieType ==
  ASSUME TypeOK, Die, UNCHANGED agentVars, crashes' \in Nat
  PROVE  TypeOK'
<1>1. session' \in [Conns -> {"none", "backlog", "reading", "handling", "closed"}]
  BY DEF Die
<1>2. handled' \in [Conns -> {"no", "refused", "done", "threw", "died"}]
  BY DEF Die, TypeOK, ServerTypeOK
<1>3. LinkTypeOK'
  BY <1>1 DEF Die, TypeOK, LinkTypeOK
<1>4. ServerTypeOK'
  BY <1>2 DEF Die, TypeOK, ServerTypeOK
<1>5. AgentTypeOK'
  BY DEF TypeOK, AgentTypeOK, agentVars
<1>. QED
  BY <1>3, <1>4, <1>5 DEF TypeOK

LEMMA PersistType ==
  ASSUME TypeOK, NEW c \in Conns, Persist(c)
  PROVE  db' \in Seq(Conns)
<1>1. CASE db' = Append(db, c)
  BY <1>1 DEF TypeOK, ServerTypeOK
<1>2. CASE db' = db
  BY <1>2 DEF TypeOK, ServerTypeOK
<1>. QED  BY <1>1, <1>2 DEF Persist

LEMMA ServerType ==
  ASSUME TypeOK, ServerStep
  PROVE  TypeOK'
<1>. USE DEF ServerStep, TypeOK, LinkTypeOK, AgentTypeOK, ServerTypeOK, agentVars
<1>1. ASSUME NEW c \in Conns, Accept(c) PROVE TypeOK'
  BY <1>1 DEF Accept, serverVars
<1>2. ASSUME NEW c \in Conns, SessionEof(c) PROVE TypeOK'
  BY <1>2 DEF SessionEof, serverVars
<1>3. ASSUME NEW c \in Conns, SessionTimeout(c) PROVE TypeOK'
  BY <1>3 DEF SessionTimeout, serverVars
<1>4. ASSUME NEW c \in Conns, DefaultResource(c) PROVE TypeOK'
  BY <1>4, SendType DEF DefaultResource, TakeRequest, Statuses
<1>5. ASSUME NEW c \in Conns, Unauthorized(c) PROVE TypeOK'
  BY <1>5, SendType DEF Unauthorized, TakeRequest, Statuses
<1>6. ASSUME NEW c \in Conns, StartHandler(c) PROVE TypeOK'
  BY <1>6 DEF StartHandler, TakeRequest
<1>7. ASSUME NEW c \in Conns, Persist(c) PROVE TypeOK'
  <2>1. db' \in Seq(Conns)
    BY <1>7, PersistType
  <2>. QED  BY <1>7, <2>1 DEF Persist, linkVars
<1>8. ASSUME NEW c \in Conns, SkipEvent(c) PROVE TypeOK'
  BY <1>8 DEF SkipEvent, linkVars
<1>9. ASSUME NEW c \in Conns, SendAlert(c) PROVE TypeOK'
  BY <1>9 DEF SendAlert, linkVars
<1>10. ASSUME NEW c \in Conns, Throw(c) PROVE TypeOK'
  BY <1>10, SendType DEF Throw, Statuses
<1>11. ASSUME NEW c \in Conns, Created(c) PROVE TypeOK'
  BY <1>11, SendType DEF Created, Statuses
<1>12. ASSUME NEW c \in Conns, NullDereference(c) PROVE TypeOK'
  BY <1>12, DieType DEF NullDereference
<1>13. CASE Crash
  BY <1>13, DieType DEF Crash
<1>14. CASE Restart
  BY <1>14 DEF Restart, serverVars
<1>. QED
  BY <1>1, <1>2, <1>3, <1>4, <1>5, <1>6, <1>7, <1>8, <1>9, <1>10, <1>11, <1>12,
     <1>13, <1>14
  DEF ServerNext, Loop, Handle, AlertThrows, BadTrigger

LEMMA NextType == TypeOK /\ [Next]_vars => TypeOK'
<1>. SUFFICES ASSUME TypeOK, [Next]_vars PROVE TypeOK'
  OBVIOUS
<1>1. ASSUME NEW c \in Conns, NetworkStep(c) PROVE TypeOK'
  BY <1>1 DEF NetworkStep, Cut, agentVars, serverVars, TypeOK, LinkTypeOK,
              AgentTypeOK, ServerTypeOK
<1>2. CASE UNCHANGED vars
  BY <1>2 DEF vars, linkVars, agentVars, serverVars, TypeOK, LinkTypeOK,
              AgentTypeOK, ServerTypeOK
<1>. QED  BY <1>1, <1>2, AgentType, ServerType DEF Next, Finished

\* Every variable keeps its type, for every choice of the constants.
THEOREM TypeTheorem == Spec => []TypeOK
  BY InitType, NextType, PTL DEF Spec

-----------------------------------------------------------------------------
(* A request is sent once on each connection.                              *)

\* The end of send_data sends nothing and starts nothing.
LEMMA ReturnUnused ==
  ASSUME TypeOK, UnusedIsEmpty, NEW k \in Keys, NEW outcome,
         ReturnFromSend(k, outcome)
  PROVE  UnusedIsEmpty'
  BY ConnType DEF ReturnFromSend, UnusedIsEmpty, Unused, TypeOK, AgentTypeOK

LEMMA AgentUnused ==
  ASSUME TypeOK, UnusedIsEmpty, NEW k \in Keys, AgentNext(k)
  PROVE  UnusedIsEmpty'
<1>. USE DEF TypeOK, AgentTypeOK
<1>1. CASE Collect(k)
  BY <1>1, ConnType DEF Collect, Goto, UnusedIsEmpty, Unused
<1>2. CASE Connect(k)
  BY <1>2, ConnType DEF Connect, Goto, UnusedIsEmpty, Unused
<1>3. CASE Write(k)
  <2>1. Current(k) \in Conns
    BY <1>3, CurrentType DEF Write, Goto
  <2>2. ASSUME NEW c \in Conns, Unused(c)' PROVE Unused(c) /\ c # Current(k)
    BY <1>3, <2>2, ConnType DEF Write, Goto, Unused, Current
  <2>3. ASSUME NEW c \in Conns, c # Current(k) PROVE request'[c] = request[c]
    BY <1>3, <2>1, <2>3 DEF Write, LinkTypeOK
  <2>. QED  BY <2>2, <2>3 DEF UnusedIsEmpty
<1>4. CASE Reconnect(k)
  BY <1>4, ConnType DEF Reconnect, Goto, UnusedIsEmpty, Unused
<1>5. CASE ConnectFails(k) \/ WriteFails(k) \/ ReadResponse(k) \/ ReadFails(k) \/ Kill(k)
  BY <1>5, ReturnUnused DEF ConnectFails, WriteFails, ReadResponse, ReadFails, Kill
<1>. QED
  BY <1>1, <1>2, <1>3, <1>4, <1>5 DEF AgentNext, Exchange

\* The server and the network only take requests away.
LEMMA OtherUnused ==
  ASSUME TypeOK, UnusedIsEmpty,
         ServerStep \/ (\E c \in Conns : NetworkStep(c)) \/ UNCHANGED vars
  PROVE  UnusedIsEmpty'
<1>. USE DEF TypeOK, LinkTypeOK
<1>1. UNCHANGED agentVars
  BY DEF ServerStep, NetworkStep, vars
<1>2. ASSUME NEW d \in Conns, request[d] = "none" PROVE request'[d] = "none"
  <2>1. ASSUME NEW c \in Conns, Loop(c) PROVE request'[d] = "none"
    BY <1>2, <2>1
    DEF Loop, Accept, SessionEof, SessionTimeout, DefaultResource, Unauthorized,
        StartHandler, TakeRequest
  <2>2. ASSUME NEW c \in Conns, Handle(c) PROVE request'[d] = "none"
    BY <1>2, <2>2
    DEF Handle, Persist, SkipEvent, SendAlert, AlertThrows, BadTrigger, Created,
        NullDereference, Throw, Die, linkVars
  <2>3. ASSUME NEW c \in Conns, Cut(c) PROVE request'[d] = "none"
    BY <1>2, <2>3 DEF Cut
  <2>. QED
    BY <1>2, <2>1, <2>2, <2>3
    DEF ServerStep, ServerNext, NetworkStep, vars, linkVars, Crash, Die, Restart
<1>. QED  BY <1>1, <1>2 DEF UnusedIsEmpty, Unused, agentVars

LEMMA NextUnused ==
  ASSUME TypeOK, UnusedIsEmpty, [Next]_vars
  PROVE  UnusedIsEmpty'
  BY AgentUnused, OtherUnused DEF Next, AgentStep, Finished

-----------------------------------------------------------------------------
(* Steps outside the handler.                                              *)

\* What every step but those of a handler, its start, a refusal and a crash
\* leaves alone.
Quiet ==
    /\ UNCHANGED serverVars
    /\ \A c \in Conns :
          /\ session'[c] = "handling" <=> session[c] = "handling"
          /\ request'[c] = "taken" <=> request[c] = "taken"
          /\ request[c] = "taken" => Body(c)' = Body(c)

QuietServerStep ==
    \/ Restart
    \/ \E c \in Conns : Accept(c) \/ SessionEof(c) \/ SessionTimeout(c)

LEMMA AgentIsQuiet ==
  ASSUME TypeOK, UnusedIsEmpty, HandlerInv, NEW k \in Keys, AgentStep(k)
  PROVE  Quiet
<1>. USE DEF AgentStep, TypeOK, LinkTypeOK, AgentTypeOK
<1>1. ASSUME NEW c \in Conns PROVE session'[c] = "handling" <=> session[c] = "handling"
  <2>1. CASE Connect(k)
    <3>1. Current(k) \in Conns /\ Unused(Current(k))
      BY <2>1, CurrentType DEF Connect, Goto, Unused
    <3>2. session[Current(k)] # "handling"
      BY <3>1 DEF UnusedIsEmpty, HandlerInv
    <3>. QED  BY <2>1, <3>1, <3>2 DEF Connect
  <2>2. CASE UNCHANGED session
    BY <2>2
  <2>. QED
    BY <2>1, <2>2
    DEF AgentNext, Exchange, Collect, ConnectFails, Write, WriteFails, ReadResponse,
        Reconnect, ReadFails, Kill, ReturnFromSend
<1>2. ASSUME NEW c \in Conns PROVE request'[c] = "taken" <=> request[c] = "taken"
  <2>1. CASE Write(k)
    <3>1. Current(k) \in Conns /\ Unused(Current(k))
      BY <2>1, CurrentType DEF Write, Goto, Unused
    <3>2. request[Current(k)] = "none"
      BY <3>1 DEF UnusedIsEmpty
    <3>. QED  BY <2>1, <3>1, <3>2 DEF Write
  <2>2. CASE UNCHANGED request
    BY <2>2
  <2>. QED
    BY <2>1, <2>2
    DEF AgentNext, Exchange, Collect, Connect, ConnectFails, WriteFails, ReadResponse,
        Reconnect, ReadFails, Kill, ReturnFromSend
<1>3. ASSUME NEW c \in Conns, request[c] = "taken" PROVE Body(c)' = Body(c)
  <2>1. CASE Collect(k)
    <3>1. ReportOf(c) # <<k, report[k] + 1>>
      <4>1. ~Unused(c)
        BY <1>3 DEF UnusedIsEmpty
      <4>. QED  BY <4>1, ConnType DEF Unused, ReportOf
    <3>. QED  BY <2>1, <3>1, ConnType DEF Collect, Body
  <2>2. CASE UNCHANGED content
    BY <2>2 DEF Body
  <2>. QED
    BY <2>1, <2>2
    DEF AgentNext, Exchange, Connect, ConnectFails, Write, WriteFails, ReadResponse,
        Reconnect, ReadFails, Kill, ReturnFromSend
<1>. QED  BY <1>1, <1>2, <1>3 DEF Quiet

LEMMA NetworkIsQuiet ==
  ASSUME TypeOK, NEW c \in Conns, NetworkStep(c)
  PROVE  Quiet
  BY DEF NetworkStep, Cut, TypeOK, LinkTypeOK, Quiet, Body

LEMMA LoopIsQuiet ==
  ASSUME TypeOK, QuietServerStep
  PROVE  Quiet
  BY DEF QuietServerStep, Restart, Accept, SessionEof, SessionTimeout, TypeOK,
         LinkTypeOK, Quiet, Body

LEMMA StutterIsQuiet ==
  ASSUME UNCHANGED vars
  PROVE  Quiet
  BY DEF vars, linkVars, Quiet, Body

\* The invariants of the handler are not disturbed by quiet steps.
LEMMA QuietHandler ==
  ASSUME HandlerInv, Quiet
  PROVE  HandlerInv'
  BY DEF HandlerInv, Quiet, serverVars

LEMMA QuietRows ==
  ASSUME TypeOK, RowsInv, Quiet
  PROVE  RowsInv'
<1>1. \A i \in DOMAIN db : db[i] \in Conns
  BY DEF TypeOK, ServerTypeOK
<1>. QED  BY <1>1 DEF RowsInv, OneRowPerRequest, Quiet, serverVars

LEMMA QuietNotify ==
  ASSUME TypeOK, HandlerInv, NotifyInv, Quiet
  PROVE  NotifyInv'
<1>1. ASSUME NEW c \in Conns, request[c] = "taken"
      PROVE  /\ DueRules(c)' = DueRules(c)
             /\ AllPassed(c)' = AllPassed(c)
             /\ \A n \in Nat : Passed(c, n)' = Passed(c, n)
  BY <1>1 DEF Quiet, serverVars, DueRules, AllPassed, Passed, Mailed, RuleOf
<1>2. event \in Nat /\ \A a \in alerts : a.via \in Conns /\ a.rule \in Nat
  BY DEF TypeOK, ServerTypeOK
<1>3. \A c \in Conns : session[c] = "handling" \/ handled[c] # "no" => request[c] = "taken"
  BY DEF HandlerInv
<1>. QED  BY <1>1, <1>2, <1>3 DEF NotifyInv, Quiet, serverVars

-----------------------------------------------------------------------------
(* Steps of the handler, its start, refusals and the end of the process.   *)

Refusal(c) == DefaultResource(c) \/ Unauthorized(c)

\* The ends of a handler that the agent may or may not hear of.
HandlerEnd(c) ==
    /\ session[c] = "handling" /\ stage = "notify"
    /\ Throw(c) \/ Created(c)

\* What the end of a handler, or a refusal, does to the sessions.
LEMMA SendSession ==
  ASSUME TypeOK, NEW c \in Conns, NEW status, Send(c, status)
  PROVE  /\ session'[c] # "handling"
         /\ \A d \in Conns : d # c => session'[d] = session[d]
         /\ \A d \in Conns : d # c => response'[d] = response[d]
         /\ response'[c] \in {response[c], status}
  BY DEF Send, TypeOK, LinkTypeOK

LEMMA BusyHandler ==
  ASSUME TypeOK, HandlerInv, NEW c \in Conns,
         Refusal(c) \/ StartHandler(c) \/ Persist(c) \/ SkipEvent(c) \/ SendAlert(c)
            \/ HandlerEnd(c)
  PROVE  HandlerInv'
<1>. USE DEF TypeOK, LinkTypeOK, ServerTypeOK
<1>1. CASE Refusal(c)
  <2>1. PICK status : Send(c, status)
    BY <1>1 DEF Refusal, DefaultResource, Unauthorized
  <2>2. session[c] = "reading" /\ stage = "loop" /\ request[c] = "sent"
    BY <1>1 DEF Refusal, DefaultResource, Unauthorized, TakeRequest, InLoop
  <2>3. request' = [request EXCEPT ![c] = "taken"]
    BY <1>1 DEF Refusal, DefaultResource, Unauthorized, TakeRequest
  <2>4. handled' = [handled EXCEPT ![c] = "refused"] /\ UNCHANGED stage
    BY <1>1 DEF Refusal, DefaultResource, Unauthorized
  <2>5. \A d \in Conns : session[d] # "handling"
    BY <2>2 DEF HandlerInv
  <2>6. \A d \in Conns : session'[d] # "handling"
    BY <2>1, <2>5, SendSession
  <2>. QED  BY <2>3, <2>4, <2>6 DEF HandlerInv
<1>2. CASE StartHandler(c)
  <2>1. stage = "loop" /\ request[c] = "sent"
    BY <1>2 DEF StartHandler, TakeRequest, InLoop
  <2>2. \A d \in Conns : session[d] # "handling"
    BY <2>1 DEF HandlerInv
  <2>3. handled[c] = "no"
    BY <2>1 DEF HandlerInv
  <2>. QED  BY <1>2, <2>1, <2>2, <2>3 DEF StartHandler, TakeRequest, HandlerInv
<1>3. CASE Persist(c)
  BY <1>3 DEF Persist, linkVars, HandlerInv
<1>4. CASE SkipEvent(c)
  BY <1>4 DEF SkipEvent, linkVars, HandlerInv
<1>5. CASE SendAlert(c)
  BY <1>5 DEF SendAlert, linkVars, HandlerInv
<1>6. CASE HandlerEnd(c)
  <2>1. PICK status : Send(c, status)
    BY <1>6 DEF HandlerEnd, Throw, Created
  <2>2. PICK how \in {"threw", "done"} : handled' = [handled EXCEPT ![c] = how]
    BY <1>6 DEF HandlerEnd, Throw, Created
  <2>3. UNCHANGED request /\ session[c] = "handling"
    BY <1>6 DEF HandlerEnd, Throw, Created
  <2>4. \A d \in Conns : session'[d] # "handling"
    BY <2>1, <2>3, SendSession DEF HandlerInv
  <2>. QED  BY <2>2, <2>3, <2>4 DEF HandlerInv
<1>. QED  BY <1>1, <1>2, <1>3, <1>4, <1>5, <1>6

LEMMA BusyRows ==
  ASSUME TypeOK, HandlerInv, RowsInv, NEW c \in Conns,
         Refusal(c) \/ StartHandler(c) \/ Persist(c) \/ SkipEvent(c) \/ SendAlert(c)
            \/ HandlerEnd(c)
  PROVE  RowsInv'
<1>. USE DEF TypeOK, LinkTypeOK, ServerTypeOK
<1>0. \A i \in DOMAIN db : db[i] \in Conns
  OBVIOUS
<1>1. CASE Refusal(c)
  <2>1. PICK status : Send(c, status)
    BY <1>1 DEF Refusal, DefaultResource, Unauthorized
  <2>2. request' = [request EXCEPT ![c] = "taken"] /\ UNCHANGED <<stage, db>>
    BY <1>1 DEF Refusal, DefaultResource, Unauthorized, TakeRequest
  <2>3. stage = "loop"
    BY <1>1 DEF Refusal, DefaultResource, Unauthorized, TakeRequest, InLoop
  <2>. QED  BY <1>0, <2>2, <2>3 DEF RowsInv, OneRowPerRequest
<1>2. CASE StartHandler(c)
  <2>1. \A i \in DOMAIN db : db[i] # c
    BY <1>2 DEF StartHandler, TakeRequest, RowsInv
  <2>2. \A d \in Conns : session[d] # "handling"
    BY <1>2 DEF StartHandler, TakeRequest, InLoop, HandlerInv
  <2>. QED
    BY <1>0, <1>2, <2>1, <2>2 DEF StartHandler, TakeRequest, RowsInv, OneRowPerRequest
<1>3. CASE Persist(c)
  <2>1. /\ session[c] = "handling" /\ stage = "persist" /\ stage' = "notify"
        /\ UNCHANGED <<session, request>>
    BY <1>3 DEF Persist, linkVars
  <2>2. CASE UNCHANGED db
    BY <2>1, <2>2 DEF RowsInv, OneRowPerRequest
  <2>3. CASE db' = Append(db, c)
    <3>1. \A i \in DOMAIN db : db[i] # c
      BY <2>1 DEF RowsInv
    <3>2. /\ DOMAIN db' = 1 .. Len(db) + 1
          /\ \A i \in DOMAIN db : db'[i] = db[i]
          /\ db'[Len(db) + 1] = c
          /\ DOMAIN db = 1 .. Len(db) /\ Len(db) \in Nat
      BY <2>3
    <3>3. OneRowPerRequest'
      BY <3>1, <3>2 DEF RowsInv, OneRowPerRequest
    <3>4. request[c] = "taken" /\ c.key \in Routable \cap Registered
      BY <2>1 DEF HandlerInv
    <3>. QED  BY <2>1, <3>2, <3>3, <3>4 DEF RowsInv
  <2>. QED  BY <1>3, <2>2, <2>3 DEF Persist
<1>4. CASE SkipEvent(c)
  BY <1>4 DEF SkipEvent, linkVars, RowsInv, OneRowPerRequest
<1>5. CASE SendAlert(c)
  BY <1>5 DEF SendAlert, linkVars, RowsInv, OneRowPerRequest
<1>6. CASE HandlerEnd(c)
  <2>1. UNCHANGED <<request, db>> /\ stage' = "loop"
    BY <1>6 DEF HandlerEnd, Throw, Created
  <2>. QED  BY <2>1 DEF RowsInv, OneRowPerRequest
<1>. QED  BY <1>1, <1>2, <1>3, <1>4, <1>5, <1>6

LEMMA BusyNotify ==
  ASSUME TypeOK, HandlerInv, NotifyInv, NEW c \in Conns,
         Refusal(c) \/ StartHandler(c) \/ Persist(c) \/ SkipEvent(c) \/ SendAlert(c)
            \/ HandlerEnd(c)
  PROVE  NotifyInv'
<1>. USE DEF TypeOK, LinkTypeOK, ServerTypeOK
\* Mails are never taken back and bodies do not change.
<1>1. /\ alerts \subseteq alerts' /\ UNCHANGED content
      /\ \A d \in Conns : request[d] = "taken" => request'[d] = "taken"
  BY DEF Refusal, DefaultResource, Unauthorized, StartHandler, TakeRequest, Persist,
         SkipEvent, SendAlert, HandlerEnd, Throw, Created, linkVars
<1>2. ASSUME NEW d \in Conns
      PROVE  /\ DueRules(d)' = DueRules(d) /\ RuleOf(d)' = RuleOf(d)
             /\ AllPassed(d) => AllPassed(d)'
             /\ \A n \in Nat : Passed(d, n) => Passed(d, n)'
  BY <1>1 DEF DueRules, Body, RuleOf, AllPassed, Passed, Mailed
<1>3. \A a \in alerts : a.via \in Conns /\ a.rule \in Nat
  OBVIOUS
<1>4. \A a \in alerts : /\ request'[a.via] = "taken"
                        /\ a.via.key \in Routable \cap Registered
                        /\ Passed(a.via, a.rule)'
  BY <1>1, <1>2, <1>3 DEF NotifyInv
<1>5. \A d \in Conns : handled[d] = "done" =>
         d.key \in Routable \cap Registered /\ AllPassed(d)'
  BY <1>2 DEF NotifyInv
<1>6. CASE Refusal(c)
  <2>1. UNCHANGED <<stage, event, alerts>> /\ handled' = [handled EXCEPT ![c] = "refused"]
    BY <1>6 DEF Refusal, DefaultResource, Unauthorized
  <2>2. HandlerInv' /\ stage = "loop"
    BY <1>6, BusyHandler DEF Refusal, DefaultResource, Unauthorized, TakeRequest, InLoop
  <2>3. \A d \in Conns : session'[d] # "handling"
    BY <2>1, <2>2 DEF HandlerInv
  <2>. QED  BY <1>4, <1>5, <2>1, <2>2, <2>3 DEF NotifyInv
<1>7. CASE StartHandler(c)
  <2>1. UNCHANGED <<event, alerts, handled>> /\ stage = "loop" /\ stage' = "persist"
    BY <1>7 DEF StartHandler, TakeRequest, InLoop
  <2>2. event' = 1
    BY <2>1 DEF NotifyInv
  <2>3. c.key \in Registered
    BY <1>7 DEF StartHandler
  <2>4. Passed(c, 1)'
    BY <2>3, RulesType DEF Passed, RuleOf
  <2>5. \A d \in Conns : session'[d] = "handling" => d = c
    BY <1>7, <2>1 DEF StartHandler, HandlerInv
  <2>. QED  BY <1>4, <1>5, <2>1, <2>2, <2>4, <2>5 DEF NotifyInv
<1>8. CASE Persist(c)
  <2>1. UNCHANGED <<event, alerts, handled, session>> /\ stage' = "notify"
    BY <1>8 DEF Persist, linkVars
  <2>. QED  BY <1>2, <1>4, <1>5, <2>1 DEF NotifyInv
<1>9. ASSUME NEW n, n = event, stage = "notify", stage' = "notify",
             session[c] = "handling", UNCHANGED <<session, handled>>, event' = n + 1,
             n \in DOMAIN RuleOf(c) =>
                /\ RuleOf(c)[n] # "bad"
                /\ n \in DueRules(c) => [via |-> c, rule |-> n] \in alerts',
             \A a \in alerts' : a \in alerts \/ a = [via |-> c, rule |-> n]
      PROVE  NotifyInv'
  <2>1. n \in Nat /\ Passed(c, n)
    BY <1>9 DEF NotifyInv
  <2>2. c.key \in Routable \cap Registered /\ request[c] = "taken"
    BY <1>9 DEF HandlerInv
  <2>3. Passed(c, n)'
    BY <1>2, <2>1
  <2>4. Passed(c, n + 1)'
    <3>1. \A i \in DOMAIN RuleOf(c) : i \in Nat /\ (i < n + 1 => i < n \/ i = n)
      BY <2>1, <2>2, RulesType
    <3>2. RuleOf(c)' = RuleOf(c) /\ DueRules(c)' = DueRules(c)
      BY <1>2
    <3>. QED  BY <1>9, <2>3, <3>1, <3>2 DEF Passed, Mailed
  <2>5. \A d \in Conns : session'[d] = "handling" => d = c
    BY <1>9 DEF HandlerInv
  <2>6. ASSUME NEW a \in alerts'
        PROVE  /\ request'[a.via] = "taken"
               /\ a.via.key \in Routable \cap Registered
               /\ Passed(a.via, a.rule)'
    <3>1. CASE a \in alerts
      BY <1>4, <3>1
    <3>2. CASE a = [via |-> c, rule |-> n]
      BY <1>1, <2>2, <2>3, <3>2
    <3>. QED  BY <1>9, <3>1, <3>2
  <2>. QED  BY <1>5, <1>9, <2>4, <2>5, <2>6 DEF NotifyInv
<1>10. CASE SkipEvent(c)
  <2>1. event \in DOMAIN RuleOf(c) /\ RuleOf(c)[event] # "bad" /\ event \notin DueRules(c)
    BY <1>10 DEF SkipEvent, AtRule, DueRules
  <2>. QED  BY <1>9, <1>10, <2>1 DEF SkipEvent, Notifying, linkVars
<1>11. CASE SendAlert(c)
  <2>1. RuleOf(c)[event] # "bad" /\ [via |-> c, rule |-> event] \in alerts \cup {[via |-> c, rule |-> event]}
    BY <1>11 DEF SendAlert, Firing, AtRule
  <2>. QED  BY <1>9, <1>11, <2>1 DEF SendAlert, Firing, Notifying, linkVars
<1>12. CASE HandlerEnd(c)
  <2>1. UNCHANGED alerts /\ stage' = "loop" /\ event' = 1
    BY <1>12 DEF HandlerEnd, Throw, Created
  <2>2. \A d \in Conns : session'[d] # "handling"
    BY <1>12, <2>1, BusyHandler DEF HandlerInv
  <2>3. CASE Throw(c)
    BY <1>4, <1>5, <2>1, <2>2, <2>3 DEF Throw, NotifyInv
  <2>4. CASE Created(c)
    <3>1. c.key \in Routable \cap Registered /\ Passed(c, event)
      BY <1>12 DEF HandlerEnd, HandlerInv, NotifyInv
    <3>2. \A i \in DOMAIN RuleOf(c) : i < event
      <4>1. DOMAIN RuleOf(c) = 1 .. Len(RuleOf(c)) /\ Len(RuleOf(c)) \in Nat
        BY <3>1, RulesType
      <4>. QED  BY <2>4, <4>1 DEF Created
    <3>3. AllPassed(c)
      BY <3>1, <3>2 DEF Passed, AllPassed
    <3>4. AllPassed(c)'
      BY <1>2, <3>3
    <3>. QED  BY <1>4, <1>5, <2>1, <2>2, <2>4, <3>1, <3>4 DEF Created, NotifyInv
  <2>. QED  BY <1>12, <2>3, <2>4 DEF HandlerEnd
<1>. QED  BY <1>6, <1>7, <1>8, <1>10, <1>11, <1>12

\* The end of the process ends the handler and forgets nothing else.
LEMMA DieInvs ==
  ASSUME TypeOK, HandlerInv, RowsInv, NotifyInv, Die
  PROVE  HandlerInv' /\ RowsInv' /\ NotifyInv'
<1>. USE DEF TypeOK, LinkTypeOK, ServerTypeOK
<1>1. \A c \in Conns : session'[c] # "handling"
  BY DEF Die
<1>2. HandlerInv'
  BY <1>1 DEF Die, HandlerInv
<1>3. RowsInv'
  BY <1>1 DEF Die, RowsInv, OneRowPerRequest
<1>4. \A c \in Conns : handled'[c] = "done" => handled[c] = "done"
  BY DEF Die
<1>5. /\ \A c \in Conns : AllPassed(c)' = AllPassed(c)
      /\ \A c \in Conns, n \in Nat : Passed(c, n)' = Passed(c, n)
  BY DEF Die, AllPassed, Passed, RuleOf, DueRules, Body, Mailed
<1>6. \A a \in alerts : a.via \in Conns /\ a.rule \in Nat
  OBVIOUS
<1>7. NotifyInv'
  BY <1>1, <1>4, <1>5, <1>6 DEF Die, NotifyInv
<1>. QED  BY <1>2, <1>3, <1>7

-----------------------------------------------------------------------------
(* Acknowledgements.                                                       *)

\* An ended handler stays ended as it did.
LEMMA DoneStays ==
  ASSUME TypeOK, HandlerInv, UnusedIsEmpty, [Next]_vars,
         NEW d \in Conns, handled[d] = "done"
  PROVE  handled'[d] = "done"
<1>. USE DEF TypeOK, ServerTypeOK
<1>1. request[d] = "taken" /\ session[d] # "handling"
  BY DEF HandlerInv
<1>2. ASSUME NEW c \in Conns, Loop(c) PROVE handled'[d] = "done"
  BY <1>1, <1>2
  DEF Loop, Accept, SessionEof, SessionTimeout, DefaultResource, Unauthorized,
      StartHandler, TakeRequest, serverVars
<1>3. ASSUME NEW c \in Conns, Handle(c) PROVE handled'[d] = "done"
  BY <1>1, <1>3
  DEF Handle, Persist, SkipEvent, SendAlert, AlertThrows, BadTrigger, Created,
      NullDereference, Throw, Die, Firing, Notifying
<1>. QED
  BY <1>1, <1>2, <1>3
  DEF Next, AgentStep, ServerStep, ServerNext, NetworkStep, Finished, vars,
      serverVars, Crash, Die, Restart

\* Only a handler that ends answers "created".
LEMMA NextCreated ==
  ASSUME TypeOK, HandlerInv, UnusedIsEmpty, AckInv, [Next]_vars,
         NEW d \in Conns, response'[d] = "created"
  PROVE  handled'[d] = "done"
<1>. USE DEF TypeOK, LinkTypeOK, ServerTypeOK
<1>1. CASE response[d] = "created"
  BY <1>1, DoneStays DEF AckInv
<1>2. CASE response[d] # "created"
  <2>1. ASSUME NEW c \in Conns, Loop(c) PROVE FALSE
    <3>1. ASSUME NEW status, status # "created", Send(c, status) PROVE FALSE
      BY <1>2, <3>1, SendSession
    <3>. QED
      BY <1>2, <2>1, <3>1
      DEF Loop, Accept, SessionEof, SessionTimeout, DefaultResource, Unauthorized,
          StartHandler
  <2>2. ASSUME NEW c \in Conns, Created(c) PROVE handled'[d] = "done"
    <3>1. d = c
      BY <1>2, <2>2, SendSession DEF Created
    <3>. QED  BY <2>2, <3>1 DEF Created
  <2>3. ASSUME NEW c \in Conns, Throw(c) PROVE FALSE
    BY <1>2, <2>3, SendSession DEF Throw
  <2>4. CASE UNCHANGED response
    BY <1>2, <2>4
  <2>. QED
    BY <2>1, <2>2, <2>3, <2>4
    DEF Next, AgentStep, AgentNext, Exchange, Collect, Connect, ConnectFails, Write,
        WriteFails, ReadResponse, Reconnect, ReadFails, Kill, ReturnFromSend,
        ServerStep, ServerNext, Handle, Persist, SkipEvent, SendAlert, AlertThrows,
        BadTrigger, NullDereference, Crash, Die, Restart, NetworkStep, Cut, Finished,
        vars, linkVars
<1>. QED  BY <1>1, <1>2

\* send_data returns "ok" only for a response that says 201.
LEMMA NextOk ==
  ASSUME TypeOK, HandlerInv, UnusedIsEmpty, AckInv, [Next]_vars,
         NEW r \in AllReports, result'[r] = "ok"
  PROVE  \E c \in Via(r) : handled'[c] = "done"
<1>. USE DEF TypeOK, AgentTypeOK
<1>1. CASE result[r] = "ok"
  <2>1. PICK c \in Via(r) : handled[c] = "done"
    BY <1>1 DEF AckInv
  <2>2. c \in Conns
    BY DEF Via
  <2>. QED  BY <2>1, <2>2, DoneStays
<1>2. CASE result[r] # "ok"
  <2>1. ASSUME NEW k \in Keys, ReadResponse(k), AgentStep(k)
        PROVE  \E c \in Via(r) : handled'[c] = "done"
    <3>1. Current(k) \in Conns /\ ReportOf(Current(k)) = <<k, report[k]>>
      BY <2>1, CurrentType DEF ReadResponse
    <3>2. r = <<k, report[k]>> /\ response[Current(k)] = "created"
      BY <1>2, <2>1 DEF ReadResponse, ReturnFromSend
    <3>3. handled[Current(k)] = "done"
      BY <3>1, <3>2 DEF AckInv
    <3>. QED  BY <2>1, <3>1, <3>2, <3>3 DEF Via, AgentStep, serverVars
  <2>2. ASSUME NEW k \in Keys, Collect(k) PROVE FALSE
    BY <1>2, <2>2 DEF Collect
  <2>3. ASSUME NEW k \in Keys, NEW o \in {"failed", "killed"}, ReturnFromSend(k, o)
        PROVE  FALSE
    BY <1>2, <2>3 DEF ReturnFromSend
  <2>4. CASE UNCHANGED result
    BY <1>2, <2>4
  <2>. QED
    BY <2>1, <2>2, <2>3, <2>4
    DEF Next, AgentStep, AgentNext, Exchange, Connect, ConnectFails, Write, WriteFails,
        Reconnect, ReadFails, Kill, ServerStep, NetworkStep, agentVars, Finished, vars
<1>. QED  BY <1>1, <1>2

-----------------------------------------------------------------------------
(* The inductive invariant and what follows from it.                       *)

LEMMA InitIInv == Init => IInv
<1>. SUFFICES ASSUME Init PROVE IInv
  OBVIOUS
<1>1. TypeOK
  BY InitType
<1>2. UnusedIsEmpty /\ HandlerInv /\ NotifyInv
  BY DEF Init, LinkInit, ServerInit, UnusedIsEmpty, HandlerInv, NotifyInv
<1>3. RowsInv
  BY DEF Init, ServerInit, RowsInv, OneRowPerRequest
<1>4. AckInv
  BY DEF Init, LinkInit, AgentInit, AckInv
<1>. QED  BY <1>1, <1>2, <1>3, <1>4 DEF IInv

LEMMA NextIInv == IInv /\ [Next]_vars => IInv'
<1>. SUFFICES ASSUME IInv, [Next]_vars PROVE IInv'
  OBVIOUS
<1>. USE DEF IInv
<1>1. TypeOK'
  BY NextType
<1>2. UnusedIsEmpty'
  BY NextUnused
<1>3. AckInv'
  BY NextCreated, NextOk DEF AckInv, Via
<1>4. HandlerInv' /\ RowsInv' /\ NotifyInv'
  <2>1. CASE Quiet
    BY <2>1, QuietHandler, QuietRows, QuietNotify
  <2>2. ASSUME NEW c \in Conns,
               Refusal(c) \/ StartHandler(c) \/ Persist(c) \/ SkipEvent(c)
                  \/ SendAlert(c) \/ HandlerEnd(c)
        PROVE  HandlerInv' /\ RowsInv' /\ NotifyInv'
    BY <2>2, BusyHandler, BusyRows, BusyNotify
  <2>3. CASE Die
    BY <2>3, DieInvs
  <2>4. CASE ServerStep
    <3>1. ASSUME NEW c \in Conns, Loop(c)
          PROVE  Quiet \/ Refusal(c) \/ StartHandler(c)
      BY <3>1, LoopIsQuiet DEF Loop, QuietServerStep, Refusal
    <3>2. ASSUME NEW c \in Conns, Handle(c)
          PROVE  Persist(c) \/ SkipEvent(c) \/ SendAlert(c) \/ HandlerEnd(c) \/ Die
      BY <3>2
      DEF Handle, HandlerEnd, AlertThrows, BadTrigger, Created, NullDereference,
          Firing, Notifying
    <3>3. CASE Crash \/ Restart
      BY <2>1, <2>3, <3>3, LoopIsQuiet DEF Crash, QuietServerStep
    <3>. QED  BY <2>1, <2>2, <2>3, <2>4, <3>1, <3>2, <3>3 DEF ServerStep, ServerNext
  <2>. QED
    BY <2>1, <2>4, AgentIsQuiet, NetworkIsQuiet, StutterIsQuiet DEF Next, Finished
<1>. QED  BY <1>1, <1>2, <1>3, <1>4

THEOREM Invariance == Spec => []IInv
  BY InitIInv, NextIInv, PTL DEF Spec

\* A request is stored at most once, whatever fails and is sent again.
THEOREM OneRowTheorem == Spec => []OneRowPerRequest
<1>1. IInv => OneRowPerRequest
  BY DEF IInv, RowsInv
<1>. QED  BY <1>1, Invariance, PTL

\* An acknowledged report has had every mail it is due.
THEOREM AckTheorem == Spec => []AckMeansAlerted
<1>1. IInv => AckMeansAlerted
  <2>. SUFFICES ASSUME IInv, NEW r \in AllReports, result[r] = "ok"
                PROVE  \E c \in Via(r) : /\ handled[c] = "done"
                                         /\ \A i \in DueRules(c) : Mailed(c, i)
    BY DEF AckMeansAlerted
  <2>1. PICK c \in Via(r) : handled[c] = "done"
    BY DEF IInv, AckInv
  <2>2. AllPassed(c)
    BY <2>1 DEF IInv, NotifyInv, Via
  <2>. QED  BY <2>1, <2>2 DEF AllPassed, DueRules
<1>. QED  BY <1>1, Invariance, PTL

\* Mails go out in the order of the rules and stop at the first failure.
THEOREM PrefixTheorem == Spec => []AlertsArePrefix
<1>1. IInv => AlertsArePrefix
  BY DEF IInv, NotifyInv, Passed, AlertsArePrefix
<1>. QED  BY <1>1, Invariance, PTL

\* A key with a value stoi rejects never gets a report acknowledged.
THEOREM BadRuleTheorem == Spec => []BadRuleNeverAcked
<1>1. IInv => BadRuleNeverAcked
  <2>. SUFFICES ASSUME IInv, NEW k \in Registered, NEW n \in Reports,
                       result[<<k, n>>] = "ok",
                       NEW i \in DOMAIN Rules[k], Rules[k][i] = "bad"
                PROVE  FALSE
    BY DEF BadRuleNeverAcked
  <2>1. <<k, n>> \in AllReports
    BY RegistryAssumption DEF AllReports
  <2>2. PICK c \in Via(<<k, n>>) : handled[c] = "done"
    BY <2>1 DEF IInv, AckInv
  <2>3. AllPassed(c) /\ c.key = k
    BY <2>2 DEF IInv, NotifyInv, Via, ReportOf
  <2>. QED  BY <2>3 DEF AllPassed, RuleOf
<1>. QED  BY <1>1, Invariance, PTL

\* A refused key leaves nothing behind and is never acknowledged.
THEOREM RefusedTheorem == Spec => []RefusedLeavesNoTrace
<1>1. IInv => RefusedLeavesNoTrace
  <2>. SUFFICES ASSUME IInv, NEW r \in AllReports, r[1] \notin Routable \cap Registered
                PROVE  /\ result[r] # "ok"
                       /\ Rows(r) = {}
                       /\ \A a \in alerts : ReportOf(a.via) # r
    BY DEF RefusedLeavesNoTrace
  <2>1. result[r] # "ok"
    BY DEF IInv, AckInv, NotifyInv, Via, ReportOf
  <2>2. Rows(r) = {}
    BY DEF IInv, RowsInv, Rows, ReportOf
  <2>3. \A a \in alerts : ReportOf(a.via) # r
    BY DEF IInv, NotifyInv, ReportOf
  <2>. QED  BY <2>1, <2>2, <2>3
<1>. QED  BY <1>1, Invariance, PTL

-----------------------------------------------------------------------------
(* The agents' inductive invariant.                                        *)

\* Only the first connection of a report may be replaced.
AttemptInv ==
    /\ \A k \in Keys : attempt[k] = 1 \/ (attempt[k] = 2 /\ ~ attempt_reconnect[k])
    /\ \A c \in Conns : request[c] # "none" => c.attempt \in 1 .. 2

\* Whether a report is still to come, being sent, or over.
SendingInv ==
    \A k \in Keys :
        /\ pc[k] # "idle" => result[<<k, report[k]>>] = "sending"
        /\ \A n \in Reports : n > report[k] <=> result[<<k, n>>] = "none"

\* The connections the agents have not opened yet.
Unopened(c) ==
    \/ c.report > report[c.key]
    \/ /\ c.report = report[c.key]
       /\ \/ c.attempt > attempt[c.key]
          \/ c.attempt = attempt[c.key] /\ pc[c.key] = "connect"

UnopenedInv == \A c \in Conns : Unopened(c) => session[c] = "none"

\* What a request that was read comes to: a handler, and then an answer
\* unless the handler failed or the connection is broken.
AnswerInv ==
    \A c \in Conns :
        /\ request[c] = "taken" /\ session[c] # "handling" => handled[c] # "no"
        /\ response[c] # "none" => request[c] = "taken" /\ session[c] # "handling"
        /\ handled[c] = "refused" => c.key \notin Routable \cap Registered
        /\ handled[c] = "done" => response[c] # "none" \/ broken[c]

\* The agent has opened another connection for the same report.
Replaced(c) ==
    \/ c.report = report[c.key] /\ c.attempt < attempt[c.key]
    \/ \E d \in Conns : ReportOf(d) = ReportOf(c) /\ c.attempt < d.attempt /\ request[d] # "none"

ReplacedInv == \A c \in Conns : Replaced(c) => Lost(c)

\* The agent is done with the report.
Left(c) ==
    \/ c.report < report[c.key]
    \/ c.report = report[c.key] /\ pc[c.key] = "idle"

\* Nothing is stored for c any more, or there is a reason.
Settled(c) ==
    \/ broken[c] \/ result[ReportOf(c)] = "killed"
    \/ session[c] \in {"none", "closed"}
    \/ response[c] # "none"

LeftInv == \A c \in Conns : Left(c) => Settled(c)

AgentInv == AttemptInv /\ SendingInv /\ UnopenedInv /\ ReplacedInv /\ LeftInv

DInv == IInv /\ AnswerInv /\ AgentInv /\ LateRowHasCause

-----------------------------------------------------------------------------
(* Answers.                                                                *)

\* A step that handles nothing and answers nothing.
LEMMA QuietAnswer ==
  ASSUME AnswerInv, Quiet, UNCHANGED response,
         \A c \in Conns : broken[c] => broken'[c]
  PROVE  AnswerInv'
  BY DEF AnswerInv, Quiet, serverVars

LEMMA RefusalAnswer ==
  ASSUME TypeOK, HandlerInv, AnswerInv, NEW c \in Conns, Refusal(c)
  PROVE  AnswerInv'
<1>. USE DEF TypeOK, LinkTypeOK, ServerTypeOK
<1>1. PICK status \in {"notImplemented", "unauthorized"} : Send(c, status)
  BY DEF Refusal, DefaultResource, Unauthorized
<1>2. /\ c.key \notin Routable \cap Registered
      /\ request' = [request EXCEPT ![c] = "taken"]
      /\ handled' = [handled EXCEPT ![c] = "refused"]
      /\ UNCHANGED broken
  BY DEF Refusal, DefaultResource, Unauthorized, TakeRequest
<1>. QED  BY <1>1, <1>2, SendSession DEF AnswerInv

LEMMA EndAnswer ==
  ASSUME TypeOK, HandlerInv, AnswerInv, NEW c \in Conns, HandlerEnd(c)
  PROVE  AnswerInv'
<1>. USE DEF TypeOK, LinkTypeOK, ServerTypeOK
<1>1. session[c] = "handling" /\ request[c] = "taken" /\ response[c] = "none"
  BY DEF HandlerEnd, HandlerInv, AnswerInv
<1>2. c.key \in Routable \cap Registered
  BY <1>1 DEF HandlerInv
<1>3. CASE Throw(c)
  <2>1. Send(c, "none") /\ handled' = [handled EXCEPT ![c] = "threw"] /\ UNCHANGED <<request, broken>>
    BY <1>3 DEF Throw
  <2>. QED  BY <1>1, <2>1, SendSession DEF AnswerInv
<1>4. CASE Created(c)
  <2>1. Send(c, "created") /\ handled' = [handled EXCEPT ![c] = "done"] /\ UNCHANGED <<request, broken>>
    BY <1>4 DEF Created
  <2>2. response'[c] # "none" \/ broken[c]
    BY <2>1 DEF Send
  <2>. QED  BY <1>1, <2>1, <2>2, SendSession DEF AnswerInv
<1>. QED  BY <1>3, <1>4 DEF HandlerEnd

LEMMA NextAnswer ==
  ASSUME IInv, AnswerInv, [Next]_vars
  PROVE  AnswerInv'
<1>. USE DEF IInv
<1>1. ASSUME NEW k \in Keys, AgentStep(k) PROVE AnswerInv'
  <2>1. UNCHANGED <<response, broken>>
    BY <1>1
    DEF AgentStep, AgentNext, Exchange, Collect, Connect, ConnectFails, Write, WriteFails,
        ReadResponse, Reconnect, ReadFails, Kill, ReturnFromSend
  <2>. QED  BY <1>1, <2>1, AgentIsQuiet, QuietAnswer
<1>2. ASSUME NEW c \in Conns, NetworkStep(c) PROVE AnswerInv'
  <2>1. UNCHANGED response /\ \A d \in Conns : broken[d] => broken'[d]
    BY <1>2 DEF NetworkStep, Cut, TypeOK, LinkTypeOK
  <2>. QED  BY <1>2, <2>1, NetworkIsQuiet, QuietAnswer
<1>3. CASE UNCHANGED vars
  BY <1>3, StutterIsQuiet, QuietAnswer DEF vars, linkVars
<1>4. CASE QuietServerStep
  <2>1. UNCHANGED <<response, broken>>
    BY <1>4 DEF QuietServerStep, Restart, Accept, SessionEof, SessionTimeout
  <2>. QED  BY <1>4, <2>1, LoopIsQuiet, QuietAnswer
<1>5. ASSUME NEW c \in Conns, StartHandler(c) PROVE AnswerInv'
  BY <1>5 DEF StartHandler, TakeRequest, InLoop, AnswerInv, HandlerInv, TypeOK, LinkTypeOK
<1>6. ASSUME NEW c \in Conns, Persist(c) \/ SkipEvent(c) \/ SendAlert(c) PROVE AnswerInv'
  BY <1>6 DEF Persist, SkipEvent, SendAlert, linkVars, AnswerInv
<1>7. CASE Die
  BY <1>7 DEF Die, AnswerInv, HandlerInv, TypeOK, LinkTypeOK, ServerTypeOK
<1>8. CASE ServerStep
  <2>1. ASSUME NEW c \in Conns, Loop(c) \/ Handle(c) PROVE AnswerInv'
    <3>1. \/ QuietServerStep \/ Refusal(c) \/ StartHandler(c)
          \/ Persist(c) \/ SkipEvent(c) \/ SendAlert(c) \/ HandlerEnd(c) \/ Die
      BY <2>1
      DEF Loop, Handle, QuietServerStep, Refusal, HandlerEnd, AlertThrows, BadTrigger,
          Created, NullDereference, Firing, Notifying
    <3>. QED  BY <1>4, <1>5, <1>6, <1>7, <3>1, RefusalAnswer, EndAnswer
  <2>2. CASE Crash \/ Restart
    BY <1>4, <1>7, <2>2 DEF Crash, QuietServerStep
  <2>. QED  BY <1>8, <2>1, <2>2 DEF ServerStep, ServerNext
<1>. QED  BY <1>1, <1>2, <1>3, <1>8 DEF Next, Finished

-----------------------------------------------------------------------------
(* What the server and the network do to the agents' connections.          *)

Others == ServerStep \/ (\E c \in Conns : NetworkStep(c)) \/ UNCHANGED vars

\* A connection that is unused stays so, one that is closed stays closed
\* with what was sent on it, and nobody takes an answer back.
LEMMA OthersEffect ==
  ASSUME TypeOK, HandlerInv, AnswerInv, Others, NEW d \in Conns
  PROVE  /\ UNCHANGED agentVars
         /\ request[d] = "none" => request'[d] = "none"
         /\ session[d] = "none" => session'[d] = "none"
         /\ session[d] = "closed" => session'[d] = "closed" /\ response'[d] = response[d]
         /\ response[d] # "none" => response'[d] # "none"
         /\ broken[d] => broken'[d]
<1>. DEFINE Effect == /\ request[d] = "none" => request'[d] = "none"
                      /\ session[d] = "none" => session'[d] = "none"
                      /\ session[d] = "closed" => session'[d] = "closed" /\ response'[d] = response[d]
                      /\ response[d] # "none" => response'[d] # "none"
                      /\ broken[d] => broken'[d]
<1>. USE DEF TypeOK, LinkTypeOK
<1>1. ASSUME NEW c \in Conns, Loop(c) PROVE Effect
  <2>1. CASE Accept(c) \/ SessionEof(c) \/ SessionTimeout(c)
    BY <2>1 DEF Accept, SessionEof, SessionTimeout
  <2>2. CASE Refusal(c)
    <3>1. PICK status : Send(c, status)
      BY <2>2 DEF Refusal, DefaultResource, Unauthorized
    <3>2. /\ session[c] = "reading" /\ request[c] = "sent"
          /\ request' = [request EXCEPT ![c] = "taken"]
          /\ UNCHANGED broken
      BY <2>2 DEF Refusal, DefaultResource, Unauthorized, TakeRequest
    <3>3. response[c] = "none"
      BY <3>2 DEF AnswerInv
    <3>. QED  BY <3>1, <3>2, <3>3, SendSession
  <2>3. CASE StartHandler(c)
    BY <2>3 DEF StartHandler, TakeRequest
  <2>. QED  BY <1>1, <2>1, <2>2, <2>3 DEF Loop, Refusal
<1>2. ASSUME NEW c \in Conns, HandlerEnd(c) PROVE Effect
  <2>1. PICK status : Send(c, status)
    BY <1>2 DEF HandlerEnd, Throw, Created
  <2>2. UNCHANGED <<request, broken>> /\ session[c] = "handling" /\ response[c] = "none"
    BY <1>2 DEF HandlerEnd, Throw, Created, AnswerInv
  <2>. QED  BY <2>1, <2>2, SendSession
<1>3. ASSUME Die PROVE Effect
  BY <1>3 DEF Die
<1>4. ASSUME NEW c \in Conns, Handle(c) PROVE Effect
  <2>1. UNCHANGED linkVars \/ HandlerEnd(c) \/ Die
    BY <1>4 DEF Handle, Persist, SkipEvent, SendAlert, HandlerEnd, AlertThrows, BadTrigger,
                Created, NullDereference, Firing, Notifying
  <2>. QED  BY <1>2, <1>3, <2>1 DEF linkVars
<1>5. ASSUME NEW c \in Conns, NetworkStep(c) PROVE Effect
  BY <1>5 DEF NetworkStep, Cut
<1>6. ASSUME UNCHANGED vars PROVE Effect
  BY <1>6 DEF vars, linkVars
<1>7. Effect
  BY <1>1, <1>3, <1>4, <1>5, <1>6 DEF Others, ServerStep, ServerNext, Crash, Restart
<1>8. UNCHANGED agentVars
  BY DEF Others, ServerStep, NetworkStep, vars
<1>. QED  BY <1>7, <1>8

LEMMA OthersAgent ==
  ASSUME TypeOK, HandlerInv, AnswerInv, AgentInv, Others
  PROVE  AgentInv'
<1>1. UNCHANGED agentVars
  BY DEF Others, ServerStep, NetworkStep, vars
<1>2. AttemptInv' /\ SendingInv' /\ UnopenedInv'
  BY <1>1, OthersEffect DEF AgentInv, AttemptInv, SendingInv, UnopenedInv, Unopened, agentVars
<1>3. ReplacedInv'
  <2>1. ASSUME NEW c \in Conns, Replaced(c)' PROVE Replaced(c)
    BY <1>1, <2>1, OthersEffect DEF Replaced, agentVars
  <2>2. ASSUME NEW c \in Conns, Lost(c) PROVE Lost(c)'
    BY <2>2, OthersEffect DEF Lost
  <2>. QED  BY <2>1, <2>2 DEF AgentInv, ReplacedInv
<1>4. LeftInv'
  <2>1. ASSUME NEW c \in Conns, Settled(c) PROVE Settled(c)'
    BY <1>1, <2>1, OthersEffect DEF Settled, agentVars
  <2>. QED  BY <1>1, <2>1 DEF AgentInv, LeftInv, Left, agentVars
<1>. QED  BY <1>2, <1>3, <1>4 DEF AgentInv

-----------------------------------------------------------------------------
(* What an agent leaves behind.                                            *)

\* send_data returns and leaves each connection of the report for a reason.
LEMMA ReturnAgent ==
  ASSUME TypeOK, AgentInv, NEW k \in Keys, NEW outcome \in {"ok", "failed", "killed"},
         pc[k] # "idle", ReturnFromSend(k, outcome),
         \/ outcome = "killed"
         \/ pc[k] = "connect"
         \/ Lost(Current(k))
         \/ response[Current(k)] # "none"
  PROVE  AgentInv'
<1>. USE DEF AgentInv, ReturnFromSend, TypeOK, AgentTypeOK
<1>1. /\ Current(k) \in Conns /\ ReportOf(Current(k)) = <<k, report[k]>>
      /\ <<k, report[k]>> \in AllReports /\ report[k] \in Reports
  BY CurrentType
<1>2. AttemptInv'
  BY DEF AttemptInv
<1>3. SendingInv'
  <2>1. ASSUME NEW j \in Keys, NEW n \in Reports
        PROVE  <<j, n>> \in AllReports /\ (<<j, n>> = <<k, report[k]>> <=> j = k /\ n = report[k])
    BY DEF AllReports
  <2>2. ASSUME NEW j \in Keys, NEW n \in Reports
        PROVE  n > report'[j] <=> result'[<<j, n>>] = "none"
    BY <1>1, <2>1 DEF SendingInv, Reports
  <2>3. ASSUME NEW j \in Keys, pc'[j] # "idle"
        PROVE  result'[<<j, report'[j]>>] = "sending"
    <3>1. j # k /\ pc[j] # "idle" /\ report[j] \in Reports
      BY <2>3
    <3>. QED  BY <1>1, <2>1, <3>1 DEF SendingInv
  <2>. QED  BY <2>2, <2>3 DEF SendingInv
<1>4. UnopenedInv'
  BY ConnType DEF UnopenedInv, Unopened
<1>5. ReplacedInv'
  BY DEF ReplacedInv, Replaced, Lost
<1>6. LeftInv'
  <2>1. ASSUME NEW c \in Conns, Left(c)' PROVE Settled(c)'
    <3>1. CASE c.key = k /\ c.report = report[k]
      <4>0. ReportOf(c) = <<k, report[k]>>
        BY <3>1 DEF ReportOf
      <4>1. CASE c.attempt < attempt[k]
        BY <3>1, <4>1 DEF ReplacedInv, Replaced, Lost, Settled
      <4>2. CASE c.attempt > attempt[k]
        BY <3>1, <4>2 DEF UnopenedInv, Unopened, Settled
      <4>3. CASE c.attempt = attempt[k]
        <5>1. c = Current(k)
          BY <3>1, <4>3 DEF Conns, Current
        <5>2. CASE outcome = "killed"
          BY <1>1, <4>0, <5>2 DEF Settled
        <5>3. CASE pc[k] = "connect"
          BY <3>1, <4>3, <5>3 DEF UnopenedInv, Unopened, Settled
        <5>4. CASE Lost(Current(k)) \/ response[Current(k)] # "none"
          BY <5>1, <5>4 DEF Lost, Settled
        <5>. QED  BY <5>2, <5>3, <5>4
      <4>. QED  BY <4>1, <4>2, <4>3, ConnType
    <3>2. CASE ~ (c.key = k /\ c.report = report[k])
      <4>1. Left(c)
        BY <2>1, <3>2, ConnType DEF Left
      <4>2. ReportOf(c) # <<k, report[k]>> /\ ReportOf(c) \in AllReports
        BY <3>2, ConnType DEF ReportOf
      <4>. QED  BY <4>1, <4>2 DEF LeftInv, Settled
    <3>. QED  BY <3>1, <3>2
  <2>. QED  BY <2>1 DEF LeftInv
<1>. QED  BY <1>2, <1>3, <1>4, <1>5, <1>6

LEMMA CollectAgent ==
  ASSUME TypeOK, AgentInv, UnusedIsEmpty, NEW k \in Keys, Collect(k)
  PROVE  AgentInv'
<1>. USE DEF AgentInv, Collect, Goto, TypeOK, AgentTypeOK
<1>1. report[k] + 1 \in Reports /\ <<k, report[k] + 1>> \in AllReports
  BY TransportAssumption DEF Reports, AllReports
<1>2. AttemptInv'
  BY DEF AttemptInv
<1>3. SendingInv'
  <2>1. ASSUME NEW j \in Keys, NEW n \in Reports
        PROVE  <<j, n>> \in AllReports /\ (<<j, n>> = <<k, report[k] + 1>> <=> j = k /\ n = report[k] + 1)
    BY DEF AllReports
  <2>2. ASSUME NEW j \in Keys, NEW n \in Reports
        PROVE  n > report'[j] <=> result'[<<j, n>>] = "none"
    <3>1. n \in Nat /\ report[j] \in Nat
      BY DEF Reports
    <3>2. CASE j = k /\ n = report[k] + 1
      BY <1>1, <3>1, <3>2
    <3>3. CASE j = k /\ n # report[k] + 1
      <4>1. n > report[k] + 1 <=> n > report[k]
        BY <3>1, <3>3
      <4>2. result'[<<j, n>>] = result[<<j, n>>]
        BY <1>1, <2>1, <3>3
      <4>. QED  BY <3>3, <4>1, <4>2 DEF SendingInv
    <3>4. CASE j # k
      BY <1>1, <2>1, <3>4 DEF SendingInv
    <3>. QED  BY <3>2, <3>3, <3>4
  <2>3. ASSUME NEW j \in Keys, pc'[j] # "idle"
        PROVE  result'[<<j, report'[j]>>] = "sending"
    <3>1. CASE j = k
      BY <1>1, <3>1
    <3>2. CASE j # k
      <4>1. pc[j] # "idle" /\ report[j] \in Reports
        BY <2>3, <3>2
      <4>. QED  BY <1>1, <2>1, <3>2, <4>1 DEF SendingInv
    <3>. QED  BY <3>1, <3>2
  <2>. QED  BY <2>2, <2>3 DEF SendingInv
<1>4. UnopenedInv'
  BY ConnType DEF UnopenedInv, Unopened
<1>5. ReplacedInv'
  <2>1. ASSUME NEW c \in Conns, Replaced(c)' PROVE Replaced(c)
    BY <2>1, ConnType DEF Replaced
  <2>. QED  BY <2>1 DEF ReplacedInv, Lost
<1>6. LeftInv'
  <2>1. ASSUME NEW c \in Conns, Left(c)' PROVE Left(c) /\ ReportOf(c) # <<k, report[k] + 1>>
    <3>1. CASE c.key = k
      <4>1. c.report < report[k] + 1
        BY <2>1, <3>1 DEF Left
      <4>2. c.report < report[k] \/ c.report = report[k]
        BY <4>1, ConnType
      <4>. QED  BY <3>1, <4>1, <4>2, ConnType DEF Left, ReportOf
    <3>2. CASE c.key # k
      BY <2>1, <3>2, ConnType DEF Left, ReportOf
    <3>. QED  BY <3>1, <3>2
  <2>. QED  BY <2>1, <1>1, ConnType DEF LeftInv, Settled
<1>. QED  BY <1>2, <1>3, <1>4, <1>5, <1>6

LEMMA ConnectAgent ==
  ASSUME TypeOK, AgentInv, UnusedIsEmpty, NEW k \in Keys, Connect(k)
  PROVE  AgentInv'
<1>. USE DEF AgentInv, Connect, Goto, TypeOK, AgentTypeOK, LinkTypeOK
<1>1. Current(k) \in Conns
  BY CurrentType
<1>2. AttemptInv'
  BY DEF AttemptInv
<1>3. SendingInv'
  BY DEF SendingInv
<1>4. UnopenedInv'
  <2>1. ASSUME NEW c \in Conns, Unopened(c)' PROVE Unopened(c) /\ c # Current(k)
    BY <2>1, ConnType DEF Unopened, Current
  <2>. QED  BY <1>1, <2>1 DEF UnopenedInv
<1>5. ReplacedInv'
  <2>1. ASSUME NEW c \in Conns, Replaced(c)' PROVE Replaced(c) /\ c # Current(k)
    <3>1. Replaced(c)
      BY <2>1 DEF Replaced
    <3>2. ASSUME c = Current(k) PROVE FALSE
      <4>1. c.key = k /\ c.report = report[k] /\ c.attempt = attempt[k]
        BY <3>2 DEF Current
      <4>2. PICK d \in Conns : ReportOf(d) = ReportOf(c) /\ c.attempt < d.attempt /\ request[d] # "none"
        BY <3>1, <4>1 DEF Replaced
      <4>3. Unused(d)
        BY <4>1, <4>2, ConnType DEF Unused, ReportOf
      <4>. QED  BY <4>2, <4>3 DEF UnusedIsEmpty
    <3>. QED  BY <3>1, <3>2
  <2>. QED  BY <1>1, <2>1 DEF ReplacedInv, Lost
<1>6. LeftInv'
  <2>1. ASSUME NEW c \in Conns, Left(c)' PROVE Left(c) /\ c # Current(k)
    BY <2>1, ConnType DEF Left, Current
  <2>. QED  BY <1>1, <2>1 DEF LeftInv, Settled
<1>. QED  BY <1>2, <1>3, <1>4, <1>5, <1>6

LEMMA WriteAgent ==
  ASSUME TypeOK, AgentInv, NEW k \in Keys, Write(k)
  PROVE  AgentInv'
<1>. USE DEF AgentInv, Write, Goto, TypeOK, AgentTypeOK, LinkTypeOK
<1>1. /\ Current(k) \in Conns /\ Current(k).attempt = attempt[k]
      /\ Current(k).key = k /\ Current(k).report = report[k]
  BY CurrentType
<1>2. AttemptInv'
  BY <1>1 DEF AttemptInv
<1>3. SendingInv'
  BY DEF SendingInv
<1>4. UnopenedInv'
  BY DEF UnopenedInv, Unopened
<1>5. ReplacedInv'
  <2>1. ASSUME NEW c \in Conns, Replaced(c)' PROVE Replaced(c)
    <3>1. ASSUME NEW d \in Conns, ReportOf(d) = ReportOf(c), c.attempt < d.attempt,
                 request'[d] # "none"
          PROVE  Replaced(c)
      <4>1. CASE d = Current(k)
        BY <1>1, <3>1, <4>1 DEF Replaced, ReportOf
      <4>2. CASE d # Current(k)
        BY <1>1, <3>1, <4>2 DEF Replaced
      <4>. QED  BY <4>1, <4>2
    <3>. QED  BY <2>1, <3>1 DEF Replaced
  <2>. QED  BY <2>1 DEF ReplacedInv, Lost
<1>6. LeftInv'
  BY DEF LeftInv, Left, Settled
<1>. QED  BY <1>2, <1>3, <1>4, <1>5, <1>6

LEMMA ReconnectAgent ==
  ASSUME TypeOK, AgentInv, NEW k \in Keys, Reconnect(k)
  PROVE  AgentInv'
<1>. USE DEF AgentInv, Reconnect, Goto, TypeOK, AgentTypeOK
<1>1. attempt[k] = 1 /\ attempt' = [attempt EXCEPT ![k] = 2]
  <2>1. attempt[k] = 1
    BY DEF AttemptInv
  <2>. QED  BY <2>1
<1>2. AttemptInv'
  BY <1>1 DEF AttemptInv
<1>3. SendingInv'
  BY DEF SendingInv
<1>4. UnopenedInv'
  BY <1>1, ConnType DEF UnopenedInv, Unopened
<1>5. ReplacedInv'
  <2>1. ASSUME NEW c \in Conns, Replaced(c)' PROVE Replaced(c) \/ c = Current(k)
    <3>1. ASSUME c.key = k, c.report = report[k], c.attempt = 1 PROVE c = Current(k)
      BY <1>1, <3>1 DEF Conns, Current
    <3>. QED  BY <1>1, <2>1, <3>1, ConnType DEF Replaced
  <2>. QED  BY <2>1 DEF ReplacedInv, Lost
<1>6. LeftInv'
  BY DEF LeftInv, Left, Settled
<1>. QED  BY <1>2, <1>3, <1>4, <1>5, <1>6

LEMMA AgentAgent ==
  ASSUME TypeOK, AgentInv, UnusedIsEmpty, NEW k \in Keys, AgentNext(k)
  PROVE  AgentInv'
<1>1. CASE ConnectFails(k)
  BY <1>1, ReturnAgent DEF ConnectFails
<1>2. CASE WriteFails(k)
  BY <1>2, ReturnAgent DEF WriteFails
<1>3. CASE ReadResponse(k)
  <2>1. PICK o \in {"ok", "failed"} : ReturnFromSend(k, o)
    BY <1>3 DEF ReadResponse
  <2>. QED  BY <1>3, <2>1, ReturnAgent DEF ReadResponse
<1>4. CASE ReadFails(k)
  BY <1>4, ReturnAgent DEF ReadFails
<1>5. CASE Kill(k)
  BY <1>5, ReturnAgent DEF Kill
<1>. QED
  BY <1>1, <1>2, <1>3, <1>4, <1>5, CollectAgent, ConnectAgent, WriteAgent, ReconnectAgent
  DEF AgentNext, Exchange

-----------------------------------------------------------------------------
(* The order of the rows.                                                  *)

\* What excuses a late row is not forgotten.
LEMMA ExcuseStays ==
  ASSUME TypeOK, HandlerInv, AnswerInv, UnusedIsEmpty, AgentInv, [Next]_vars,
         NEW c \in Conns, broken[c] \/ result[ReportOf(c)] = "killed"
  PROVE  broken'[c] \/ result'[ReportOf(c)] = "killed"
<1>1. CASE Others
  BY <1>1, OthersEffect DEF agentVars
<1>2. ASSUME NEW k \in Keys, AgentStep(k) PROVE broken'[c] \/ result'[ReportOf(c)] = "killed"
  <2>. USE DEF AgentInv, TypeOK, AgentTypeOK
  <2>1. UNCHANGED broken
    BY <1>2
    DEF AgentStep, AgentNext, Exchange, Collect, Connect, ConnectFails, Write, WriteFails,
        ReadResponse, Reconnect, ReadFails, Kill, ReturnFromSend
  <2>2. ASSUME NEW outcome, pc[k] # "idle", ReturnFromSend(k, outcome),
               result[ReportOf(c)] = "killed"
        PROVE  result'[ReportOf(c)] = "killed"
    <3>1. ReportOf(c) # <<k, report[k]>>
      BY <2>2 DEF SendingInv
    <3>. QED  BY <2>2, <3>1, ConnType DEF ReturnFromSend
  <2>3. ASSUME Collect(k), result[ReportOf(c)] = "killed"
        PROVE  result'[ReportOf(c)] = "killed"
    <3>1. report[k] + 1 \in Reports /\ report[k] + 1 > report[k]
      BY <2>3, TransportAssumption DEF Collect, Reports
    <3>2. ReportOf(c) # <<k, report[k] + 1>>
      BY <2>3, <3>1 DEF SendingInv
    <3>. QED  BY <2>3, <3>2, ConnType DEF Collect
  <2>. QED
    BY <1>2, <2>1, <2>2, <2>3
    DEF AgentStep, AgentNext, Exchange, Connect, ConnectFails, Write, WriteFails,
        ReadResponse, Reconnect, ReadFails, Kill, Goto
<1>3. CASE Finished
  BY <1>1, <1>3 DEF Finished, Others
<1>. QED  BY <1>1, <1>2, <1>3 DEF Next, Others

\* A request that is stored when its agent has sent a later report is one
\* whose agent did not wait for the answer.
LEMMA NextLate ==
  ASSUME IInv, AnswerInv, AgentInv, LateRowHasCause, [Next]_vars
  PROVE  LateRowHasCause'
<1>. USE DEF IInv
<1>1. \A i \in DOMAIN db : db[i] \in Conns
  BY DEF TypeOK, ServerTypeOK
<1>2. CASE UNCHANGED db
  BY <1>1, <1>2, ExcuseStays DEF LateRowHasCause
<1>3. ASSUME NEW c \in Conns, Persist(c), db' = Append(db, c) PROVE LateRowHasCause'
  <2>1. /\ DOMAIN db' = 1 .. Len(db) + 1
        /\ \A i \in DOMAIN db : db'[i] = db[i]
        /\ db'[Len(db) + 1] = c
        /\ DOMAIN db = 1 .. Len(db) /\ Len(db) \in Nat
    BY <1>3 DEF TypeOK, ServerTypeOK
  <2>2. session[c] = "handling" /\ response[c] = "none"
    BY <1>3 DEF Persist, AnswerInv
  <2>3. ASSUME NEW i \in DOMAIN db, db[i].key = c.key, db[i].report > c.report
        PROVE  broken[c] \/ result[ReportOf(c)] = "killed"
    <3>1. ~ Unused(db[i])
      BY <1>1 DEF RowsInv, UnusedIsEmpty
    <3>2. c.report < report[c.key]
      BY <1>1, <2>3, <3>1, ConnType DEF Unused, TypeOK, AgentTypeOK
    <3>3. Settled(c)
      BY <3>2 DEF AgentInv, LeftInv, Left
    <3>. QED  BY <2>2, <3>3 DEF Settled
  <2>4. ASSUME NEW i \in DOMAIN db', NEW j \in DOMAIN db', i < j,
               db'[i].key = db'[j].key, db'[i].report > db'[j].report
        PROVE  broken'[db'[j]] \/ result'[ReportOf(db'[j])] = "killed"
    <3>1. i \in DOMAIN db /\ (j \in DOMAIN db \/ db'[j] = c)
      BY <2>1, <2>4
    <3>2. CASE j \in DOMAIN db
      BY <1>1, <2>1, <2>4, <3>1, <3>2, ExcuseStays DEF LateRowHasCause
    <3>3. CASE db'[j] = c
      BY <2>1, <2>3, <2>4, <3>1, <3>3, ExcuseStays
    <3>. QED  BY <3>1, <3>2, <3>3
  <2>. QED  BY <2>4 DEF LateRowHasCause, ReportOf
<1>. QED
  BY <1>2, <1>3
  DEF Next, AgentStep, ServerStep, ServerNext, Loop, Accept, SessionEof, SessionTimeout,
      DefaultResource, Unauthorized, StartHandler, Handle, Persist, SkipEvent, SendAlert,
      AlertThrows, BadTrigger, Created, NullDereference, Throw, Die, Crash, Restart,
      NetworkStep, Finished, vars, serverVars

-----------------------------------------------------------------------------
(* The invariant and what follows from it.                                 *)

LEMMA InitDInv == Init => DInv
<1>. SUFFICES ASSUME Init PROVE DInv
  OBVIOUS
<1>1. IInv
  BY InitIInv
<1>2. AnswerInv /\ LateRowHasCause
  BY DEF Init, LinkInit, ServerInit, AnswerInv, LateRowHasCause
<1>3. AttemptInv /\ UnopenedInv
  BY DEF Init, LinkInit, AgentInit, AttemptInv, UnopenedInv
<1>4. SendingInv
  BY DEF Init, AgentInit, SendingInv, Reports, AllReports
<1>5. ReplacedInv /\ LeftInv
  BY ConnType DEF Init, LinkInit, AgentInit, ReplacedInv, Replaced, LeftInv, Settled
<1>. QED  BY <1>1, <1>2, <1>3, <1>4, <1>5 DEF DInv, AgentInv

LEMMA NextDInv == DInv /\ [Next]_vars => DInv'
<1>. SUFFICES ASSUME DInv, [Next]_vars PROVE DInv'
  OBVIOUS
<1>. USE DEF DInv
<1>1. IInv'
  BY NextIInv
<1>2. AnswerInv'
  BY NextAnswer
<1>3. AgentInv'
  BY AgentAgent, OthersAgent DEF IInv, Next, AgentStep, Others, Finished
<1>4. LateRowHasCause'
  BY NextLate
<1>. QED  BY <1>1, <1>2, <1>3, <1>4

\* The inductive invariant: what each request went through, what the agent has
\* made of it and which of its reports are done (ClientAgent, MonitorServer).
THEOREM DeliveryInvariance == Spec => []DInv
  BY InitDInv, NextDInv, PTL DEF Spec

-----------------------------------------------------------------------------
(* How many rows, and how many handlers, a report has.                     *)

\* What can be numbered with 1 and 2 without repeating has two elements.
LEMMA AtMostTwo ==
  ASSUME NEW S, NEW f \in [S -> 1 .. 2], \A x, y \in S : f[x] = f[y] => x = y
  PROVE  IsFiniteSet(S) /\ Cardinality(S) <= 2
<1>1. f \in Injection(S, 1 .. 2)
  BY DEF Injection, IsInjective
<1>2. IsFiniteSet(1 .. 2) /\ Cardinality(1 .. 2) = 2
  <2>1. IsFiniteSet(1 .. 2) /\ Cardinality(1 .. 2) = IF 1 > 2 THEN 0 ELSE 2 - 1 + 1
    BY FS_Interval, 1 \in Int, 2 \in Int
  <2>. QED  BY <2>1
<1>. QED  BY <1>1, <1>2, FS_Injection

\* A connection is its report and its place in the report's attempts.
LEMMA SameConn ==
  ASSUME NEW c \in Conns, NEW d \in Conns, ReportOf(c) = ReportOf(d), c.attempt = d.attempt
  PROVE  c = d
  BY DEF Conns, ReportOf

CompletedBy(r) == {c \in Via(r) : handled[c] = "done"}

FewRows == \A r \in AllReports : IsFiniteSet(Rows(r)) /\ Cardinality(Rows(r)) <= 2

FewEnds == \A r \in AllReports :
    IsFiniteSet(CompletedBy(r)) /\ Cardinality(CompletedBy(r)) <= 2

LEMMA DInvFew == DInv => FewRows /\ FewEnds
<1>. SUFFICES ASSUME DInv, NEW r \in AllReports
              PROVE  /\ IsFiniteSet(Rows(r)) /\ Cardinality(Rows(r)) <= 2
                     /\ IsFiniteSet(CompletedBy(r)) /\ Cardinality(CompletedBy(r)) <= 2
  BY DEF FewRows, FewEnds
<1>. USE DEF DInv, IInv
<1>1. IsFiniteSet(Rows(r)) /\ Cardinality(Rows(r)) <= 2
  <2>. DEFINE f == [i \in Rows(r) |-> db[i].attempt]
  <2>1. \A i \in Rows(r) : db[i] \in Conns /\ ReportOf(db[i]) = r /\ request[db[i]] = "taken"
    BY DEF Rows, TypeOK, ServerTypeOK, RowsInv
  <2>2. f \in [Rows(r) -> 1 .. 2]
    BY <2>1 DEF AgentInv, AttemptInv
  <2>3. ASSUME NEW i \in Rows(r), NEW j \in Rows(r), f[i] = f[j] PROVE i = j
    <3>1. db[i] = db[j]
      BY <2>1, <2>3, SameConn
    <3>. QED  BY <3>1 DEF Rows, RowsInv, OneRowPerRequest
  <2>. QED  BY <2>2, <2>3, AtMostTwo
<1>2. IsFiniteSet(CompletedBy(r)) /\ Cardinality(CompletedBy(r)) <= 2
  <2>. DEFINE f == [c \in CompletedBy(r) |-> c.attempt]
  <2>1. \A c \in CompletedBy(r) : c \in Conns /\ ReportOf(c) = r /\ request[c] = "taken"
    BY DEF CompletedBy, Via, HandlerInv
  <2>2. f \in [CompletedBy(r) -> 1 .. 2]
    BY <2>1 DEF AgentInv, AttemptInv
  <2>3. ASSUME NEW c \in CompletedBy(r), NEW d \in CompletedBy(r), f[c] = f[d] PROVE c = d
    BY <2>1, <2>3, SameConn
  <2>. QED  BY <2>2, <2>3, AtMostTwo
<1>. QED  BY <1>1, <1>2

\* A report is stored at most twice: its rows come from different requests,
\* and the agent sends at most two, on the first connection and on the one
\* that replaces it.
THEOREM TwoRowsTheorem == Spec => []AtMostTwoRows
<1>1. DInv => AtMostTwoRows
  BY DInvFew DEF FewRows, AtMostTwoRows
<1>. QED  BY <1>1, DeliveryInvariance, PTL

\* The first row of a report that is stored twice stems from a handler that
\* threw or died, or its connection was broken.
THEOREM DuplicateTheorem == Spec => []DuplicateHasCause
<1>1. DInv => DuplicateHasCause
  <2>. SUFFICES ASSUME DInv, NEW i \in DOMAIN db, NEW j \in DOMAIN db,
                       ReportOf(db[i]) = ReportOf(db[j]), db[i].attempt < db[j].attempt,
                       ~ broken[db[i]]
                PROVE  handled[db[i]] \in {"threw", "died"}
    BY DEF DuplicateHasCause
  <2>. USE DEF DInv, IInv
  <2>1. /\ db[i] \in Conns /\ request[db[i]] = "taken"
        /\ db[i].key \in Routable \cap Registered
        /\ db[j] \in Conns /\ request[db[j]] # "none"
    BY DEF TypeOK, ServerTypeOK, RowsInv
  <2>2. Replaced(db[i])
    BY <2>1 DEF Replaced
  <2>3. session[db[i]] = "closed" /\ response[db[i]] = "none"
    BY <2>1, <2>2 DEF AgentInv, ReplacedInv, Lost
  <2>4. handled[db[i]] \notin {"no", "refused", "done"}
    BY <2>1, <2>3 DEF AnswerInv
  <2>. QED  BY <2>1, <2>4 DEF TypeOK, ServerTypeOK
<1>. QED  BY <1>1, DeliveryInvariance, PTL

\* Rows are out of the order of their agent's reports only when the late
\* one's connection was broken or its agent killed.
THEOREM LateTheorem == Spec => []LateRowHasCause
<1>1. DInv => LateRowHasCause
  BY DEF DInv
<1>. QED  BY <1>1, DeliveryInvariance, PTL

-----------------------------------------------------------------------------
(* The refinement.  What ReportDelivery sees of a state.                   *)

VerdictMap == [r \in AllReports |-> Verdict(r)]
DueMap == [r \in AllReports |-> Due(r)]
CopiesMap == [r \in AllReports |-> Cardinality(Rows(r))]
MailedMap == [r \in AllReports |-> {a.rule : a \in {b \in alerts : ReportOf(b.via) = r}}]
CompletedMap == [r \in AllReports |-> Cardinality({c \in Via(r) : handled[c] = "done"})]

deliveryMap == <<VerdictMap, DueMap, CopiesMap, MailedMap, CompletedMap>>

AllRules == UNION {DOMAIN Rules[k] : k \in Registered}

LEMMA SameVerdict == UNCHANGED result => UNCHANGED VerdictMap
  BY DEF VerdictMap, Verdict

LEMMA SameDue == UNCHANGED content => UNCHANGED DueMap
  BY DEF DueMap, Due

LEMMA SameCopies == UNCHANGED db => UNCHANGED CopiesMap
  BY DEF CopiesMap, Rows

LEMMA SameMailed == UNCHANGED alerts => UNCHANGED MailedMap
  BY DEF MailedMap

LEMMA SameCompleted ==
  ASSUME \A c \in Conns : handled'[c] = "done" <=> handled[c] = "done"
  PROVE  UNCHANGED CompletedMap
<1>1. \A r : {c \in Via(r) : handled'[c] = "done"} = {c \in Via(r) : handled[c] = "done"}
  BY DEF Via
<1>. QED  BY <1>1 DEF CompletedMap, Via

LEMMA Unseen ==
  ASSUME UNCHANGED <<result, content, db, alerts>>,
         \A c \in Conns : handled'[c] = "done" <=> handled[c] = "done"
  PROVE  UNCHANGED deliveryMap
  BY SameVerdict, SameDue, SameCopies, SameMailed, SameCompleted DEF deliveryMap

\* send_data returns: the verdict on the report is given.
LEMMA ReturnStep ==
  ASSUME DInv, NEW k \in Keys, pc[k] # "idle", NEW outcome \in {"ok", "failed", "killed"},
         ReturnFromSend(k, outcome), UNCHANGED serverVars,
         outcome = "ok" => response[Current(k)] = "created"
  PROVE  Delivery!Next
<1>. USE DEF DInv, IInv, TypeOK, AgentTypeOK, ReturnFromSend
<1>. DEFINE r == <<k, report[k]>>
<1>1. r \in AllReports /\ Current(k) \in Conns /\ ReportOf(Current(k)) = r
  BY CurrentType
<1>2. VerdictMap[r] = "pending"
  BY <1>1 DEF VerdictMap, Verdict, AgentInv, SendingInv
<1>3. VerdictMap' = [VerdictMap EXCEPT ![r] = IF outcome = "ok" THEN "ok" ELSE "failed"]
  BY <1>1 DEF VerdictMap, Verdict
<1>4. UNCHANGED <<DueMap, CopiesMap, MailedMap, CompletedMap>>
  BY SameDue, SameCopies, SameMailed, SameCompleted DEF serverVars
<1>5. CASE outcome = "ok"
  <2>1. Current(k) \in CompletedBy(r)
    BY <1>1, <1>5 DEF AckInv, CompletedBy, Via
  <2>2. IsFiniteSet(CompletedBy(r))
    BY <1>1, DInvFew DEF FewEnds
  <2>3. Cardinality(CompletedBy(r)) # 0 /\ Cardinality(CompletedBy(r)) \in Nat
    BY <2>1, <2>2, FS_EmptySet, FS_CardinalityType
  <2>4. CompletedMap[r] > 0
    BY <1>1, <2>3 DEF CompletedMap, CompletedBy
  <2>5. Delivery!Confirm(r)
    BY <1>2, <1>3, <1>4, <1>5, <2>4
    DEF Delivery!Confirm, VerdictMap, DueMap, CopiesMap, MailedMap, CompletedMap
  <2>. QED  BY <1>1, <2>5 DEF Delivery!Next
<1>6. CASE outcome # "ok"
  <2>1. Delivery!GiveUp(r)
    BY <1>2, <1>3, <1>4, <1>6
    DEF Delivery!GiveUp, VerdictMap, DueMap, CopiesMap, MailedMap, CompletedMap
  <2>. QED  BY <1>1, <2>1 DEF Delivery!Next
<1>. QED  BY <1>5, <1>6

\* An agent collects a report: it is submitted.
LEMMA CollectStep ==
  ASSUME DInv, NEW k \in Keys, NEW r, r = <<k, report[k] + 1>>,
         Collect(k), UNCHANGED serverVars
  PROVE  Delivery!Next
<1>. USE DEF DInv, IInv, TypeOK, LinkTypeOK, AgentTypeOK, Collect
<1>1. report[k] + 1 \in Reports /\ r \in AllReports /\ report[k] + 1 > report[k]
  BY TransportAssumption DEF Reports, AllReports
<1>2. VerdictMap[r] = "none"
  BY <1>1 DEF VerdictMap, Verdict, AgentInv, SendingInv
<1>3. VerdictMap' = [VerdictMap EXCEPT ![r] = "pending"]
  BY <1>1 DEF VerdictMap, Verdict
<1>4. Due(r)' \in SUBSET AllRules
  BY <1>1 DEF Due, AllRules
<1>5. DueMap' = [DueMap EXCEPT ![r] = Due(r)']
  <2>1. ASSUME NEW q \in AllReports, q # r PROVE Due(q)' = Due(q)
    BY <1>1, <2>1 DEF Due
  <2>. QED  BY <1>1, <2>1 DEF DueMap
<1>6. UNCHANGED <<CopiesMap, MailedMap, CompletedMap>>
  BY SameCopies, SameMailed, SameCompleted DEF serverVars
<1>7. Delivery!Submit(r)
  BY <1>2, <1>3, <1>4, <1>5, <1>6
  DEF Delivery!Submit, AllRules, VerdictMap, DueMap, CopiesMap, MailedMap, CompletedMap
<1>. QED  BY <1>1, <1>7 DEF Delivery!Next

\* A report whose request the server has read has been submitted.
LEMMA TakenIsSubmitted ==
  ASSUME DInv, NEW c \in Conns, request[c] = "taken"
  PROVE  VerdictMap[ReportOf(c)] # "none"
<1>. USE DEF DInv, IInv, TypeOK, AgentTypeOK
<1>1. ~ Unused(c)
  BY DEF UnusedIsEmpty
<1>2. ~ (c.report > report[c.key])
  BY <1>1 DEF Unused
<1>3. result[ReportOf(c)] # "none"
  BY <1>2, ConnType DEF AgentInv, SendingInv, ReportOf
<1>. QED  BY <1>3, ConnType DEF VerdictMap, Verdict

\* write_client_info_db commits the row: the report is stored.
LEMMA StoreStep ==
  ASSUME DInv, FewRows', NEW c \in Conns, Persist(c), db' = Append(db, c), UNCHANGED agentVars
  PROVE  Delivery!Next
<1>. USE DEF DInv, IInv, Persist
<1>. DEFINE r == ReportOf(c)
<1>1. request[c] = "taken" /\ r \in AllReports
  BY ConnType DEF HandlerInv
<1>2. /\ DOMAIN db = 1 .. Len(db) /\ Len(db) \in Nat
      /\ \A i : i \in DOMAIN db' <=> i \in DOMAIN db \/ i = Len(db) + 1
      /\ \A i \in DOMAIN db : db'[i] = db[i]
      /\ db'[Len(db) + 1] = c
      /\ Len(db) + 1 \notin DOMAIN db
  BY DEF TypeOK, ServerTypeOK
<1>. HIDE DEF DInv, Persist
<1>3. \A q \in AllReports : q # r => Rows(q)' = Rows(q)
  BY <1>2 DEF Rows
<1>4. Rows(r)' = Rows(r) \cup {Len(db) + 1} /\ Len(db) + 1 \notin Rows(r)
  BY <1>2 DEF Rows
<1>5. IsFiniteSet(Rows(r)) /\ Cardinality(Rows(r)) \in Nat
  BY <1>1, DInvFew, FS_CardinalityType DEF FewRows, DInv
<1>6. Cardinality(Rows(r)') = Cardinality(Rows(r)) + 1
  BY <1>4, <1>5, FS_AddElement
<1>7. Cardinality(Rows(r)) < 2
  BY <1>1, <1>5, <1>6 DEF FewRows
<1>8. CopiesMap' = [CopiesMap EXCEPT ![r] = @ + 1] /\ CopiesMap[r] < 2
  BY <1>1, <1>3, <1>6, <1>7 DEF CopiesMap
<1>9. UNCHANGED <<VerdictMap, DueMap, MailedMap, CompletedMap>>
  BY SameVerdict, SameDue, SameMailed, SameCompleted DEF Persist, linkVars, agentVars
<1>10. Delivery!Store(r)
  BY <1>1, <1>8, <1>9, TakenIsSubmitted
  DEF Delivery!Store, VerdictMap, DueMap, CopiesMap, MailedMap, CompletedMap
<1>. QED  BY <1>1, <1>10 DEF Delivery!Next

\* A mail of the running handler is for a rule the report satisfies.
LEMMA MailStep ==
  ASSUME DInv, NEW c \in Conns, SendAlert(c), UNCHANGED agentVars
  PROVE  Delivery!Next
<1>. DEFINE r == ReportOf(c)
<1>1. c.key \in Registered /\ r \in AllReports /\ r[1] = c.key
  BY ConnType DEF DInv, IInv, HandlerInv, SendAlert, Firing, Notifying, ReportOf
<1>2. event \in DueMap[r]
  BY <1>1 DEF SendAlert, Firing, AtRule, RuleOf, Body, DueMap, Due
<1>3. MailedMap' = [MailedMap EXCEPT ![r] = @ \cup {event}]
  <2>1. alerts' = alerts \cup {[via |-> c, rule |-> event]}
    BY DEF SendAlert
  <2>2. \A q \in AllReports : q # r => MailedMap'[q] = MailedMap[q]
    BY <2>1 DEF MailedMap
  <2>3. MailedMap'[r] = MailedMap[r] \cup {event}
    <3>. DEFINE mail == [via |-> c, rule |-> event]
                mails == {b \in alerts : ReportOf(b.via) = r}
    <3>1. {b \in alerts' : ReportOf(b.via) = r} = mails \cup {mail}
      BY <2>1
    <3>2. mail.rule = event
      OBVIOUS
    <3>. HIDE DEF mail, mails
    <3>3. {a.rule : a \in mails \cup {mail}} = {a.rule : a \in mails} \cup {event}
      BY <3>2
    <3>. QED  BY <1>1, <3>1, <3>3 DEF MailedMap, mails
  <2>. QED  BY <1>1, <2>2, <2>3 DEF MailedMap
<1>4. UNCHANGED <<VerdictMap, DueMap, CopiesMap, CompletedMap>>
  BY SameVerdict, SameDue, SameCopies, SameCompleted DEF SendAlert, linkVars, agentVars
<1>5. Delivery!Mail(r)
  BY <1>2, <1>3, <1>4
  DEF Delivery!Mail, VerdictMap, DueMap, CopiesMap, MailedMap, CompletedMap
<1>. QED  BY <1>1, <1>5 DEF Delivery!Next

\* The handler ends with 201: the report is completed once more.
LEMMA CompleteStep ==
  ASSUME DInv, FewEnds', NEW c \in Conns, Created(c), UNCHANGED agentVars
  PROVE  Delivery!Next
<1>. DEFINE r == ReportOf(c)
<1>1. /\ session[c] = "handling" /\ request[c] = "taken" /\ handled[c] = "no"
      /\ c.key \in Registered /\ r \in AllReports /\ r[1] = c.key
      /\ c \in Via(r)
  BY ConnType DEF DInv, IInv, HandlerInv, Created, Notifying, ReportOf, Via
<1>2. /\ handled' = [handled EXCEPT ![c] = "done"]
      /\ UNCHANGED <<content, db, alerts, result>>
  BY DEF Created, agentVars
<1>3. DueMap[r] \subseteq MailedMap[r]
  <2>1. \A i \in DOMAIN RuleOf(c) : i < event
    <3>1. /\ RuleOf(c) \in Seq(RuleKinds) /\ event \in Nat \ {0}
          /\ event \notin DOMAIN RuleOf(c)
      BY <1>1, RulesType DEF Created, DInv, IInv, TypeOK, ServerTypeOK
    <3>. QED  BY <3>1
  <2>2. \A i \in DueRules(c) : Mailed(c, i)
    BY <1>1, <2>1 DEF DInv, IInv, NotifyInv, Passed, DueRules
  <2>3. DueMap[r] = DueRules(c)
    BY <1>1 DEF DueMap, Due, DueRules, RuleOf, Body
  <2>4. ASSUME NEW i \in DueRules(c) PROVE i \in MailedMap[r]
    <3>1. [via |-> c, rule |-> i] \in {b \in alerts : ReportOf(b.via) = r}
      BY <2>2, <2>4 DEF Mailed
    <3>. QED  BY <1>1, <3>1 DEF MailedMap
  <2>. QED  BY <2>3, <2>4
<1>4. CompletedMap' = [CompletedMap EXCEPT ![r] = @ + 1] /\ CompletedMap[r] < 2
  <2>1. handled \in [Conns -> {"no", "refused", "done", "threw", "died"}]
    BY DEF DInv, IInv, TypeOK, ServerTypeOK
  <2>2. \A q \in AllReports : q # r => CompletedBy(q)' = CompletedBy(q)
    BY <1>2, <2>1 DEF CompletedBy, Via
  <2>3. CompletedBy(r)' = CompletedBy(r) \cup {c} /\ c \notin CompletedBy(r)
    BY <1>1, <1>2, <2>1 DEF CompletedBy, Via
  <2>4. IsFiniteSet(CompletedBy(r)) /\ Cardinality(CompletedBy(r)) \in Nat
    BY <1>1, DInvFew, FS_CardinalityType DEF FewEnds
  <2>5. Cardinality(CompletedBy(r)') = Cardinality(CompletedBy(r)) + 1
    BY <2>3, <2>4, FS_AddElement
  <2>6. Cardinality(CompletedBy(r)) < 2
    BY <1>1, <2>4, <2>5 DEF FewEnds
  <2>. QED  BY <1>1, <2>2, <2>5, <2>6 DEF CompletedMap, CompletedBy
<1>5. UNCHANGED <<VerdictMap, DueMap, CopiesMap, MailedMap>>
  BY <1>2, SameVerdict, SameDue, SameCopies, SameMailed
<1>6. VerdictMap[r] # "none"
  BY <1>1, TakenIsSubmitted
<1>7. Delivery!Complete(r)
  BY <1>3, <1>4, <1>5, <1>6
  DEF Delivery!Complete, VerdictMap, DueMap, CopiesMap, MailedMap, CompletedMap
<1>. QED  BY <1>1, <1>7 DEF Delivery!Next

LEMMA AgentDelivery ==
  ASSUME DInv, NEW k \in Keys, AgentStep(k)
  PROVE  Delivery!Next \/ UNCHANGED deliveryMap
<1>1. UNCHANGED serverVars
  BY DEF AgentStep
<1>2. CASE Connect(k) \/ Write(k) \/ Reconnect(k)
  BY <1>1, <1>2, Unseen DEF Connect, Write, Reconnect, serverVars
<1>3. CASE ReadResponse(k)
  <2>1. PICK o \in {"ok", "failed"} :
          ReturnFromSend(k, o) /\ (o = "ok" => response[Current(k)] = "created")
    BY <1>3 DEF ReadResponse
  <2>. QED  BY <1>1, <1>3, <2>1, ReturnStep DEF ReadResponse
<1>4. CASE ConnectFails(k) \/ WriteFails(k) \/ ReadFails(k)
  BY <1>1, <1>4, ReturnStep DEF ConnectFails, WriteFails, ReadFails
<1>5. CASE Kill(k)
  BY <1>1, <1>5, ReturnStep DEF Kill
<1>. QED
  BY <1>1, <1>2, <1>3, <1>4, <1>5, CollectStep DEF AgentStep, AgentNext, Exchange

LEMMA ServerDelivery ==
  ASSUME DInv, FewRows', FewEnds', ServerStep
  PROVE  Delivery!Next \/ UNCHANGED deliveryMap
<1>. USE DEF DInv, IInv, TypeOK, ServerTypeOK
<1>1. UNCHANGED agentVars /\ UNCHANGED result
  BY DEF ServerStep, agentVars
<1>2. ASSUME Die PROVE UNCHANGED deliveryMap
  <2>1. \A c \in Conns : handled'[c] = "done" <=> handled[c] = "done"
    BY <1>2 DEF Die, HandlerInv
  <2>. QED  BY <1>1, <1>2, <2>1, Unseen DEF Die
<1>3. ASSUME NEW c \in Conns, Throw(c), session[c] = "handling" PROVE UNCHANGED deliveryMap
  <2>1. \A d \in Conns : handled'[d] = "done" <=> handled[d] = "done"
    BY <1>3 DEF Throw, HandlerInv
  <2>. QED  BY <1>1, <1>3, <2>1, Unseen DEF Throw
<1>4. ASSUME NEW c \in Conns, Loop(c) PROVE UNCHANGED deliveryMap
  <2>1. \A d \in Conns : handled'[d] = "done" <=> handled[d] = "done"
    BY <1>4
    DEF Loop, Accept, SessionEof, SessionTimeout, DefaultResource, Unauthorized,
        StartHandler, TakeRequest, HandlerInv, serverVars
  <2>2. UNCHANGED <<content, db, alerts>>
    BY <1>4
    DEF Loop, Accept, SessionEof, SessionTimeout, DefaultResource, Unauthorized,
        StartHandler, serverVars
  <2>. QED  BY <1>1, <2>1, <2>2, Unseen
<1>5. ASSUME NEW c \in Conns, Persist(c) PROVE Delivery!Next \/ UNCHANGED deliveryMap
  BY <1>1, <1>5, StoreStep, Unseen DEF Persist, linkVars
<1>6. ASSUME NEW c \in Conns, SkipEvent(c) PROVE UNCHANGED deliveryMap
  BY <1>1, <1>6, Unseen DEF SkipEvent, linkVars
<1>7. CASE Restart
  BY <1>1, <1>7, Unseen DEF Restart, serverVars
<1>. QED
  BY <1>1, <1>2, <1>3, <1>4, <1>5, <1>6, <1>7, MailStep, CompleteStep
  DEF ServerStep, ServerNext, Crash, Handle, AlertThrows, BadTrigger, NullDereference,
      Firing, Notifying

\* Monitoring implements ReportDelivery: every step of the agents, the server
\* and the network is, seen through deliveryMap, one of its steps or none.
THEOREM DeliveryTheorem == Spec => DeliverySpec
<1>1. Init => Delivery!Init
  <2>. SUFFICES ASSUME Init PROVE Delivery!Init
    OBVIOUS
  <2>1. \A r \in AllReports : Verdict(r) = "none" /\ Due(r) = {}
    BY DEF Init, LinkInit, AgentInit, Verdict, Due
  <2>2. \A r \in AllReports : Rows(r) = {} /\ {c \in Via(r) : handled[c] = "done"} = {}
    BY DEF Init, ServerInit, Rows, Via
  <2>3. \A r \in AllReports : {a.rule : a \in {b \in alerts : ReportOf(b.via) = r}} = {}
    BY DEF Init, ServerInit
  <2>. QED  BY <2>1, <2>2, <2>3, FS_EmptySet DEF Delivery!Init
<1>2. DInv => FewRows /\ FewEnds
  BY DInvFew
<1>3. DInv /\ FewRows' /\ FewEnds' /\ [Next]_vars => [Delivery!Next]_deliveryMap
  <2>. SUFFICES ASSUME DInv, FewRows', FewEnds', [Next]_vars
                PROVE  Delivery!Next \/ UNCHANGED deliveryMap
    OBVIOUS
  <2>1. ASSUME NEW c \in Conns, NetworkStep(c) PROVE UNCHANGED deliveryMap
    BY <2>1, Unseen DEF NetworkStep, Cut, agentVars, serverVars
  <2>2. ASSUME UNCHANGED vars PROVE UNCHANGED deliveryMap
    BY <2>2, Unseen DEF vars, linkVars, agentVars, serverVars
  <2>. QED  BY <2>1, <2>2, AgentDelivery, ServerDelivery DEF Next, Finished
<1>. QED
  BY <1>1, <1>2, <1>3, DeliveryInvariance, PTL
  DEF Spec, DeliverySpec, Delivery!Spec, Delivery!deliveryVars, deliveryMap,
      VerdictMap, DueMap, CopiesMap, MailedMap, CompletedMap

=============================================================================
