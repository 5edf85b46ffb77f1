------------------------------ MODULE HttpServer ------------------------------
(***************************************************************************)
(* SimpleWeb::Server<HTTP> (server_http.hpp) as a library: connections     *)
(* that are accepted, read, handled, answered and read again by a pool of  *)
(* threads that run one io_service, the timers that close them, stop(),    *)
(* start() again and the destructor.  A completion handler is one step but *)
(* for the resource function, which takes its time.  What a client sends   *)
(* is given; it may send a request before the last one is answered.        *)
(***************************************************************************)
EXTENDS Naturals, Sequences, FiniteSets

CONSTANTS
    Conns,      \* connections clients may open
    Programs    \* the programs that use the library, and their clients

\* A request arrives in one piece ("whole") or its content after its header
\* ("split"), does not parse ("bad") or fills the streambuf ("large").
Request == [form : {"whole", "split", "bad", "large"},
            route : {"resource", "none", "upgrade"}, keep : BOOLEAN]

ASSUME HttpServerAssumption ==
    /\ IsFiniteSet(Conns)
    /\ \A p \in Programs : /\ DOMAIN p.Sends \subseteq Conns /\ p.Sends \in [DOMAIN p.Sends -> Seq(Request)]
                           /\ p.PoolSize \in Nat \ {0} /\ p.MaxStarts \in Nat
                           /\ p.Internal \in BOOLEAN /\ p.Pipelines \in BOOLEAN

VARIABLES
    program,      \* which program it is: this never changes
    starts,       \* calls of start()
    running,      \* the io_service runs handlers
    acceptor,     \* the acceptor is open
    accepts,      \* calls of async_accept without a connection: that wait, and
                  \* that ended with operation_aborted or with bad_descriptor
    stopping,     \* stop(): "no", "acceptor" or "connections" (what has been
                  \* closed so far), "returned"
    destructor,   \* "no", "closed" (handler_runner is stopped), "done"
    socket,       \* of each connection: "none", "backlog", "open", "closed"
    life,         \* of each Connection object: "none", "live", "erased", "deleted"
    connections,  \* the set of raw pointers to them
    op,           \* what the session waits for: "none", "accept", "read",
                  \* "content", "function" (the resource function), "write"
    done,         \* that operation's result: "pending", "ok" or "error"
    timer,        \* connections whose timer runs
    fired,        \* connections whose timer's handler is queued: it can no
                  \* longer be cancelled
    inbox,        \* of each socket, pieces of requests that have arrived
    taken,        \* pieces in the streambuf of a read that has completed
    sent,         \* requests each client has sent
    request,      \* the request of each connection's session, 0 if none
    handled,      \* requests of each connection given to a function, in order
    answers,      \* responses each client has received: the request's number
    left,         \* connections whose client has closed its end
    upgraded      \* connections given away to on_upgrade

ioVars     == <<starts, running, acceptor, accepts>>
stopVars   == <<stopping, destructor>>
connVars   == <<socket, life, connections>>
opVars     == <<op, done, timer, fired, taken, request>>
clientVars == <<inbox, sent, answers, left>>
vars == <<program, ioVars, stopVars, connVars, opVars, clientVars, handled, upgraded>>

Sends     == program.Sends       \* the connections that are opened, and what is sent on each
PoolSize  == program.PoolSize    \* config.thread_pool_size
Internal  == program.Internal    \* the server made its io_service itself
Pipelines == program.Pipelines   \* a client may send before it has the last answer
MaxStarts == program.MaxStarts   \* bound: calls of start()

Init ==
    /\ program \in Programs
    /\ starts = 0 /\ running = FALSE /\ acceptor = FALSE
    /\ accepts = [pending |-> 0, aborted |-> 0, bad |-> 0]
    /\ stopping = "no" /\ destructor = "no"
    /\ socket = [c \in Conns |-> "none"]
    /\ life = [c \in Conns |-> "none"]
    /\ connections = {} /\ upgraded = {} /\ left = {}
    /\ op = [c \in Conns |-> "none"]
    /\ done = [c \in Conns |-> "pending"]
    /\ timer = {} /\ fired = {}
    /\ inbox = [c \in Conns |-> << >>]
    /\ taken = [c \in Conns |-> << >>]
    /\ sent = [c \in Conns |-> 0]
    /\ request = [c \in Conns |-> 0]
    /\ handled = [c \in Conns |-> << >>]
    /\ answers = [c \in Conns |-> << >>]

-----------------------------------------------------------------------------
\* The clients and the network.

\* A connection is made: it waits until it is accepted.
Arrive(c) ==
    /\ acceptor /\ c \in DOMAIN Sends /\ socket[c] = "none"
    /\ socket' = [socket EXCEPT ![c] = "backlog"]
    /\ UNCHANGED <<ioVars, stopVars, life, connections, opVars, clientVars, handled, upgraded>>

Pieces(c, n) == IF Sends[c][n].form = "split" THEN <<[of |-> n, part |-> "header"],
                                                     [of |-> n, part |-> "content"]>>
                                              ELSE <<[of |-> n, part |-> "all"]>>

ClientSends(c) ==
    /\ socket[c] \in {"backlog", "open"} /\ c \notin left \cup upgraded
    /\ sent[c] < Len(Sends[c]) /\ (Pipelines \/ Len(answers[c]) = sent[c])
    /\ sent' = [sent EXCEPT ![c] = @ + 1]
    /\ inbox' = [inbox EXCEPT ![c] = @ \o Pieces(c, sent[c] + 1)]
    /\ UNCHANGED <<ioVars, stopVars, connVars, opVars, answers, left, handled, upgraded>>

ClientLeaves(c) ==
    /\ socket[c] \in {"backlog", "open"} /\ c \notin left \cup upgraded
    /\ left' = left \cup {c}
    /\ UNCHANGED <<ioVars, stopVars, connVars, opVars, inbox, sent, answers, handled, upgraded>>

-----------------------------------------------------------------------------
\* The io_service: operations complete and timers expire.

\* Mutant: a connection is put into the set when its accept handler runs.
AcceptCompletes_Unlisted(c) ==
    /\ running /\ accepts.pending > 0 /\ socket[c] = "backlog"
    /\ accepts' = [accepts EXCEPT !.pending = @ - 1]
    /\ socket' = [socket EXCEPT ![c] = "open"]
    /\ life' = [life EXCEPT ![c] = "live"]
    /\ op' = [op EXCEPT ![c] = "accept"]
    /\ done' = [done EXCEPT ![c] = "ok"]
    /\ UNCHANGED <<starts, running, acceptor, stopVars, connections, timer, fired, taken,
                   request, clientVars, handled, upgraded>>

\* The Connection, made by create_connection for this async_accept, gets its
\* socket; it has been in the set of connections from the start.
AcceptCompletes(c) ==
    /\ running /\ accepts.pending > 0 /\ socket[c] = "backlog"
    /\ accepts' = [accepts EXCEPT !.pending = @ - 1]
    /\ socket' = [socket EXCEPT ![c] = "open"]
    /\ life' = [life EXCEPT ![c] = "live"]
    /\ connections' = connections \cup {c}
    /\ op' = [op EXCEPT ![c] = "accept"]
    /\ done' = [done EXCEPT ![c] = "ok"]
    /\ UNCHANGED <<starts, running, acceptor, stopVars, timer, fired, taken, request,
                   clientVars, handled, upgraded>>

Completes(c, kind, result) ==
    /\ running /\ op[c] = kind /\ done[c] = "pending"
    /\ done' = [done EXCEPT ![c] = result]
    /\ UNCHANGED <<ioVars, stopVars, connVars, op, timer, fired, request, sent, left, handled,
                   upgraded>>

\* async_read_until takes a header and what else has arrived, async_read the
\* content and nothing else.
ReadCompletes(c, kind) ==
    /\ socket[c] = "open" /\ inbox[c] # << >>
    /\ \E k \in IF kind = "read" THEN 1 .. Len(inbox[c]) ELSE {1} :
         /\ taken' = [taken EXCEPT ![c] = SubSeq(inbox[c], 1, k)]
         /\ inbox' = [inbox EXCEPT ![c] = SubSeq(inbox[c], k + 1, Len(inbox[c]))]
    /\ Completes(c, kind, "ok")
    /\ UNCHANGED answers

WriteCompletes(c) ==
    /\ socket[c] = "open"
    /\ Completes(c, "write", "ok")
    /\ answers' = [answers EXCEPT ![c] = Append(@, request[c])]
    /\ UNCHANGED <<taken, inbox>>

\* The socket is closed, or its peer has closed it.
Fails(c, kind) ==
    /\ \/ socket[c] = "closed"
       \/ c \in left /\ (kind = "write" \/ inbox[c] = << >>)
    /\ Completes(c, kind, "error")
    /\ UNCHANGED <<taken, inbox, answers>>

TimerFires(c) ==
    /\ running /\ c \in timer
    /\ timer' = timer \ {c}
    /\ fired' = fired \cup {c}
    /\ UNCHANGED <<ioVars, stopVars, connVars, op, done, taken, request, clientVars, handled,
                   upgraded>>

-----------------------------------------------------------------------------
\* The completion handlers.

\* A thread of the pool is free to run one.
Free == running /\ Cardinality({c \in Conns : op[c] = "function"}) < PoolSize

\* continue_lock() gives a lock.
Lock == destructor = "no"

Ended(c, kind) == Free /\ op[c] = kind /\ done[c] # "pending"

\* The session is dropped, and with it its hold on the connection.
Drop(c) ==
    /\ op' = [op EXCEPT ![c] = "none"]
    /\ done' = [done EXCEPT ![c] = "pending"]
    /\ taken' = [taken EXCEPT ![c] = << >>]
    /\ request' = [request EXCEPT ![c] = 0]

\* An operation starts, with its timer: read_request_and_content, the rest of
\* the content, Response::send.
Begin(c, kind, n) ==
    /\ op' = [op EXCEPT ![c] = kind]
    /\ done' = [done EXCEPT ![c] = "pending"]
    /\ taken' = [taken EXCEPT ![c] = << >>]
    /\ request' = [request EXCEPT ![c] = n]
    /\ timer' = timer \cup {c}

\* accept(): async_accept on a closed acceptor ends with bad_descriptor.
accept == accepts' = IF acceptor THEN [accepts EXCEPT !.pending = @ + 1]
                                 ELSE [accepts EXCEPT !.bad = @ + 1]

AcceptHandler(c) ==
    /\ Ended(c, "accept")
    /\ IF Lock THEN accept /\ Begin(c, "read", 0)
               ELSE Drop(c) /\ UNCHANGED <<accepts, timer>>
    /\ UNCHANGED <<starts, running, acceptor, stopVars, connVars, fired, clientVars, handled,
                   upgraded>>

\* An async_accept that ended with operation_aborted is the last one.
AcceptAborted ==
    /\ Free /\ accepts.aborted > 0
    /\ accepts' = [accepts EXCEPT !.aborted = @ - 1]
    /\ UNCHANGED <<starts, running, acceptor, stopVars, connVars, opVars, clientVars, handled,
                   upgraded>>

\* Any other error is followed by another accept().
AcceptFailed ==
    /\ Free /\ accepts.bad > 0
    /\ accepts' = IF Lock /\ ~ acceptor THEN accepts
                  ELSE [accepts EXCEPT !.bad = @ - 1, !.pending = @ + IF Lock THEN 1 ELSE 0]
    /\ UNCHANGED <<starts, running, acceptor, stopVars, connVars, opVars, clientVars, handled,
                   upgraded>>

\* find_resource and write_response up to the call of the function, or the
\* session is dropped because there is none for this method and path.
find_resource(c, n) ==
    LET route == Sends[c][n].route IN
    /\ upgraded' = IF route = "upgrade" THEN upgraded \cup {c} ELSE upgraded
    /\ connections' = IF route = "upgrade" THEN connections \ {c} ELSE connections
    /\ IF route = "resource"
       THEN Begin(c, "function", n) /\ handled' = [handled EXCEPT ![c] = Append(@, n)]
       ELSE Drop(c) /\ timer' = timer \ {c} /\ UNCHANGED handled

\* Mutant: the handler of a read does not look at the ScopeRunner.
ReadHandler_Unlocked(c) ==
    /\ Ended(c, "read") /\ done[c] = "ok"
    /\ Sends[c][taken[c][1].of].form = "whole"
    /\ find_resource(c, taken[c][1].of)
    /\ UNCHANGED <<ioVars, stopVars, socket, life, fired, clientVars>>

\* The handler of async_read_until.  What was read beyond the request goes
\* with the session's streambuf, and content without its header is no request.
ReadHandler(c) ==
    /\ Ended(c, "read")
    /\ LET n == taken[c][1].of
           form == Sends[c][n].form
       IN  IF Lock /\ done[c] = "ok" /\ form # "bad" /\ taken[c][1].part # "content"
           THEN IF form = "whole" \/ (form = "split" /\ Len(taken[c]) > 1)
                THEN find_resource(c, n)
                ELSE /\ Begin(c, IF form = "large" THEN "write" ELSE "content", n)
                     /\ UNCHANGED <<connections, handled, upgraded>>
           ELSE Drop(c) /\ timer' = timer \ {c} /\ UNCHANGED <<connections, handled, upgraded>>
    /\ UNCHANGED <<ioVars, stopVars, socket, life, fired, clientVars>>

\* The handler of the async_read for the rest of the content.
ContentHandler(c) ==
    /\ Ended(c, "content")
    /\ IF Lock /\ done[c] = "ok" THEN find_resource(c, request[c])
       ELSE Drop(c) /\ timer' = timer \ {c} /\ UNCHANGED <<connections, handled, upgraded>>
    /\ UNCHANGED <<ioVars, stopVars, socket, life, fired, clientVars>>

\* The resource function ends and lets go of the response, whose deleter sends.
FunctionReturns(c) ==
    /\ op[c] = "function"
    /\ Begin(c, "write", request[c])
    /\ UNCHANGED <<ioVars, stopVars, connVars, fired, clientVars, handled, upgraded>>

\* It throws: nothing is sent, which succeeds on any socket.
FunctionThrows(c) ==
    /\ op[c] = "function"
    /\ op' = [op EXCEPT ![c] = "write"]
    /\ done' = [done EXCEPT ![c] = "ok"]
    /\ timer' = timer \cup {c}
    /\ UNCHANGED <<ioVars, stopVars, connVars, fired, taken, request, clientVars, handled,
                   upgraded>>

\* Mutant: the connection is read again with the session, and the streambuf,
\* of the request that has been answered.
WriteHandler_SameSession(c) ==
    /\ Ended(c, "write")
    /\ op' = [op EXCEPT ![c] = "read"]
    /\ taken' = [taken EXCEPT ![c] = Pieces(c, request[c])]
    /\ timer' = timer \cup {c}
    /\ UNCHANGED <<ioVars, stopVars, connVars, done, fired, request, clientVars, handled,
                   upgraded>>

\* Mutant: no timer runs for the read that follows.
WriteHandler_NoTimer(c) ==
    /\ Ended(c, "write")
    /\ op' = [op EXCEPT ![c] = "read"]
    /\ done' = [done EXCEPT ![c] = "pending"]
    /\ taken' = [taken EXCEPT ![c] = << >>]
    /\ request' = [request EXCEPT ![c] = 0]
    /\ timer' = timer \ {c}
    /\ UNCHANGED <<ioVars, stopVars, connVars, fired, clientVars, handled, upgraded>>

\* The handler of the write: the connection is kept, with a new session, or
\* dropped; after a 413, which has no deleter, it is dropped.
WriteHandler(c) ==
    /\ Ended(c, "write")
    /\ IF Lock /\ done[c] = "ok" /\ Sends[c][request[c]].form # "large"
                    /\ Sends[c][request[c]].keep
       THEN Begin(c, "read", 0)
       ELSE Drop(c) /\ timer' = timer \ {c}
    /\ UNCHANGED <<ioVars, stopVars, connVars, fired, clientVars, handled, upgraded>>

\* The handler of a timer that has expired: Connection::close().
TimerHandler(c) ==
    /\ Free /\ c \in fired
    /\ fired' = fired \ {c}
    /\ socket' = IF socket[c] = "open" THEN [socket EXCEPT ![c] = "closed"] ELSE socket
    /\ UNCHANGED <<ioVars, stopVars, life, connections, op, done, timer, taken, request,
                   clientVars, handled, upgraded>>

\* Mutant: the deleter does not take the Connection out of the set.
Erase_Forgotten(c) ==
    /\ life[c] = "live" /\ op[c] = "none" /\ c \notin timer \cup fired
    /\ life' = [life EXCEPT ![c] = "erased"]
    /\ UNCHANGED <<ioVars, stopVars, socket, connections, opVars, clientVars, handled, upgraded>>

\* Nobody holds the Connection any more: its deleter takes it out of the set
\* and then, without the mutex, deletes it and its socket.
Erase(c) ==
    /\ life[c] = "live" /\ op[c] = "none" /\ c \notin timer \cup fired
    /\ connections' = connections \ {c}
    /\ life' = [life EXCEPT ![c] = "erased"]
    /\ UNCHANGED <<ioVars, stopVars, socket, opVars, clientVars, handled, upgraded>>

Delete(c) ==
    /\ life[c] = "erased"
    /\ life' = [life EXCEPT ![c] = "deleted"]
    /\ socket' = IF c \in upgraded THEN socket ELSE [socket EXCEPT ![c] = "closed"]
    /\ UNCHANGED <<ioVars, stopVars, connections, opVars, clientVars, handled, upgraded>>

-----------------------------------------------------------------------------
\* start(), stop() and the destructor, called by a thread of the program.

start ==
    /\ starts < MaxStarts /\ ~ acceptor /\ Lock /\ stopping \in {"no", "returned"}
    /\ Internal => \A c \in Conns : op[c] # "function"
    /\ starts' = starts + 1
    /\ running' = TRUE /\ acceptor' = TRUE /\ stopping' = "no"
    /\ accepts' = [accepts EXCEPT !.pending = @ + 1]
    /\ UNCHANGED <<destructor, connVars, opVars, clientVars, handled, upgraded>>

\* stop(): acceptor->close().  Connections nobody has accepted are reset.
CloseAcceptor ==
    /\ starts > 0
    /\ stopping \in (IF Lock THEN {"no"} ELSE {"no", "returned"}) /\ destructor # "done"
    /\ acceptor' = FALSE
    /\ accepts' = [accepts EXCEPT !.pending = 0, !.aborted = @ + accepts.pending]
    /\ socket' = [c \in Conns |-> IF socket[c] = "backlog" THEN "closed" ELSE socket[c]]
    /\ stopping' = "acceptor"
    /\ UNCHANGED <<starts, running, destructor, life, connections, opVars, clientVars, handled,
                   upgraded>>

\* With the mutex held: every connection in the set is closed.
CloseConnections ==
    /\ stopping = "acceptor"
    /\ socket' = [c \in Conns |-> IF c \in connections /\ socket[c] = "open"
                                  THEN "closed" ELSE socket[c]]
    /\ connections' = {}
    /\ stopping' = "connections"
    /\ UNCHANGED <<ioVars, destructor, life, opVars, clientVars, handled, upgraded>>

\* An io_service of the program's own goes on.
StopIoService ==
    /\ stopping = "connections"
    /\ stopping' = "returned"
    /\ running' = (running /\ ~ Internal)
    /\ destructor' = IF destructor = "closed" THEN "done" ELSE destructor
    /\ UNCHANGED <<starts, acceptor, accepts, connVars, opVars, clientVars, handled, upgraded>>

\* ~ServerBase(): handler_runner->stop() waits for the handlers that hold a
\* lock.  Then it calls stop().
Destroy ==
    /\ Lock /\ stopping \in {"no", "returned"}
    /\ \A c \in Conns : op[c] # "function"
    /\ Internal => ~ running
    /\ destructor' = IF starts > 0 THEN "closed" ELSE "done"
    /\ UNCHANGED <<ioVars, stopping, connVars, opVars, clientVars, handled, upgraded>>

-----------------------------------------------------------------------------
ClientStep(c) == Arrive(c) \/ ClientSends(c) \/ ClientLeaves(c)

IoStep(c) ==
    \/ AcceptCompletes(c) \/ WriteCompletes(c)
    \/ \E kind \in {"read", "content"} : ReadCompletes(c, kind)
    \/ \E kind \in {"read", "content", "write"} : Fails(c, kind)

Handler(c) ==
    \/ AcceptHandler(c) \/ ReadHandler(c) \/ ContentHandler(c) \/ WriteHandler(c)
    \/ FunctionReturns(c) \/ FunctionThrows(c) \/ Erase(c) \/ Delete(c)

StopStep == CloseConnections \/ StopIoService \/ (destructor = "closed" /\ CloseAcceptor)

\* io_service::run(), by the threads of the pool.
Run ==
    \/ \E c \in Conns : IoStep(c) \/ TimerFires(c) \/ TimerHandler(c) \/ Handler(c)
    \/ AcceptAborted \/ AcceptFailed

Next ==
    \/ \E c \in Conns : ClientStep(c)
    \/ Run
    \/ start \/ CloseAcceptor \/ CloseConnections \/ StopIoService \/ Destroy

Spec == Init /\ [][Next /\ UNCHANGED program]_vars

\* As long as something is ready or expires one of the threads handles
\* something, in whatever order; and stop(), once called, is executed.
Keeps(A) == A /\ UNCHANGED program

FairSpec == Spec /\ WF_vars(Keeps(Run)) /\ WF_vars(Keeps(StopStep))

-----------------------------------------------------------------------------
\* The pointers that stop() follows are those of living Connections: none is
\* in the set once its deleter has gone on to delete it.
ConnectionsAreLive == \A c \in connections : life[c] = "live"

\* No request is given to a resource function twice, and none after a later
\* one of its connection.  A client that waits for each answer takes no answer
\* for another's: the n-th response on a connection is the response to its
\* n-th request.
AnswersMatch ==
    \A c \in Conns :
        /\ \A i, j \in DOMAIN handled[c] : i < j => handled[c][i] < handled[c][j]
        /\ ~ Pipelines => \A i \in DOMAIN answers[c] : answers[c][i] = i

\* No resource function runs once the destructor has got past the ScopeRunner:
\* what the functions work on may be gone.
NoFunctionAfterDestructor == ~ Lock => \A c \in Conns : op[c] # "function"

\* stop() leaves no connection open but those that were given away, also if
\* it runs between the steps of other threads; a Connection whose deleter has
\* taken it out of the set is closed by that.
StopClosesAll ==
    stopping = "returned" =>
        \A c \in Conns : socket[c] = "open" => c \in upgraded \/ life[c] = "erased"

\* A connection does not stay open for ever: the requests it sent are answered
\* or it is closed, also with a client that is silent, and with one that sent
\* the next request too early.
ClosedInTheEnd ==
    \A c \in Conns : socket[c] = "open" ~> socket[c] = "closed" \/ c \in upgraded

=============================================================================
