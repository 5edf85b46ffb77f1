------------------------------ MODULE HttpClient ------------------------------
(***************************************************************************)
(* SimpleWeb::Client<HTTP> (client_http.hpp) with asynchronous requests:   *)
(* get_connection and the set of connections that requests share, connect, *)
(* write, read, the one reconnection, the timers, the callback that tidies *)
(* the set, stop() and the destructor.  Requests are made from any thread, *)
(* a thread of the program's own runs the io_service; each handler is one  *)
(* step.  The server, which closes connections when it likes, is external. *)
(***************************************************************************)
EXTENDS Naturals, Sequences, FiniteSets

CONSTANTS
    Requests,   \* number of requests made
    Timeouts,   \* config.timeout is not 0
    MaxStopped, \* bound: requests made when the program stops or destroys the client
    Answers     \* the pieces in which the server may answer a request

Parts == {"whole", "header", "unframed", "content", "malformed"}

\* The response to a request comes in one piece, or its content after the
\* header, or without it when the server fails; or it is not a response at all.
\* An unframed one is taken to be over though more of it follows: HTTP/1.1
\* content without a length that ends with the connection, the response after
\* an interim one (1xx), the trailer fields after the last chunk.
Responses == {<<"whole">>, <<"header", "content">>, <<"header">>, <<"malformed">>,
              <<"unframed", "content">>}

ASSUME HttpClientAssumption ==
    Requests \in Nat /\ Timeouts \in BOOLEAN /\ MaxStopped \in Nat /\ Answers \subseteq Responses

Ids   == 1 .. Requests
Conns == 1 .. Requests + 1   \* as many as can be held at a time

VARIABLES
    stage,        \* of each request's session: "none", "resolve", "connect", "write",
                  \* "read" (the header), "content", "called", "dropped"
    done,         \* that operation's result: "pending", "ok", "error", "aborted", or the
                  \* Part of a response that was read
    on,           \* session->connection
    connections,  \* the set of connections
    in_use,       \* Connections with in_use
    attempt_reconnect,
    open,         \* Connections whose socket is_open()
    timer,        \* Connections whose timer runs
    fired,        \* Connections with an expired timer's handler in the queue
    up,           \* connections the server has not closed
    unanswered,   \* per connection, requests the server has still to answer
    arrived,      \* per connection, pieces of responses that have not been read
    writes,       \* how often the request of each session has been sent
    result,       \* the request whose response the stream buffer of each session
                  \* begins with; 0 for none, and after an error
    alive,        \* the destructor has not been called
    spoilt,       \* history: connections on which an unframed response was read
    late          \* history: requests that were given such a connection

sessionVars == <<stage, done, on, writes, result>>
poolVars    == <<connections, in_use, attempt_reconnect>>
timerVars   == <<timer, fired>>
peerVars    == <<up, unanswered, arrived, spoilt>>
vars == <<sessionVars, poolVars, open, timerVars, peerVars, alive, late>>

Running == {"resolve", "connect", "write", "read", "content"}

\* Whom a session or the set holds; a Connection that nobody holds closes its
\* socket, and its number is used again.
Held == connections \cup ({on[r] : r \in Ids} \ {0})

Init ==
    /\ stage = [r \in Ids |-> "none"]
    /\ done = [r \in Ids |-> "pending"]
    /\ on = [r \in Ids |-> 0]
    /\ connections = {} /\ in_use = {} /\ attempt_reconnect = {} /\ open = {}
    /\ timer = {} /\ fired = {} /\ up = {}
    /\ unanswered = [c \in Conns |-> << >>]
    /\ arrived = [c \in Conns |-> << >>]
    /\ writes = [r \in Ids |-> 0]
    /\ result = [r \in Ids |-> 0]
    /\ alive = TRUE
    /\ spoilt = {} /\ late = {}

-----------------------------------------------------------------------------
Forget(conns) ==
    /\ open' = open \ conns
    /\ fired' = fired \ conns
    /\ up' = up \cap open'
    /\ unanswered' = [c \in Conns |-> IF c \in open' THEN unanswered[c] ELSE << >>]
    /\ arrived' = [c \in Conns |-> IF c \in open' THEN arrived[c] ELSE << >>]
    /\ spoilt' = spoilt \ conns

create_connection == CHOOSE c \in Conns \ Held : \A d \in Conns \ Held : c <= d


\* A session's next operation, with its timer; cancel_timeout before it leaves
\* a timer that has expired in the queue.
Begin(r, c, operation) ==
    /\ stage' = [stage EXCEPT ![r] = operation]
    /\ done' = [done EXCEPT ![r] = "pending"]
    /\ on' = [on EXCEPT ![r] = c]
    /\ timer' = (timer \ {on[r]}) \cup (IF Timeouts THEN {c} ELSE {})

\* connect(): a socket that is open is written to at once.
connect(r, c) == Begin(r, c, IF c \in open THEN "write" ELSE "resolve")

\* Mutant: get_connection takes any connection of the set.
get_connection_Any(c) ==
    /\ IF connections # {} THEN c \in connections ELSE c = create_connection
    /\ connections' = connections \cup {c}
    /\ in_use' = in_use \cup {c}
    /\ attempt_reconnect' = attempt_reconnect \cup {c}

\* get_connection(): one of the set that is not in use, or a new one.
get_connection(c) ==
    /\ IF connections \ in_use # {} THEN c \in connections \ in_use ELSE c = create_connection
    /\ connections' = connections \cup {c}
    /\ in_use' = in_use \cup {c}
    /\ attempt_reconnect' = attempt_reconnect \cup {c}

\* Requests are numbered as they are made.
request(r) ==
    /\ alive /\ stage[r] = "none" /\ \A s \in 1 .. r - 1 : stage[s] # "none"
    /\ \E c \in Conns :
         /\ get_connection(c) /\ connect(r, c)
         /\ late' = IF c \in spoilt THEN late \cup {r} ELSE late
    /\ UNCHANGED <<writes, result, open, fired, peerVars, alive>>

-----------------------------------------------------------------------------
\* The io_service: operations complete.

Completes(r, operation, how) ==
    /\ stage[r] = operation /\ done[r] = "pending"
    /\ done' = [done EXCEPT ![r] = how]
    /\ UNCHANGED <<stage, on, poolVars, timerVars, alive, late>>

Resolved(r) ==
    /\ \E how \in {"ok", "error"} : Completes(r, "resolve", how)
    /\ UNCHANGED <<writes, result, open, peerVars>>

Connected(r) ==
    /\ Completes(r, "connect", "ok")
    /\ open' = open \cup {on[r]}
    /\ up' = up \cup {on[r]}
    /\ UNCHANGED <<writes, result, unanswered, arrived, spoilt>>

ConnectFails(r) ==
    /\ Completes(r, "connect", "error")
    /\ UNCHANGED <<writes, result, open, peerVars>>

\* The kernel takes the request, for a server that has closed as well.
Written(r) ==
    /\ Completes(r, "write", "ok")
    /\ writes' = [writes EXCEPT ![r] = @ + 1]
    /\ unanswered' = IF on[r] \in up THEN [unanswered EXCEPT ![on[r]] = Append(@, r)]
                     ELSE unanswered
    /\ UNCHANGED <<result, open, up, arrived, spoilt>>

WriteFails(r) ==
    /\ on[r] \notin up
    /\ Completes(r, "write", "error")
    /\ UNCHANGED <<writes, result, open, peerVars>>

\* What a read of r takes a part for.  A header may be taken for another if it
\* is what a response left on the connection, or stands behind that in the
\* stream buffer.
Taken(r, part) ==
    IF stage[r] = "content" \/ (part # "content" /\ result[r] = 0) THEN {part}
    ELSE {"header", "malformed", IF part = "whole" THEN "whole" ELSE "unframed"}

First(c) == Head(arrived[c])

Fills(r) == result' = [result EXCEPT ![r] = IF @ = 0 THEN First(on[r]).of ELSE @]

\* async_read_until takes the header, async_read the rest of the content.  What
\* a response left may be read in pieces.
Read(r) ==
    /\ stage[r] \in {"read", "content"} /\ arrived[on[r]] # << >>
    /\ \E part \in Taken(r, First(on[r]).part) :
         /\ Completes(r, stage[r], part)
         /\ spoilt' = IF part = "unframed" THEN spoilt \cup {on[r]} ELSE spoilt
    /\ Fills(r)
    /\ \/ arrived' = [arrived EXCEPT ![on[r]] = Tail(@)]
       \/ stage[r] = "read" /\ First(on[r]).part = "content" /\ UNCHANGED arrived
    /\ UNCHANGED <<writes, open, up, unanswered>>

\* What a response left has no empty line: async_read_until keeps it in the
\* stream buffer and reads on.
ReadsOn(r) ==
    /\ stage[r] = "read" /\ done[r] = "pending"
    /\ arrived[on[r]] # << >> /\ First(on[r]).part = "content"
    /\ Fills(r)
    /\ arrived' = [arrived EXCEPT ![on[r]] = Tail(@)]
    /\ UNCHANGED <<stage, done, on, writes, poolVars, open, timerVars, up, unanswered, spoilt,
                   alive, late>>

\* End of file, or a reset.
ReadFails(r) ==
    /\ stage[r] \in {"read", "content"} /\ on[r] \notin up /\ arrived[on[r]] = << >>
    /\ Completes(r, stage[r], "error")
    /\ UNCHANGED <<writes, result, open, peerVars>>

TimerFires(c) ==
    /\ c \in timer
    /\ timer' = timer \ {c}
    /\ fired' = fired \cup {c}
    /\ UNCHANGED <<sessionVars, poolVars, open, peerVars, alive, late>>

\* socket->cancel(): the operation that waits on this socket is aborted,
\* whosever it is by now.
Cancelled(conns) ==
    done' = [r \in Ids |-> IF on[r] \in conns /\ stage[r] \in Running \ {"resolve"}
                              /\ done[r] = "pending" THEN "aborted" ELSE done[r]]

TimerHandler(c) ==
    /\ c \in fired
    /\ fired' = fired \ {c}
    /\ Cancelled({c})
    /\ UNCHANGED <<stage, on, writes, result, poolVars, open, timer, peerVars, alive, late>>

-----------------------------------------------------------------------------
\* The completion handlers.

Ended(r, operation) == alive /\ stage[r] = operation /\ done[r] # "pending"

\* Mutant: a connection that failed is left in the set.
Tidy_KeepsFailed(c, bad) ==
    LET used == in_use \ {c}
    IN  IF connections \subseteq used THEN UNCHANGED connections
        ELSE \E keep \in connections \ used : connections' = {keep} \cup (connections \cap used)

\* The connection is given back: a failed one is removed, and of the unused
\* ones all but one, whichever comes first in the set.
Tidy(c, bad) ==
    LET used == in_use \ {c}
        rest == IF bad THEN connections \ {c} ELSE connections
    IN  IF rest \subseteq used THEN connections' = rest
        ELSE \E keep \in rest \ used : connections' = {keep} \cup (rest \cap used)

\* The session is gone, with its hold on its connection.
Release(r, ending, response) ==
    /\ stage' = [stage EXCEPT ![r] = ending]
    /\ done' = [done EXCEPT ![r] = "pending"]
    /\ on' = [on EXCEPT ![r] = 0]
    /\ writes' = [writes EXCEPT ![r] = 0]
    /\ result' = [result EXCEPT ![r] = response]
    /\ timer' = timer \ {on[r]}
    /\ in_use' = in_use \ {on[r]}
    /\ attempt_reconnect' = attempt_reconnect \cap Held'
    /\ Forget(Held \ Held')

\* session->callback
Callback(r, bad) ==
    /\ Tidy(on[r], bad)
    /\ Release(r, "called", IF bad THEN 0 ELSE result[r])
    /\ UNCHANGED <<alive, late>>

Continue(r, operation) ==
    /\ Begin(r, on[r], operation)
    /\ UNCHANGED <<writes, result, connections, in_use, open, fired, peerVars, alive, late>>

Leads(r, operation, following) ==
    /\ Ended(r, operation)
    /\ IF done[r] = "ok" THEN Continue(r, following) /\ UNCHANGED attempt_reconnect
       ELSE Callback(r, TRUE)

ResolveHandler(r) == Leads(r, "resolve", "connect")
ConnectHandler(r) == Leads(r, "connect", "write")
WriteHandler(r)   == Leads(r, "write", "read")

\* Something was read.  The content may have come with the header; a header of
\* HTTP/1.1 without a length is called back at once, whatever follows it; one
\* that cannot be parsed is a protocol_error.
HeaderHandler(r) ==
    /\ Ended(r, "read") /\ done[r] \in Parts
    /\ IF done[r] = "header"
       THEN /\ Continue(r, "content")
            /\ attempt_reconnect' = attempt_reconnect \cup {on[r]}
       ELSE Callback(r, done[r] = "malformed")

MayReconnect(r) ==
    on[r] \in attempt_reconnect /\ done[r] = "error" /\ on[r] \in connections

Replace(r, new) ==
    /\ Ended(r, "read") /\ MayReconnect(r)
    /\ connections' = (connections \ {on[r]}) \cup {new}
    /\ in_use' = (in_use \ {on[r]}) \cup {new}
    /\ Begin(r, new, "resolve")
    /\ Forget({on[r]})
    /\ UNCHANGED <<writes, result, alive, late>>

\* Mutant: the new connection may be replaced once more.
Reconnect_Again(r) ==
    /\ Replace(r, create_connection)
    /\ attempt_reconnect' = (attempt_reconnect \ {on[r]}) \cup {create_connection}

\* No header could be read: a new connection takes this one's place and the
\* request is written again; the stream buffer keeps what was read.
Reconnect(r) ==
    /\ Replace(r, create_connection)
    /\ attempt_reconnect' = attempt_reconnect \ {on[r]}

ReadGivesUp(r) ==
    /\ Ended(r, "read") /\ done[r] \notin Parts /\ ~ MayReconnect(r)
    /\ Callback(r, TRUE)

ContentHandler(r) == Ended(r, "content") /\ Callback(r, done[r] \notin Parts)

\* After the destructor continue_lock() gives no lock: no callback.
LockRefused(r) ==
    /\ ~ alive /\ stage[r] \in Running /\ done[r] # "pending"
    /\ UNCHANGED <<connections, alive, late>>
    /\ Release(r, "dropped", 0)

-----------------------------------------------------------------------------
\* stop(): what waits is aborted, and the set is emptied.
CloseAll ==
    /\ Cancelled(connections)
    /\ connections' = {}
    /\ attempt_reconnect' = attempt_reconnect \cap {on[r] : r \in Ids}
    /\ Forget(connections \ {on[r] : r \in Ids})
    /\ UNCHANGED <<stage, on, writes, result, in_use, timer, late>>

MayStop == \A r \in Ids : r > MaxStopped => stage[r] = "none"

stop == MayStop /\ connections # {} /\ CloseAll /\ UNCHANGED alive

\* ~ClientBase(): handler_runner->stop(), then stop().
Destroy == MayStop /\ alive /\ alive' = FALSE /\ CloseAll

-----------------------------------------------------------------------------
\* The server answers in the order of the requests.  It may fail behind a header
\* and may close at any time.
ServerAnswers(c) ==
    /\ c \in up /\ unanswered[c] # << >>
    /\ unanswered' = [unanswered EXCEPT ![c] = Tail(@)]
    /\ \E parts \in Answers :
         arrived' = [arrived EXCEPT ![c] = @ \o
                       [i \in DOMAIN parts |-> [of |-> Head(unanswered[c]), part |-> parts[i]]]]
    /\ UNCHANGED <<sessionVars, poolVars, open, timerVars, up, spoilt, alive, late>>

ServerCloses(c) ==
    /\ c \in up
    /\ up' = up \ {c}
    /\ UNCHANGED <<sessionVars, poolVars, open, timerVars, unanswered, arrived, spoilt, alive,
                   late>>

-----------------------------------------------------------------------------
Completion(r) == \/ Resolved(r) \/ Connected(r) \/ ConnectFails(r) \/ Written(r)
                 \/ WriteFails(r) \/ Read(r) \/ ReadsOn(r) \/ ReadFails(r)

Handler(r) == \/ ResolveHandler(r) \/ ConnectHandler(r) \/ WriteHandler(r) \/ HeaderHandler(r)
              \/ Reconnect(r) \/ ReadGivesUp(r) \/ ContentHandler(r) \/ LockRefused(r)

Active == {r \in Ids : stage[r] \in Running}

\* io_service::run().
Run == \/ \E c \in Conns : TimerFires(c) \/ TimerHandler(c)
       \/ \E r \in Active : Completion(r) \/ Handler(r)

Next ==
    \/ \E r \in Ids : request(r)
    \/ Run
    \/ \E c \in Conns : ServerAnswers(c) \/ ServerCloses(c)
    \/ stop \/ Destroy

Spec == Init /\ [][Next]_vars

\* As long as something has completed or expired, something is handled, in
\* whatever order; nothing is assumed of the server.
FairSpec == Spec /\ WF_vars(Run)

-----------------------------------------------------------------------------
\* Two requests under way never share a connection: their bytes would mix.
OneSessionPerConnection == \A r, s \in Active : on[r] = on[s] => r = s

\* A response given to a callback without an error is the response to its
\* request, whatever was on the connection before: requests that failed, timed
\* out, were sent again or not answered.  The one exception is a request that
\* is given a connection on which an unframed response was called back with
\* more to come (client_http.hpp:516): it may get the rest of that response,
\* in place of its own or in front of it.
AnswersMatch == \A r \in Ids : stage[r] = "called" /\ r \notin late => result[r] \in {0, r}

\* A request is sent twice at most.
SentAtMostTwice == \A r \in Ids : writes[r] <= 2


=============================================================================
