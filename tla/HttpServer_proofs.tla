-------------------------- MODULE HttpServer_proofs --------------------------
(***************************************************************************)
(* Proofs about HttpServer, for any programs and any number of             *)
(* connections.                                                            *)
(***************************************************************************)
EXTENDS HttpServer, TLAPS

-----------------------------------------------------------------------------
(* The inductive invariant.                                                *)

Piece == [of : Nat, part : {"all", "header", "content"}]

Operations == {"none", "accept", "read", "content", "function", "write"}

TypeOK ==
    /\ program \in Programs
    /\ starts \in Nat /\ running \in BOOLEAN /\ acceptor \in BOOLEAN
    /\ accepts \in [pending : Nat, aborted : Nat, bad : Nat]
    /\ stopping \in {"no", "acceptor", "connections", "returned"}
    /\ destructor \in {"no", "closed", "done"}
    /\ socket \in [Conns -> {"none", "backlog", "open", "closed"}]
    /\ life \in [Conns -> {"none", "live", "erased", "deleted"}]
    /\ connections \subseteq Conns /\ timer \subseteq Conns /\ fired \subseteq Conns
    /\ left \subseteq Conns /\ upgraded \subseteq Conns
    /\ op \in [Conns -> Operations]
    /\ done \in [Conns -> {"pending", "ok", "error"}]
    /\ inbox \in [Conns -> Seq(Piece)] /\ taken \in [Conns -> Seq(Piece)]
    /\ sent \in [Conns -> Nat] /\ request \in [Conns -> Nat]
    /\ handled \in [Conns -> Seq(Nat)] /\ answers \in [Conns -> Seq(Nat)]

\* No accept completes on a closed acceptor, stop() has closed what is in the
\* set, and what is open and not in the set is somebody else's or about to go.
StopInv ==
    /\ ~ acceptor => accepts.pending = 0
    /\ stopping # "no" => ~ acceptor
    /\ stopping \in {"connections", "returned"} => connections = {}
    /\ \A c \in Conns :
          /\ socket[c] = "open" => c \in connections \cup upgraded \/ life[c] = "erased"
          /\ socket[c] \in {"none", "backlog"} => op[c] = "none"

\* The first piece of a request; the handler of a read drops the others.
Starts(p) == p.part # "content"

Passed(c, n) == \A i \in DOMAIN handled[c] : handled[c][i] < n

\* Nothing that would start request n or an earlier one is still to come.
NoneUpTo(c, n) == \A j \in DOMAIN inbox[c] : Starts(inbox[c][j]) => n < inbox[c][j].of

\* What has been read has not been handled, nor anything that follows it.
TakenInv(c) ==
    taken[c] # << >> =>
        /\ op[c] \in {"read", "content"} /\ done[c] = "ok"
        /\ taken[c][1].of <= sent[c]
        /\ Starts(taken[c][1]) => Passed(c, taken[c][1].of) /\ NoneUpTo(c, taken[c][1].of)

\* The pieces arrive in the order of their requests, those of a request that
\* has been handled are gone, and the session is ahead of those to come.
OrderInv(c) ==
    /\ \A i, j \in DOMAIN handled[c] : i < j => handled[c][i] < handled[c][j]
    /\ Passed(c, sent[c] + 1)
    /\ request[c] <= sent[c]
    /\ \A j \in DOMAIN inbox[c] :
          /\ inbox[c][j].of <= sent[c]
          /\ Starts(inbox[c][j]) =>
               /\ Passed(c, inbox[c][j].of)
               /\ \A i \in DOMAIN inbox[c] :
                     i < j /\ Starts(inbox[c][i]) => inbox[c][i].of < inbox[c][j].of
    /\ op[c] \in {"content", "function", "write"} => NoneUpTo(c, request[c])
    /\ op[c] = "content" => Passed(c, request[c])
    /\ op[c] = "read" /\ done[c] = "ok" => taken[c] # << >>
    /\ TakenInv(c)

\* A client that waits for its answers has at most one request on its way, in
\* its inbox, in the streambuf or in the session.
Answering(c) ==
    op[c] \in {"content", "function"} \/ (op[c] = "write" /\ done[c] = "pending")

TurnInv(c) ==
    /\ \A i \in DOMAIN answers[c] : answers[c][i] = i
    /\ sent[c] = Len(answers[c]) \/ sent[c] = Len(answers[c]) + 1
    /\ \A j \in DOMAIN inbox[c] : Starts(inbox[c][j]) => inbox[c][j].of = Len(answers[c]) + 1
    /\ taken[c] # << >> /\ Starts(taken[c][1]) => taken[c][1].of = Len(answers[c]) + 1
    /\ Answering(c) => request[c] = Len(answers[c]) + 1

SessionInv ==
    /\ \A c \in Conns : OrderInv(c)
    /\ ~ Pipelines => \A c \in Conns : TurnInv(c)

ServerInv == TypeOK /\ ConnectionsAreLive /\ NoFunctionAfterDestructor /\ StopInv

IInv == ServerInv /\ SessionInv

-----------------------------------------------------------------------------
(* Types, the set of connections, the acceptor and the functions.          *)

\* What begins and what is dropped.
LEMMA BeginType ==
  ASSUME TypeOK, NEW c \in Conns, NEW kind \in Operations, NEW n \in Nat, Begin(c, kind, n)
  PROVE  /\ op' \in [Conns -> Operations] /\ op' = [op EXCEPT ![c] = kind]
         /\ done' \in [Conns -> {"pending", "ok", "error"}] /\ done'[c] = "pending"
         /\ taken' \in [Conns -> Seq(Piece)] /\ taken'[c] = << >>
         /\ request' \in [Conns -> Nat] /\ request'[c] = n
         /\ timer' \subseteq Conns
         /\ \A d \in Conns \ {c} :
              done'[d] = done[d] /\ taken'[d] = taken[d] /\ request'[d] = request[d]
  BY DEF Begin, TypeOK

LEMMA DropType ==
  ASSUME TypeOK, NEW c \in Conns, Drop(c)
  PROVE  /\ op' \in [Conns -> Operations] /\ op' = [op EXCEPT ![c] = "none"]
         /\ done' \in [Conns -> {"pending", "ok", "error"}] /\ done'[c] = "pending"
         /\ taken' \in [Conns -> Seq(Piece)] /\ taken'[c] = << >>
         /\ request' \in [Conns -> Nat] /\ request'[c] = 0
         /\ \A d \in Conns \ {c} :
              done'[d] = done[d] /\ taken'[d] = taken[d] /\ request'[d] = request[d]
  BY DEF Drop, TypeOK, Operations

\* A request goes to its function, or the session ends.
LEMMA FindType ==
  ASSUME TypeOK, NEW c \in Conns, NEW n \in Nat, find_resource(c, n)
  PROVE  /\ \/ Begin(c, "function", n) /\ handled' = [handled EXCEPT ![c] = Append(@, n)]
            \/ Drop(c) /\ timer' \subseteq Conns /\ UNCHANGED handled
         /\ handled' \in [Conns -> Seq(Nat)]
         /\ upgraded' \subseteq Conns /\ connections' \subseteq connections
         /\ connections \cup upgraded \subseteq connections' \cup upgraded'
         /\ op' \in [Conns -> Operations]
         /\ done' \in [Conns -> {"pending", "ok", "error"}]
         /\ taken' \in [Conns -> Seq(Piece)]
         /\ request' \in [Conns -> Nat]
         /\ timer' \subseteq Conns
         /\ \A d \in Conns \ {c} : op'[d] = op[d]
<1>1. \/ Begin(c, "function", n) /\ handled' = [handled EXCEPT ![c] = Append(@, n)]
      \/ Drop(c) /\ timer' \subseteq Conns /\ UNCHANGED handled
  BY DEF find_resource, TypeOK
<1>2. handled' \in [Conns -> Seq(Nat)]
  <2>1. Append(handled[c], n) \in Seq(Nat) /\ handled \in [Conns -> Seq(Nat)]
    BY DEF TypeOK
  <2>2. handled' = handled \/ handled' = [handled EXCEPT ![c] = Append(handled[c], n)]
    BY <1>1
  <2>. QED  BY <2>1, <2>2
<1>3. /\ upgraded' \subseteq Conns /\ connections' \subseteq connections
      /\ connections \cup upgraded \subseteq connections' \cup upgraded'
  BY DEF find_resource, TypeOK
<1>4. "function" \in Operations
  BY DEF Operations
<1>5. /\ op' \in [Conns -> Operations]
      /\ done' \in [Conns -> {"pending", "ok", "error"}]
      /\ taken' \in [Conns -> Seq(Piece)]
      /\ request' \in [Conns -> Nat]
      /\ timer' \subseteq Conns
      /\ op' = [op EXCEPT ![c] = "function"] \/ op' = [op EXCEPT ![c] = "none"]
  <2>1. CASE Begin(c, "function", n)
    BY <1>4, <2>1, BeginType
  <2>2. CASE Drop(c) /\ timer' \subseteq Conns
    BY <2>2, DropType
  <2>. QED  BY <1>1, <2>1, <2>2
<1>6. \A d \in Conns \ {c} : op'[d] = op[d]
  BY <1>5 DEF TypeOK
<1>. QED  BY <1>1, <1>2, <1>3, <1>5, <1>6

\* A request's pieces: the first one starts it, and there is at most one more.
LEMMA PiecesType ==
  ASSUME NEW c \in Conns, NEW n \in Nat
  PROVE  /\ Pieces(c, n) \in Seq(Piece)
         /\ \A j \in 1 .. Len(Pieces(c, n)) :
              Pieces(c, n)[j].of = n /\ (Starts(Pieces(c, n)[j]) => j = 1)
<1>. DEFINE h == [of |-> n, part |-> "header"]
            r == [of |-> n, part |-> "content"]
            a == [of |-> n, part |-> "all"]
<1>1. h \in Piece /\ r \in Piece /\ a \in Piece
  BY DEF Piece
<1>2. h.of = n /\ r.of = n /\ a.of = n /\ ~ Starts(r)
  BY DEF Starts
<1>3. Pieces(c, n) = <<h, r>> \/ Pieces(c, n) = <<a>>
  BY DEF Pieces
<1>. HIDE DEF h, r, a
<1>4. CASE Pieces(c, n) = <<h, r>>
  BY <1>1, <1>2, <1>4
<1>5. CASE Pieces(c, n) = <<a>>
  BY <1>1, <1>2, <1>5
<1>. QED  BY <1>3, <1>4, <1>5

\* The steps that leave the server's side of a connection alone, but for the
\* result of an operation.
LEMMA QuietServer ==
  ASSUME ServerInv, UNCHANGED <<program, starts, running, acceptor, accepts, stopVars, life,
                                connections, op, upgraded, handled, request>>,
         TypeOK', \A c \in Conns : socket'[c] = socket[c] \/ socket'[c] = "closed"
                                   \/ (socket[c] = "none" /\ socket'[c] = "backlog")
  PROVE  ServerInv'
  BY DEF ServerInv, ConnectionsAreLive, NoFunctionAfterDestructor, Lock, StopInv, stopVars

LEMMA ClientServer ==
  ASSUME ServerInv, NEW c \in Conns, ClientStep(c), UNCHANGED program
  PROVE  ServerInv'
<1>. USE DEF ServerInv, ioVars, stopVars, opVars, clientVars, connVars
<1>1. CASE Arrive(c)
  <2>1. TypeOK'
    BY <1>1 DEF Arrive, TypeOK
  <2>. QED  BY <1>1, <2>1, QuietServer DEF Arrive, TypeOK
<1>2. CASE ClientSends(c)
  <2>1. sent[c] + 1 \in Nat
    BY DEF TypeOK
  <2>2. Pieces(c, sent[c] + 1) \in Seq(Piece)
    BY <2>1, PiecesType
  <2>3. TypeOK'
    BY <1>2, <2>1, <2>2 DEF ClientSends, TypeOK
  <2>. QED  BY <1>2, <2>3, QuietServer DEF ClientSends
<1>3. CASE ClientLeaves(c)
  <2>1. TypeOK'
    BY <1>3 DEF ClientLeaves, TypeOK
  <2>. QED  BY <1>3, <2>1, QuietServer DEF ClientLeaves
<1>. QED  BY <1>1, <1>2, <1>3 DEF ClientStep

\* What async_read takes, and what it leaves.
LEMMA ReadType ==
  ASSUME TypeOK, NEW c \in Conns, NEW kind, ReadCompletes(c, kind)
  PROVE  /\ taken' \in [Conns -> Seq(Piece)] /\ inbox' \in [Conns -> Seq(Piece)]
         /\ \E k \in 1 .. Len(inbox[c]) :
              /\ taken'[c] = SubSeq(inbox[c], 1, k)
              /\ inbox'[c] = SubSeq(inbox[c], k + 1, Len(inbox[c]))
         /\ \A d \in Conns \ {c} : taken'[d] = taken[d] /\ inbox'[d] = inbox[d]
<1>1. /\ inbox[c] \in Seq(Piece) /\ inbox[c] # << >>
      /\ 1 \in 1 .. Len(inbox[c])
  BY DEF ReadCompletes, TypeOK
<1>2. PICK k \in 1 .. Len(inbox[c]) :
         /\ taken' = [taken EXCEPT ![c] = SubSeq(inbox[c], 1, k)]
         /\ inbox' = [inbox EXCEPT ![c] = SubSeq(inbox[c], k + 1, Len(inbox[c]))]
  BY <1>1 DEF ReadCompletes
<1>3. SubSeq(inbox[c], 1, k) \in Seq(Piece)
      /\ SubSeq(inbox[c], k + 1, Len(inbox[c])) \in Seq(Piece)
  BY <1>1
<1>. QED  BY <1>2, <1>3 DEF TypeOK

LEMMA IoServer ==
  ASSUME ServerInv, NEW c \in Conns, IoStep(c) \/ TimerFires(c) \/ TimerHandler(c),
         UNCHANGED program
  PROVE  ServerInv'
<1>. USE DEF ServerInv, ioVars, stopVars, opVars, clientVars, connVars
<1>1. CASE AcceptCompletes(c)
  <2>1. TypeOK'
    <3>1. accepts' \in [pending : Nat, aborted : Nat, bad : Nat]
      <4>1. accepts \in [pending : Nat, aborted : Nat, bad : Nat]
        BY DEF TypeOK
      <4>2. accepts.pending \in Nat /\ accepts.pending > 0
            /\ accepts' = [accepts EXCEPT !.pending = accepts.pending - 1]
        BY <1>1, <4>1 DEF AcceptCompletes
      <4>3. accepts.pending - 1 \in Nat
        BY <4>2
      <4>. HIDE DEF ServerInv
      <4>. QED  BY <4>1, <4>2, <4>3
    <3>2. op' \in [Conns -> Operations]
      BY <1>1 DEF AcceptCompletes, TypeOK, Operations
    <3>. QED  BY <1>1, <3>1, <3>2 DEF AcceptCompletes, TypeOK
  <2>2. ConnectionsAreLive' /\ NoFunctionAfterDestructor'
    BY <1>1 DEF AcceptCompletes, TypeOK, ConnectionsAreLive, NoFunctionAfterDestructor, Lock
  <2>3. StopInv'
    BY <1>1 DEF AcceptCompletes, TypeOK, StopInv
  <2>. QED  BY <2>1, <2>2, <2>3
<1>2. ASSUME NEW kind \in {"read", "content"}, ReadCompletes(c, kind) PROVE ServerInv'
  <2>1. TypeOK'
    BY <1>2, ReadType DEF ReadCompletes, Completes, TypeOK
  <2>. QED  BY <1>2, <2>1, QuietServer DEF ReadCompletes, Completes
<1>3. CASE WriteCompletes(c)
  <2>1. Append(answers[c], request[c]) \in Seq(Nat)
    BY DEF TypeOK
  <2>2. TypeOK'
    BY <1>3, <2>1 DEF WriteCompletes, Completes, TypeOK
  <2>. QED  BY <1>3, <2>2, QuietServer DEF WriteCompletes, Completes
<1>4. ASSUME NEW kind \in {"read", "content", "write"}, Fails(c, kind) PROVE ServerInv'
  <2>1. TypeOK'
    BY <1>4 DEF Fails, Completes, TypeOK
  <2>. QED  BY <1>4, <2>1, QuietServer DEF Fails, Completes
<1>5. CASE TimerFires(c)
  <2>1. TypeOK'
    BY <1>5 DEF TimerFires, TypeOK
  <2>. QED  BY <1>5, <2>1, QuietServer DEF TimerFires
<1>6. CASE TimerHandler(c)
  <2>1. TypeOK'
    BY <1>6 DEF TimerHandler, TypeOK
  <2>2. \A d \in Conns : socket'[d] = socket[d] \/ socket'[d] = "closed"
    BY <1>6 DEF TimerHandler, TypeOK
  <2>. QED  BY <1>6, <2>1, <2>2, QuietServer DEF TimerHandler
<1>. QED  BY <1>1, <1>2, <1>3, <1>4, <1>5, <1>6 DEF IoStep

\* What accept() makes of the waiting calls.
LEMMA AcceptType ==
  ASSUME TypeOK, accept
  PROVE  /\ accepts' \in [pending : Nat, aborted : Nat, bad : Nat]
         /\ ~ acceptor => accepts'.pending = accepts.pending
<1>1. accepts \in [pending : Nat, aborted : Nat, bad : Nat]
  BY DEF TypeOK
<1>2. accepts.pending + 1 \in Nat /\ accepts.bad + 1 \in Nat
  BY <1>1
<1>3. CASE acceptor
  BY <1>1, <1>2, <1>3 DEF accept
<1>4. CASE ~ acceptor
  BY <1>1, <1>2, <1>4 DEF accept
<1>. QED  BY <1>3, <1>4

\* The handlers of a session: what runs a function holds a lock, and a
\* connection leaves the set only if it is given away.
LEMMA SessionServer ==
  ASSUME ServerInv, NEW c \in Conns, TypeOK', op[c] # "none",
         UNCHANGED <<stopVars, acceptor, socket, life>>,
         accepts' = accepts \/ accept,
         \A d \in Conns \ {c} : op'[d] = op[d],
         op'[c] = "function" => Lock,
         connections' \subseteq connections,
         connections \cup upgraded \subseteq connections' \cup upgraded'
  PROVE  ServerInv'
<1>. USE DEF ServerInv, stopVars
<1>1. ConnectionsAreLive'
  BY DEF ConnectionsAreLive
<1>2. NoFunctionAfterDestructor'
  BY DEF NoFunctionAfterDestructor, Lock
<1>3. ~ acceptor => accepts'.pending = 0
  BY AcceptType DEF StopInv
<1>4. StopInv'
  BY <1>3 DEF StopInv
<1>. QED  BY <1>1, <1>2, <1>4

\* Where the number of a request comes from.
LEMMA FirstPiece ==
  ASSUME IInv, NEW c \in Conns, op[c] = "read", done[c] = "ok"
  PROVE  taken[c] # << >> /\ taken[c][1] \in Piece /\ taken[c][1].of \in Nat
<1>1. taken[c] # << >> /\ taken[c] \in Seq(Piece)
  BY DEF IInv, SessionInv, OrderInv, ServerInv, TypeOK
<1>2. taken[c][1] \in Piece
  BY <1>1
<1>. QED  BY <1>1, <1>2 DEF Piece

\* What the handlers do to their session: they begin the request's next
\* operation or the next read, or drop the session.
Idles(c) ==
    /\ UNCHANGED <<handled, connections, upgraded>>
    /\ \/ Begin(c, "read", 0)
       \/ Drop(c) /\ timer' \in {timer, timer \ {c}}

Goes(c, n) ==
    /\ Lock
    /\ \/ find_resource(c, n)
       \/ Begin(c, "content", n) /\ UNCHANGED <<handled, connections, upgraded>>
       \/ Begin(c, "write", n) /\ UNCHANGED <<handled, connections, upgraded>>

Session(c) ==
    \/ AcceptHandler(c) \/ ReadHandler(c) \/ ContentHandler(c) \/ WriteHandler(c)
    \/ FunctionReturns(c) \/ FunctionThrows(c)

\* The handlers, by what they do to their session.
LEMMA SessionCases ==
  ASSUME IInv, NEW c \in Conns, Session(c)
  PROVE  /\ op[c] # "none"
         /\ UNCHANGED <<starts, running, acceptor, stopVars, socket, life, fired, clientVars>>
         /\ accepts' = accepts \/ accept
         /\ \/ Idles(c)
            \/ /\ op[c] = "read" /\ taken[c] # << >> /\ taken[c][1].of \in Nat
               /\ Starts(taken[c][1])
               /\ Goes(c, taken[c][1].of)
            \/ /\ op[c] \in {"content", "function"}
               /\ op[c] = "content" => find_resource(c, request[c]) /\ Lock
               /\ op[c] = "function" => Begin(c, "write", request[c])
                                        /\ UNCHANGED <<handled, connections, upgraded>>
            \/ op[c] = "function" /\ FunctionThrows(c)
<1>. USE DEF ioVars, stopVars, connVars, opVars, clientVars
<1>1. CASE AcceptHandler(c)
  BY <1>1 DEF AcceptHandler, Ended, Idles
<1>2. CASE ReadHandler(c)
  <2>. DEFINE n == taken[c][1].of
              form == Sends[c][n].form
  <2>1. op[c] = "read"
        /\ UNCHANGED <<starts, running, acceptor, accepts, stopVars, socket, life, fired,
                       clientVars>>
    BY <1>2 DEF ReadHandler, Ended
  <2>2. \/ /\ Lock /\ done[c] = "ok" /\ taken[c][1].part # "content"
           /\ \/ find_resource(c, n)
              \/ Begin(c, "write", n) /\ UNCHANGED <<handled, connections, upgraded>>
              \/ Begin(c, "content", n) /\ UNCHANGED <<handled, connections, upgraded>>
        \/ Drop(c) /\ timer' = timer \ {c} /\ UNCHANGED <<handled, connections, upgraded>>
    BY <1>2 DEF ReadHandler
  <2>3. CASE Drop(c) /\ timer' = timer \ {c} /\ UNCHANGED <<handled, connections, upgraded>>
    BY <2>1, <2>3 DEF Idles
  <2>4. CASE /\ Lock /\ done[c] = "ok" /\ taken[c][1].part # "content"
             /\ \/ find_resource(c, n)
                \/ Begin(c, "write", n) /\ UNCHANGED <<handled, connections, upgraded>>
                \/ Begin(c, "content", n) /\ UNCHANGED <<handled, connections, upgraded>>
    <3>1. taken[c] # << >> /\ taken[c][1].of \in Nat
      BY <2>1, <2>4, FirstPiece
    <3>2. Goes(c, n) /\ Starts(taken[c][1])
      BY <2>4 DEF Goes, Starts
    <3>. QED  BY <2>1, <3>1, <3>2
  <2>. QED  BY <2>2, <2>3, <2>4
<1>3. CASE ContentHandler(c)
  BY <1>3 DEF ContentHandler, Ended, Idles
<1>4. CASE WriteHandler(c)
  BY <1>4 DEF WriteHandler, Ended, Idles
<1>5. CASE FunctionReturns(c)
  BY <1>5 DEF FunctionReturns
<1>6. CASE FunctionThrows(c)
  BY <1>6 DEF FunctionThrows
<1>. QED  BY <1>1, <1>2, <1>3, <1>4, <1>5, <1>6 DEF Session

\* What every step of a session keeps to.
Effect(c) ==
    /\ op' \in [Conns -> Operations] /\ done' \in [Conns -> {"pending", "ok", "error"}]
    /\ taken' \in [Conns -> Seq(Piece)] /\ request' \in [Conns -> Nat]
    /\ handled' \in [Conns -> Seq(Nat)] /\ timer' \subseteq Conns
    /\ upgraded' \subseteq Conns /\ connections' \subseteq connections
    /\ connections \cup upgraded \subseteq connections' \cup upgraded'
    /\ \A d \in Conns \ {c} :
          /\ op'[d] = op[d] /\ done'[d] = done[d] /\ taken'[d] = taken[d]
          /\ request'[d] = request[d] /\ handled'[d] = handled[d]
    /\ op'[c] = "function" => Lock
    /\ taken'[c] = << >>
    /\ request'[c] <= sent[c]
    /\ \/ handled'[c] = handled[c]
       \/ /\ op'[c] = "function" /\ Passed(c, request'[c])
          /\ handled'[c] = Append(handled[c], request'[c])
    /\ op'[c] \in {"content", "function", "write"} => NoneUpTo(c, request'[c])
    /\ op'[c] = "content" => Passed(c, request'[c])
    /\ ~ (op'[c] = "read" /\ done'[c] = "ok")
    /\ ~ Pipelines => (op'[c] \in {"content", "function"}
                         \/ (op'[c] = "write" /\ done'[c] = "pending")
                            => request'[c] = Len(answers[c]) + 1)

LEMMA BeginEffect ==
  ASSUME TypeOK, NEW c \in Conns, NEW kind \in Operations, NEW n \in Nat, Begin(c, kind, n),
         handled' \in [Conns -> Seq(Nat)],
         \/ handled' = handled
         \/ /\ kind = "function" /\ Passed(c, n)
            /\ handled' = [handled EXCEPT ![c] = Append(handled[c], n)],
         upgraded' \subseteq Conns, connections' \subseteq connections,
         connections \cup upgraded \subseteq connections' \cup upgraded',
         n <= sent[c],
         kind \in {"content", "function", "write"} => NoneUpTo(c, n),
         kind = "content" => Passed(c, n),
         kind = "function" => Lock,
         ~ Pipelines /\ kind \in {"content", "function", "write"} => n = Len(answers[c]) + 1
  PROVE  Effect(c)
<1>1. /\ op' \in [Conns -> Operations] /\ op'[c] = kind
      /\ \A d \in Conns \ {c} : op'[d] = op[d]
  BY BeginType DEF TypeOK
<1>2. /\ done' \in [Conns -> {"pending", "ok", "error"}] /\ done'[c] = "pending"
      /\ taken' \in [Conns -> Seq(Piece)] /\ taken'[c] = << >>
      /\ request' \in [Conns -> Nat] /\ request'[c] = n
      /\ timer' \subseteq Conns
      /\ \A d \in Conns \ {c} :
            done'[d] = done[d] /\ taken'[d] = taken[d] /\ request'[d] = request[d]
  BY BeginType
<1>3. /\ \A d \in Conns \ {c} : handled'[d] = handled[d]
      /\ \/ handled'[c] = handled[c]
         \/ /\ kind = "function" /\ Passed(c, n)
            /\ handled'[c] = Append(handled[c], n)
  BY DEF TypeOK
<1>. QED  BY <1>1, <1>2, <1>3 DEF Effect

LEMMA DropEffect ==
  ASSUME TypeOK, NEW c \in Conns, Drop(c), timer' \subseteq Conns, UNCHANGED handled,
         upgraded' \subseteq Conns, connections' \subseteq connections,
         connections \cup upgraded \subseteq connections' \cup upgraded'
  PROVE  Effect(c)
<1>1. /\ op' \in [Conns -> Operations] /\ op'[c] = "none"
      /\ \A d \in Conns \ {c} : op'[d] = op[d]
  BY DropType DEF TypeOK
<1>2. /\ done' \in [Conns -> {"pending", "ok", "error"}] /\ done'[c] = "pending"
      /\ taken' \in [Conns -> Seq(Piece)] /\ taken'[c] = << >>
      /\ request' \in [Conns -> Nat] /\ request'[c] = 0
      /\ \A d \in Conns \ {c} :
            done'[d] = done[d] /\ taken'[d] = taken[d] /\ request'[d] = request[d]
  BY DropType
<1>3. sent[c] \in Nat /\ handled \in [Conns -> Seq(Nat)]
  BY DEF TypeOK
<1>. QED  BY <1>1, <1>2, <1>3 DEF Effect

\* The function is called, or the connection given away or dropped.
LEMMA FindEffect ==
  ASSUME TypeOK, NEW c \in Conns, NEW n \in Nat, find_resource(c, n), Lock,
         Passed(c, n), NoneUpTo(c, n), n <= sent[c],
         ~ Pipelines => n = Len(answers[c]) + 1
  PROVE  Effect(c)
<1>1. /\ handled' \in [Conns -> Seq(Nat)]
      /\ upgraded' \subseteq Conns /\ connections' \subseteq connections
      /\ connections \cup upgraded \subseteq connections' \cup upgraded'
  BY FindType
<1>2. "function" \in Operations
  BY DEF Operations
<1>3. CASE Begin(c, "function", n) /\ handled' = [handled EXCEPT ![c] = Append(@, n)]
  BY <1>1, <1>2, <1>3, BeginEffect
<1>4. CASE Drop(c) /\ timer' \subseteq Conns /\ UNCHANGED handled
  BY <1>1, <1>4, DropEffect
<1>. QED  BY <1>3, <1>4, FindType

LEMMA SessionEffect ==
  ASSUME IInv, NEW c \in Conns, Session(c)
  PROVE  Effect(c)
<1>1. /\ TypeOK /\ OrderInv(c) /\ NoFunctionAfterDestructor
      /\ ~ Pipelines => TurnInv(c)
  BY DEF IInv, SessionInv, ServerInv
<1>2. /\ "read" \in Operations /\ "content" \in Operations /\ "write" \in Operations
      /\ sent[c] \in Nat /\ request[c] \in Nat /\ handled \in [Conns -> Seq(Nat)]
      /\ connections \subseteq Conns /\ upgraded \subseteq Conns
  BY <1>1 DEF TypeOK, Operations
<1>3. CASE Idles(c)
  <2>1. CASE Begin(c, "read", 0)
    <3>1. 0 \in Nat /\ 0 <= sent[c]
      BY <1>2
    <3>. QED  BY <1>1, <1>2, <1>3, <2>1, <3>1, BeginEffect DEF Idles
  <2>2. CASE Drop(c) /\ timer' \in {timer, timer \ {c}}
    <3>1. timer' \subseteq Conns
      BY <1>1, <2>2 DEF TypeOK
    <3>. QED  BY <1>1, <1>2, <1>3, <2>2, <3>1, DropEffect DEF Idles
  <2>. QED  BY <1>3, <2>1, <2>2 DEF Idles
<1>4. CASE /\ op[c] = "read" /\ taken[c] # << >> /\ taken[c][1].of \in Nat
           /\ Starts(taken[c][1])
           /\ Goes(c, taken[c][1].of)
  <2>. DEFINE n == taken[c][1].of
  <2>1. /\ n \in Nat /\ n <= sent[c] /\ Passed(c, n) /\ NoneUpTo(c, n)
        /\ ~ Pipelines => n = Len(answers[c]) + 1
    BY <1>1, <1>4 DEF OrderInv, TakenInv, TurnInv
  <2>2. Goes(c, n)
    BY <1>4
  <2>. HIDE DEF n
  <2>3. CASE find_resource(c, n)
    BY <1>1, <2>1, <2>2, <2>3, FindEffect DEF Goes
  <2>4. CASE Begin(c, "content", n) /\ UNCHANGED <<handled, connections, upgraded>>
    BY <1>1, <1>2, <2>1, <2>4, BeginEffect
  <2>5. CASE Begin(c, "write", n) /\ UNCHANGED <<handled, connections, upgraded>>
    BY <1>1, <1>2, <2>1, <2>5, BeginEffect
  <2>. QED  BY <2>2, <2>3, <2>4, <2>5 DEF Goes
<1>5. CASE /\ op[c] \in {"content", "function"}
           /\ op[c] = "content" => find_resource(c, request[c]) /\ Lock
           /\ op[c] = "function" => Begin(c, "write", request[c])
                                    /\ UNCHANGED <<handled, connections, upgraded>>
  <2>1. /\ NoneUpTo(c, request[c]) /\ request[c] <= sent[c]
        /\ op[c] = "content" => Passed(c, request[c])
        /\ ~ Pipelines => request[c] = Len(answers[c]) + 1
    BY <1>1, <1>5 DEF OrderInv, TurnInv, Answering
  <2>2. CASE op[c] = "content"
    BY <1>1, <1>2, <1>5, <2>1, <2>2, FindEffect
  <2>3. CASE op[c] = "function"
    BY <1>1, <1>2, <1>5, <2>1, <2>3, BeginEffect
  <2>. QED  BY <1>5, <2>2, <2>3
<1>6. CASE op[c] = "function" /\ FunctionThrows(c)
  <2>1. /\ NoneUpTo(c, request[c]) /\ request[c] <= sent[c] /\ taken[c] = << >>
    BY <1>1, <1>6 DEF OrderInv, TakenInv
  <2>2. /\ op' \in [Conns -> Operations] /\ op'[c] = "write"
        /\ \A d \in Conns \ {c} : op'[d] = op[d]
    BY <1>1, <1>2, <1>6 DEF FunctionThrows, TypeOK
  <2>3. /\ done' \in [Conns -> {"pending", "ok", "error"}] /\ done'[c] = "ok"
        /\ \A d \in Conns \ {c} : done'[d] = done[d]
        /\ timer' \subseteq Conns
    BY <1>1, <1>6 DEF FunctionThrows, TypeOK
  <2>4. UNCHANGED <<taken, request, handled, connections, upgraded>>
    BY <1>6 DEF FunctionThrows, connVars
  <2>5. taken \in [Conns -> Seq(Piece)] /\ request \in [Conns -> Nat]
    BY <1>1 DEF TypeOK
  <2>. QED  BY <1>2, <2>1, <2>2, <2>3, <2>4, <2>5 DEF Effect
<1>. QED  BY <1>3, <1>4, <1>5, <1>6, SessionCases

LEMMA HandlerServer ==
  ASSUME IInv, NEW c \in Conns, Handler(c), UNCHANGED program
  PROVE  ServerInv'
<1>0. ServerInv /\ TypeOK /\ ConnectionsAreLive /\ NoFunctionAfterDestructor /\ StopInv
  BY DEF IInv, ServerInv
<1>. USE <1>0
<1>1. CASE Session(c)
  <2>1. /\ Effect(c) /\ op[c] # "none"
        /\ accepts' = accepts \/ accept
        /\ UNCHANGED <<starts, running, acceptor, stopVars, socket, life, fired, clientVars>>
    BY <1>1, SessionEffect, SessionCases
  <2>2. accepts' \in [pending : Nat, aborted : Nat, bad : Nat]
    BY <2>1, AcceptType DEF TypeOK
  <2>3. /\ op' \in [Conns -> Operations] /\ done' \in [Conns -> {"pending", "ok", "error"}]
        /\ taken' \in [Conns -> Seq(Piece)] /\ request' \in [Conns -> Nat]
        /\ handled' \in [Conns -> Seq(Nat)] /\ timer' \subseteq Conns
        /\ upgraded' \subseteq Conns /\ connections' \subseteq connections
        /\ connections \cup upgraded \subseteq connections' \cup upgraded'
        /\ \A d \in Conns \ {c} : op'[d] = op[d]
        /\ op'[c] = "function" => Lock
    BY <2>1 DEF Effect
  <2>4. UNCHANGED <<starts, running, acceptor, stopping, destructor, socket, life, fired, inbox,
                    sent, answers, left>>
    BY <2>1 DEF stopVars, clientVars
  <2>5. TypeOK'
    BY <2>2, <2>3, <2>4 DEF TypeOK
  <2>6. UNCHANGED <<stopVars, acceptor, socket, life>>
    BY <2>1, <2>4 DEF stopVars
  <2>. QED  BY <1>0, <2>1, <2>3, <2>5, <2>6, SessionServer
<1>2. CASE Erase(c)
  <2>1. TypeOK'
    BY <1>2 DEF Erase, TypeOK, ioVars, stopVars, opVars, clientVars
  <2>2. ConnectionsAreLive' /\ NoFunctionAfterDestructor'
    BY <1>2 DEF Erase, TypeOK, ConnectionsAreLive, NoFunctionAfterDestructor, Lock, stopVars,
                opVars
  <2>3. StopInv'
    BY <1>2 DEF Erase, TypeOK, StopInv, ioVars, stopVars, opVars
  <2>. QED  BY <2>1, <2>2, <2>3 DEF ServerInv
<1>3. CASE Delete(c)
  <2>1. TypeOK'
    BY <1>3 DEF Delete, TypeOK, ioVars, stopVars, opVars, clientVars
  <2>2. ConnectionsAreLive' /\ NoFunctionAfterDestructor'
    BY <1>3 DEF Delete, TypeOK, ConnectionsAreLive, NoFunctionAfterDestructor, Lock, stopVars,
                opVars
  <2>3. StopInv'
    BY <1>3 DEF Delete, TypeOK, StopInv, ioVars, stopVars, opVars
  <2>. QED  BY <2>1, <2>2, <2>3 DEF ServerInv
<1>. QED  BY <1>1, <1>2, <1>3 DEF Handler, Session

\* accept() that failed, start(), stop() and the destructor.
LEMMA StopServer ==
  ASSUME ServerInv, UNCHANGED program,
         AcceptAborted \/ AcceptFailed \/ start \/ CloseAcceptor \/ CloseConnections
           \/ StopIoService \/ Destroy
  PROVE  ServerInv'
<1>0. TypeOK /\ ConnectionsAreLive /\ NoFunctionAfterDestructor /\ StopInv
  BY DEF ServerInv
<1>1. /\ accepts \in [pending : Nat, aborted : Nat, bad : Nat]
      /\ accepts.pending \in Nat /\ accepts.aborted \in Nat /\ accepts.bad \in Nat
  BY <1>0 DEF TypeOK
<1>. USE <1>0 DEF ioVars, stopVars, connVars, opVars, clientVars
<1>2. CASE AcceptAborted
  <2>1. accepts.aborted - 1 \in Nat
    BY <1>1, <1>2 DEF AcceptAborted
  <2>2. /\ accepts' \in [pending : Nat, aborted : Nat, bad : Nat]
        /\ accepts'.pending = accepts.pending
    BY <1>1, <1>2, <2>1 DEF AcceptAborted
  <2>3. TypeOK'
    BY <1>2, <2>2 DEF AcceptAborted, TypeOK
  <2>. QED  BY <1>2, <2>2, <2>3 DEF AcceptAborted, ServerInv, ConnectionsAreLive,
                                    NoFunctionAfterDestructor, Lock, StopInv
<1>3. CASE AcceptFailed
  <2>1. accepts.bad - 1 \in Nat /\ accepts.pending + 0 \in Nat /\ accepts.pending + 1 \in Nat
        /\ accepts.pending + 0 = accepts.pending
    BY <1>1, <1>3 DEF AcceptFailed
  <2>2. /\ accepts' \in [pending : Nat, aborted : Nat, bad : Nat]
        /\ ~ acceptor => accepts'.pending = accepts.pending
    <3>1. CASE Lock /\ ~ acceptor
      BY <1>1, <1>3, <3>1 DEF AcceptFailed
    <3>2. CASE Lock /\ acceptor
      BY <1>1, <1>3, <2>1, <3>2 DEF AcceptFailed
    <3>3. CASE ~ Lock
      BY <1>1, <1>3, <2>1, <3>3 DEF AcceptFailed
    <3>. QED  BY <3>1, <3>2, <3>3
  <2>3. TypeOK'
    BY <1>3, <2>2 DEF AcceptFailed, TypeOK
  <2>. QED  BY <1>3, <2>2, <2>3 DEF AcceptFailed, ServerInv, ConnectionsAreLive,
                                    NoFunctionAfterDestructor, Lock, StopInv
<1>4. CASE start
  <2>1. accepts.pending + 1 \in Nat
    BY <1>1
  <2>2. accepts' \in [pending : Nat, aborted : Nat, bad : Nat]
    BY <1>1, <1>4, <2>1 DEF start
  <2>3. starts' \in Nat
    BY <1>4 DEF start, TypeOK
  <2>4. TypeOK'
    BY <1>4, <2>2, <2>3 DEF start, TypeOK
  <2>. QED  BY <1>4, <2>4 DEF start, ServerInv, ConnectionsAreLive,
                              NoFunctionAfterDestructor, Lock, StopInv
<1>5. CASE CloseAcceptor
  <2>1. accepts.aborted + accepts.pending \in Nat /\ 0 \in Nat
    BY <1>1
  <2>2. accepts' \in [pending : Nat, aborted : Nat, bad : Nat] /\ accepts'.pending = 0
    BY <1>1, <1>5, <2>1 DEF CloseAcceptor
  <2>3. TypeOK'
    BY <1>5, <2>2 DEF CloseAcceptor, TypeOK
  <2>4. StopInv'
    BY <1>5, <2>2 DEF CloseAcceptor, StopInv
  <2>. QED  BY <1>5, <2>3, <2>4 DEF CloseAcceptor, ServerInv, ConnectionsAreLive,
                                    NoFunctionAfterDestructor, Lock
<1>6. CASE CloseConnections
  <2>1. TypeOK'
    BY <1>6 DEF CloseConnections, TypeOK
  <2>2. StopInv'
    BY <1>6 DEF CloseConnections, StopInv
  <2>. QED  BY <1>6, <2>1, <2>2 DEF CloseConnections, ServerInv, ConnectionsAreLive,
                                    NoFunctionAfterDestructor, Lock
<1>7. CASE StopIoService
  <2>1. TypeOK'
    BY <1>7 DEF StopIoService, TypeOK
  <2>2. StopInv'
    BY <1>7 DEF StopIoService, StopInv
  <2>. QED  BY <1>7, <2>1, <2>2 DEF StopIoService, ServerInv, ConnectionsAreLive,
                                    NoFunctionAfterDestructor, Lock
<1>8. CASE Destroy
  <2>1. TypeOK'
    BY <1>8 DEF Destroy, TypeOK
  <2>2. StopInv'
    BY <1>8 DEF Destroy, StopInv
  <2>. QED  BY <1>8, <2>1, <2>2 DEF Destroy, ServerInv, ConnectionsAreLive,
                                    NoFunctionAfterDestructor, Lock
<1>. QED  BY <1>2, <1>3, <1>4, <1>5, <1>6, <1>7, <1>8

-----------------------------------------------------------------------------
(* The requests of a connection.                                           *)

Same(d) ==
    UNCHANGED <<op[d], done[d], inbox[d], taken[d], sent[d], request[d], handled[d], answers[d]>>

\* A step that changes nothing of a connection's session and its pieces.
LEMMA Frame ==
  ASSUME NEW d \in Conns, OrderInv(d), ~ Pipelines => TurnInv(d), UNCHANGED program, Same(d)
  PROVE  OrderInv(d)' /\ (~ Pipelines => TurnInv(d)')
<1>1. OrderInv(d)'
  BY DEF Same, OrderInv, TakenInv, Passed, NoneUpTo, Starts
<1>2. TurnInv(d) => TurnInv(d)'
  BY DEF Same, TurnInv, Answering, Starts
<1>. QED  BY <1>1, <1>2

\* It is enough to look at the connection a step is about.
LEMMA Local ==
  ASSUME SessionInv, NEW c \in Conns, UNCHANGED program,
         \A d \in Conns \ {c} : Same(d),
         OrderInv(c)', ~ Pipelines => TurnInv(c)'
  PROVE  SessionInv'
<1>1. ASSUME NEW d \in Conns PROVE OrderInv(d)' /\ (~ Pipelines => TurnInv(d)')
  <2>1. CASE d = c
    BY <2>1
  <2>2. CASE d # c
    BY <2>2, Frame DEF SessionInv
  <2>. QED  BY <2>1, <2>2
<1>. QED  BY <1>1 DEF SessionInv, Pipelines

\* What a connection's pieces and sequences are made of.
LEMMA ConnType ==
  ASSUME TypeOK, NEW c \in Conns
  PROVE  /\ handled[c] \in Seq(Nat) /\ answers[c] \in Seq(Nat)
         /\ inbox[c] \in Seq(Piece) /\ taken[c] \in Seq(Piece)
         /\ \A i \in DOMAIN handled[c] : handled[c][i] \in Nat
         /\ \A j \in DOMAIN inbox[c] : inbox[c][j].of \in Nat
         /\ taken[c] # << >> => taken[c][1].of \in Nat
         /\ sent[c] \in Nat /\ request[c] \in Nat
<1>1. /\ handled[c] \in Seq(Nat) /\ answers[c] \in Seq(Nat)
      /\ inbox[c] \in Seq(Piece) /\ taken[c] \in Seq(Piece)
      /\ sent[c] \in Nat /\ request[c] \in Nat
  BY DEF TypeOK
<1>2. \A i \in DOMAIN handled[c] : handled[c][i] \in Nat
  BY <1>1
<1>3. \A j \in DOMAIN inbox[c] : inbox[c][j] \in Piece
  BY <1>1
<1>4. taken[c] # << >> => taken[c][1] \in Piece
  BY <1>1
<1>. QED  BY <1>1, <1>2, <1>3, <1>4 DEF Piece

\* A step of the session: the next request is the latest one handled.
LEMMA EffectOrder ==
  ASSUME TypeOK, TypeOK', NEW c \in Conns, OrderInv(c), UNCHANGED <<inbox[c], sent[c]>>,
         taken'[c] = << >>, request'[c] <= sent[c],
         \/ handled'[c] = handled[c]
         \/ /\ op'[c] = "function" /\ Passed(c, request'[c])
            /\ handled'[c] = Append(handled[c], request'[c]),
         op'[c] \in {"content", "function", "write"} => NoneUpTo(c, request'[c]),
         op'[c] = "content" => Passed(c, request'[c]),
         ~ (op'[c] = "read" /\ done'[c] = "ok")
  PROVE  OrderInv(c)'
<1>. DEFINE n == request'[c]
<1>1. /\ n \in Nat /\ handled[c] \in Seq(Nat) /\ sent[c] \in Nat
      /\ \A j \in DOMAIN inbox[c] : inbox[c][j].of \in Nat
      /\ \A i \in DOMAIN handled[c] : handled[c][i] \in Nat
  BY ConnType DEF TypeOK
<1>2. /\ \A i, j \in DOMAIN handled[c] : i < j => handled[c][i] < handled[c][j]
      /\ Passed(c, sent[c] + 1)
      /\ \A j \in DOMAIN inbox[c] :
            /\ inbox[c][j].of <= sent[c]
            /\ Starts(inbox[c][j]) =>
                 /\ Passed(c, inbox[c][j].of)
                 /\ \A i \in DOMAIN inbox[c] :
                       i < j /\ Starts(inbox[c][i]) => inbox[c][i].of < inbox[c][j].of
  BY DEF OrderInv
<1>3. /\ \A i, j \in DOMAIN handled'[c] : i < j => handled'[c][i] < handled'[c][j]
      /\ \A i \in DOMAIN handled'[c] : handled'[c][i] < sent[c] + 1
      /\ \A j \in DOMAIN inbox[c] :
            Starts(inbox[c][j]) =>
              \A i \in DOMAIN handled'[c] : handled'[c][i] < inbox[c][j].of
      /\ op'[c] = "content" => handled'[c] = handled[c]
  <2>1. CASE handled'[c] = handled[c]
    BY <1>2, <2>1 DEF Passed
  <2>2. CASE /\ op'[c] = "function" /\ Passed(c, n)
             /\ handled'[c] = Append(handled[c], n)
    <3>. DEFINE h == handled'[c]
    <3>1. /\ DOMAIN h = 1 .. Len(handled[c]) + 1
          /\ \A i \in DOMAIN handled[c] : h[i] = handled[c][i]
          /\ h[Len(handled[c]) + 1] = n
          /\ DOMAIN handled[c] = 1 .. Len(handled[c]) /\ Len(handled[c]) \in Nat
      BY <1>1, <2>2
    <3>2. \A i \in DOMAIN h : i \in DOMAIN handled[c] \/ i = Len(handled[c]) + 1
      BY <3>1
    <3>3. NoneUpTo(c, n) /\ Passed(c, n)
      BY <2>2
    <3>. HIDE DEF h, n
    <3>4. ASSUME NEW i \in DOMAIN h, NEW j \in DOMAIN h, i < j PROVE h[i] < h[j]
      <4>1. i \in DOMAIN handled[c]
        BY <3>1, <3>2, <3>4
      <4>. QED  BY <1>2, <3>1, <3>2, <3>3, <3>4, <4>1 DEF Passed
    <3>5. \A i \in DOMAIN h : h[i] < sent[c] + 1
      BY <1>1, <1>2, <3>1, <3>2 DEF Passed, n
    <3>6. ASSUME NEW j \in DOMAIN inbox[c], Starts(inbox[c][j]), NEW i \in DOMAIN h
          PROVE  h[i] < inbox[c][j].of
      BY <1>2, <3>1, <3>2, <3>3, <3>6 DEF Passed, NoneUpTo
    <3>. QED  BY <2>2, <3>4, <3>5, <3>6 DEF h
  <2>. QED  BY <2>1, <2>2
<1>. QED  BY <1>2, <1>3 DEF OrderInv, TakenInv, Passed, NoneUpTo

\* A step of the session that receives no response.
LEMMA EffectTurn ==
  ASSUME NEW c \in Conns, TurnInv(c), UNCHANGED <<inbox[c], sent[c], answers[c]>>,
         taken'[c] = << >>,
         Answering(c)' => request'[c] = Len(answers[c]) + 1
  PROVE  TurnInv(c)'
  BY DEF TurnInv

LEMMA HandlerSession ==
  ASSUME IInv, NEW c \in Conns, Handler(c), UNCHANGED program
  PROVE  SessionInv'
<1>1. TypeOK /\ SessionInv /\ OrderInv(c) /\ (~ Pipelines => TurnInv(c))
  BY DEF IInv, SessionInv, ServerInv
<1>2. TypeOK'
  BY HandlerServer DEF ServerInv
<1>3. CASE Session(c)
  <2>1. Effect(c)
    BY <1>3, SessionEffect
  <2>2. UNCHANGED <<inbox, sent, answers, left>>
    BY <1>3, SessionCases DEF clientVars
  <2>3. OrderInv(c)'
    BY <1>1, <1>2, <2>1, <2>2, EffectOrder DEF Effect
  <2>4. ~ Pipelines => TurnInv(c)'
    BY <1>1, <2>1, <2>2, EffectTurn DEF Effect, Answering
  <2>5. \A d \in Conns \ {c} : Same(d)
    BY <2>1, <2>2 DEF Effect, Same
  <2>. QED  BY <1>1, <2>3, <2>4, <2>5, Local
<1>4. CASE Erase(c) \/ Delete(c)
  <2>1. Same(c) /\ \A d \in Conns \ {c} : Same(d)
    BY <1>4 DEF Erase, Delete, Same, opVars, clientVars
  <2>. QED  BY <1>1, <2>1, Frame, Local
<1>. QED  BY <1>3, <1>4 DEF Handler, Session

\* A client that waits for its answers sends when nothing is on its way.
LEMMA SendsSession ==
  ASSUME IInv, NEW c \in Conns, ClientSends(c), UNCHANGED program
  PROVE  SessionInv'
<1>1. TypeOK /\ SessionInv /\ OrderInv(c) /\ (~ Pipelines => TurnInv(c))
  BY DEF IInv, SessionInv, ServerInv
<1>. DEFINE n == sent[c] + 1
            ps == Pieces(c, n)
            m == Len(inbox[c])
<1>2. /\ sent[c] \in Nat /\ n \in Nat /\ inbox[c] \in Seq(Piece) /\ m \in Nat
      /\ DOMAIN inbox[c] = 1 .. m
      /\ \A j \in DOMAIN inbox[c] : inbox[c][j].of \in Nat
      /\ \A i \in DOMAIN handled[c] : handled[c][i] \in Nat
      /\ request[c] \in Nat
      /\ taken[c] # << >> => taken[c][1].of \in Nat
  BY <1>1, ConnType
<1>3. /\ ps \in Seq(Piece)
      /\ \A j \in 1 .. Len(ps) : ps[j].of = n /\ (Starts(ps[j]) => j = 1)
  BY <1>2, PiecesType
<1>4. /\ sent'[c] = n /\ inbox'[c] = inbox[c] \o ps
      /\ ~ Pipelines => Len(answers[c]) = sent[c]
      /\ UNCHANGED <<op, done, taken, request, handled, answers>>
      /\ \A d \in Conns \ {c} : Same(d)
  BY <1>1 DEF ClientSends, TypeOK, opVars, Same
<1>. HIDE DEF ps
<1>5. /\ DOMAIN inbox'[c] = 1 .. m + Len(ps) /\ Len(ps) \in Nat
      /\ \A j \in 1 .. m : inbox'[c][j] = inbox[c][j]
      /\ \A j \in m + 1 .. m + Len(ps) : inbox'[c][j] = ps[j - m]
  BY <1>2, <1>3, <1>4
<1>6. \A j \in DOMAIN inbox'[c] :
        \/ j \in 1 .. m /\ inbox'[c][j] = inbox[c][j]
        \/ /\ j \in Nat /\ j > m /\ inbox'[c][j].of = n
           /\ Starts(inbox'[c][j]) => j = m + 1
  <2>1. ASSUME NEW j \in m + 1 .. m + Len(ps)
        PROVE  j > m /\ inbox'[c][j].of = n /\ (Starts(inbox'[c][j]) => j = m + 1)
    <3>1. j - m \in 1 .. Len(ps) /\ inbox'[c][j] = ps[j - m]
      BY <1>2, <1>5, <2>1
    <3>2. inbox'[c][j].of = n /\ (Starts(inbox'[c][j]) => j - m = 1)
      BY <1>3, <3>1
    <3>. QED  BY <1>2, <3>1, <3>2
  <2>2. \A j \in 1 .. m + Len(ps) : j \in 1 .. m \/ j \in m + 1 .. m + Len(ps)
    BY <1>2, <1>5
  <2>. QED
    <3>. TAKE j \in DOMAIN inbox'[c]
    <3>1. CASE j \in 1 .. m
      BY <1>5, <3>1
    <3>2. CASE j \in m + 1 .. m + Len(ps)
      BY <1>2, <1>5, <2>1, <3>2
    <3>. QED  BY <1>5, <2>2, <3>1, <3>2
<1>. HIDE DEF m
<1>7. OrderInv(c)'
  <2>1. /\ Passed(c, n)
        /\ \A j \in DOMAIN inbox[c] :
              /\ inbox[c][j].of <= sent[c]
              /\ Starts(inbox[c][j]) =>
                   /\ Passed(c, inbox[c][j].of)
                   /\ \A i \in DOMAIN inbox[c] :
                         i < j /\ Starts(inbox[c][i]) => inbox[c][i].of < inbox[c][j].of
    BY <1>1 DEF OrderInv
  <2>2. \A i \in DOMAIN handled[c] : handled[c][i] < n + 1
    BY <1>2, <2>1 DEF Passed
  <2>3. request[c] <= n
    BY <1>1, <1>2 DEF OrderInv
  <2>4. ASSUME NEW j \in DOMAIN inbox'[c]
        PROVE  /\ inbox'[c][j].of <= n
               /\ Starts(inbox'[c][j]) =>
                    /\ Passed(c, inbox'[c][j].of)
                    /\ \A i \in DOMAIN inbox'[c] :
                          i < j /\ Starts(inbox'[c][i]) => inbox'[c][i].of < inbox'[c][j].of
    <3>1. CASE j \in 1 .. m /\ inbox'[c][j] = inbox[c][j]
      BY <1>2, <1>6, <2>1, <3>1
    <3>2. CASE /\ j \in Nat /\ j > m /\ inbox'[c][j].of = n
               /\ Starts(inbox'[c][j]) => j = m + 1
      <4>1. ASSUME Starts(inbox'[c][j]), NEW i \in DOMAIN inbox'[c], i < j
            PROVE  inbox'[c][i].of < n
        <5>1. i \in 1 .. m /\ inbox'[c][i] = inbox[c][i]
          BY <1>2, <1>6, <3>2, <4>1
        <5>. QED  BY <1>2, <2>1, <5>1
      <4>. QED  BY <1>2, <2>1, <3>2, <4>1
    <3>. QED  BY <1>6, <3>1, <3>2
  <2>5. ASSUME NEW k \in Nat, k <= sent[c], NoneUpTo(c, k)
        PROVE  \A j \in DOMAIN inbox'[c] : Starts(inbox'[c][j]) => k < inbox'[c][j].of
    BY <1>2, <1>6, <2>5 DEF NoneUpTo
  <2>6. /\ op[c] \in {"content", "function", "write"} =>
              \A j \in DOMAIN inbox'[c] : Starts(inbox'[c][j]) => request[c] < inbox'[c][j].of
        /\ op[c] = "content" => Passed(c, request[c])
        /\ op[c] = "read" /\ done[c] = "ok" => taken[c] # << >>
    BY <1>1, <1>2, <2>5 DEF OrderInv
  <2>7. taken[c] # << >> =>
          /\ op[c] \in {"read", "content"} /\ done[c] = "ok"
          /\ taken[c][1].of <= n
          /\ Starts(taken[c][1]) =>
               /\ Passed(c, taken[c][1].of)
               /\ \A j \in DOMAIN inbox'[c] :
                     Starts(inbox'[c][j]) => taken[c][1].of < inbox'[c][j].of
    BY <1>1, <1>2, <2>5 DEF OrderInv, TakenInv
  <2>8. \A i, j \in DOMAIN handled[c] : i < j => handled[c][i] < handled[c][j]
    BY <1>1 DEF OrderInv
  <2>. HIDE DEF n
  <2>. QED  BY <1>4, <2>2, <2>3, <2>4, <2>6, <2>7, <2>8 DEF OrderInv, TakenInv, Passed, NoneUpTo
<1>8. ASSUME ~ Pipelines PROVE TurnInv(c)'
  <2>1. TurnInv(c) /\ Len(answers[c]) = sent[c] /\ n = Len(answers[c]) + 1
    BY <1>1, <1>4, <1>8
  <2>2. \A j \in DOMAIN inbox'[c] :
          Starts(inbox'[c][j]) => inbox'[c][j].of = Len(answers[c]) + 1
    BY <1>2, <1>6, <2>1 DEF TurnInv
  <2>. QED  BY <1>4, <2>1, <2>2 DEF TurnInv, Answering
<1>. QED  BY <1>1, <1>4, <1>7, <1>8, Local

\* What a read takes is older than what it leaves.
LEMMA ReadSession ==
  ASSUME IInv, NEW c \in Conns, NEW kind \in {"read", "content"}, ReadCompletes(c, kind),
         UNCHANGED program
  PROVE  SessionInv'
<1>1. TypeOK /\ SessionInv /\ OrderInv(c) /\ (~ Pipelines => TurnInv(c))
  BY DEF IInv, SessionInv, ServerInv
<1>2. /\ inbox[c] \in Seq(Piece) /\ Len(inbox[c]) \in Nat
      /\ DOMAIN inbox[c] = 1 .. Len(inbox[c])
  BY <1>1, ConnType
<1>3. /\ \A d \in Conns \ {c} : taken'[d] = taken[d] /\ inbox'[d] = inbox[d]
      /\ \E k \in 1 .. Len(inbox[c]) :
              /\ taken'[c] = SubSeq(inbox[c], 1, k)
              /\ inbox'[c] = SubSeq(inbox[c], k + 1, Len(inbox[c]))
  BY <1>1, ReadType
<1>4. PICK k \in 1 .. Len(inbox[c]) :
              /\ taken'[c] = SubSeq(inbox[c], 1, k)
              /\ inbox'[c] = SubSeq(inbox[c], k + 1, Len(inbox[c]))
  BY <1>3
<1>5. /\ taken'[c] # << >> /\ taken'[c][1] = inbox[c][1]
      /\ 1 \in DOMAIN inbox[c] /\ k \in Nat /\ k > 0
  BY <1>2, <1>4
<1>6. \A j \in DOMAIN inbox'[c] :
        /\ inbox'[c][j] = inbox[c][k + j] /\ k + j \in DOMAIN inbox[c]
        /\ j \in Nat /\ 1 < k + j
  <2>1. /\ DOMAIN inbox'[c] = 1 .. Len(inbox[c]) - k
        /\ \A j \in 1 .. Len(inbox[c]) - k : inbox'[c][j] = inbox[c][k + j]
    BY <1>2, <1>4
  <2>. QED  BY <1>2, <1>5, <2>1
<1>7. /\ done'[c] = "ok" /\ op[c] = kind /\ done[c] = "pending"
      /\ UNCHANGED <<op, request, sent, handled, answers>>
      /\ \A d \in Conns \ {c} : done'[d] = done[d]
  BY <1>1 DEF ReadCompletes, Completes, TypeOK
<1>8. OrderInv(c)'
  <2>1. \A j \in DOMAIN inbox[c] :
          /\ inbox[c][j].of <= sent[c]
          /\ Starts(inbox[c][j]) =>
               /\ Passed(c, inbox[c][j].of)
               /\ \A i \in DOMAIN inbox[c] :
                     i < j /\ Starts(inbox[c][i]) => inbox[c][i].of < inbox[c][j].of
    BY <1>1 DEF OrderInv
  <2>2. ASSUME NEW j \in DOMAIN inbox'[c]
        PROVE  /\ inbox'[c][j].of <= sent[c]
               /\ Starts(inbox'[c][j]) =>
                    /\ Passed(c, inbox'[c][j].of)
                    /\ \A i \in DOMAIN inbox'[c] :
                          i < j /\ Starts(inbox'[c][i]) => inbox'[c][i].of < inbox'[c][j].of
    <3>1. \A i \in DOMAIN inbox'[c] : i < j => k + i < k + j
      BY <1>5, <1>6, <2>2
    <3>. QED  BY <1>6, <2>1, <2>2, <3>1
  <2>3. Starts(taken'[c][1]) =>
          /\ Passed(c, taken'[c][1].of)
          /\ \A j \in DOMAIN inbox'[c] :
                Starts(inbox'[c][j]) => taken'[c][1].of < inbox'[c][j].of
    BY <1>5, <1>6, <2>1
  <2>4. taken'[c][1].of <= sent[c]
    BY <1>5, <2>1
  <2>5. op[c] \in {"content", "function", "write"} =>
          \A j \in DOMAIN inbox'[c] : Starts(inbox'[c][j]) => request[c] < inbox'[c][j].of
    BY <1>1, <1>6 DEF OrderInv, NoneUpTo
  <2>6. /\ \A i, j \in DOMAIN handled[c] : i < j => handled[c][i] < handled[c][j]
        /\ Passed(c, sent[c] + 1)
        /\ request[c] <= sent[c]
        /\ op[c] = "content" => Passed(c, request[c])
    BY <1>1 DEF OrderInv
  <2>. QED  BY <1>5, <1>7, <2>2, <2>3, <2>4, <2>5, <2>6 DEF OrderInv, TakenInv, Passed, NoneUpTo
<1>9. ASSUME ~ Pipelines PROVE TurnInv(c)'
  <2>1. TurnInv(c)
    BY <1>1, <1>9
  <2>2. \A j \in DOMAIN inbox'[c] :
          Starts(inbox'[c][j]) => inbox'[c][j].of = Len(answers[c]) + 1
    BY <1>6, <2>1 DEF TurnInv
  <2>3. Starts(taken'[c][1]) => taken'[c][1].of = Len(answers[c]) + 1
    BY <1>5, <2>1 DEF TurnInv
  <2>. QED  BY <1>7, <2>1, <2>2, <2>3 DEF TurnInv, Answering
<1>10. \A d \in Conns \ {c} : Same(d)
  BY <1>3, <1>7 DEF Same
<1>. QED  BY <1>1, <1>8, <1>9, <1>10, Local

\* The response that is received is that to the only request on its way.
LEMMA WriteSession ==
  ASSUME IInv, NEW c \in Conns, WriteCompletes(c), UNCHANGED program
  PROVE  SessionInv'
<1>1. TypeOK /\ SessionInv /\ OrderInv(c) /\ (~ Pipelines => TurnInv(c))
  BY DEF IInv, SessionInv, ServerInv
<1>2. /\ done'[c] = "ok" /\ op[c] = "write" /\ done[c] = "pending"
      /\ answers'[c] = Append(answers[c], request[c])
      /\ UNCHANGED <<op, request, sent, handled, taken, inbox>>
      /\ \A d \in Conns \ {c} : Same(d)
  BY <1>1 DEF WriteCompletes, Completes, TypeOK, Same
<1>3. taken[c] = << >>
  BY <1>1, <1>2 DEF OrderInv, TakenInv
<1>4. OrderInv(c)'
  BY <1>1, <1>2, <1>3 DEF OrderInv, TakenInv, Passed, NoneUpTo
<1>5. ASSUME ~ Pipelines PROVE TurnInv(c)'
  <2>. DEFINE n == Len(answers[c])
  <2>1. /\ answers[c] \in Seq(Nat) /\ n \in Nat /\ request[c] \in Nat /\ sent[c] \in Nat
        /\ \A j \in DOMAIN inbox[c] : inbox[c][j].of \in Nat
    BY <1>1, ConnType
  <2>2. /\ TurnInv(c) /\ request[c] = n + 1
    BY <1>1, <1>2, <1>5 DEF TurnInv, Answering
  <2>3. /\ DOMAIN answers'[c] = 1 .. n + 1 /\ Len(answers'[c]) = n + 1
        /\ DOMAIN answers[c] = 1 .. n
        /\ \A i \in 1 .. n : answers'[c][i] = answers[c][i]
        /\ answers'[c][n + 1] = n + 1
    BY <1>2, <2>1, <2>2
  <2>4. \A i \in DOMAIN answers'[c] : answers'[c][i] = i
    <3>1. \A i \in 1 .. n + 1 : i \in 1 .. n \/ i = n + 1
      BY <2>1
    <3>. QED  BY <2>2, <2>3, <3>1 DEF TurnInv
  <2>5. sent[c] = n + 1
    BY <1>1, <2>1, <2>2 DEF OrderInv, TurnInv
  <2>6. \A j \in DOMAIN inbox[c] : ~ Starts(inbox[c][j])
    BY <1>1, <1>2, <2>1, <2>2 DEF OrderInv, NoneUpTo, TurnInv
  <2>. HIDE DEF n
  <2>. QED  BY <1>2, <1>3, <2>3, <2>4, <2>5, <2>6 DEF TurnInv, Answering
<1>. QED  BY <1>1, <1>2, <1>4, <1>5, Local

LEMMA IoSession ==
  ASSUME IInv, NEW c \in Conns, IoStep(c) \/ TimerFires(c) \/ TimerHandler(c),
         UNCHANGED program
  PROVE  SessionInv'
<1>1. TypeOK /\ StopInv /\ SessionInv /\ OrderInv(c) /\ (~ Pipelines => TurnInv(c))
  BY DEF IInv, SessionInv, ServerInv
<1>2. TypeOK'
  BY IoServer DEF IInv, ServerInv
<1>3. CASE AcceptCompletes(c)
  <2>1. /\ op[c] = "none" /\ op'[c] = "accept"
        /\ UNCHANGED <<inbox, sent, answers, taken, request, handled>>
        /\ \A d \in Conns \ {c} : Same(d)
    BY <1>1, <1>3 DEF AcceptCompletes, StopInv, TypeOK, clientVars, Same
  <2>2. taken[c] = << >> /\ request[c] <= sent[c]
    BY <1>1, <2>1 DEF OrderInv, TakenInv
  <2>3. OrderInv(c)'
    BY <1>1, <1>2, <2>1, <2>2, EffectOrder
  <2>4. ~ Pipelines => TurnInv(c)'
    BY <1>1, <2>1, <2>2, EffectTurn DEF Answering
  <2>. QED  BY <1>1, <2>1, <2>3, <2>4, Local
<1>4. ASSUME NEW kind \in {"read", "content", "write"}, Fails(c, kind) PROVE SessionInv'
  <2>1. /\ done[c] = "pending" /\ done'[c] = "error"
        /\ UNCHANGED <<op, inbox, sent, answers, taken, request, handled>>
        /\ \A d \in Conns \ {c} : Same(d)
    BY <1>1, <1>4 DEF Fails, Completes, TypeOK, Same
  <2>2. taken[c] = << >>
    BY <1>1, <2>1 DEF OrderInv, TakenInv
  <2>3. /\ request[c] <= sent[c]
        /\ op[c] \in {"content", "function", "write"} => NoneUpTo(c, request[c])
        /\ op[c] = "content" => Passed(c, request[c])
    BY <1>1 DEF OrderInv
  <2>4. OrderInv(c)'
    BY <1>1, <1>2, <2>1, <2>2, <2>3, EffectOrder
  <2>5. ~ Pipelines => TurnInv(c)'
    BY <1>1, <2>1, <2>2, EffectTurn DEF Answering, TurnInv
  <2>. QED  BY <1>1, <2>1, <2>4, <2>5, Local
<1>5. CASE TimerFires(c) \/ TimerHandler(c)
  <2>1. Same(c) /\ \A d \in Conns \ {c} : Same(d)
    BY <1>5 DEF TimerFires, TimerHandler, Same, clientVars
  <2>. QED  BY <1>1, <2>1, Frame, Local
<1>. QED  BY <1>3, <1>4, <1>5, ReadSession, WriteSession DEF IoStep

-----------------------------------------------------------------------------
(* The theorems.                                                           *)

LEMMA InitIInv == Init => IInv
<1>. SUFFICES ASSUME Init PROVE IInv
  OBVIOUS
<1>1. TypeOK
  <2>1. << >> \in Seq(Piece) /\ << >> \in Seq(Nat) /\ 0 \in Nat /\ "none" \in Operations
    BY DEF Operations
  <2>2. accepts \in [pending : Nat, aborted : Nat, bad : Nat]
    BY DEF Init
  <2>. QED  BY <2>1, <2>2 DEF Init, TypeOK
<1>2. ConnectionsAreLive /\ NoFunctionAfterDestructor /\ StopInv
  BY DEF Init, ConnectionsAreLive, NoFunctionAfterDestructor, StopInv
<1>3. \A c \in Conns : OrderInv(c)
  BY DEF Init, OrderInv, TakenInv, Passed, NoneUpTo
<1>4. \A c \in Conns : TurnInv(c)
  BY DEF Init, TurnInv, Answering
<1>. QED  BY <1>1, <1>2, <1>3, <1>4 DEF IInv, ServerInv, SessionInv

LEMMA NextIInv == IInv /\ [Next /\ UNCHANGED program]_vars => IInv'
<1>. SUFFICES ASSUME IInv, [Next /\ UNCHANGED program]_vars PROVE IInv'
  OBVIOUS
<1>0. /\ ServerInv /\ SessionInv
      /\ \A d \in Conns : OrderInv(d) /\ (~ Pipelines => TurnInv(d))
  BY DEF IInv, SessionInv
<1>1. ASSUME NEW c \in Conns, ClientStep(c), UNCHANGED program PROVE IInv'
  <2>1. ServerInv'
    BY <1>0, <1>1, ClientServer
  <2>2. CASE ClientSends(c)
    BY <1>1, <2>1, <2>2, SendsSession DEF IInv, ServerInv
  <2>3. CASE Arrive(c) \/ ClientLeaves(c)
    <3>1. Same(c) /\ \A d \in Conns \ {c} : Same(d)
      BY <2>3 DEF Arrive, ClientLeaves, Same, opVars, clientVars
    <3>. QED  BY <1>0, <1>1, <2>1, <3>1, Frame, Local DEF IInv
  <2>. QED  BY <1>1, <2>2, <2>3 DEF ClientStep
<1>2. ASSUME NEW c \in Conns, IoStep(c) \/ TimerFires(c) \/ TimerHandler(c), UNCHANGED program
      PROVE  IInv'
  BY <1>0, <1>2, IoServer, IoSession DEF IInv
<1>3. ASSUME NEW c \in Conns, Handler(c), UNCHANGED program PROVE IInv'
  BY <1>3, HandlerServer, HandlerSession DEF IInv
<1>4. ASSUME ServerInv', UNCHANGED <<program, opVars, clientVars, handled>> PROVE IInv'
  <2>1. \A d \in Conns : Same(d)
    BY <1>4 DEF Same, opVars, clientVars
  <2>2. \A d \in Conns : OrderInv(d)' /\ (~ Pipelines => TurnInv(d)')
    BY <1>0, <1>4, <2>1, Frame
  <2>. QED  BY <1>4, <2>2 DEF IInv, SessionInv, Pipelines
<1>5. ASSUME AcceptAborted \/ AcceptFailed \/ start \/ CloseAcceptor \/ CloseConnections
               \/ StopIoService \/ Destroy,
             UNCHANGED program
      PROVE  IInv'
  <2>1. ServerInv'
    BY <1>0, <1>5, StopServer
  <2>2. UNCHANGED <<opVars, clientVars, handled>>
    BY <1>5 DEF AcceptAborted, AcceptFailed, start, CloseAcceptor, CloseConnections,
                StopIoService, Destroy
  <2>. QED  BY <1>4, <1>5, <2>1, <2>2
<1>6. CASE UNCHANGED vars
  <2>1. ServerInv'
    BY <1>0, <1>6 DEF vars, ioVars, stopVars, connVars, opVars, clientVars, ServerInv, TypeOK,
                      ConnectionsAreLive, NoFunctionAfterDestructor, Lock, StopInv
  <2>. QED  BY <1>4, <1>6, <2>1 DEF vars
<1>. QED  BY <1>1, <1>2, <1>3, <1>5, <1>6 DEF Next, Run

\* The inductive invariant: connections and the acceptor are as stop() needs
\* them, and the pieces of requests on each connection are in order.
THEOREM Invariance == Spec => []IInv
  BY InitIInv, NextIInv, PTL DEF Spec

\* stop() follows no pointer to a Connection whose deleter has gone on: the
\* deleter (create_connection) takes it out of the set first.
THEOREM LiveTheorem == Spec => []ConnectionsAreLive
<1>1. IInv => ConnectionsAreLive
  BY DEF IInv, ServerInv
<1>. QED  BY <1>1, Invariance, PTL

\* A handler calls a resource function only with a lock of the ScopeRunner,
\* and ~ServerBase() waits for those that run: none runs afterwards.
THEOREM DestructorTheorem == Spec => []NoFunctionAfterDestructor
<1>1. IInv => NoFunctionAfterDestructor
  BY DEF IInv, ServerInv
<1>. QED  BY <1>1, Invariance, PTL

\* When stop() has returned, what is still open was given away or is about to
\* be closed by the deleter, whatever the other threads did in between.
THEOREM StopTheorem == Spec => []StopClosesAll
<1>1. IInv => StopClosesAll
  BY DEF IInv, ServerInv, StopInv, StopClosesAll
<1>. QED  BY <1>1, Invariance, PTL

\* The functions get each connection's requests in order and none twice, and a
\* client that waits for each answer gets the answers to its own requests.
THEOREM AnswersTheorem == Spec => []AnswersMatch
<1>1. IInv => AnswersMatch
  BY DEF IInv, SessionInv, OrderInv, TurnInv, AnswersMatch
<1>. QED  BY <1>1, Invariance, PTL

=============================================================================
