---------------------------- MODULE MCHttpServer ----------------------------
(* Programs whose clients take the different ways through the server. *)
EXTENDS HttpServer

CONSTANTS c1, c2

R(form, route, keep) == [form |-> form, route |-> route, keep |-> keep]

TwoClients == {c1, c2}

Program(sends, pool, internal, pipelines, calls) ==
    [Sends |-> sends, PoolSize |-> pool, Internal |-> internal, Pipelines |-> pipelines,
     MaxStarts |-> calls]

Client(requests) == [c \in {c1} |-> requests]
Clients(first, second) == [c \in TwoClients |-> IF c = c1 THEN first ELSE second]

\* Three requests, the second with its content in a packet of its own, to a
\* server that may be started twice.
Talk == Program(Client(<<R("whole", "resource", TRUE), R("split", "resource", TRUE),
                         R("whole", "resource", FALSE)>>), 1, TRUE, FALSE, 2)

\* Requests that come early, and other ways for one to end: with two threads,
\* on an io_service of the server's or of the program's.
Large == Program(Client(<<R("split", "resource", TRUE), R("large", "resource", TRUE)>>), 2, TRUE, TRUE, 1)
Bad   == Program(Client(<<R("whole", "resource", TRUE), R("bad", "resource", TRUE)>>), 2, FALSE, TRUE, 1)

\* Two clients: one whose connection is given away; one that sends nothing.
Upgrade == Program(Clients(<<R("whole", "resource", TRUE)>>, <<R("whole", "upgrade", TRUE)>>), 1, TRUE, TRUE, 1)
Silent  == Program(Clients(<<R("whole", "none", TRUE)>>, << >>), 1, FALSE, TRUE, 1)

SomePrograms == {Talk, Large, Bad, Upgrade, Silent}

=============================================================================
