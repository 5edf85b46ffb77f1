------------------------------ MODULE MailClient ------------------------------
(***************************************************************************)
(* SMTPClient (server/include/smtpclient.h) as the alert functions of      *)
(* server/src/client.cpp use it: one object per mail, constructed, sent    *)
(* with, destroyed, one after the other on the server's only thread.  The  *)
(* whole dialogue is written without a look at a reply.  The mail server,  *)
(* which reads the lines in its own time, is external.                     *)
(***************************************************************************)
EXTENDS Naturals, Sequences, FiniteSets

CONSTANTS
    Mails,        \* how many mails are sent
    MaxRefusals,  \* bound: mails the mail server refuses lines of at will
    MaxCuts       \* bound: connections that are lost

ASSUME MailAssumption == Mails \in Nat /\ MaxRefusals \in Nat /\ MaxCuts \in Nat

VARIABLES
    stage,    \* of each SMTPClient: "none", "resolving", "connecting",
              \* "writing", "returned" (Send has ended) or "destroyed"
    written,  \* of each, calls of writeLine that have returned
    result,   \* how Send ended: "none", "ok", "failed" (mHasError) or "threw"
    link,     \* "none", "open", "closed" (by us), "reset" (closed by us while
              \* a reply was unread) or "broken" (lost, or closed by the server)
    wire,     \* lines written and not yet read by the mail server
    unread,   \* a reply of the mail server waits in our socket
    dialog,   \* the mail server's state on this connection
    content,  \* lines it has read since DATA
    mailbox,  \* mails it has accepted, in that order
    refused,  \* mails it has refused a line of
    cut,      \* mails whose connection was lost
    dropped   \* mails it gave up because their connection was gone

clientVars == <<stage, written, result>>
netVars    == <<link, wire>>
serverVars == <<unread, dialog, content, mailbox, refused, dropped>>
mailVars == <<clientVars, netVars, serverVars, cut>>

Ids == 1 .. Mails

\* Mutant: the line that ends the mail is left out.
Lines_NoEnd ==
    <<"EHLO", "AUTH", "user", "password", "MAIL", "RCPT", "DATA",
      "subject", "from", "to", "blank", "text">>

\* The lines that handleConnect writes.
Lines ==
    <<"EHLO", "AUTH", "user", "password", "MAIL", "RCPT", "DATA",
      "subject", "from", "to", "blank", "text", ".">>

Accepted(m) == \E i \in DOMAIN mailbox : mailbox[i].mail = m

MailInit ==
    /\ stage = [m \in Ids |-> "none"]
    /\ written = [m \in Ids |-> 0]
    /\ result = [m \in Ids |-> "none"]
    /\ link = [m \in Ids |-> "none"]
    /\ wire = [m \in Ids |-> << >>]
    /\ unread = [m \in Ids |-> FALSE]
    /\ dialog = [m \in Ids |-> "none"]
    /\ content = [m \in Ids |-> << >>]
    /\ mailbox = << >>
    /\ refused = {} /\ cut = {} /\ dropped = {}

-----------------------------------------------------------------------------
\* The client.

\* The constructor posts async_resolve, Send runs the io_service.
Send(m) ==
    /\ stage[m] = "none"
    /\ \A n \in Ids : n < m => stage[n] = "destroyed"
    /\ stage' = [stage EXCEPT ![m] = "resolving"]
    /\ UNCHANGED <<written, result, netVars, serverVars, cut>>

\* handleResolve without an error connects to the first endpoint.
Resolve(m) ==
    /\ stage[m] = "resolving"
    /\ stage' = [stage EXCEPT ![m] = "connecting"]
    /\ UNCHANGED <<written, result, netVars, serverVars, cut>>

\* The name, or the first of its endpoints (the others are not tried), fails:
\* mHasError is set, nothing is left to run and Send returns it.
Fail(m) ==
    /\ stage[m] \in {"resolving", "connecting"}
    /\ stage' = [stage EXCEPT ![m] = "returned"]
    /\ result' = [result EXCEPT ![m] = "failed"]
    /\ UNCHANGED <<written, netVars, serverVars, cut>>

Connect(m) ==
    /\ stage[m] = "connecting"
    /\ stage' = [stage EXCEPT ![m] = "writing"]
    /\ link' = [link EXCEPT ![m] = "open"]
    /\ dialog' = [dialog EXCEPT ![m] = "new"]
    /\ UNCHANGED <<written, result, wire, unread, content, mailbox, refused, cut, dropped>>

\* writeLine: the socket's buffer takes the line, also for a connection whose
\* loss it has not noticed.  The empty line after "." means nothing.
writeLine(m) ==
    /\ stage[m] = "writing" /\ written[m] < Len(Lines)
    /\ written' = [written EXCEPT ![m] = @ + 1]
    /\ wire' = IF link[m] = "open"
               THEN [wire EXCEPT ![m] = Append(@, Lines[written[m] + 1])] ELSE wire
    /\ UNCHANGED <<stage, result, link, serverVars, cut>>

\* boost::asio::write throws, through handleConnect, run() and Send.
writeThrows(m) ==
    /\ stage[m] = "writing" /\ written[m] < Len(Lines) /\ link[m] = "broken"
    /\ stage' = [stage EXCEPT ![m] = "returned"]
    /\ result' = [result EXCEPT ![m] = "threw"]
    /\ UNCHANGED <<written, netVars, serverVars, cut>>

\* Mutant: Send returns whether it succeeded, the caller takes it for an error.
Return_Inverted(m) ==
    /\ stage[m] = "writing" /\ written[m] = Len(Lines)
    /\ stage' = [stage EXCEPT ![m] = "returned"]
    /\ result' = [result EXCEPT ![m] = "failed"]
    /\ UNCHANGED <<written, netVars, serverVars, cut>>

\* handleConnect ends; nothing is left to run and Send returns "no error".
Return(m) ==
    /\ stage[m] = "writing" /\ written[m] = Len(Lines)
    /\ stage' = [stage EXCEPT ![m] = "returned"]
    /\ result' = [result EXCEPT ![m] = "ok"]
    /\ UNCHANGED <<written, netVars, serverVars, cut>>

\* The alert function logs an error ("failed") and leaves; the destructor
\* closes the socket, with a reset if replies are unread.
Destroy(m) ==
    /\ stage[m] = "returned"
    /\ stage' = [stage EXCEPT ![m] = "destroyed"]
    /\ link' = IF link[m] = "open"
               THEN [link EXCEPT ![m] = IF unread[m] THEN "reset" ELSE "closed"]
               ELSE link
    /\ UNCHANGED <<written, result, wire, serverVars, cut>>

-----------------------------------------------------------------------------
\* The network and the mail server.

\* The connection is lost, with the last of the lines that are on the way.
Cut(m) ==
    /\ link[m] = "open" /\ Cardinality(cut) < MaxCuts
    /\ link' = [link EXCEPT ![m] = "broken"]
    /\ \E n \in 0 .. Len(wire[m]) : wire' = [wire EXCEPT ![m] = SubSeq(@, 1, n)]
    /\ cut' = cut \cup {m}
    /\ UNCHANGED <<clientVars, serverVars>>

\* A reply: it waits unread in our socket; for a socket that is closed the
\* answer to it is a reset.
Reply(m) ==
    /\ unread' = IF link[m] = "open" THEN [unread EXCEPT ![m] = TRUE] ELSE unread
    /\ link' = IF link[m] = "closed" THEN [link EXCEPT ![m] = "reset"] ELSE link

Greets(m) ==
    /\ dialog[m] = "new"
    /\ dialog' = [dialog EXCEPT ![m] = "ready"]
    /\ Reply(m)
    /\ UNCHANGED <<clientVars, wire, content, mailbox, refused, cut, dropped>>

\* What a command that the server accepts takes it to.
Dialogue == {<<"ready", "EHLO", "greeted">>, <<"greeted", "AUTH", "user">>,
             <<"user", "user", "password">>, <<"password", "password", "authenticated">>,
             <<"authenticated", "MAIL", "sender">>, <<"greeted", "MAIL", "sender">>,
             <<"sender", "RCPT", "recipient">>, <<"recipient", "DATA", "data">>}

Reads(m) ==
    /\ dialog[m] \notin {"none", "new", "closed"} /\ wire[m] # << >>
    /\ wire' = [wire EXCEPT ![m] = Tail(@)]
    /\ UNCHANGED <<clientVars, cut, dropped>>

Command(m) ==
    /\ Reads(m)
    /\ \E d \in Dialogue :
         /\ d[1] = dialog[m] /\ d[2] = Head(wire[m])
         /\ dialog' = [dialog EXCEPT ![m] = d[3]]
    /\ Reply(m)
    /\ UNCHANGED <<content, mailbox, refused>>

MayRefuse(m) == m \in refused \/ Cardinality(refused) < MaxRefusals

\* A command refused, or a line that is no command here.  A mail server that
\* has asked for a user or a password goes back to its commands.
Refuses(m) ==
    /\ Reads(m) /\ dialog[m] # "data"
    /\ \/ ~ \E d \in Dialogue : d[1] = dialog[m] /\ d[2] = Head(wire[m])
       \/ MayRefuse(m)
    /\ dialog' = IF dialog[m] \in {"user", "password"}
                 THEN [dialog EXCEPT ![m] = "greeted"] ELSE dialog
    /\ refused' = refused \cup {m}
    /\ Reply(m)
    /\ UNCHANGED <<content, mailbox>>

TakesText(m) ==
    /\ Reads(m) /\ dialog[m] = "data" /\ Head(wire[m]) # "."
    /\ content' = [content EXCEPT ![m] = Append(@, Head(wire[m]))]
    /\ UNCHANGED <<link, unread, dialog, mailbox, refused>>

\* The end of the mail, which is accepted or, as a whole, refused.
EndOfMail(m) ==
    /\ Reads(m) /\ dialog[m] = "data" /\ Head(wire[m]) = "."
    /\ dialog' = [dialog EXCEPT ![m] = "authenticated"]
    /\ \/ /\ mailbox' = Append(mailbox, [mail |-> m, content |-> content[m]])
          /\ UNCHANGED refused
       \/ /\ MayRefuse(m)
          /\ refused' = refused \cup {m}
          /\ UNCHANGED mailbox
    /\ Reply(m)
    /\ UNCHANGED content

\* The server has had enough of this client and closes.
HangsUp(m) ==
    /\ dialog[m] \notin {"none", "closed"} /\ m \in refused
    /\ dialog' = [dialog EXCEPT ![m] = "closed"]
    /\ link' = IF link[m] = "open" THEN [link EXCEPT ![m] = "broken"] ELSE link
    /\ wire' = [wire EXCEPT ![m] = << >>]
    /\ UNCHANGED <<clientVars, unread, content, mailbox, refused, cut, dropped>>

\* The server finds the connection gone, by a read or by a reply it cannot
\* send, and gives up the lines it has not yet read.
GivesUp(m) ==
    /\ dialog[m] \notin {"none", "closed"} /\ link[m] \in {"reset", "broken"}
    /\ dialog' = [dialog EXCEPT ![m] = "closed"]
    /\ wire' = [wire EXCEPT ![m] = << >>]
    /\ dropped' = dropped \cup {m}
    /\ UNCHANGED <<clientVars, link, unread, content, mailbox, refused, cut>>

\* It has read everything up to the end of the connection.
SeesEnd(m) ==
    /\ dialog[m] \notin {"none", "new", "closed"} /\ wire[m] = << >>
    /\ link[m] \in {"closed", "reset", "broken"}
    /\ dialog' = [dialog EXCEPT ![m] = "closed"]
    /\ UNCHANGED <<clientVars, netVars, unread, content, mailbox, refused, cut, dropped>>

-----------------------------------------------------------------------------
ClientStep(m) ==
    \/ Send(m) \/ Resolve(m) \/ Fail(m) \/ Connect(m)
    \/ writeLine(m) \/ writeThrows(m) \/ Return(m) \/ Destroy(m)

MailServerStep(m) ==
    Greets(m) \/ Command(m) \/ Refuses(m) \/ TakesText(m) \/ EndOfMail(m) \/ SeesEnd(m)

\* Every mail has been tried and the mail server is done with it.
Done ==
    /\ \A m \in Ids : stage[m] = "destroyed" /\ dialog[m] \in {"none", "closed"}
    /\ UNCHANGED mailVars

MailNext ==
    \/ \E m \in Ids : ClientStep(m) \/ MailServerStep(m) \/ Cut(m) \/ HangsUp(m) \/ GivesUp(m)
    \/ Done

MailSpec == MailInit /\ [][MailNext]_mailVars

\* The server's thread runs, a name is resolved and a connection made or not
\* in bounded time, and the mail server reads what it is sent.
Fairness == \A m \in Ids : WF_mailVars(ClientStep(m)) /\ WF_mailVars(MailServerStep(m))

MailFairSpec == MailSpec /\ Fairness

-----------------------------------------------------------------------------
\* A mail whose Send returned an error or threw is not accepted, then or
\* later: trying it again, as the agent's next report does, cannot duplicate it.
FailureMeansNotAccepted ==
    \A m \in Ids : result[m] \in {"failed", "threw"} => ~ Accepted(m)

\* A mail that Send takes for sent is either accepted in the end or refused,
\* lost with its connection, or given up by a server that found it closed.
SettledInTheEnd ==
    \A m \in Ids :
        result[m] = "ok" ~> Accepted(m) \/ m \in refused \cup cut \cup dropped

=============================================================================
