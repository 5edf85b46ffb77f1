------------------------------- MODULE Alerting -------------------------------
(***************************************************************************)
(* From the list of clients to the mails: the server loads the list        *)
(* (ClientRegistry), then handles reports one at a time, and notify()      *)
(* holds the statistics of each against the key's alerts (AlertRules).     *)
(* MonitorServer has the same handler with its connections, its database   *)
(* and its crashes, and takes the rules of a key as given; here they come  *)
(* from the list.                                                          *)
(***************************************************************************)
EXTENDS ClientRegistry, FiniteSetsExt

CONSTANTS
    SentStatistics,  \* the statistics agents may report
    MaxRequests      \* bound: reports the server handles

ASSUME AlertingAssumption == SentStatistics \subseteq Statistics /\ MaxRequests \in Nat

VARIABLES
    current,  \* the report being handled, or NoReport
    event,    \* position in its client's notify_events
    mails,    \* the mails sent: number of the report, email and event
    answers   \* the reports handled: key, statistics and how it ended

vars == <<registryVars, current, event, mails, answers>>

NoReport == [key |-> "", stats |-> CHOOSE s \in SentStatistics : TRUE]

Init ==
    /\ RegistryInit
    /\ current = NoReport
    /\ event = 1
    /\ mails = {}
    /\ answers = << >>

Load == RegistryNext /\ UNCHANGED <<current, event, mails, answers>>

-----------------------------------------------------------------------------
Idle == ~Loading /\ current = NoReport /\ Len(answers) < MaxRequests

\* A report of a key that is not listed: 401.
Refuse(k, s) ==
    /\ Idle /\ ~authenticate_client(k)
    /\ answers' = Append(answers, [key |-> k, stats |-> s, outcome |-> "unauthorized"])
    /\ UNCHANGED <<registryVars, current, event, mails>>

\* A report of a listed key: notify() starts at the first event.
Receive(k, s) ==
    /\ Idle /\ authenticate_client(k)
    /\ current' = [key |-> k, stats |-> s]
    /\ event' = 1
    /\ UNCHANGED <<registryVars, mails, answers>>

Client == get_client(current.key)

Notifying == current # NoReport /\ event \in DOMAIN Client.notify_events

CurrentEvent == Client.notify_events[event]

\* The event's function is called and its value is a number.
Compared == Notifying /\ CurrentEvent.type # "none" /\ CurrentEvent.value.stoi

Satisfied == Met(CurrentEvent.type, CurrentEvent.condition, CurrentEvent.value.int, current.stats)

\* Nothing to send for this event.
PassOver ==
    /\ Notifying
    /\ \/ CurrentEvent.type = "none"
       \/ Compared /\ ~Satisfied
    /\ event' = event + 1
    /\ UNCHANGED <<registryVars, current, mails, answers>>

\* Mutant: one mail per report.
Mail_Once ==
    /\ Compared /\ Satisfied
    /\ mails' = mails \cup {[report |-> Len(answers) + 1, email |-> Client.email,
                             event |-> CurrentEvent]}
    /\ event' = Len(Client.notify_events) + 1
    /\ UNCHANGED <<registryVars, current, answers>>

\* A mail to the client's address; the rest of the events follow.
Mail ==
    /\ Compared /\ Satisfied
    /\ mails' = mails \cup {[report |-> Len(answers) + 1, email |-> Client.email,
                             event |-> CurrentEvent]}
    /\ event' = event + 1
    /\ UNCHANGED <<registryVars, current, answers>>

End(outcome) ==
    /\ answers' = Append(answers, [key |-> current.key, stats |-> current.stats,
                                   outcome |-> outcome])
    /\ current' = NoReport
    /\ event' = 1
    /\ UNCHANGED <<registryVars, mails>>

\* SMTPClient throws.
MailFails == Compared /\ Satisfied /\ End("mail failed")

\* stoi throws.
BadValue ==
    /\ Notifying /\ CurrentEvent.type # "none" /\ ~CurrentEvent.value.stoi
    /\ End("bad value")

\* All events have been looked at: 201.
Created ==
    /\ current # NoReport /\ event \notin DOMAIN Client.notify_events
    /\ End("created")

Finished == Len(answers) = MaxRequests /\ UNCHANGED vars

Next ==
    \/ Load
    \/ \E k \in ClientKeys, s \in SentStatistics : Refuse(k, s) \/ Receive(k, s)
    \/ PassOver \/ Mail \/ MailFails \/ BadValue \/ Created
    \/ Finished

Spec == Init /\ [][Next]_vars

-----------------------------------------------------------------------------
\* What the list says, read as its author would.

Complete == {i \in DOMAIN document.entries :
                /\ document.wellFormed
                /\ document.entries[i].key # "" /\ document.entries[i].mail # ""}

\* The complete entries of a key.
Entries(k) == {i \in Complete : document.entries[i].key = k}

FirstEntry(k) == document.entries[Min(Entries(k))]

\* What an alert may be read to say: a type and a condition of one part.
Readings(alert) ==
    UNION {{[type |-> part.type, condition |-> c, value |-> part[c]] :
                c \in Conditions(part)} :
            part \in {p \in {alert.attributes, alert.elements} : "type" \in DOMAIN p}}

\* An alert of which one reading is possible: all in one part, a known type,
\* one condition, a number.
WellWritten(alert) ==
    \E part \in {alert.attributes, alert.elements}, c \in ConditionNames :
        /\ << >> \in {alert.attributes, alert.elements}
        /\ DOMAIN part = {"type", c}
        /\ part.type \in Alert \ {"none"} /\ part[c].stoi

Of(n) == answers[n].key

\* A mail goes to the address of the first complete entry of the report's
\* key, because of an alert that entry gives, which the report satisfies.
MailsAsListed ==
    \A m \in mails : m.report \in DOMAIN answers =>
        LET k == Of(m.report) IN
        /\ Entries(k) # {}
        /\ m.email = FirstEntry(k).mail
        /\ \E i \in DOMAIN FirstEntry(k).alerts : m.event \in Readings(FirstEntry(k).alerts[i])
        /\ Met(m.event.type, m.event.condition, m.event.value.int, answers[m.report].stats)

\* A report that is answered 201 has had a mail for every well-written alert
\* of its key's first entry that it satisfies.
CreatedMeansMailed ==
    \A n \in DOMAIN answers : answers[n].outcome = "created" =>
        \A i \in DOMAIN FirstEntry(Of(n)).alerts :
            LET alert == FirstEntry(Of(n)).alerts[i] IN
            WellWritten(alert) =>
                \A e \in Readings(alert) :
                    Met(e.type, e.condition, e.value.int, answers[n].stats)
                    => \E m \in mails : m.report = n /\ m.event = e

\* A key is refused exactly when no complete entry of a well-formed list has
\* it, wherever the entry stands and whatever else the list holds.
RefusedMeansUnlisted ==
    \A n \in DOMAIN answers : answers[n].outcome = "unauthorized" <=> Entries(Of(n)) = {}

\* Only an alert of the key's own first entry that is not well written makes
\* its reports fail for a bad value; entries of other keys, later entries of
\* the same key and incomplete entries never do.
BadValueIsListed ==
    \A n \in DOMAIN answers : answers[n].outcome = "bad value" =>
        \E i \in DOMAIN FirstEntry(Of(n)).alerts : ~WellWritten(FirstEntry(Of(n)).alerts[i])

Infinite(q) == q.den = 0 /\ q.num # 0

NaN(q) == q.den = 0 /\ q.num = 0

\* A mail is about something that was measured.  Where /proc cannot be read
\* there is none, on either side of any value; but CPUs that could not be
\* counted when the idle time was read make the use minus infinity, which
\* satisfies every alert for less and no other.
MailsAsMeasured ==
    \A m \in mails : m.report \in DOMAIN answers =>
        LET q == Quantity(m.event.type, answers[m.report].stats) IN
        ~NaN(q) /\ (Infinite(q) => m.event.type = "cpu" /\ m.event.condition = "under")

=============================================================================
