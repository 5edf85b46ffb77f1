---------------------------- MODULE ClientRegistry ----------------------------
(***************************************************************************)
(* The list of clients the server loads before it starts: add_clients of   *)
(* server/src/client.cpp reads config/client-list.xml into `clients' and   *)
(* `client_map', which every later request reads.                          *)
(*                                                                         *)
(* An alert may give its type and its condition as XML attributes          *)
(* (server/config/client-list.xml) or as child elements                    *)
(* (server/client/config.xml).  A field that is missing or empty reads as  *)
(* "", so a part of an alert is a function on the fields it does give.     *)
(***************************************************************************)
EXTENDS AlertRules, Sequences, FiniteSets, Functions

CONSTANTS
    ClientKeys,  \* the keys entries of the list may have
    Documents    \* what client-list.xml may hold

ConditionNames == {"under", "over", "equal"}

\* Where a part of an alert gives a condition, it gives its value.
Conditions(part) == ConditionNames \cap DOMAIN part

ASSUME DocumentAssumption ==
    /\ ClientKeys \subseteq STRING
    /\ \A d \in Documents :
        /\ d.wellFormed \in BOOLEAN
        /\ d.entries \in Seq(Range(d.entries))
        /\ \A i \in DOMAIN d.entries :
            /\ d.entries[i].key \in STRING /\ d.entries[i].mail \in STRING
            /\ d.entries[i].alerts \in Seq(Range(d.entries[i].alerts))
            /\ \A a \in Range(d.entries[i].alerts) :
                \A part \in {a.attributes, a.elements} : \A c \in Conditions(part) : part[c] \in Text

\* What get_alert_type and get_condition make of a name they do not know.
get_alert_type(name) == IF name \in Alert THEN name ELSE "none"

VARIABLES
    document,   \* client-list.xml: does read_xml accept it, and its entries
    next,       \* the entry add_clients looks at; 0 once it has returned
    child,      \* the alert of that entry it looks at
    pushed,     \* the notify_events of the Client it makes of that entry
    clients,    \* every Client made, in order, with its notify_events
    client_map  \* key -> position in clients

registryVars == <<document, next, child, pushed, clients, client_map>>

Event == [type : Alert, condition : Condition, value : Text]

RegistryInit ==
    /\ document \in Documents
    /\ next = 1 /\ child = 1
    /\ pushed = << >>
    /\ clients = << >>
    /\ client_map = << >>

-----------------------------------------------------------------------------
\* get_alert_value: under before over before equal; without any of them the
\* condition is none and the value "", which stoi rejects.
ConditionOf(part) ==
    IF "under" \in DOMAIN part THEN [name |-> "under", value |-> part.under]
    ELSE IF "over" \in DOMAIN part THEN [name |-> "over", value |-> part.over]
    ELSE IF "equal" \in DOMAIN part THEN [name |-> "equal", value |-> part.equal]
    ELSE [name |-> "none", value |-> NoNumber]

\* Mutant: the child elements complete what the attributes leave out.
PartOf_Merged(alert) ==
    [f \in DOMAIN alert.attributes \cup DOMAIN alert.elements |->
        IF f \in DOMAIN alert.attributes THEN alert.attributes[f] ELSE alert.elements[f]]

\* The part of an alert add_clients takes: the attributes if they give the
\* type, the child elements otherwise.  Type and condition are never mixed.
PartOf(alert) == IF "type" \in DOMAIN alert.attributes THEN alert.attributes ELSE alert.elements

\* An alert of no type is logged and passed over.
Typed(alert) == "type" \in DOMAIN PartOf(alert)

\* The event an alert becomes.
EventOf(alert) ==
    LET part == PartOf(alert) IN
    [type      |-> get_alert_type(part.type),
     condition |-> ConditionOf(part).name,
     value     |-> ConditionOf(part).value]

-----------------------------------------------------------------------------
Loading == next # 0

Entry == document.entries[next]

MoreEntries == Loading /\ document.wellFormed /\ next \in DOMAIN document.entries

\* Mutant: the rest of the list is given up.
SkipEntry_Stops ==
    /\ MoreEntries
    /\ Entry.key = "" \/ Entry.mail = ""
    /\ next' = Len(document.entries) + 1
    /\ UNCHANGED <<document, child, pushed, clients, client_map>>

\* An entry without key or mail is logged and passed over.
SkipEntry ==
    /\ MoreEntries
    /\ Entry.key = "" \/ Entry.mail = ""
    /\ next' = next + 1
    /\ UNCHANGED <<document, child, pushed, clients, client_map>>

\* The next alert of an entry is pushed on the events of the new Client.
PushEvent ==
    /\ MoreEntries
    /\ Entry.key # "" /\ Entry.mail # "" /\ child \in DOMAIN Entry.alerts
    /\ pushed' = IF Typed(Entry.alerts[child]) THEN Append(pushed, EventOf(Entry.alerts[child]))
                                               ELSE pushed
    /\ child' = child + 1
    /\ UNCHANGED <<document, next, clients, client_map>>

\* Mutant: operator[] instead of insert: a later entry replaces an earlier one.
AddClient_Replaces ==
    /\ MoreEntries
    /\ Entry.key # "" /\ Entry.mail # "" /\ child \notin DOMAIN Entry.alerts
    /\ clients' = Append(clients, [key |-> Entry.key, email |-> Entry.mail,
                                   notify_events |-> pushed])
    /\ client_map' = [k \in DOMAIN client_map \cup {Entry.key} |->
                        IF k = Entry.key THEN Len(clients) + 1 ELSE client_map[k]]
    /\ next' = next + 1 /\ child' = 1
    /\ pushed' = << >>
    /\ UNCHANGED document

\* All of them have been: the Client is put into both.  map::insert does
\* nothing when the key is there already, so the first entry of a key stays.
AddClient ==
    /\ MoreEntries
    /\ Entry.key # "" /\ Entry.mail # "" /\ child \notin DOMAIN Entry.alerts
    /\ clients' = Append(clients, [key |-> Entry.key, email |-> Entry.mail,
                                   notify_events |-> pushed])
    /\ client_map' = [k \in DOMAIN client_map \cup {Entry.key} |->
                        IF k \in DOMAIN client_map THEN client_map[k] ELSE Len(clients) + 1]
    /\ next' = next + 1 /\ child' = 1
    /\ pushed' = << >>
    /\ UNCHANGED document

\* The end of the list; or the file cannot be opened, read_xml rejects it, or
\* it has no "clients": the exception is logged and the server starts anyway.
EndOfList ==
    /\ Loading
    /\ document.wellFormed => next \notin DOMAIN document.entries
    /\ next' = 0
    /\ UNCHANGED <<document, child, pushed, clients, client_map>>

RegistryNext == SkipEntry \/ PushEvent \/ AddClient \/ EndOfList

-----------------------------------------------------------------------------
authenticate_client(key) == key \in DOMAIN client_map

get_client(key) == clients[client_map[key]]

=============================================================================
