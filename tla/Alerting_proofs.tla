---------------------------- MODULE Alerting_proofs ----------------------------
(***************************************************************************)
(* Proofs about Alerting, for any lists of clients and any statistics, and *)
(* about the MailClient that each of its mails is sent with.               *)
(***************************************************************************)
EXTENDS Alerting, MailClient, WellFoundedInduction, TLAPS

-----------------------------------------------------------------------------
(* The inductive invariant.                                                *)

\* The events are those of the typed alerts before the m-th, and all of them.
EventsOf(es, alerts, m) ==
    /\ \A i \in DOMAIN es : \E j \in DOMAIN alerts :
          Typed(alerts[j]) /\ es[i] = EventOf(alerts[j])
    /\ \A j \in DOMAIN alerts :
          j < m /\ Typed(alerts[j]) => \E i \in DOMAIN es : es[i] = EventOf(alerts[j])

Named(entry) == entry.key # "" /\ entry.mail # ""

\* The Client being made.  An entry that is passed over starts none.
PushInv ==
    /\ pushed \in Seq(Event) /\ child \in Nat \ {0} /\ next \in Nat
    /\ MoreEntries => /\ EventsOf(pushed, Entry.alerts, child)
                      /\ Named(Entry) \/ (child = 1 /\ pushed = << >>)

ClientType == [key : STRING, email : STRING, notify_events : Seq(Event)]

\* Every complete entry that has been looked at has its key in the map, and a
\* key stands for the first complete entry that has it.
ListInv ==
    /\ document \in Documents
    /\ clients \in Seq(ClientType)
    /\ \A i \in Complete : (Loading => i < next) => document.entries[i].key \in DOMAIN client_map
    /\ \A k \in DOMAIN client_map :
          /\ k # "" /\ client_map[k] \in DOMAIN clients /\ Entries(k) # {}
          /\ get_client(k).email = FirstEntry(k).mail
          /\ EventsOf(get_client(k).notify_events, FirstEntry(k).alerts,
                      Len(FirstEntry(k).alerts) + 1)

Outcomes == {"unauthorized", "created", "bad value", "mail failed"}

Answer == [key : ClientKeys, stats : SentStatistics, outcome : Outcomes]

\* Nothing is reported before the list is loaded; the report being handled is
\* of a key that is listed.
CurrentInv ==
    /\ answers \in Seq(Answer)
    /\ event \in Nat \ {0}
    /\ Loading => current = NoReport /\ mails = {} /\ answers = << >>
    /\ current # NoReport =>
          /\ current \in [key : ClientKeys, stats : SentStatistics]
          /\ current.key \in DOMAIN client_map

\* Report n has had its mail for event e, if one was due.
Served(e, s, n) ==
    e.type = "none" \/ /\ e.value.stoi
                       /\ Met(e.type, e.condition, e.value.int, s) =>
                             \E m \in mails : m.report = n /\ m.event = e

\* The events notify() has passed have been served.
LoopInv ==
    current # NoReport =>
        \A i \in DOMAIN Client.notify_events :
            i < event => Served(Client.notify_events[i], current.stats, Len(answers) + 1)

Report(n) == IF n \in DOMAIN answers THEN answers[n] ELSE current

\* A mail is about an event of its report's client that the report satisfies.
MailInv ==
    \A m \in mails :
        /\ m.report \in 1 .. Len(answers) + 1
        /\ Report(m.report).key \in DOMAIN client_map
        /\ m.email = get_client(Report(m.report).key).email
        /\ \E i \in DOMAIN get_client(Report(m.report).key).notify_events :
              m.event = get_client(Report(m.report).key).notify_events[i]
        /\ m.event.type # "none"
        /\ Met(m.event.type, m.event.condition, m.event.value.int, Report(m.report).stats)

\* What the outcome of report n means for the map and its client's events.
EndedAs(a, n) ==
    LET es == get_client(a.key).notify_events IN
    /\ a.outcome = "unauthorized" <=> a.key \notin DOMAIN client_map
    /\ a.outcome = "created" => \A i \in DOMAIN es : Served(es[i], a.stats, n)
    /\ a.outcome = "bad value" => \E i \in DOMAIN es : es[i].type # "none" /\ ~es[i].value.stoi

OutcomeInv == \A n \in DOMAIN answers : EndedAs(answers[n], n)

IInv == PushInv /\ ListInv /\ CurrentInv /\ LoopInv /\ MailInv /\ OutcomeInv

-----------------------------------------------------------------------------
(* Alerts and the events they become.                                      *)

\* An event that is satisfied has a condition the alert gives.
LEMMA ConditionName ==
  ASSUME NEW part
  PROVE  /\ ConditionOf(part).name \in Condition
         /\ ConditionOf(part).name # "none" =>
              /\ ConditionOf(part).name \in Conditions(part)
              /\ ConditionOf(part).value = part[ConditionOf(part).name]
         /\ ConditionOf(part).name = "none" => ConditionOf(part).value = NoNumber
  BY DEF ConditionOf, Conditions, ConditionNames, Condition

LEMMA MetCondition ==
  ASSUME NEW type, NEW condition, NEW n, NEW s, Met(type, condition, n, s)
  PROVE  condition # "none"
  BY DEF Met

\* An event of a type and a condition is one reading of its alert.
LEMMA EventReading ==
  ASSUME NEW alert, Typed(alert), EventOf(alert).type # "none",
         EventOf(alert).condition # "none"
  PROVE  EventOf(alert) \in Readings(alert)
<1>. DEFINE part == PartOf(alert)
            c == ConditionOf(part).name
<1>1. part \in {alert.attributes, alert.elements} /\ "type" \in DOMAIN part
  BY DEF Typed, PartOf
<1>2. /\ EventOf(alert) = [type |-> get_alert_type(part.type), condition |-> c,
                           value |-> ConditionOf(part).value]
  BY DEF EventOf
<1>3. get_alert_type(part.type) = part.type
  BY <1>2 DEF get_alert_type
<1>4. c \in Conditions(part) /\ ConditionOf(part).value = part[c]
  BY <1>2, ConditionName
<1>. HIDE DEF part, c
<1>5. EventOf(alert) = [type |-> part.type, condition |-> c, value |-> part[c]]
  BY <1>2, <1>3, <1>4
<1>. QED  BY <1>1, <1>4, <1>5 DEF Readings

\* A well-written alert has one reading, and the event is that.
LEMMA WellWrittenEvent ==
  ASSUME NEW alert, WellWritten(alert)
  PROVE  /\ Typed(alert) /\ EventOf(alert).type # "none" /\ EventOf(alert).value.stoi
         /\ \A e \in Readings(alert) : e = EventOf(alert)
<1>1. PICK part \in {alert.attributes, alert.elements}, c \in ConditionNames :
        /\ << >> \in {alert.attributes, alert.elements}
        /\ DOMAIN part = {"type", c}
        /\ part.type \in Alert \ {"none"} /\ part[c].stoi
  BY DEF WellWritten
<1>2. DOMAIN << >> = {} /\ "type" \notin DOMAIN << >>
  OBVIOUS
<1>3. /\ part # << >>
      /\ \A p \in {alert.attributes, alert.elements} : p = part \/ p = << >>
      /\ PartOf(alert) = part /\ Typed(alert)
  BY <1>1, <1>2 DEF PartOf, Typed
<1>4. Conditions(part) = {c}
  BY <1>1 DEF Conditions, ConditionNames
<1>5. ConditionOf(part).name = c /\ ConditionOf(part).value = part[c]
  BY <1>1 DEF ConditionOf, ConditionNames
<1>6. EventOf(alert) = [type |-> part.type, condition |-> c, value |-> part[c]]
  BY <1>1, <1>3, <1>5 DEF EventOf, get_alert_type
<1>7. \A e \in Readings(alert) : e = EventOf(alert)
  BY <1>2, <1>3, <1>4, <1>6 DEF Readings
<1>. QED  BY <1>1, <1>3, <1>6, <1>7

-----------------------------------------------------------------------------
(* Loading the list.                                                       *)

\* A set of numbers has a least one: they are well ordered.
LEMMA MinIn ==
  ASSUME NEW S \in SUBSET Nat, S # {}
  PROVE  Min(S) \in S
<1>. DEFINE R == {p \in Nat \X Nat : p[1] < p[2]}
<1>1. IsWellFoundedOn(R, Nat)
  BY NatLessThanWellFounded DEF OpToRel
<1>. HIDE DEF R
<1>2. PICK x \in S : \A y \in S : ~ (<<y, x>> \in R)
  BY <1>1, WFMin
<1>3. ASSUME NEW y \in S PROVE x <= y
  <2>1. <<y, x>> \in Nat \X Nat /\ ~ (<<y, x>> \in R)
    BY <1>2
  <2>2. ~ (y < x)
    BY <2>1 DEF R
  <2>. QED  BY <2>2
<1>. QED  BY <1>3 DEF Min

LEMMA MinIs ==
  ASSUME NEW S \in SUBSET Nat, NEW e \in S, \A f \in S : e <= f
  PROVE  Min(S) = e
<1>1. \E x \in S : \A y \in S : x <= y
  OBVIOUS
<1>2. Min(S) \in S /\ \A y \in S : Min(S) <= y
  BY <1>1 DEF Min
<1>3. Min(S) \in Nat /\ e \in Nat /\ Min(S) <= e /\ e <= Min(S)
  BY <1>2
<1>. QED  BY <1>3

LEMMA DocumentType ==
  ASSUME document \in Documents
  PROVE  /\ document.entries \in Seq(Range(document.entries))
         /\ DOMAIN document.entries = 1 .. Len(document.entries)
         /\ Len(document.entries) \in Nat
         /\ \A i \in DOMAIN document.entries :
              LET alerts == document.entries[i].alerts IN
              /\ document.entries[i].key \in STRING /\ document.entries[i].mail \in STRING
              /\ DOMAIN alerts = 1 .. Len(alerts) /\ Len(alerts) \in Nat
              /\ \A j \in DOMAIN alerts : Typed(alerts[j]) => EventOf(alerts[j]) \in Event
<1>1. document.entries \in Seq(Range(document.entries))
  BY DocumentAssumption
<1>2. ASSUME NEW i \in DOMAIN document.entries
      PROVE  LET alerts == document.entries[i].alerts IN
             /\ document.entries[i].key \in STRING /\ document.entries[i].mail \in STRING
             /\ DOMAIN alerts = 1 .. Len(alerts) /\ Len(alerts) \in Nat
             /\ \A j \in DOMAIN alerts : Typed(alerts[j]) => EventOf(alerts[j]) \in Event
  <2>. DEFINE alerts == document.entries[i].alerts
  <2>1. /\ document.entries[i].key \in STRING /\ document.entries[i].mail \in STRING
        /\ alerts \in Seq(Range(alerts))
        /\ \A a \in Range(alerts) :
             \A part \in {a.attributes, a.elements} : \A c \in Conditions(part) : part[c] \in Text
    BY <1>2, DocumentAssumption
  <2>2. ASSUME NEW j \in DOMAIN alerts, Typed(alerts[j]) PROVE EventOf(alerts[j]) \in Event
    <3>. DEFINE part == PartOf(alerts[j])
                c == ConditionOf(part)
    <3>1. alerts[j] \in Range(alerts)
      BY DEF Range
    <3>2. part \in {alerts[j].attributes, alerts[j].elements}
      BY DEF PartOf
    <3>3. \A d \in Conditions(part) : part[d] \in Text
      BY <2>1, <3>1, <3>2
    <3>4. NoNumber \in Text
      BY DEF NoNumber, Text
    <3>5. c.name \in Condition /\ c.value \in Text
      BY <3>3, <3>4, ConditionName
    <3>6. get_alert_type(part.type) \in Alert
      BY DEF get_alert_type, Alert
    <3>. HIDE DEF part, c
    <3>7. EventOf(alerts[j]) = [type |-> get_alert_type(part.type), condition |-> c.name,
                                value |-> c.value]
      BY DEF EventOf, part, c
    <3>. QED  BY <3>5, <3>6, <3>7 DEF Event
  <2>. QED  BY <2>1, <2>2
<1>. QED  BY <1>1, <1>2

\* The entries of a key.
LEMMA EntriesType ==
  ASSUME document \in Documents, NEW k
  PROVE  /\ Entries(k) \in SUBSET Nat
         /\ Entries(k) = {i \in Complete : document.entries[i].key = k}
         /\ \A i \in Complete : /\ document.wellFormed /\ i \in DOMAIN document.entries
                                /\ Named(document.entries[i])
         /\ \A i \in DOMAIN document.entries :
               document.wellFormed /\ Named(document.entries[i]) => i \in Complete
<1>1. Complete \subseteq Nat
  <2>1. DOMAIN document.entries = 1 .. Len(document.entries) /\ Len(document.entries) \in Nat
    BY DocumentType
  <2>2. Complete \subseteq DOMAIN document.entries
    BY DEF Complete
  <2>. QED  BY <2>1, <2>2
<1>2. Entries(k) = {i \in Complete : document.entries[i].key = k}
  BY DEF Entries
<1>3. \A i \in DOMAIN document.entries :
        i \in Complete <=> document.wellFormed /\ Named(document.entries[i])
  BY DEF Complete, Named
<1>4. \A i \in Complete : i \in DOMAIN document.entries
  BY DEF Complete
<1>. QED  BY <1>1, <1>2, <1>3, <1>4

LEMMA RegistryStep ==
  ASSUME PushInv, ListInv, RegistryNext
  PROVE  PushInv' /\ ListInv'
<1>1. /\ document' = document /\ document \in Documents /\ Loading /\ next \in Nat
      /\ Complete' = Complete
      /\ \A k : Entries(k)' = Entries(k) /\ FirstEntry(k)' = FirstEntry(k)
  BY DEF RegistryNext, SkipEntry, PushEvent, AddClient, EndOfList, ListInv, PushInv, Loading,
         MoreEntries, Complete, Entries, FirstEntry
<1>2. /\ DOMAIN document.entries = 1 .. Len(document.entries)
      /\ Len(document.entries) \in Nat
      /\ \A i \in DOMAIN document.entries :
           LET alerts == document.entries[i].alerts IN
           /\ document.entries[i].key \in STRING /\ document.entries[i].mail \in STRING
           /\ DOMAIN alerts = 1 .. Len(alerts) /\ Len(alerts) \in Nat
           /\ \A j \in DOMAIN alerts : Typed(alerts[j]) => EventOf(alerts[j]) \in Event
  BY <1>1, DocumentType
<1>3. /\ pushed \in Seq(Event) /\ child \in Nat \ {0}
      /\ MoreEntries => /\ EventsOf(pushed, Entry.alerts, child)
                        /\ Named(Entry) \/ (child = 1 /\ pushed = << >>)
  BY DEF PushInv
<1>4. \A i \in DOMAIN document.entries : EventsOf(<< >>, document.entries[i].alerts, 1)
  <2>. SUFFICES ASSUME NEW i \in DOMAIN document.entries
                PROVE  EventsOf(<< >>, document.entries[i].alerts, 1)
    OBVIOUS
  <2>1. DOMAIN document.entries[i].alerts = 1 .. Len(document.entries[i].alerts)
        /\ Len(document.entries[i].alerts) \in Nat
    BY <1>2
  <2>. QED  BY <2>1 DEF EventsOf
\* The next entry starts without events.
<1>5. ASSUME next' = next + 1, child' = 1, pushed' = << >> PROVE PushInv'
  BY <1>1, <1>4, <1>5 DEF PushInv, MoreEntries, Entry
\* Where the map and the Clients stay, only the entry that is passed matters.
<1>6. ASSUME UNCHANGED <<clients, client_map>>,
             \A i \in Complete : (Loading => i < next)' => (Loading => i < next)
      PROVE  ListInv'
  BY <1>1, <1>6 DEF ListInv, get_client
<1>7. CASE SkipEntry
  <2>1. ~ Named(Entry) /\ MoreEntries /\ next' = next + 1
        /\ UNCHANGED <<child, pushed, clients, client_map>>
    BY <1>7 DEF SkipEntry, Named
  <2>2. PushInv'
    BY <1>3, <1>5, <2>1
  <2>3. next \notin Complete
    BY <1>1, <2>1, EntriesType DEF Entry
  <2>4. \A i \in Complete : i \in Nat
    BY <1>1, <1>2, EntriesType
  <2>5. \A i \in Complete : i < next + 1 => i < next
    BY <1>1, <2>3, <2>4
  <2>6. Loading'
    BY <1>1, <2>1 DEF Loading
  <2>. QED  BY <1>1, <1>6, <2>1, <2>2, <2>5, <2>6
<1>8. CASE PushEvent
  <2>. DEFINE alerts == Entry.alerts
  <2>1. /\ MoreEntries /\ Named(Entry) /\ child \in DOMAIN alerts
        /\ pushed' = IF Typed(alerts[child]) THEN Append(pushed, EventOf(alerts[child])) ELSE pushed
        /\ child' = child + 1
        /\ UNCHANGED <<next, clients, client_map>>
    BY <1>8 DEF PushEvent, Named
  <2>2. /\ Typed(alerts[child]) => EventOf(alerts[child]) \in Event
        /\ DOMAIN alerts = 1 .. Len(alerts) /\ Len(alerts) \in Nat
    BY <1>2, <2>1 DEF MoreEntries, Entry
  <2>3. EventsOf(pushed, alerts, child)
    BY <1>3, <2>1
  <2>4. Entry' = Entry /\ MoreEntries' = MoreEntries
    BY <1>1, <2>1 DEF Entry, MoreEntries, Loading
  <2>. HIDE DEF alerts
  <2>5. pushed' \in Seq(Event) /\ EventsOf(pushed', alerts, child + 1)
    <3>1. CASE Typed(alerts[child])
      <4>. DEFINE e == EventOf(alerts[child])
      <4>1. e \in Event /\ pushed' = Append(pushed, e)
        BY <2>1, <2>2, <3>1
      <4>. HIDE DEF e
      <4>2. /\ pushed' \in Seq(Event)
            /\ DOMAIN pushed' = 1 .. Len(pushed) + 1 /\ DOMAIN pushed = 1 .. Len(pushed)
            /\ \A i \in DOMAIN pushed : pushed'[i] = pushed[i]
            /\ pushed'[Len(pushed) + 1] = e /\ Len(pushed) \in Nat
        BY <1>3, <4>1
      <4>3. \A i \in DOMAIN pushed' : i \in DOMAIN pushed \/ i = Len(pushed) + 1
        BY <4>2
      <4>4. \A i \in DOMAIN pushed' : \E j \in DOMAIN alerts :
              Typed(alerts[j]) /\ pushed'[i] = EventOf(alerts[j])
        BY <2>1, <2>3, <3>1, <4>2, <4>3 DEF EventsOf, e
      <4>5. ASSUME NEW j \in DOMAIN alerts, j < child + 1, Typed(alerts[j])
            PROVE  \E i \in DOMAIN pushed' : pushed'[i] = EventOf(alerts[j])
        <5>1. CASE j = child
          <6>1. Len(pushed) + 1 \in DOMAIN pushed'
            BY <4>2
          <6>. QED  BY <4>2, <5>1, <6>1 DEF e
        <5>2. CASE j < child
          <6>1. PICK i \in DOMAIN pushed : pushed[i] = EventOf(alerts[j])
            BY <2>3, <4>5, <5>2 DEF EventsOf
          <6>2. i \in DOMAIN pushed'
            BY <4>2
          <6>. QED  BY <4>2, <6>1, <6>2
        <5>. QED  BY <1>3, <2>2, <4>5, <5>1, <5>2
      <4>. QED  BY <4>2, <4>4, <4>5 DEF EventsOf
    <3>2. CASE ~ Typed(alerts[child])
      <4>1. pushed' = pushed
        BY <2>1, <3>2
      <4>2. \A j \in DOMAIN alerts : j < child + 1 => j < child \/ j = child
        BY <1>3, <2>2
      <4>. QED  BY <1>3, <2>3, <3>2, <4>1, <4>2 DEF EventsOf
    <3>. QED  BY <3>1, <3>2
  <2>6. PushInv'
    <3>1. EventsOf(pushed, Entry.alerts, child)' /\ Named(Entry)'
      BY <2>1, <2>4, <2>5 DEF alerts, EventsOf, Named
    <3>. QED  BY <1>1, <1>3, <2>1, <2>5, <3>1 DEF PushInv
  <2>. QED  BY <1>6, <2>1, <2>6 DEF Loading
<1>9. CASE AddClient
  <2>. DEFINE k == Entry.key
              new == [key |-> k, email |-> Entry.mail, notify_events |-> pushed]
  <2>1. /\ MoreEntries /\ Named(Entry) /\ child \notin DOMAIN Entry.alerts
        /\ clients' = Append(clients, new)
        /\ client_map' = [l \in DOMAIN client_map \cup {k} |->
                             IF l \in DOMAIN client_map THEN client_map[l] ELSE Len(clients) + 1]
        /\ next' = next + 1 /\ child' = 1 /\ pushed' = << >>
    BY <1>9 DEF AddClient, Named
  <2>2. /\ k \in STRING /\ k # "" /\ Entry.mail \in STRING
        /\ next \in DOMAIN document.entries /\ Entry = document.entries[next]
        /\ DOMAIN Entry.alerts = 1 .. Len(Entry.alerts) /\ Len(Entry.alerts) \in Nat
    BY <1>2, <2>1 DEF MoreEntries, Entry, Named
  <2>3. next \in Complete /\ next \in Entries(k)
    BY <1>1, <2>1, <2>2, EntriesType DEF MoreEntries
  <2>4. EventsOf(pushed, Entry.alerts, Len(Entry.alerts) + 1)
    <3>1. EventsOf(pushed, Entry.alerts, child)
      BY <1>3, <2>1
    <3>2. \A j \in DOMAIN Entry.alerts : j < child
      <4>. DEFINE n == Len(Entry.alerts)
      <4>1. n \in Nat /\ child \in Nat \ {0} /\ child \notin 1 .. n
            /\ DOMAIN Entry.alerts = 1 .. n
        BY <1>3, <2>1, <2>2
      <4>. HIDE DEF n
      <4>. QED  BY <4>1
    <3>. QED  BY <3>1, <3>2 DEF EventsOf
  <2>5. clients \in Seq(ClientType)
    BY DEF ListInv
  <2>6. new \in ClientType
    BY <1>3, <2>2 DEF ClientType
  <2>7. Len(clients) \in Nat /\ DOMAIN clients = 1 .. Len(clients)
    BY <2>5
  <2>. HIDE DEF new
  <2>8. /\ clients' \in Seq(ClientType)
        /\ DOMAIN clients' = 1 .. Len(clients) + 1
        /\ \A i \in DOMAIN clients : clients'[i] = clients[i] /\ i \in DOMAIN clients'
        /\ clients'[Len(clients) + 1] = new /\ Len(clients) + 1 \in DOMAIN clients'
    BY <2>1, <2>5, <2>6, <2>7
  <2>9. /\ DOMAIN client_map' = DOMAIN client_map \cup {k}
        /\ \A l \in DOMAIN client_map : client_map'[l] = client_map[l]
        /\ k \notin DOMAIN client_map => client_map'[k] = Len(clients) + 1
    BY <2>1
  <2>10. \A i \in Complete : i < next => document.entries[i].key \in DOMAIN client_map
    BY DEF ListInv
  <2>11. \A i \in Complete : i \in Nat
    BY <1>1, <1>2, EntriesType
  <2>12. \A i \in Complete :
           (Loading => i < next)' => document'.entries[i].key \in DOMAIN client_map'
    <3>1. Loading' /\ next' = next + 1
      BY <1>1, <2>1 DEF Loading
    <3>2. \A i \in Complete : i < next + 1 => i < next \/ i = next
      BY <1>1, <2>11
    <3>. QED  BY <1>1, <2>2, <2>9, <2>10, <3>1, <3>2
  <2>13. ASSUME k \notin DOMAIN client_map PROVE FirstEntry(k) = Entry
    <3>1. ASSUME NEW f \in Entries(k) PROVE next <= f
      <4>1. f \in Complete /\ document.entries[f].key = k
        BY <1>1, <3>1, EntriesType
      <4>2. ~ (f < next)
        BY <2>10, <2>13, <4>1
      <4>. QED  BY <1>1, <2>11, <4>1, <4>2
    <3>2. Entries(k) \in SUBSET Nat
      BY <1>1, EntriesType
    <3>3. Min(Entries(k)) = next
      BY <2>3, <3>1, <3>2, MinIs
    <3>. QED  BY <2>2, <3>3 DEF FirstEntry
  <2>14. ASSUME NEW l \in DOMAIN client_map'
         PROVE  /\ l # "" /\ client_map'[l] \in DOMAIN clients' /\ Entries(l) # {}
                /\ get_client(l)'.email = FirstEntry(l).mail
                /\ EventsOf(get_client(l)'.notify_events, FirstEntry(l).alerts,
                            Len(FirstEntry(l).alerts) + 1)
    <3>1. CASE l \in DOMAIN client_map
      <4>1. /\ l # "" /\ client_map[l] \in DOMAIN clients /\ Entries(l) # {}
            /\ get_client(l).email = FirstEntry(l).mail
            /\ EventsOf(get_client(l).notify_events, FirstEntry(l).alerts,
                        Len(FirstEntry(l).alerts) + 1)
        BY <3>1 DEF ListInv
      <4>2. get_client(l)' = get_client(l)
        BY <2>8, <2>9, <3>1, <4>1 DEF get_client
      <4>. QED  BY <2>8, <2>9, <3>1, <4>1, <4>2
    <3>2. CASE l = k /\ k \notin DOMAIN client_map
      <4>1. get_client(l)' = new /\ client_map'[l] \in DOMAIN clients'
        BY <2>8, <2>9, <3>2 DEF get_client
      <4>2. get_client(l)'.email = Entry.mail /\ get_client(l)'.notify_events = pushed
        BY <4>1 DEF new
      <4>3. FirstEntry(l) = Entry /\ Entries(l) # {} /\ l # ""
        BY <2>2, <2>3, <2>13, <3>2
      <4>. QED  BY <2>4, <4>1, <4>2, <4>3
    <3>. QED  BY <2>9, <3>1, <3>2
  <2>15. ListInv'
    <3>1. ASSUME NEW l \in DOMAIN client_map'
          PROVE  (/\ l # "" /\ client_map[l] \in DOMAIN clients /\ Entries(l) # {}
                  /\ get_client(l).email = FirstEntry(l).mail
                  /\ EventsOf(get_client(l).notify_events, FirstEntry(l).alerts,
                              Len(FirstEntry(l).alerts) + 1))'
      BY <1>1, <2>14 DEF EventsOf
    <3>. QED  BY <1>1, <2>8, <2>12, <3>1 DEF ListInv
  <2>. QED  BY <1>5, <2>1, <2>15
<1>10. CASE EndOfList
  <2>1. /\ document.wellFormed => next \notin DOMAIN document.entries
        /\ next' = 0 /\ ~ Loading'
        /\ UNCHANGED <<child, pushed, clients, client_map>>
    BY <1>10 DEF EndOfList, Loading
  <2>2. PushInv'
    BY <1>3, <2>1 DEF PushInv, MoreEntries
  <2>3. \A i \in Complete : i < next
    <3>. SUFFICES ASSUME NEW i \in Complete PROVE i < next
      OBVIOUS
    <3>1. document.wellFormed /\ i \in DOMAIN document.entries
      BY <1>1, EntriesType
    <3>2. next \notin DOMAIN document.entries /\ next > 0
      BY <1>1, <2>1, <3>1 DEF Loading
    <3>. QED  BY <1>1, <1>2, <3>1, <3>2
  <2>. QED  BY <1>6, <2>1, <2>2, <2>3
<1>. QED  BY <1>7, <1>8, <1>9, <1>10 DEF RegistryNext

-----------------------------------------------------------------------------
(* Handling the reports.                                                   *)

LEMMA RegistryFrame ==
  ASSUME PushInv, ListInv, UNCHANGED registryVars
  PROVE  /\ PushInv' /\ ListInv' /\ Loading' = Loading
         /\ \A k : get_client(k)' = get_client(k)
         /\ \A k : Entries(k)' = Entries(k) /\ FirstEntry(k)' = FirstEntry(k)
<1>1. /\ document' = document /\ next' = next /\ child' = child /\ pushed' = pushed
      /\ clients' = clients /\ client_map' = client_map
  BY DEF registryVars
<1>2. /\ Loading' = Loading /\ MoreEntries' = MoreEntries /\ Entry' = Entry
      /\ Complete' = Complete
  BY <1>1 DEF Loading, MoreEntries, Entry, Complete
<1>3. \A k : /\ get_client(k)' = get_client(k) /\ Entries(k)' = Entries(k)
             /\ FirstEntry(k)' = FirstEntry(k)
  BY <1>1, <1>2 DEF get_client, Entries, FirstEntry
<1>4. PushInv'
  <2>1. MoreEntries => EventsOf(pushed, Entry.alerts, child)' /\ Named(Entry)' = Named(Entry)
    BY <1>1, <1>2 DEF PushInv, EventsOf, Named
  <2>. QED  BY <1>1, <1>2, <2>1 DEF PushInv
<1>5. ListInv'
  <2>1. ASSUME NEW k \in DOMAIN client_map
        PROVE  EventsOf(get_client(k).notify_events, FirstEntry(k).alerts,
                        Len(FirstEntry(k).alerts) + 1)'
    BY <1>3 DEF ListInv, EventsOf
  <2>. QED  BY <1>1, <1>2, <1>3, <2>1 DEF ListInv
<1>. QED  BY <1>2, <1>3, <1>4, <1>5

\* The report of a key that is listed is not NoReport.
LEMMA ListedKey ==
  ASSUME ListInv, NEW k \in DOMAIN client_map
  PROVE  k # NoReport.key
  BY DEF ListInv, NoReport

LEMMA EventsType ==
  ASSUME ListInv, NEW k \in DOMAIN client_map
  PROVE  /\ get_client(k).notify_events \in Seq(Event)
         /\ DOMAIN get_client(k).notify_events = 1 .. Len(get_client(k).notify_events)
         /\ Len(get_client(k).notify_events) \in Nat
<1>1. /\ clients \in Seq(ClientType)
      /\ client_map[k] \in DOMAIN clients
  BY DEF ListInv
<1>2. get_client(k) \in ClientType
  <2>1. \A i \in DOMAIN clients : clients[i] \in ClientType
    BY <1>1
  <2>. QED  BY <1>1, <2>1 DEF get_client
<1>3. get_client(k).notify_events \in Seq(Event)
  BY <1>2 DEF ClientType
<1>. QED  BY <1>3

\* Mails are not taken back.
LEMMA ServedStays ==
  ASSUME NEW e, NEW s, NEW n, Served(e, s, n), mails \subseteq mails'
  PROVE  Served(e, s, n)'
  BY DEF Served

LEMMA EndedStays ==
  ASSUME NEW a, NEW n, EndedAs(a, n), client_map' = client_map,
         \A k : get_client(k)' = get_client(k), mails \subseteq mails'
  PROVE  EndedAs(a, n)'
<1>1. get_client(a.key)' = get_client(a.key)
  OBVIOUS
<1>2. \A e, s : Served(e, s, n) => Served(e, s, n)'
  BY ServedStays
<1>. QED  BY <1>1, <1>2 DEF EndedAs

LEMMA OutcomeStays ==
  ASSUME OutcomeInv, answers' = answers, client_map' = client_map,
         \A k : get_client(k)' = get_client(k), mails \subseteq mails'
  PROVE  OutcomeInv'
<1>1. ASSUME NEW n \in DOMAIN answers, NEW a, a = answers[n] PROVE EndedAs(a, n)'
  BY <1>1, EndedStays DEF OutcomeInv
<1>. QED  BY <1>1 DEF OutcomeInv, EndedAs, Served

LEMMA AppendFacts ==
  ASSUME NEW S, NEW s \in Seq(S), NEW a \in S, NEW t, t = Append(s, a)
  PROVE  /\ t \in Seq(S)
         /\ Len(s) \in Nat /\ Len(t) = Len(s) + 1
         /\ DOMAIN s = 1 .. Len(s) /\ DOMAIN t = 1 .. Len(s) + 1
         /\ \A n \in DOMAIN s : t[n] = s[n] /\ n \in DOMAIN t
         /\ t[Len(s) + 1] = a
         /\ \A n \in DOMAIN t : n \in DOMAIN s \/ n = Len(s) + 1
  OBVIOUS

LEMMA RefuseStep ==
  ASSUME IInv, NEW k \in ClientKeys, NEW s \in SentStatistics, Refuse(k, s)
  PROVE  IInv'
<1>. DEFINE a == [key |-> k, stats |-> s, outcome |-> "unauthorized"]
<1>1. /\ PushInv /\ ListInv /\ CurrentInv /\ LoopInv /\ MailInv /\ OutcomeInv
      /\ UNCHANGED <<registryVars, current, event, mails>>
      /\ ~ Loading /\ current = NoReport /\ k \notin DOMAIN client_map
      /\ answers' = Append(answers, a)
  BY DEF IInv, Refuse, Idle, authenticate_client
<1>2. /\ PushInv' /\ ListInv' /\ Loading' = Loading /\ client_map' = client_map
      /\ \A l : get_client(l)' = get_client(l)
  BY <1>1, RegistryFrame DEF registryVars
<1>3. /\ a \in Answer
      /\ a.key = k /\ a.outcome = "unauthorized"
  BY DEF Answer, Outcomes
<1>. HIDE DEF a
<1>4. /\ answers \in Seq(Answer)
      /\ answers' \in Seq(Answer)
      /\ Len(answers) \in Nat /\ Len(answers') = Len(answers) + 1
      /\ DOMAIN answers = 1 .. Len(answers) /\ DOMAIN answers' = 1 .. Len(answers) + 1
      /\ \A n \in DOMAIN answers : answers'[n] = answers[n] /\ n \in DOMAIN answers'
      /\ answers'[Len(answers) + 1] = a
  <2>1. answers \in Seq(Answer)
    BY <1>1 DEF CurrentInv
  <2>. QED  BY <1>1, <1>3, <2>1, AppendFacts
<1>5. \A n \in DOMAIN answers' : n \in DOMAIN answers \/ n = Len(answers) + 1
  BY <1>4
<1>6. CurrentInv'
  BY <1>1, <1>2, <1>4 DEF CurrentInv
<1>7. LoopInv'
  BY <1>1 DEF LoopInv, NoReport
<1>8. MailInv'
  <2>. SUFFICES ASSUME NEW m \in mails
                PROVE  /\ m.report \in 1 .. Len(answers) + 1 + 1
                       /\ Report(m.report)' = Report(m.report)
    BY <1>1, <1>2, <1>4 DEF MailInv
  <2>1. m.report \in 1 .. Len(answers) + 1 /\ Report(m.report).key \in DOMAIN client_map
    BY <1>1 DEF MailInv
  <2>2. Report(m.report).key # current.key
    BY <1>1, <2>1, ListedKey
  <2>3. m.report \in DOMAIN answers
    BY <2>2 DEF Report
  <2>. QED  BY <1>1, <1>4, <2>1, <2>3 DEF Report
<1>9. OutcomeInv'
  <2>1. ASSUME NEW n \in DOMAIN answers', NEW b, b = answers'[n] PROVE EndedAs(b, n)'
    <3>1. CASE n \in DOMAIN answers
      <4>1. EndedAs(b, n)
        BY <1>1, <1>4, <2>1, <3>1 DEF OutcomeInv
      <4>. QED  BY <1>1, <1>2, <4>1, EndedStays
    <3>2. CASE n = Len(answers) + 1
      BY <1>1, <1>2, <1>3, <1>4, <2>1, <3>2 DEF EndedAs
    <3>. QED  BY <1>5, <2>1, <3>1, <3>2
  <2>. QED  BY <2>1 DEF OutcomeInv, EndedAs, Served
<1>. QED  BY <1>2, <1>6, <1>7, <1>8, <1>9 DEF IInv

LEMMA ReceiveStep ==
  ASSUME IInv, NEW k \in ClientKeys, NEW s \in SentStatistics, Receive(k, s)
  PROVE  IInv'
<1>1. /\ PushInv /\ ListInv /\ CurrentInv /\ LoopInv /\ MailInv /\ OutcomeInv
      /\ UNCHANGED <<registryVars, mails, answers>>
      /\ ~ Loading /\ current = NoReport /\ k \in DOMAIN client_map
      /\ current' = [key |-> k, stats |-> s] /\ event' = 1
  BY DEF IInv, Receive, Idle, authenticate_client
<1>2. /\ PushInv' /\ ListInv' /\ Loading' = Loading /\ client_map' = client_map
      /\ \A l : get_client(l)' = get_client(l)
  BY <1>1, RegistryFrame DEF registryVars
<1>3. CurrentInv'
  BY <1>1, <1>2 DEF CurrentInv
<1>4. LoopInv'
  <2>1. Client' = get_client(k)
    BY <1>1, <1>2 DEF Client, get_client
  <2>2. \A i \in DOMAIN get_client(k).notify_events : ~ (i < 1)
    BY <1>1, EventsType
  <2>. QED  BY <1>1, <2>1, <2>2 DEF LoopInv
<1>5. MailInv'
  <2>. SUFFICES ASSUME NEW m \in mails PROVE Report(m.report)' = Report(m.report)
    BY <1>1, <1>2 DEF MailInv
  <2>1. Report(m.report).key \in DOMAIN client_map
    BY <1>1 DEF MailInv
  <2>2. Report(m.report).key # current.key
    BY <1>1, <2>1, ListedKey
  <2>. QED  BY <1>1, <2>2 DEF Report
<1>6. OutcomeInv'
  BY <1>1, <1>2, OutcomeStays
<1>. QED  BY <1>2, <1>3, <1>4, <1>5, <1>6 DEF IInv

\* notify() passes an event, with its mail where one is due.
LEMMA EventStep ==
  ASSUME IInv, PassOver \/ Mail
  PROVE  IInv'
<1>1. /\ PushInv /\ ListInv /\ CurrentInv /\ LoopInv /\ MailInv /\ OutcomeInv
      /\ UNCHANGED <<registryVars, current, answers>>
      /\ current # NoReport /\ event \in DOMAIN Client.notify_events /\ event' = event + 1
  BY DEF IInv, PassOver, Mail, Compared, Notifying
<1>2. /\ PushInv' /\ ListInv' /\ Loading' = Loading /\ client_map' = client_map
      /\ \A l : get_client(l)' = get_client(l)
  BY <1>1, RegistryFrame DEF registryVars
<1>3. /\ ~ Loading /\ current.key \in DOMAIN client_map /\ event \in Nat \ {0}
      /\ answers \in Seq(Answer)
      /\ current.key # NoReport.key
  BY <1>1, ListedKey DEF CurrentInv
<1>4. Client' = Client /\ Client = get_client(current.key)
  BY <1>1, <1>2 DEF Client
<1>5. /\ DOMAIN Client.notify_events = 1 .. Len(Client.notify_events)
      /\ Len(Client.notify_events) \in Nat
  BY <1>1, <1>3, <1>4, EventsType
<1>6. PICK n, e, to : n = Len(answers) + 1 /\ e = Client.notify_events[event] /\ to = Client.email
  OBVIOUS
<1>. DEFINE m == [report |-> n, email |-> to, event |-> e]
<1>7. n \in Nat \ {0} /\ n \notin DOMAIN answers
  BY <1>3, <1>6
<1>8. CurrentInv'
  BY <1>1, <1>2, <1>3 DEF CurrentInv
<1>9. \/ /\ e.type # "none" /\ e.value.stoi
         /\ Met(e.type, e.condition, e.value.int, current.stats)
         /\ mails' = mails \cup {m}
      \/ /\ mails' = mails
         /\ \/ e.type = "none"
            \/ e.value.stoi /\ ~ Met(e.type, e.condition, e.value.int, current.stats)
  BY <1>6 DEF PassOver, Mail, Compared, Satisfied, CurrentEvent
<1>10. m.report = n /\ m.email = to /\ m.event = e
  OBVIOUS
<1>. HIDE DEF m
<1>11. mails \subseteq mails' /\ \A x \in mails' : x \in mails \/ x = m
  BY <1>9
<1>12. LoopInv'
  <2>1. ASSUME NEW i \in DOMAIN Client.notify_events, i < event + 1,
               NEW x, x = Client.notify_events[i], NEW s, s = current.stats
        PROVE  Served(x, s, n)'
    <3>1. CASE i < event
      <4>1. Served(x, s, n)
        BY <1>1, <1>6, <2>1, <3>1 DEF LoopInv
      <4>. QED  BY <1>11, <4>1, ServedStays
    <3>2. CASE i = event
      BY <1>6, <1>9, <1>10, <2>1, <3>2 DEF Served
    <3>. QED  BY <1>3, <1>5, <2>1, <3>1, <3>2
  <2>2. Len(answers') + 1 = n /\ current'.stats = current.stats /\ event' = event + 1
    BY <1>1, <1>6
  <2>. QED  BY <1>4, <2>1, <2>2 DEF LoopInv, Served
<1>13. MailInv'
  <2>1. \A r : Report(r)' = Report(r)
    BY <1>1 DEF Report
  <2>2. ASSUME NEW x \in mails'
        PROVE  /\ x.report \in 1 .. Len(answers) + 1
               /\ Report(x.report).key \in DOMAIN client_map
               /\ x.email = get_client(Report(x.report).key).email
               /\ \E i \in DOMAIN get_client(Report(x.report).key).notify_events :
                     x.event = get_client(Report(x.report).key).notify_events[i]
               /\ x.event.type # "none"
               /\ Met(x.event.type, x.event.condition, x.event.value.int, Report(x.report).stats)
    <3>1. CASE x \in mails
      BY <1>1, <3>1 DEF MailInv
    <3>2. CASE x \notin mails
      <4>1. /\ x = m /\ e.type # "none"
            /\ Met(e.type, e.condition, e.value.int, current.stats)
        BY <1>9, <1>11, <3>2
      <4>2. Report(n) = current
        BY <1>7 DEF Report
      <4>3. n \in 1 .. Len(answers) + 1
        BY <1>6, <1>7
      <4>. QED  BY <1>1, <1>3, <1>4, <1>6, <1>10, <4>1, <4>2, <4>3
    <3>. QED  BY <3>1, <3>2
  <2>. QED  BY <1>1, <1>2, <2>1, <2>2 DEF MailInv
<1>14. OutcomeInv'
  BY <1>1, <1>2, <1>11, OutcomeStays
<1>. QED  BY <1>2, <1>8, <1>12, <1>13, <1>14 DEF IInv

\* An event of the client has a value stoi rejects.
Rejecting ==
    \E i \in DOMAIN Client.notify_events :
        Client.notify_events[i].type # "none" /\ ~Client.notify_events[i].value.stoi

\* How notify() may have ended.
MayEnd(outcome) ==
    /\ outcome \in Outcomes \ {"unauthorized"}
    /\ outcome = "created" => event \notin DOMAIN Client.notify_events
    /\ outcome = "bad value" => Rejecting

\* notify() has returned or thrown: the request is answered.
LEMMA EndStep ==
  ASSUME IInv, NEW outcome, End(outcome), current # NoReport, MayEnd(outcome)
  PROVE  IInv'
<1>1. /\ PushInv /\ ListInv /\ CurrentInv /\ LoopInv /\ MailInv /\ OutcomeInv
      /\ UNCHANGED <<registryVars, mails>>
      /\ current' = NoReport /\ event' = 1
      /\ answers' = Append(answers, [key |-> current.key, stats |-> current.stats,
                                     outcome |-> outcome])
  BY DEF IInv, End
<1>2. /\ PushInv' /\ ListInv' /\ Loading' = Loading /\ client_map' = client_map
      /\ \A l : get_client(l)' = get_client(l)
  BY <1>1, RegistryFrame DEF registryVars
<1>3. /\ ~ Loading /\ current \in [key : ClientKeys, stats : SentStatistics]
      /\ current.key \in DOMAIN client_map
      /\ event \in Nat \ {0}
      /\ answers \in Seq(Answer)
  BY <1>1 DEF CurrentInv
<1>4. PICK r : r = [key |-> current.key, stats |-> current.stats, outcome |-> outcome]
  OBVIOUS
<1>5. /\ r \in Answer
      /\ r.key = current.key /\ r.stats = current.stats /\ r.outcome = outcome
  BY <1>3, <1>4 DEF Answer, MayEnd
<1>6. answers' = Append(answers, r)
  BY <1>1, <1>4
<1>7. /\ answers' \in Seq(Answer)
      /\ Len(answers) \in Nat /\ Len(answers') = Len(answers) + 1
      /\ DOMAIN answers = 1 .. Len(answers) /\ DOMAIN answers' = 1 .. Len(answers) + 1
      /\ \A n \in DOMAIN answers : answers'[n] = answers[n] /\ n \in DOMAIN answers'
      /\ answers'[Len(answers) + 1] = r
      /\ \A n \in DOMAIN answers' : n \in DOMAIN answers \/ n = Len(answers) + 1
  <2>1. answers \in Seq(Answer) /\ r \in Answer
    BY <1>3, <1>5
  <2>. QED  BY <1>6, <2>1, AppendFacts
<1>8. CurrentInv'
  <2>1. answers' \in Seq(Answer) /\ current' = NoReport /\ event' = 1 /\ Loading' = Loading
        /\ ~ Loading
    BY <1>1, <1>2, <1>3, <1>7
  <2>. QED  BY <2>1 DEF CurrentInv
<1>9. LoopInv'
  BY <1>1 DEF LoopInv, NoReport
<1>10. MailInv'
  <2>. SUFFICES ASSUME NEW m \in mails
                PROVE  /\ m.report \in 1 .. Len(answers) + 1 + 1
                       /\ Report(m.report)'.key = Report(m.report).key
                       /\ Report(m.report)'.stats = Report(m.report).stats
    BY <1>1, <1>2, <1>7 DEF MailInv
  <2>1. /\ m.report \in 1 .. Len(answers) + 1 /\ Len(answers) \in Nat
        /\ m.report \in 1 .. Len(answers) + 1 + 1
    <3>1. m.report \in 1 .. Len(answers) + 1 /\ Len(answers) \in Nat
      BY <1>1, <1>7 DEF MailInv
    <3>. QED  BY <3>1
  <2>2. CASE m.report \in DOMAIN answers
    BY <1>1, <1>7, <2>1, <2>2 DEF Report
  <2>3. CASE m.report \notin DOMAIN answers
    <3>1. m.report = Len(answers) + 1
      BY <1>7, <2>1, <2>3
    <3>2. m.report \in DOMAIN answers'
      BY <1>7, <2>1
    <3>. QED  BY <1>1, <1>5, <1>7, <2>1, <2>3, <3>1, <3>2 DEF Report
  <2>. QED  BY <2>2, <2>3
<1>11. OutcomeInv'
  <2>1. ASSUME NEW n \in DOMAIN answers', NEW b, b = answers'[n] PROVE EndedAs(b, n)'
    <3>1. CASE n \in DOMAIN answers
      <4>1. EndedAs(b, n)
        BY <1>1, <1>7, <2>1, <3>1 DEF OutcomeInv
      <4>. QED  BY <1>1, <1>2, <4>1, EndedStays
    <3>2. CASE n = Len(answers) + 1
      <4>1. /\ b = r /\ b.key = current.key /\ b.stats = current.stats /\ b.outcome = outcome
            /\ Client = get_client(b.key)
        BY <1>5, <1>7, <2>1, <3>2 DEF Client
      <4>2. ASSUME outcome = "created"
            PROVE  \A i \in DOMAIN Client.notify_events :
                      Served(Client.notify_events[i], b.stats, n)
        <5>1. /\ DOMAIN Client.notify_events = 1 .. Len(Client.notify_events)
              /\ Len(Client.notify_events) \in Nat
          BY <1>1, <1>3, <4>1, EventsType
        <5>2. \A i \in DOMAIN Client.notify_events : i < event
          BY <1>3, <4>2, <5>1 DEF MayEnd
        <5>. QED  BY <1>1, <3>2, <4>1, <5>2 DEF LoopInv
      <4>3. EndedAs(b, n)
        BY <1>3, <4>1, <4>2 DEF EndedAs, Rejecting, MayEnd
      <4>. QED  BY <1>1, <1>2, <4>3, EndedStays
    <3>. QED  BY <1>7, <2>1, <3>1, <3>2
  <2>. QED  BY <2>1 DEF OutcomeInv, EndedAs, Served
<1>. QED  BY <1>2, <1>8, <1>9, <1>10, <1>11 DEF IInv

LEMMA LoadStep ==
  ASSUME IInv, Load
  PROVE  IInv'
<1>1. /\ PushInv /\ ListInv /\ CurrentInv /\ RegistryNext
      /\ UNCHANGED <<current, event, mails, answers>>
  BY DEF IInv, Load
<1>2. PushInv' /\ ListInv'
  BY <1>1, RegistryStep
<1>3. current = NoReport /\ mails = {} /\ answers = << >>
  BY <1>1 DEF CurrentInv, RegistryNext, SkipEntry, PushEvent, AddClient, EndOfList, MoreEntries
<1>4. CurrentInv'
  BY <1>1, <1>3 DEF CurrentInv, NoReport
<1>5. DOMAIN answers' = {} /\ mails' = {} /\ current' = NoReport
  BY <1>1, <1>3
<1>6. LoopInv' /\ MailInv' /\ OutcomeInv'
  BY <1>5 DEF LoopInv, MailInv, OutcomeInv, NoReport
<1>. QED  BY <1>2, <1>4, <1>6 DEF IInv

-----------------------------------------------------------------------------
(* The theorems.                                                           *)

LEMMA InitIInv == Init => IInv
<1>. SUFFICES ASSUME Init PROVE IInv
  OBVIOUS
<1>1. /\ document \in Documents /\ next = 1 /\ child = 1 /\ pushed = << >>
      /\ clients = << >> /\ client_map = << >>
      /\ current = NoReport /\ event = 1 /\ mails = {} /\ answers = << >>
      /\ Loading
  BY DEF Init, RegistryInit, Loading
<1>2. /\ DOMAIN document.entries = 1 .. Len(document.entries) /\ Len(document.entries) \in Nat
      /\ \A i \in DOMAIN document.entries :
           LET alerts == document.entries[i].alerts IN
           DOMAIN alerts = 1 .. Len(alerts) /\ Len(alerts) \in Nat
  BY <1>1, DocumentType
<1>3. PushInv
  <2>1. MoreEntries => EventsOf(<< >>, Entry.alerts, 1)
    BY <1>2 DEF MoreEntries, Entry, EventsOf
  <2>. QED  BY <1>1, <2>1 DEF PushInv
<1>4. ListInv
  <2>1. \A i \in Complete : ~ (i < 1)
    BY <1>1, <1>2, EntriesType
  <2>2. DOMAIN client_map = {}
    BY <1>1
  <2>. QED  BY <1>1, <2>1, <2>2 DEF ListInv
<1>5. CurrentInv
  BY <1>1 DEF CurrentInv
<1>6. LoopInv /\ MailInv /\ OutcomeInv
  BY <1>1 DEF LoopInv, MailInv, OutcomeInv
<1>. QED  BY <1>3, <1>4, <1>5, <1>6 DEF IInv

LEMMA NextIInv == IInv /\ [Next]_vars => IInv'
<1>. SUFFICES ASSUME IInv, [Next]_vars PROVE IInv'
  OBVIOUS
<1>1. CASE Load
  BY <1>1, LoadStep
<1>2. ASSUME NEW k \in ClientKeys, NEW s \in SentStatistics, Refuse(k, s) \/ Receive(k, s)
      PROVE  IInv'
  BY <1>2, RefuseStep, ReceiveStep
<1>3. CASE PassOver \/ Mail
  BY <1>3, EventStep
<1>4. CASE MailFails
  <2>1. current # NoReport /\ End("mail failed")
    BY <1>4 DEF MailFails, Compared, Notifying
  <2>2. MayEnd("mail failed")
    BY DEF MayEnd, Outcomes
  <2>. QED  BY <2>1, <2>2, EndStep
<1>5. CASE BadValue
  <2>1. current # NoReport /\ End("bad value") /\ Rejecting
    BY <1>5 DEF BadValue, Notifying, CurrentEvent, Rejecting
  <2>2. MayEnd("bad value")
    BY <2>1 DEF MayEnd, Outcomes
  <2>. QED  BY <2>1, <2>2, EndStep
<1>6. CASE Created
  <2>1. /\ current # NoReport /\ End("created")
        /\ event \notin DOMAIN Client.notify_events
    BY <1>6 DEF Created
  <2>2. MayEnd("created")
    BY <2>1 DEF MayEnd, Outcomes
  <2>. QED  BY <2>1, <2>2, EndStep
<1>7. CASE UNCHANGED vars
  <2>1. /\ PushInv /\ ListInv /\ CurrentInv /\ LoopInv /\ MailInv /\ OutcomeInv
        /\ UNCHANGED <<registryVars, current, event, mails, answers>>
    BY <1>7 DEF IInv, vars
  <2>2. /\ PushInv' /\ ListInv' /\ Loading' = Loading /\ client_map' = client_map
        /\ \A l : get_client(l)' = get_client(l)
    BY <2>1, RegistryFrame DEF registryVars
  <2>3. CurrentInv'
    BY <2>1, <2>2 DEF CurrentInv
  <2>4. LoopInv'
    BY <2>1, <2>2 DEF LoopInv, Client, Served
  <2>5. MailInv'
    BY <2>1, <2>2 DEF MailInv, Report
  <2>6. OutcomeInv'
    BY <2>1, <2>2, OutcomeStays
  <2>. QED  BY <2>2, <2>3, <2>4, <2>5, <2>6 DEF IInv
<1>. QED  BY <1>1, <1>2, <1>3, <1>4, <1>5, <1>6, <1>7 DEF Next, Finished

\* The inductive invariant: the map is what the entries before the current one
\* make of it, and mails and outcomes are what the map's events make of the
\* reports (add_clients, then one notify() after the other).
THEOREM Invariance == Spec => []IInv
  BY InitIInv, NextIInv, PTL DEF Spec

\* Once a report has been answered the list is loaded: a key is in the map
\* exactly if a complete entry has it.
LEMMA Listed ==
  ASSUME IInv, NEW n \in DOMAIN answers
  PROVE  /\ Of(n) \in DOMAIN client_map <=> Entries(Of(n)) # {}
         /\ EndedAs(answers[n], n) /\ Of(n) = answers[n].key
<1>1. ListInv /\ CurrentInv /\ OutcomeInv
  BY DEF IInv
<1>2. ~ Loading
  <2>1. answers # << >>
    OBVIOUS
  <2>. QED  BY <1>1, <2>1 DEF CurrentInv
<1>3. ASSUME NEW i \in Entries(Of(n)) PROVE Of(n) \in DOMAIN client_map
  BY <1>1, <1>2, <1>3 DEF ListInv, Entries
<1>4. Of(n) \in DOMAIN client_map => Entries(Of(n)) # {}
  BY <1>1 DEF ListInv
<1>. QED  BY <1>1, <1>3, <1>4 DEF OutcomeInv, Of

\* authenticate_client refuses a key exactly when no complete entry of a
\* well-formed client-list.xml has it.
THEOREM RefusedTheorem == Spec => []RefusedMeansUnlisted
<1>1. IInv => RefusedMeansUnlisted
  BY Listed DEF RefusedMeansUnlisted, EndedAs
<1>. QED  BY <1>1, Invariance, PTL

\* The events of a listed key, and the alerts of its first entry.
LEMMA EventsOfKey ==
  ASSUME IInv, NEW k \in DOMAIN client_map
  PROVE  LET es == get_client(k).notify_events
             alerts == FirstEntry(k).alerts
         IN  /\ \A i \in DOMAIN es : \E j \in DOMAIN alerts :
                  Typed(alerts[j]) /\ es[i] = EventOf(alerts[j])
             /\ \A j \in DOMAIN alerts :
                  Typed(alerts[j]) => \E i \in DOMAIN es : es[i] = EventOf(alerts[j])
<1>1. /\ EventsOf(get_client(k).notify_events, FirstEntry(k).alerts,
                  Len(FirstEntry(k).alerts) + 1)
      /\ Entries(k) # {} /\ document \in Documents
  BY DEF IInv, ListInv
<1>2. PICK e \in Entries(k) : FirstEntry(k) = document.entries[e]
  <2>1. Entries(k) \in SUBSET Nat
    BY <1>1, EntriesType
  <2>2. Min(Entries(k)) \in Entries(k)
    BY <1>1, <2>1, MinIn
  <2>. QED  BY <2>2 DEF FirstEntry
<1>3. /\ DOMAIN FirstEntry(k).alerts = 1 .. Len(FirstEntry(k).alerts)
      /\ Len(FirstEntry(k).alerts) \in Nat
  <2>1. e \in DOMAIN document.entries
    BY <1>1, <1>2, EntriesType
  <2>. QED  BY <1>1, <1>2, <2>1, DocumentType
<1>4. \A j \in DOMAIN FirstEntry(k).alerts : j < Len(FirstEntry(k).alerts) + 1
  BY <1>3
<1>. QED  BY <1>1, <1>4 DEF EventsOf

\* A report fails for a value stoi rejects only because of an alert of its
\* key's first complete entry that is not well written.
THEOREM BadValueTheorem == Spec => []BadValueIsListed
<1>1. IInv => BadValueIsListed
  <2>. SUFFICES ASSUME IInv, NEW n \in DOMAIN answers, answers[n].outcome = "bad value"
                PROVE  \E i \in DOMAIN FirstEntry(Of(n)).alerts :
                          ~WellWritten(FirstEntry(Of(n)).alerts[i])
    BY DEF BadValueIsListed
  <2>1. /\ Of(n) \in DOMAIN client_map
        /\ \E i \in DOMAIN get_client(Of(n)).notify_events :
              /\ get_client(Of(n)).notify_events[i].type # "none"
              /\ ~get_client(Of(n)).notify_events[i].value.stoi
    BY Listed DEF EndedAs
  <2>2. PICK i \in DOMAIN get_client(Of(n)).notify_events :
            ~get_client(Of(n)).notify_events[i].value.stoi
    BY <2>1
  <2>3. PICK j \in DOMAIN FirstEntry(Of(n)).alerts :
            get_client(Of(n)).notify_events[i] = EventOf(FirstEntry(Of(n)).alerts[j])
    BY <2>1, EventsOfKey
  <2>4. ~EventOf(FirstEntry(Of(n)).alerts[j]).value.stoi
    BY <2>2, <2>3
  <2>. QED  BY <2>4, WellWrittenEvent
<1>. QED  BY <1>1, Invariance, PTL

\* A report answered 201 has had a mail for every well-written alert of its
\* key's first complete entry that its statistics satisfy.
THEOREM CreatedTheorem == Spec => []CreatedMeansMailed
<1>1. IInv => CreatedMeansMailed
  <2>. SUFFICES ASSUME IInv, NEW n \in DOMAIN answers, answers[n].outcome = "created",
                       NEW i \in DOMAIN FirstEntry(Of(n)).alerts,
                       NEW alert, alert = FirstEntry(Of(n)).alerts[i], WellWritten(alert),
                       NEW e \in Readings(alert),
                       Met(e.type, e.condition, e.value.int, answers[n].stats)
                PROVE  \E m \in mails : m.report = n /\ m.event = e
    BY DEF CreatedMeansMailed
  <2>1. /\ Of(n) \in DOMAIN client_map
        /\ \A j \in DOMAIN get_client(Of(n)).notify_events :
              Served(get_client(Of(n)).notify_events[j], answers[n].stats, n)
    BY Listed DEF EndedAs
  <2>2. Typed(alert) /\ e = EventOf(alert) /\ e.type # "none"
    BY WellWrittenEvent
  <2>3. Served(e, answers[n].stats, n)
    BY <2>1, <2>2, EventsOfKey
  <2>. QED  BY <2>2, <2>3 DEF Served
<1>. QED  BY <1>1, Invariance, PTL

\* A mail goes to the address of the first complete entry of the report's key,
\* for an alert that entry gives and the report satisfies.
THEOREM MailsTheorem == Spec => []MailsAsListed
<1>1. IInv => MailsAsListed
  <2>. SUFFICES ASSUME IInv, NEW m \in mails, m.report \in DOMAIN answers,
                       NEW k, k = Of(m.report)
                PROVE  /\ Entries(k) # {}
                       /\ m.email = FirstEntry(k).mail
                       /\ \E i \in DOMAIN FirstEntry(k).alerts :
                             m.event \in Readings(FirstEntry(k).alerts[i])
                       /\ Met(m.event.type, m.event.condition, m.event.value.int,
                              answers[m.report].stats)
    BY DEF MailsAsListed
  <2>1. /\ k \in DOMAIN client_map
        /\ m.email = get_client(k).email
        /\ \E i \in DOMAIN get_client(k).notify_events :
              m.event = get_client(k).notify_events[i]
        /\ m.event.type # "none"
        /\ Met(m.event.type, m.event.condition, m.event.value.int, answers[m.report].stats)
    BY DEF IInv, MailInv, Report, Of
  <2>2. Entries(k) # {} /\ get_client(k).email = FirstEntry(k).mail
    BY <2>1 DEF IInv, ListInv
  <2>3. PICK j \in DOMAIN FirstEntry(k).alerts :
            Typed(FirstEntry(k).alerts[j]) /\ m.event = EventOf(FirstEntry(k).alerts[j])
    BY <2>1, EventsOfKey
  <2>4. m.event.condition # "none"
    BY <2>1, MetCondition
  <2>5. m.event \in Readings(FirstEntry(k).alerts[j])
    BY <2>1, <2>3, <2>4, EventReading
  <2>. QED  BY <2>1, <2>2, <2>5
<1>. QED  BY <1>1, Invariance, PTL

\* What is satisfied is not the NaN of 0/0; only a use of minus infinity,
\* which is below every value, is infinite (client.cpp, alert_for_*).
LEMMA MetQuantity ==
  ASSUME NEW type \in Alert \ {"none"}, NEW c, NEW n \in Int, NEW s \in Statistics,
         s.mem_total = 0 => s.mem_free = 0, s.cpus = 0 => s.idle >= 0,
         Met(type, c, n, s)
  PROVE  LET q == Quantity(type, s) IN ~NaN(q) /\ (Infinite(q) => type = "cpu" /\ c = "under")
<1>1. /\ s.mem_total \in Int /\ s.mem_free \in Int /\ s.idle \in Int /\ s.cpus \in Nat
      /\ s.running \in Int
  BY DEF Statistics
<1>2. PICK q : q = Quantity(type, s)
  OBVIOUS
<1>3. CASE q.den = 0
  <2>1. (q.num < 0 /\ c = "under") \/ (q.num > 0 /\ c = "over")
    BY <1>2, <1>3 DEF Met, Below, Above, Truncates
  <2>2. CASE type = "memory"
    BY <1>1, <1>2, <1>3, <2>1, <2>2 DEF Quantity
  <2>3. CASE type = "cpu"
    BY <1>1, <1>2, <1>3, <2>1, <2>3 DEF Quantity, NaN
  <2>4. CASE type = "process"
    BY <1>2, <1>3, <2>4 DEF Quantity
  <2>. QED  BY <2>2, <2>3, <2>4 DEF Alert
<1>4. CASE q.den # 0
  BY <1>2, <1>4 DEF NaN, Infinite
<1>. QED  BY <1>3, <1>4

\* A mail is about something that was measured, where the agents report no
\* free memory without a total and no negative idle time without CPUs.
THEOREM MeasuredTheorem ==
  ASSUME \A s \in SentStatistics : /\ s.mem_total = 0 => s.mem_free = 0
                                   /\ s.cpus = 0 => s.idle >= 0
  PROVE  Spec => []MailsAsMeasured
<1>1. IInv => MailsAsMeasured
  <2>. SUFFICES ASSUME IInv, NEW m \in mails, m.report \in DOMAIN answers,
                       NEW s, s = answers[m.report].stats
                PROVE  LET q == Quantity(m.event.type, s) IN
                       ~NaN(q) /\ (Infinite(q) => m.event.type = "cpu"
                                                  /\ m.event.condition = "under")
    BY DEF MailsAsMeasured
  <2>1. s \in SentStatistics /\ s \in Statistics
    <3>1. answers[m.report] \in Answer
      BY DEF IInv, CurrentInv
    <3>. QED  BY <3>1, AlertingAssumption DEF Answer
  <2>2. PICK k \in DOMAIN client_map :
            \E i \in DOMAIN get_client(k).notify_events :
               m.event = get_client(k).notify_events[i]
    BY DEF IInv, MailInv
  <2>3. m.event \in Event
    <3>1. ListInv
      BY DEF IInv
    <3>. QED  BY <2>2, <3>1, EventsType
  <2>4. /\ m.event.type \in Alert \ {"none"}
        /\ m.event.value.int \in Int
    BY <2>3 DEF IInv, MailInv, Event, Text
  <2>5. Met(m.event.type, m.event.condition, m.event.value.int, s)
    BY DEF IInv, MailInv, Report
  <2>. QED  BY <2>1, <2>4, <2>5, MetQuantity
<1>. QED  BY <1>1, Invariance, PTL

-----------------------------------------------------------------------------
(* The mail client.  A mail that Send reports as failed is not accepted.   *)

MailLines == {Lines[i] : i \in 1 .. 13}

\* The end of a mail is its last line and no other.
LEMMA LinesLemma == Len(Lines) = 13 /\ \A i \in 1 .. 13 : Lines[i] = "." => i = 13
<1>1. Len(Lines) = 13
  BY DEF Lines
<1>2. \A i \in 1 .. 13 : Lines[i] = "." => i = 13
  BY DEF Lines
<1> QED BY <1>1, <1>2

-----------------------------------------------------------------------------
\* What the properties rest on.

DialogueType ==
    /\ stage \in [Ids -> {"none", "resolving", "connecting", "writing", "returned", "destroyed"}]
    /\ written \in [Ids -> 0 .. 13]
    /\ result \in [Ids -> {"none", "ok", "failed", "threw"}]
    /\ wire \in [Ids -> Seq(MailLines)]
    /\ mailbox \in Seq([mail : Ids, content : Seq(MailLines)])
    /\ content \in [Ids -> Seq(MailLines)]

\* The end of the mail is on its way, or was read, only if all is written.
DialogueInv ==
    /\ \A m \in Ids : \A i \in DOMAIN wire[m] : wire[m][i] = "." => written[m] = 13
    /\ \A m \in Ids : Accepted(m) => written[m] = 13

\* What is not connected yet has written nothing; a failure is final, and
\* came before the last line was written.
FailureInv ==
    \A m \in Ids :
        /\ stage[m] \in {"none", "resolving", "connecting"} => written[m] = 0
        /\ result[m] \in {"failed", "threw"} => /\ written[m] < 13
                                                /\ stage[m] \in {"returned", "destroyed"}

MailClientInv == DialogueType /\ DialogueInv /\ FailureInv

LEMMA MailClientStart == MailInit => MailClientInv
  BY MailAssumption DEF MailInit, MailClientInv, DialogueType, DialogueInv, FailureInv, Ids, Accepted

-----------------------------------------------------------------------------
\* The client's steps.  The lines that are sent change in one of them.

LEMMA ClientLemma ==
    ASSUME MailClientInv, NEW m \in Ids,
           Send(m) \/ Resolve(m) \/ Fail(m) \/ Connect(m) \/ writeThrows(m) \/ Return(m) \/ Destroy(m)
    PROVE  MailClientInv'
<1> USE DEF MailClientInv, DialogueType, clientVars, netVars, serverVars
<1>1. wire' = wire /\ mailbox' = mailbox /\ written' = written /\ content' = content
  BY DEF Send, Resolve, Fail, Connect, writeThrows, Return, Destroy
<1>2. DialogueInv'
  BY <1>1 DEF DialogueInv, Accepted
<1>3. DialogueType'
  BY <1>1 DEF Send, Resolve, Fail, Connect, writeThrows, Return, Destroy
<1>4. FailureInv'
  BY <1>1, LinesLemma DEF FailureInv, Send, Resolve, Fail, Connect, writeThrows, Return, Destroy
<1> QED BY <1>2, <1>3, <1>4

LEMMA WriteLemma ==
    ASSUME MailClientInv, NEW m \in Ids, writeLine(m)
    PROVE  MailClientInv'
<1> USE DEF MailClientInv, DialogueType, writeLine, serverVars
<1> DEFINE number == written[m] + 1
<1>0. number \in 1 .. 13 /\ written[m] \in 0 .. 12
  BY LinesLemma
<1>1. Lines[number] \in MailLines /\ (Lines[number] = "." => written[m] = 12)
  BY <1>0, LinesLemma DEF MailLines
<1>2. DialogueType'
  <2>1. written' \in [Ids -> 0 .. 13]
    <3>1. written' = [written EXCEPT ![m] = number] /\ number \in 0 .. 13
      BY <1>0
    <3> HIDE DEF number, writeLine
    <3> QED BY <3>1
  <2>2. wire' \in [Ids -> Seq(MailLines)]
    <3>1. Append(wire[m], Lines[number]) \in Seq(MailLines)
      BY <1>1
    <3> HIDE DEF number
    <3>2. wire' = wire \/ wire' = [wire EXCEPT ![m] = Append(wire[m], Lines[number])]
      BY DEF number
    <3> QED BY <3>1, <3>2
  <2> QED BY <2>1, <2>2
<1>3. FailureInv'
  BY LinesLemma DEF FailureInv
<1>4. DialogueInv'
  <2>1. ASSUME NEW n \in Ids, NEW i \in DOMAIN wire'[n], wire'[n][i] = "."
        PROVE  written'[n] = 13
    <3>1. CASE n = m /\ i = Len(wire[m]) + 1
      BY <1>0, <1>1, <2>1, <3>1
    <3>2. CASE i \in DOMAIN wire[n] /\ wire[n][i] = "."
      BY <1>0, <3>2 DEF DialogueInv
    <3> QED BY <2>1, <3>1, <3>2
  <2>2. ASSUME NEW n \in Ids, Accepted(n)' PROVE written'[n] = 13
    <3>1. written[n] = 13
      BY <2>2 DEF DialogueInv, Accepted
    <3> QED BY <1>0, <3>1
  <2> QED BY <2>1, <2>2 DEF DialogueInv
<1> QED BY <1>2, <1>3, <1>4

-----------------------------------------------------------------------------
\* The steps of the network and of the mail server.

LEMMA NetworkLemma ==
    ASSUME MailClientInv, NEW m \in Ids,
           Cut(m) \/ Greets(m) \/ HangsUp(m) \/ GivesUp(m) \/ SeesEnd(m)
    PROVE  MailClientInv'
<1> USE DEF MailClientInv, DialogueType, clientVars, netVars, serverVars
<1>1. /\ UNCHANGED <<clientVars, mailbox, content>>
      /\ \E k \in 0 .. Len(wire[m]) : wire' = [wire EXCEPT ![m] = SubSeq(@, 1, k)]
  <2>1. wire = [wire EXCEPT ![m] = SubSeq(@, 1, Len(wire[m]))]
    OBVIOUS
  <2>2. << >> = SubSeq(wire[m], 1, 0)
    OBVIOUS
  <2>3. CASE Cut(m)
    BY <2>3 DEF Cut
  <2>4. CASE wire' = wire
    <3>1. Len(wire[m]) \in 0 .. Len(wire[m])
      OBVIOUS
    <3>2. UNCHANGED <<clientVars, mailbox, content>>
      BY DEF Cut, Greets, HangsUp, GivesUp, SeesEnd
    <3> QED BY <2>1, <2>4, <3>1, <3>2
  <2>5. CASE wire' = [wire EXCEPT ![m] = << >>]
    <3>1. 0 \in 0 .. Len(wire[m])
      OBVIOUS
    <3>2. wire' = [wire EXCEPT ![m] = SubSeq(@, 1, 0)]
      BY <2>2, <2>5
    <3>3. UNCHANGED <<clientVars, mailbox, content>>
      BY DEF Cut, Greets, HangsUp, GivesUp, SeesEnd
    <3> QED BY <3>1, <3>2, <3>3
  <2>6. ~ Cut(m) => wire' = wire \/ wire' = [wire EXCEPT ![m] = << >>]
    BY DEF Greets, HangsUp, GivesUp, SeesEnd
  <2> QED BY <2>3, <2>4, <2>5, <2>6
<1>2. DialogueType'
  BY <1>1
<1>3. FailureInv'
  BY <1>1 DEF FailureInv
<1>4. DialogueInv'
  BY <1>1 DEF DialogueInv, Accepted
<1> QED BY <1>2, <1>3, <1>4

LEMMA ReadsLemma ==
    ASSUME MailClientInv, NEW m \in Ids,
           Command(m) \/ Refuses(m) \/ TakesText(m) \/ EndOfMail(m)
    PROVE  MailClientInv'
<1> USE DEF MailClientInv, DialogueType, clientVars, netVars, serverVars
<1>1. /\ UNCHANGED clientVars /\ wire[m] # << >>
      /\ wire' = [wire EXCEPT ![m] = Tail(@)]
  BY DEF Command, Refuses, TakesText, EndOfMail, Reads
<1>2. Head(wire[m]) \in MailLines
  BY <1>1
<1>3. \/ UNCHANGED mailbox
      \/ Head(wire[m]) = "." /\ mailbox' = Append(mailbox, [mail |-> m, content |-> content[m]])
  BY DEF Command, Refuses, TakesText, EndOfMail
<1>4. content' \in [Ids -> Seq(MailLines)]
  <2>1. CASE TakesText(m)
    BY <1>2, <2>1 DEF TakesText
  <2>2. CASE UNCHANGED content
    BY <2>2
  <2> QED BY <2>1, <2>2 DEF Command, Refuses, EndOfMail
<1>5. DialogueType'
  <2>1. wire' \in [Ids -> Seq(MailLines)]
    BY <1>1
  <2>2. mailbox' \in Seq([mail : Ids, content : Seq(MailLines)])
    <3>1. [mail |-> m, content |-> content[m]] \in [mail : Ids, content : Seq(MailLines)]
      OBVIOUS
    <3>2. CASE mailbox' = Append(mailbox, [mail |-> m, content |-> content[m]])
      <4> DEFINE letter == [mail |-> m, content |-> content[m]]
                 letters == [mail : Ids, content : Seq(MailLines)]
      <4>1. letter \in letters /\ mailbox \in Seq(letters) /\ mailbox' = Append(mailbox, letter)
        BY <3>1, <3>2
      <4> HIDE DEF letter, letters
      <4>2. mailbox' \in Seq(letters)
        BY <4>1
      <4> QED BY <4>2 DEF letters
    <3> QED BY <1>3, <3>2
  <2> QED BY <1>1, <1>4, <2>1, <2>2
<1>6. FailureInv'
  BY <1>1 DEF FailureInv
<1>7. DialogueInv'
  <2>1. ASSUME NEW n \in Ids, NEW i \in DOMAIN wire'[n], wire'[n][i] = "."
        PROVE  written'[n] = 13
    BY <1>1, <2>1 DEF DialogueInv
  <2>2. ASSUME NEW n \in Ids, Accepted(n)' PROVE written'[n] = 13
    <3>1. CASE Accepted(n)
      BY <1>1, <3>1 DEF DialogueInv
    <3>2. CASE ~ Accepted(n)
      <4>1. Head(wire[m]) = "." /\ mailbox' = Append(mailbox, [mail |-> m, content |-> content[m]])
        BY <1>3, <2>2, <3>2 DEF Accepted
      <4>2. n = m
        BY <2>2, <3>2, <4>1 DEF Accepted
      <4>3. 1 \in DOMAIN wire[m] /\ wire[m][1] = "."
        BY <1>1, <4>1
      <4> QED BY <1>1, <4>2, <4>3 DEF DialogueInv
    <3> QED BY <3>1, <3>2
  <2> QED BY <2>1, <2>2 DEF DialogueInv
<1> QED BY <1>5, <1>6, <1>7

-----------------------------------------------------------------------------
LEMMA MailClientStep == MailClientInv /\ [MailNext]_mailVars => MailClientInv'
<1> SUFFICES ASSUME MailClientInv, [MailNext]_mailVars PROVE MailClientInv'
  OBVIOUS
<1>1. CASE UNCHANGED mailVars
  BY <1>1 DEF mailVars, clientVars, netVars, serverVars, MailClientInv, DialogueType, DialogueInv, FailureInv, Accepted
<1>2. ASSUME NEW m \in Ids, ClientStep(m) PROVE MailClientInv'
  BY <1>2, ClientLemma, WriteLemma DEF ClientStep
<1>3. ASSUME NEW m \in Ids, MailServerStep(m) \/ Cut(m) \/ HangsUp(m) \/ GivesUp(m) PROVE MailClientInv'
  BY <1>3, NetworkLemma, ReadsLemma DEF MailServerStep
<1> QED BY <1>1, <1>2, <1>3 DEF MailNext, Done

\* For any number of mails, a mail whose Send returned an error or threw is
\* not accepted: its last line was never written (smtpclient.h).
THEOREM FailureTheorem == MailSpec => []FailureMeansNotAccepted
<1>1. MailClientInv => FailureMeansNotAccepted
  BY DEF MailClientInv, DialogueType, DialogueInv, FailureInv, FailureMeansNotAccepted
<1> QED BY <1>1, MailClientStart, MailClientStep, PTL DEF MailSpec

=============================================================================
