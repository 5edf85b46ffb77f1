-------------------------- MODULE HttpClient_proofs --------------------------
(***************************************************************************)
(* Proofs about HttpClient, for any number of requests.                    *)
(***************************************************************************)
EXTENDS HttpClient, FiniteSetTheorems, SequenceTheorems, TLAPS

-----------------------------------------------------------------------------
(* The inductive invariant.                                                *)

Stages  == Running \cup {"none", "called", "dropped"}
Results == Parts \cup {"pending", "ok", "error", "aborted"}
Pieces  == [of : Ids, part : Parts]

TypeOK ==
    /\ stage \in [Ids -> Stages]
    /\ done \in [Ids -> Results]
    /\ on \in [Ids -> {0} \cup Conns]
    /\ connections \subseteq Conns /\ in_use \subseteq Conns /\ attempt_reconnect \subseteq Conns
    /\ open \subseteq Conns /\ timer \subseteq Conns /\ fired \subseteq Conns /\ up \subseteq Conns
    /\ unanswered \in [Conns -> Seq(Ids)]
    /\ arrived \in [Conns -> Seq(Pieces)]
    /\ writes \in [Ids -> Nat]
    /\ result \in [Ids -> {0} \cup Ids]
    /\ alive \in BOOLEAN
    /\ spoilt \subseteq Conns /\ late \subseteq Ids

\* The sessions under way have a connection each, and these are in use.
UseInv ==
    /\ \A r \in Ids : on[r] # 0 <=> r \in Active
    /\ in_use = {on[r] : r \in Active}
    /\ OneSessionPerConnection

\* Besides those in use there is at most one connection, left by a request
\* that is over; there are none after the destructor.
SpareInv ==
    /\ \A c, d \in connections \ in_use : c = d
    /\ connections \subseteq in_use \/ Active # Ids
    /\ alive \/ connections = {}

\* attempt_reconnect is a member of Connections that exist.
ReconnectInv == attempt_reconnect \subseteq connections \cup in_use

\* The session's request has not been written on the current connection.
Before(r) == stage[r] \in {"resolve", "connect"} \/ (stage[r] = "write" /\ done[r] # "ok")

\* The current connection may yet be replaced.
Replaceable(r) == on[r] \in attempt_reconnect /\ stage[r] # "content"

WritesInv ==
    \A r \in Ids :
        /\ r \notin Active => writes[r] = 0
        /\ writes[r] <= (IF Before(r) THEN 0 ELSE 1) + (IF Replaceable(r) THEN 0 ELSE 1)

\* Nothing is on its way on a connection, in either direction.
Clean(c) == unanswered[c] = << >> /\ arrived[c] = << >>

Sent(r) == \/ stage[r] = "write" /\ done[r] = "ok"
           \/ stage[r] = "read" /\ done[r] \notin Parts

HeaderRead(r) == \/ stage[r] = "read" /\ done[r] \in {"header", "malformed"}
                 \/ stage[r] = "content" /\ done[r] \notin Parts

PiecesOf(r, parts) == [i \in DOMAIN parts |-> [of |-> r, part |-> parts[i]]]

\* What may be on the connection of a session: its own request, or the part
\* of the response to it that has not been read.
OwnTraffic(r, c) ==
    \/ Clean(c)
    \/ Sent(r) /\ unanswered[c] = <<r>> /\ arrived[c] = << >>
    \/ /\ Sent(r) /\ unanswered[c] = << >>
       /\ \E parts \in Answers : arrived[c] = PiecesOf(r, parts)
    \/ HeaderRead(r) /\ unanswered[c] = << >> /\ arrived[c] = <<[of |-> r, part |-> "content"]>>

TrafficInv ==
    /\ \A c \in Conns \ in_use : Clean(c) \/ c \in spoilt
    /\ \A r \in Active, c \in Conns : on[r] = c => OwnTraffic(r, c) \/ c \in spoilt
    /\ \A r \in Ids \ late : result[r] \in {0, r}

\* A request that is not late has a connection that is not spoilt, until it
\* has read an unframed response itself.
SpoiltInv ==
    /\ spoilt \subseteq connections \cup in_use
    /\ \A r \in Active \ late : on[r] \in spoilt => stage[r] = "read" /\ done[r] = "unframed"

IInv == TypeOK /\ UseInv /\ SpareInv /\ ReconnectInv /\ WritesInv /\ TrafficInv /\ SpoiltInv

-----------------------------------------------------------------------------
(* Connections that nobody holds.                                          *)

LEMMA ConnsType == Conns \subseteq Nat /\ 0 \notin Conns
  BY HttpClientAssumption DEF Conns

LEMMA HeldIs ==
  ASSUME UseInv
  PROVE  Held = connections \cup in_use
  BY DEF Held, UseInv, Active

LEMMA HeldNext ==
  ASSUME UseInv'
  PROVE  Held' = connections' \cup in_use'
  BY DEF Held, UseInv, Active

\* A set of numbers has a smallest one.
LEMMA Smallest ==
  ASSUME NEW S, S \subseteq Nat, S # {}
  PROVE  \E x \in S : \A y \in S : x <= y
<1>. DEFINE below == {1 .. x : x \in S}
<1>1. IsWellFoundedOn(StrictSubsetOrdering(Nat), FiniteSubsetsOf(Nat))
  BY FS_StrictSubsetOrderingWellFounded
<1>2. below \subseteq FiniteSubsetsOf(Nat) /\ below # {}
  <2>1. ASSUME NEW x \in S PROVE 1 .. x \in FiniteSubsetsOf(Nat)
    <3>1. x \in Int /\ 1 \in Int /\ 1 .. x \in SUBSET Nat
      OBVIOUS
    <3>2. IsFiniteSet(1 .. x)
      BY <3>1, FS_Interval
    <3>. QED  BY <3>1, <3>2 DEF FiniteSubsetsOf
  <2>. QED  BY <2>1
<1>3. \E B \in below : \A C \in below : ~ (<<C, B>> \in StrictSubsetOrdering(Nat))
  <2>. HIDE DEF below
  <2>. QED  BY <1>1, <1>2, WFMin
<1>4. PICK x \in S : \A y \in S : ~ (<<1 .. y, 1 .. x>> \in StrictSubsetOrdering(Nat))
  BY <1>3
<1>5. ASSUME NEW y \in S, y < x PROVE FALSE
  <2>1. 1 .. y \subseteq 1 .. x /\ x \in 1 .. x /\ x \notin 1 .. y
    BY <1>5
  <2>2. <<1 .. y, 1 .. x>> \in StrictSubsetOrdering(Nat)
    BY <2>1 DEF StrictSubsetOrdering
  <2>. QED  BY <1>4, <2>2
<1>. QED  BY <1>5

\* There is always a free connection, so create_connection is one.
LEMMA FreeConn ==
  ASSUME IInv
  PROVE  create_connection \in Conns \ Held
<1>. USE DEF IInv
<1>1. Held = connections \cup in_use
  BY HeldIs
<1>2. ASSUME Conns \subseteq connections \cup in_use PROVE FALSE
  <2>. DEFINE user(c) == CHOOSE r \in Active : on[r] = c
              f == [c \in Conns |-> IF c \in in_use THEN user(c)
                                    ELSE CHOOSE r \in Ids : r \notin Active]
  <2>1. \A c \in in_use : user(c) \in Active /\ on[user(c)] = c
    BY DEF UseInv
  <2>2. ASSUME NEW c \in Conns, c \notin in_use
        PROVE  f[c] \in Ids /\ f[c] \notin Active
    BY <1>2, <2>2 DEF SpareInv, Active
  <2>3. f \in [Conns -> Ids]
    BY <2>1, <2>2 DEF Active
  <2>4. ASSUME NEW c \in Conns, NEW d \in Conns, f[c] = f[d] PROVE c = d
    <3>1. CASE c \in in_use /\ d \in in_use
      BY <2>1, <2>4, <3>1
    <3>2. CASE c \notin in_use /\ d \notin in_use
      BY <1>2, <3>2 DEF SpareInv
    <3>3. CASE (c \in in_use /\ d \notin in_use) \/ (c \notin in_use /\ d \in in_use)
      BY <2>1, <2>2, <2>4, <3>3
    <3>. QED  BY <3>1, <3>2, <3>3
  <2>5. /\ IsFiniteSet(Conns) /\ IsFiniteSet(Ids)
        /\ Cardinality(Ids) < Cardinality(Conns)
    <3>1. /\ IsFiniteSet(Conns)
          /\ Cardinality(Conns) = IF 1 > Requests + 1 THEN 0 ELSE Requests + 1 - 1 + 1
      BY FS_Interval, HttpClientAssumption, 1 \in Int, Requests + 1 \in Int DEF Conns
    <3>2. /\ IsFiniteSet(Ids)
          /\ Cardinality(Ids) = IF 1 > Requests THEN 0 ELSE Requests - 1 + 1
      BY FS_Interval, HttpClientAssumption, 1 \in Int, Requests \in Int DEF Ids
    <3>. QED  BY <3>1, <3>2, HttpClientAssumption
  <2>. HIDE DEF f
  <2>. QED  BY <2>3, <2>4, <2>5, FS_PigeonHole
<1>3. PICK c \in Conns \ Held : \A d \in Conns \ Held : c <= d
  BY <1>1, <1>2, ConnsType, Smallest
<1>. QED  BY <1>3 DEF create_connection

-----------------------------------------------------------------------------
(* A request is made.                                                      *)

LEMMA RequestStep ==
  ASSUME IInv, NEW r \in Ids, request(r)
  PROVE  IInv'
<1>. USE DEF IInv
<1>1. PICK c \in Conns : /\ get_connection(c) /\ connect(r, c)
                        /\ late' = IF c \in spoilt THEN late \cup {r} ELSE late
  BY DEF request
<1>2. /\ alive /\ stage[r] = "none"
      /\ UNCHANGED <<writes, result, open, fired, up, unanswered, arrived, spoilt, alive>>
  BY DEF request, peerVars
<1>3. r \notin Active /\ on[r] = 0 /\ writes[r] = 0
  BY <1>2 DEF Active, Running, UseInv, WritesInv
<1>4. \/ c \in connections \ in_use
      \/ connections \subseteq in_use /\ c \notin connections \cup in_use
  BY <1>1, FreeConn, HeldIs DEF get_connection
<1>5. /\ connections' = connections \cup {c}
      /\ in_use' = in_use \cup {c}
      /\ attempt_reconnect' = attempt_reconnect \cup {c}
  BY <1>1 DEF get_connection
<1>6. PICK operation \in {"write", "resolve"} :
        /\ stage' = [stage EXCEPT ![r] = operation]
        /\ done' = [done EXCEPT ![r] = "pending"]
        /\ on' = [on EXCEPT ![r] = c]
        /\ timer' \subseteq timer \cup {c}
  BY <1>1 DEF connect, Begin
<1>7. TypeOK'
  BY <1>1, <1>2, <1>5, <1>6 DEF TypeOK, Stages, Running, Results
<1>8. Active' = Active \cup {r}
  BY <1>6 DEF TypeOK, Active, Running
<1>9. UseInv'
  <2>1. \A q \in Ids : on'[q] # 0 <=> q \in Active'
    BY <1>6, <1>8, ConnsType DEF TypeOK, UseInv
  <2>2. \A q \in Active : on'[q] = on[q] /\ on[q] # c
    BY <1>3, <1>4, <1>6 DEF TypeOK, UseInv, Active
  <2>3. on'[r] = c
    BY <1>6 DEF TypeOK
  <2>4. in_use' = {on'[q] : q \in Active'}
    BY <1>5, <1>8, <2>2, <2>3 DEF UseInv
  <2>5. OneSessionPerConnection'
    BY <1>8, <2>2, <2>3 DEF UseInv, OneSessionPerConnection
  <2>. QED  BY <2>1, <2>4, <2>5 DEF UseInv
<1>10. SpareInv' /\ ReconnectInv'
  BY <1>2, <1>4, <1>5 DEF SpareInv, ReconnectInv
<1>11. WritesInv'
  <2>1. ASSUME NEW q \in Ids, q # r
        PROVE  /\ stage'[q] = stage[q] /\ done'[q] = done[q] /\ on'[q] = on[q]
               /\ on'[q] \in attempt_reconnect' <=> on[q] \in attempt_reconnect
    BY <1>3, <1>4, <1>5, <1>6, <2>1, ConnsType DEF TypeOK, UseInv
  <2>2. writes'[r] = 0
    BY <1>2, <1>3
  <2>. QED  BY <1>2, <1>8, <2>1, <2>2 DEF WritesInv, Before, Replaceable
<1>12. TrafficInv'
  <2>1. \A d \in Conns \ in_use' : Clean(d)' \/ d \in spoilt'
    BY <1>2, <1>5 DEF TrafficInv, Clean
  <2>2. ASSUME NEW q \in Active', NEW d \in Conns, on'[q] = d
        PROVE  OwnTraffic(q, d)' \/ d \in spoilt'
    <3>1. CASE q = r
      <4>1. d = c /\ (Clean(c) \/ c \in spoilt)
        BY <1>4, <1>6, <2>2, <3>1 DEF TypeOK, TrafficInv, UseInv
      <4>. QED  BY <1>2, <4>1 DEF OwnTraffic, Clean
    <3>2. CASE q # r
      <4>1. q \in Active /\ on[q] = d /\ stage'[q] = stage[q] /\ done'[q] = done[q]
        BY <1>6, <1>8, <2>2, <3>2 DEF TypeOK
      <4>2. OwnTraffic(q, d) \/ d \in spoilt
        BY <4>1 DEF TrafficInv
      <4>. QED  BY <1>2, <4>1, <4>2 DEF OwnTraffic, Clean, Sent, HeaderRead
    <3>. QED  BY <3>1, <3>2
  <2>3. late \subseteq late'
    BY <1>1
  <2>. QED  BY <1>2, <2>1, <2>2, <2>3 DEF TrafficInv
<1>13. SpoiltInv'
  <2>1. spoilt' \subseteq connections' \cup in_use'
    BY <1>2, <1>5 DEF SpoiltInv
  <2>2. ASSUME NEW q \in Active' \ late', on'[q] \in spoilt'
        PROVE  stage'[q] = "read" /\ done'[q] = "unframed"
    <3>1. q # r
      BY <1>1, <1>2, <1>6, <2>2 DEF TypeOK
    <3>2. /\ q \in Active \ late /\ on'[q] = on[q]
          /\ stage'[q] = stage[q] /\ done'[q] = done[q]
      BY <1>1, <1>6, <1>8, <2>2, <3>1 DEF TypeOK, Active
    <3>. QED  BY <1>2, <2>2, <3>2 DEF SpoiltInv
  <2>. QED  BY <2>1, <2>2 DEF SpoiltInv
<1>. QED  BY <1>7, <1>9, <1>10, <1>11, <1>12, <1>13

-----------------------------------------------------------------------------
(* Operations complete.                                                    *)

\* The sessions keep their stage and their connection.
SameSessions == UNCHANGED <<stage, on, poolVars, alive, late>>

LEMMA SameUse ==
  ASSUME IInv, SameSessions
  PROVE  UseInv' /\ SpareInv' /\ ReconnectInv' /\ Active' = Active
  BY DEF IInv, SameSessions, poolVars, UseInv, SpareInv, ReconnectInv, Active,
         OneSessionPerConnection

\* Nothing that is written or read completes.
LEMMA QuietStep ==
  ASSUME IInv, SameSessions, UNCHANGED <<writes, result, unanswered, arrived, spoilt>>,
         open' \subseteq Conns, up' \subseteq Conns, timer' \subseteq Conns, fired' \subseteq Conns,
         done' \in [Ids -> Results],
         \A r \in Ids : \/ done'[r] = done[r]
                        \/ /\ done[r] = "pending" /\ done'[r] \in {"ok", "error", "aborted"}
                           /\ stage[r] = "write" => done'[r] # "ok"
  PROVE  IInv'
<1>. USE DEF IInv
<1>1. TypeOK'
  BY DEF TypeOK, SameSessions, poolVars
<1>2. UseInv' /\ SpareInv' /\ ReconnectInv' /\ Active' = Active
  BY SameUse
<1>3. \A r \in Ids : /\ Before(r)' <=> Before(r)
                     /\ Sent(r)' <=> Sent(r)
                     /\ HeaderRead(r)' <=> HeaderRead(r)
  BY DEF SameSessions, Before, Sent, HeaderRead, Parts
<1>4. WritesInv'
  BY <1>2, <1>3 DEF WritesInv, Replaceable, SameSessions, poolVars
<1>5. TrafficInv'
  BY <1>2, <1>3 DEF TrafficInv, OwnTraffic, Clean, Active, SameSessions, poolVars
<1>6. SpoiltInv'
  BY <1>2 DEF SpoiltInv, Active, SameSessions, poolVars
<1>. QED  BY <1>1, <1>2, <1>4, <1>5, <1>6

\* What an operation of r's connection completes with.
LEMMA CompletesFacts ==
  ASSUME TypeOK, NEW r \in Ids, NEW operation, NEW how \in Results, Completes(r, operation, how)
  PROVE  /\ SameSessions /\ UNCHANGED <<timer, fired>>
         /\ stage[r] = operation /\ done[r] = "pending"
         /\ done' \in [Ids -> Results]
         /\ done'[r] = how /\ \A q \in Ids \ {r} : done'[q] = done[q]
  BY DEF TypeOK, Completes, SameSessions, timerVars

LEMMA QuietCompletion ==
  ASSUME IInv, NEW r \in Active,
         Resolved(r) \/ Connected(r) \/ ConnectFails(r) \/ WriteFails(r) \/ ReadFails(r)
  PROVE  IInv'
<1>. USE DEF IInv
<1>1. r \in Ids /\ on[r] \in Conns
  BY DEF Active, UseInv, TypeOK
<1>2. PICK operation : \E how \in {"ok", "error"} :
          /\ Completes(r, operation, how)
          /\ operation = "write" => how # "ok"
  BY DEF Resolved, Connected, ConnectFails, WriteFails, ReadFails
<1>3. PICK how \in {"ok", "error"} :
          /\ Completes(r, operation, how)
          /\ operation = "write" => how # "ok"
  BY <1>2
<1>4. /\ UNCHANGED <<writes, result, unanswered, arrived, spoilt>>
      /\ open' \subseteq Conns /\ up' \subseteq Conns
  BY <1>1 DEF Resolved, Connected, ConnectFails, WriteFails, ReadFails, peerVars, TypeOK
<1>5. how \in Results
  BY DEF Results
<1>6. timer' \subseteq Conns /\ fired' \subseteq Conns
  BY <1>1, <1>3, <1>5, CompletesFacts DEF TypeOK
<1>. QED  BY <1>1, <1>3, <1>4, <1>5, <1>6, CompletesFacts, QuietStep

LEMMA TimerStep ==
  ASSUME IInv, NEW c \in Conns, TimerFires(c) \/ TimerHandler(c)
  PROVE  IInv'
<1>. USE DEF IInv
<1>1. CASE TimerFires(c)
  BY <1>1, QuietStep DEF TimerFires, TypeOK, SameSessions, sessionVars, peerVars
<1>2. CASE TimerHandler(c)
  <2>1. Cancelled({c})
    BY <1>2 DEF TimerHandler
  <2>2. done' \in [Ids -> Results]
    BY <2>1 DEF Cancelled, TypeOK, Results
  <2>3. \A r \in Ids : done'[r] = done[r] \/ (done[r] = "pending" /\ done'[r] = "aborted")
    BY <2>1 DEF Cancelled
  <2>. QED  BY <1>2, <2>2, <2>3, QuietStep DEF TimerHandler, TypeOK, SameSessions, peerVars
<1>. QED  BY <1>1, <1>2

LEMMA CloseStep ==
  ASSUME IInv, NEW c \in Conns, ServerCloses(c)
  PROVE  IInv'
  BY QuietStep DEF IInv, ServerCloses, TypeOK, SameSessions, sessionVars, timerVars

\* What happens on one connection leaves the traffic of the others alone.
LEMMA OtherTraffic ==
  ASSUME IInv, SameSessions, NEW c \in Conns, c \in in_use \cup spoilt,
         \A q \in Ids : on[q] # c => done'[q] = done[q],
         \A d \in Conns \ {c} : unanswered'[d] = unanswered[d] /\ arrived'[d] = arrived[d],
         spoilt \subseteq spoilt', spoilt' \subseteq spoilt \cup {c},
         \A q \in Active : on[q] = c =>
            /\ OwnTraffic(q, c)' \/ c \in spoilt'
            /\ q \notin late /\ c \in spoilt' => stage[q] = "read" /\ done'[q] = "unframed",
         \A q \in Ids \ late : result'[q] \in {0, q}
  PROVE  TrafficInv' /\ SpoiltInv'
<1>. USE DEF IInv, SameSessions
<1>1. \A d \in Conns \ in_use' : Clean(d)' \/ d \in spoilt'
  BY DEF poolVars, TrafficInv, Clean
<1>2. ASSUME NEW q \in Active', NEW d \in Conns, on'[q] = d
      PROVE  OwnTraffic(q, d)' \/ d \in spoilt'
  <2>1. q \in Active /\ q \in Ids /\ on[q] = d
    BY <1>2 DEF Active
  <2>2. CASE d = c
    BY <2>1, <2>2
  <2>3. CASE d # c
    <3>1. OwnTraffic(q, d) \/ d \in spoilt
      BY <2>1 DEF TrafficInv
    <3>2. /\ done'[q] = done[q] /\ stage'[q] = stage[q]
          /\ unanswered'[d] = unanswered[d] /\ arrived'[d] = arrived[d]
      BY <2>1, <2>3
    <3>. QED  BY <3>1, <3>2 DEF OwnTraffic, Clean, Sent, HeaderRead
  <2>. QED  BY <2>2, <2>3
<1>3. TrafficInv'
  BY <1>1, <1>2 DEF TrafficInv
<1>4. spoilt' \subseteq connections' \cup in_use'
  BY DEF poolVars, SpoiltInv
<1>5. ASSUME NEW q \in Active' \ late', on'[q] \in spoilt'
      PROVE  stage'[q] = "read" /\ done'[q] = "unframed"
  <2>1. q \in Active \ late /\ q \in Ids /\ on[q] \in spoilt'
    BY <1>5 DEF Active
  <2>2. CASE on[q] = c
    BY <2>1, <2>2
  <2>3. CASE on[q] # c
    BY <2>1, <2>3 DEF SpoiltInv
  <2>. QED  BY <2>2, <2>3
<1>. QED  BY <1>3, <1>4, <1>5 DEF SpoiltInv

LEMMA WrittenStep ==
  ASSUME IInv, NEW r \in Active, NEW c \in Conns, on[r] = c, Written(r)
  PROVE  IInv'
<1>. USE DEF IInv
<1>1. r \in Ids
  BY DEF Active
<1>2. /\ SameSessions /\ UNCHANGED <<timer, fired, result, open, up, arrived, spoilt>>
      /\ stage[r] = "write" /\ done[r] = "pending"
      /\ done' \in [Ids -> Results]
      /\ done'[r] = "ok" /\ \A q \in Ids \ {r} : done'[q] = done[q]
  BY <1>1, CompletesFacts DEF Written, Results
<1>3. Clean(c) \/ c \in spoilt
  BY <1>2 DEF TrafficInv, OwnTraffic, Sent, HeaderRead
<1>4. /\ unanswered' \in [Conns -> Seq(Ids)]
      /\ \A d \in Conns \ {c} : unanswered'[d] = unanswered[d]
      /\ Clean(c) => unanswered'[c] = <<r>> \/ unanswered'[c] = << >>
  <2>1. unanswered[c] \in Seq(Ids)
    BY DEF TypeOK
  <2>2. /\ Append(unanswered[c], r) \in Seq(Ids)
        /\ unanswered[c] = << >> => Append(unanswered[c], r) = <<r>>
    <3>1. Append(unanswered[c], r) \in Seq(Ids)
      BY <1>1, <2>1, AppendProperties
    <3>2. Append(<< >>, r) = <<r>>
      OBVIOUS
    <3>. QED  BY <3>1, <3>2
  <2>3. \/ unanswered' = [unanswered EXCEPT ![c] = Append(unanswered[c], r)]
        \/ unanswered' = unanswered
    BY DEF Written
  <2>4. PICK next \in Seq(Ids) : next = Append(unanswered[c], r)
    BY <2>2
  <2>5. Clean(c) => unanswered[c] = << >> /\ next = <<r>>
    BY <2>2, <2>4 DEF Clean
  <2>6. unanswered' = [unanswered EXCEPT ![c] = next] \/ unanswered' = unanswered
    BY <2>3, <2>4
  <2>7. unanswered \in [Conns -> Seq(Ids)]
    BY DEF TypeOK
  <2>8. CASE unanswered' = unanswered
    BY <2>5, <2>7, <2>8
  <2>9. CASE unanswered' = [unanswered EXCEPT ![c] = next]
    <3>1. unanswered' \in [Conns -> Seq(Ids)]
      BY <2>4, <2>7, <2>9
    <3>2. unanswered'[c] = next /\ \A d \in Conns \ {c} : unanswered'[d] = unanswered[d]
      BY <1>1, <2>7, <2>9
    <3>. QED  BY <2>5, <3>1, <3>2
  <2>. QED  BY <2>6, <2>8, <2>9
<1>5. /\ writes' \in [Ids -> Nat] /\ writes'[r] = writes[r] + 1
      /\ \A q \in Ids \ {r} : writes'[q] = writes[q]
  BY <1>1 DEF Written, TypeOK
<1>6. TypeOK'
  BY <1>2, <1>4, <1>5 DEF TypeOK, SameSessions, poolVars
<1>7. UseInv' /\ SpareInv' /\ ReconnectInv' /\ Active' = Active
  BY <1>2, SameUse
<1>8. WritesInv'
  <2>1. ASSUME NEW q \in Ids
        PROVE  writes'[q] <= (IF Before(q)' THEN 0 ELSE 1) + (IF Replaceable(q)' THEN 0 ELSE 1)
    <3>1. Replaceable(q)' <=> Replaceable(q)
      BY <1>2 DEF Replaceable, SameSessions, poolVars
    <3>2. CASE q = r
      <4>1. Before(q) /\ ~ Before(q)'
        BY <1>2, <3>2 DEF Before, SameSessions
      <4>. QED  BY <1>1, <1>5, <3>1, <3>2, <4>1 DEF WritesInv, TypeOK
    <3>3. CASE q # r
      <4>1. Before(q)' <=> Before(q)
        BY <1>2, <3>3 DEF Before, SameSessions
      <4>. QED  BY <1>5, <3>1, <3>3, <4>1 DEF WritesInv
    <3>. QED  BY <3>2, <3>3
  <2>. QED  BY <1>5, <1>7, <2>1 DEF WritesInv
<1>9. TrafficInv' /\ SpoiltInv'
  <2>1. OwnTraffic(r, c)' \/ c \in spoilt'
    BY <1>2, <1>3, <1>4 DEF OwnTraffic, Clean, Sent, SameSessions
  <2>2. r \notin late => c \notin spoilt'
    BY <1>2 DEF SpoiltInv
  <2>3. \A q \in Active : on[q] = c => q = r
    BY DEF UseInv, OneSessionPerConnection
  <2>4. c \in in_use /\ \A q \in Ids : on[q] # c => q # r
    BY DEF UseInv
  <2>5. \A q \in Ids \ late : result'[q] \in {0, q}
    BY <1>2 DEF TrafficInv
  <2>. HIDE DEF IInv, SameSessions
  <2>. QED  BY <1>2, <1>4, <2>1, <2>2, <2>3, <2>4, <2>5, OtherTraffic
<1>. QED  BY <1>6, <1>7, <1>8, <1>9

LEMMA PieceFacts ==
  ASSUME TypeOK, NEW c \in Conns, arrived[c] # << >>
  PROVE  /\ First(c) \in Pieces /\ First(c).of \in Ids /\ First(c).part \in Parts
         /\ Tail(arrived[c]) \in Seq(Pieces)
<1>1. arrived[c] \in Seq(Pieces)
  BY DEF TypeOK
<1>2. First(c) \in Pieces /\ Tail(arrived[c]) \in Seq(Pieces)
  BY <1>1, HeadTailProperties DEF First
<1>. QED  BY <1>2 DEF Pieces

\* On a connection that is not spoilt, what is read is a part of the response
\* to the session's request, and a header of it first.
LEMMA ReadFacts ==
  ASSUME IInv, NEW r \in Active, NEW c \in Conns, on[r] = c, c \notin spoilt,
         stage[r] \in {"read", "content"}, done[r] = "pending", arrived[c] # << >>
  PROVE  /\ First(c).of = r /\ unanswered[c] = << >>
         /\ First(c).part = "content" <=> stage[r] = "content"
         /\ \/ Tail(arrived[c]) = << >>
            \/ /\ First(c).part \in {"header", "unframed"}
               /\ Tail(arrived[c]) = <<[of |-> r, part |-> "content"]>>
<1>. USE DEF IInv, First
<1>1. r \in Ids
  BY DEF Active
<1>2. CASE HeaderRead(r) /\ unanswered[c] = << >> /\ arrived[c] = <<[of |-> r, part |-> "content"]>>
  BY <1>2 DEF HeaderRead
<1>3. CASE Sent(r) /\ unanswered[c] = << >> /\ \E parts \in Answers : arrived[c] = PiecesOf(r, parts)
  <2>1. stage[r] = "read"
    BY <1>3 DEF Sent
  <2>2. PICK parts \in Responses : arrived[c] = PiecesOf(r, parts)
    BY <1>3, HttpClientAssumption
  <2>3. ASSUME NEW part \in Parts, parts = <<part>>
        PROVE  arrived[c] = <<[of |-> r, part |-> part]>>
    BY <2>2, <2>3 DEF PiecesOf
  <2>4. ASSUME NEW part \in Parts, parts = <<part, "content">>
        PROVE  arrived[c] = <<[of |-> r, part |-> part], [of |-> r, part |-> "content"]>>
    BY <2>2, <2>4 DEF PiecesOf
  <2>5. CASE \E part \in {"header", "unframed"} : parts = <<part, "content">>
    <3>1. PICK part \in {"header", "unframed"} : parts = <<part, "content">>
      BY <2>5
    <3>2. arrived[c] = <<[of |-> r, part |-> part], [of |-> r, part |-> "content"]>>
      BY <2>4, <3>1 DEF Parts
    <3>. QED  BY <1>3, <2>1, <3>2
  <2>6. CASE ~ \E part \in {"header", "unframed"} : parts = <<part, "content">>
    <3>1. PICK part \in Parts \ {"content"} : parts = <<part>>
      BY <2>2, <2>6 DEF Responses, Parts
    <3>2. arrived[c] = <<[of |-> r, part |-> part]>>
      BY <2>3, <3>1
    <3>. QED  BY <1>3, <2>1, <3>1, <3>2
  <2>. QED  BY <2>5, <2>6
<1>. QED  BY <1>2, <1>3 DEF TrafficInv, OwnTraffic, Clean

\* Something is read from r's connection: its first piece or a part of it.
LEMMA ReadingStep ==
  ASSUME IInv, NEW r \in Active, NEW c \in Conns, on[r] = c,
         SameSessions, UNCHANGED <<timer, fired, writes, open, up, unanswered>>,
         stage[r] \in {"read", "content"}, done[r] = "pending", arrived[c] # << >>,
         Fills(r), done' \in [Ids -> Results], \A q \in Ids \ {r} : done'[q] = done[q],
         \/ arrived' = [arrived EXCEPT ![c] = Tail(@)]
         \/ UNCHANGED arrived /\ c \in spoilt,
         spoilt' = IF done'[r] = "unframed" THEN spoilt \cup {c} ELSE spoilt,
         c \in spoilt \/ done'[r] \in Taken(r, First(c).part)
  PROVE  IInv'
<1>. USE DEF IInv
<1>1. /\ r \in Ids /\ First(c) \in Pieces /\ First(c).of \in Ids
      /\ Tail(arrived[c]) \in Seq(Pieces)
  BY PieceFacts DEF Active
<1>2. /\ result' \in [Ids -> {0} \cup Ids]
      /\ result'[r] = (IF result[r] = 0 THEN First(c).of ELSE result[r])
      /\ \A q \in Ids \ {r} : result'[q] = result[q]
  BY <1>1 DEF Fills, TypeOK
<1>3. /\ arrived' \in [Conns -> Seq(Pieces)]
      /\ \A d \in Conns \ {c} : arrived'[d] = arrived[d]
      /\ c \notin spoilt => arrived'[c] = Tail(arrived[c])
  <2>1. PICK rest \in Seq(Pieces) : rest = Tail(arrived[c])
    BY <1>1
  <2>2. \/ UNCHANGED arrived /\ c \in spoilt
        \/ arrived' = [arrived EXCEPT ![c] = rest]
    BY <2>1
  <2>3. arrived \in [Conns -> Seq(Pieces)]
    BY DEF TypeOK
  <2>4. /\ arrived' \in [Conns -> Seq(Pieces)]
        /\ \A d \in Conns \ {c} : arrived'[d] = arrived[d]
        /\ c \notin spoilt => arrived'[c] = rest
    BY <2>2, <2>3
  <2>. QED  BY <2>1, <2>4
<1>4. TypeOK'
  BY <1>2, <1>3 DEF TypeOK, SameSessions, poolVars
<1>5. UseInv' /\ SpareInv' /\ ReconnectInv' /\ Active' = Active
  BY SameUse
<1>6. WritesInv'
  <2>1. \A q \in Ids : (Before(q)' <=> Before(q)) /\ (Replaceable(q)' <=> Replaceable(q))
    BY DEF Before, Replaceable, SameSessions, poolVars
  <2>. QED  BY <1>5, <2>1 DEF WritesInv
<1>7. TrafficInv' /\ SpoiltInv'
  <2>1. r \notin late => c \notin spoilt
    BY DEF SpoiltInv
  <2>2. r \notin late => result'[r] \in {0, r}
    BY <1>1, <1>2, <2>1, ReadFacts DEF TrafficInv
  <2>3. OwnTraffic(r, c)' \/ c \in spoilt'
    <3>. SUFFICES ASSUME c \notin spoilt, done'[r] # "unframed" PROVE OwnTraffic(r, c)'
      OBVIOUS
    <3>1. unanswered'[c] = << >> /\ arrived'[c] = Tail(arrived[c])
      BY <1>3, ReadFacts
    <3>2. CASE Tail(arrived[c]) = << >>
      BY <3>1, <3>2 DEF OwnTraffic, Clean
    <3>3. CASE Tail(arrived[c]) # << >>
      <4>1. /\ First(c).part \in {"header", "unframed"} /\ stage[r] = "read"
            /\ Tail(arrived[c]) = <<[of |-> r, part |-> "content"]>>
        BY <3>3, ReadFacts
      <4>2. done'[r] \in {"header", "malformed"}
        BY <4>1 DEF Taken
      <4>. QED  BY <3>1, <4>1, <4>2 DEF OwnTraffic, HeaderRead, SameSessions
    <3>. QED  BY <3>2, <3>3
  <2>4. r \notin late /\ c \in spoilt' => stage[r] = "read" /\ done'[r] = "unframed"
    <3>. SUFFICES ASSUME r \notin late, done'[r] = "unframed" PROVE stage[r] = "read"
      BY <2>1
    <3>. QED  BY <2>1, ReadFacts DEF Taken
  <2>5. c \in in_use /\ \A q \in Active : on[q] = c => q = r
    BY DEF UseInv, OneSessionPerConnection
  <2>6. \A q \in Ids \ late : result'[q] \in {0, q}
    BY <1>2, <2>2 DEF TrafficInv
  <2>7. \A q \in Ids : on[q] # c => done'[q] = done[q]
    OBVIOUS
  <2>8. \A d \in Conns \ {c} : unanswered'[d] = unanswered[d] /\ arrived'[d] = arrived[d]
    BY <1>3
  <2>9. spoilt \subseteq spoilt' /\ spoilt' \subseteq spoilt \cup {c}
    OBVIOUS
  <2>. HIDE DEF IInv
  <2>. QED  BY <2>3, <2>4, <2>5, <2>6, <2>7, <2>8, <2>9, OtherTraffic
<1>. QED  BY <1>4, <1>5, <1>6, <1>7

LEMMA ReadStep ==
  ASSUME IInv, NEW r \in Active, NEW c \in Conns, on[r] = c, Read(r)
  PROVE  IInv'
<1>1. /\ stage[r] \in {"read", "content"} /\ arrived[c] # << >> /\ done[r] = "pending"
      /\ Fills(r) /\ UNCHANGED <<writes, open, up, unanswered>>
  BY DEF Read, Completes
<1>2. r \in Ids /\ First(c).part \in Parts
  BY <1>1, PieceFacts DEF IInv, Active
<1>3. PICK part \in Taken(r, First(c).part) :
        /\ Completes(r, stage[r], part)
        /\ spoilt' = IF part = "unframed" THEN spoilt \cup {c} ELSE spoilt
  BY DEF Read
<1>4. part \in Results
  BY <1>2 DEF Taken, Results, Parts
<1>5. /\ SameSessions /\ UNCHANGED <<timer, fired>>
      /\ done' \in [Ids -> Results]
      /\ done'[r] = part /\ \A q \in Ids \ {r} : done'[q] = done[q]
  BY <1>2, <1>3, <1>4, CompletesFacts DEF IInv
<1>6. \/ arrived' = [arrived EXCEPT ![c] = Tail(@)]
      \/ UNCHANGED arrived /\ c \in spoilt
  <2>1. ASSUME stage[r] = "read", First(c).part = "content" PROVE c \in spoilt
    BY <1>1, <2>1, ReadFacts
  <2>. QED  BY <2>1 DEF Read
<1>. QED  BY <1>1, <1>3, <1>5, <1>6, ReadingStep

LEMMA ReadsOnStep ==
  ASSUME IInv, NEW r \in Active, NEW c \in Conns, on[r] = c, ReadsOn(r)
  PROVE  IInv'
<1>1. /\ stage[r] = "read" /\ arrived[c] # << >> /\ done[r] = "pending"
      /\ First(c).part = "content" /\ Fills(r) /\ SameSessions
      /\ UNCHANGED <<done, timer, fired, writes, open, up, unanswered, spoilt>>
      /\ arrived' = [arrived EXCEPT ![c] = Tail(@)]
  BY DEF ReadsOn, SameSessions, timerVars
<1>2. c \in spoilt
  BY <1>1, ReadFacts
<1>3. done' \in [Ids -> Results] /\ done'[r] = "pending"
  BY <1>1 DEF IInv, TypeOK
<1>. QED  BY <1>1, <1>2, <1>3, ReadingStep

LEMMA AnswerStep ==
  ASSUME IInv, NEW c \in Conns, ServerAnswers(c)
  PROVE  IInv'
<1>. USE DEF IInv
<1>. DEFINE first == Head(unanswered[c])
<1>1. /\ unanswered[c] # << >> /\ first \in Ids
      /\ unanswered' = [unanswered EXCEPT ![c] = Tail(@)]
      /\ UNCHANGED <<sessionVars, poolVars, open, timerVars, up, spoilt, alive, late>>
  BY DEF ServerAnswers, TypeOK
<1>2. PICK parts \in Answers : arrived' = [arrived EXCEPT ![c] = @ \o PiecesOf(first, parts)]
  BY DEF ServerAnswers, PiecesOf
<1>. HIDE DEF first
<1>3. PiecesOf(first, parts) \in Seq(Pieces)
  <2>1. parts \in Seq(Parts)
    <3>1. \A p \in Parts : <<p>> \in Seq(Parts)
      OBVIOUS
    <3>2. \A p, q \in Parts : <<p, q>> \in Seq(Parts)
      OBVIOUS
    <3>3. \/ \E p, q \in Parts : parts = <<p, q>>
          \/ \E p \in Parts : parts = <<p>>
      BY HttpClientAssumption DEF Responses, Parts
    <3>. QED  BY <3>1, <3>2, <3>3
  <2>2. \A i \in DOMAIN parts : [of |-> first, part |-> parts[i]] \in Pieces
    BY <1>1, <2>1 DEF Pieces
  <2>. QED  BY <2>1, <2>2 DEF PiecesOf
<1>4. SameSessions
  BY <1>1 DEF SameSessions, sessionVars
<1>5. unanswered' \in [Conns -> Seq(Ids)] /\ arrived' \in [Conns -> Seq(Pieces)]
  <2>1. Tail(unanswered[c]) \in Seq(Ids)
    BY <1>1 DEF TypeOK
  <2>2. arrived[c] \o PiecesOf(first, parts) \in Seq(Pieces)
    BY <1>3 DEF TypeOK
  <2>. QED  BY <1>1, <1>2, <2>1, <2>2 DEF TypeOK
<1>6. TypeOK'
  BY <1>1, <1>5 DEF TypeOK, sessionVars, poolVars, timerVars
<1>7. UseInv' /\ SpareInv' /\ ReconnectInv' /\ Active' = Active
  BY <1>4, SameUse
<1>8. WritesInv'
  BY <1>1, <1>7 DEF WritesInv, Before, Replaceable, sessionVars, poolVars
<1>9. c \in in_use \cup spoilt
  BY <1>1 DEF TrafficInv, Clean
<1>10. ASSUME NEW r \in Active, on[r] = c PROVE OwnTraffic(r, c)' \/ c \in spoilt'
  <2>. SUFFICES ASSUME c \notin spoilt PROVE OwnTraffic(r, c)'
    BY <1>1
  <2>1. r \in Ids /\ Sent(r) /\ unanswered[c] = <<r>> /\ arrived[c] = << >>
    BY <1>1, <1>10 DEF TrafficInv, OwnTraffic, Clean, Active
  <2>2. unanswered'[c] = << >> /\ first = r
    BY <1>1, <2>1 DEF TypeOK, first
  <2>3. arrived'[c] = PiecesOf(r, parts)
    <3>1. << >> \o PiecesOf(r, parts) = PiecesOf(r, parts)
      BY <1>3, <2>2
    <3>. QED  BY <1>2, <2>1, <2>2, <3>1 DEF TypeOK
  <2>. QED  BY <1>1, <2>1, <2>2, <2>3 DEF OwnTraffic, Sent, sessionVars
<1>11. TrafficInv' /\ SpoiltInv'
  <2>1. \A q \in Active : on[q] = c => OwnTraffic(q, c)' \/ c \in spoilt'
    BY <1>10
  <2>2. \A q \in Active : on[q] = c /\ q \notin late /\ c \in spoilt' =>
          stage[q] = "read" /\ done'[q] = "unframed"
    BY <1>1 DEF SpoiltInv, sessionVars
  <2>3. \A d \in Conns \ {c} : unanswered'[d] = unanswered[d] /\ arrived'[d] = arrived[d]
    BY <1>1, <1>2 DEF TypeOK
  <2>4. done' = done /\ spoilt' = spoilt /\ \A q \in Ids \ late : result'[q] \in {0, q}
    BY <1>1 DEF TrafficInv, sessionVars
  <2>. HIDE DEF IInv
  <2>. QED  BY <1>4, <1>9, <2>1, <2>2, <2>3, <2>4, OtherTraffic
<1>. QED  BY <1>6, <1>7, <1>8, <1>11

-----------------------------------------------------------------------------
(* The completion handlers.                                                *)

\* The session goes on with its next operation, on the same connection.
LEMMA ContinueStep ==
  ASSUME IInv, NEW r \in Active, NEW c \in Conns, on[r] = c,
         NEW following \in {"connect", "write", "read", "content"}, Continue(r, following),
         attempt_reconnect' \subseteq attempt_reconnect \cup {c},
         attempt_reconnect \subseteq attempt_reconnect',
         \/ /\ UNCHANGED attempt_reconnect /\ done[r] = "ok"
            /\ \/ stage[r] = "resolve" /\ following = "connect"
               \/ stage[r] = "connect" /\ following = "write"
               \/ stage[r] = "write" /\ following = "read"
         \/ stage[r] = "read" /\ done[r] = "header" /\ following = "content"
  PROVE  IInv'
<1>. USE DEF IInv
<1>1. r \in Ids /\ c \in in_use
  BY DEF Active, UseInv
<1>2. /\ stage' = [stage EXCEPT ![r] = following]
      /\ done' = [done EXCEPT ![r] = "pending"]
      /\ UNCHANGED <<on, writes, result, connections, in_use, open, fired, peerVars, alive, late>>
      /\ timer' \subseteq timer \cup {c}
  BY DEF Continue, Begin, TypeOK
<1>3. TypeOK'
  BY <1>1, <1>2 DEF TypeOK, Stages, Running, Results, peerVars
<1>4. Active' = Active
  BY <1>1, <1>2 DEF TypeOK, Active, Running
<1>5. UseInv' /\ SpareInv' /\ ReconnectInv'
  BY <1>1, <1>2, <1>4 DEF UseInv, OneSessionPerConnection, SpareInv, ReconnectInv
<1>6. WritesInv'
  <2>1. ASSUME NEW q \in Ids
        PROVE  writes[q] <= (IF Before(q)' THEN 0 ELSE 1) + (IF Replaceable(q)' THEN 0 ELSE 1)
    <3>1. CASE q = r
      <4>1. CASE following = "content"
        <5>1. ~ Before(r)' /\ ~ Replaceable(r)' /\ ~ Before(r)
          BY <1>1, <1>2, <4>1 DEF TypeOK, Before, Replaceable
        <5>2. writes[r] \in Nat /\ writes[r] <= 1 + (IF Replaceable(r) THEN 0 ELSE 1)
          BY <1>1, <5>1 DEF WritesInv, TypeOK
        <5>. QED  BY <3>1, <5>1, <5>2
      <4>2. CASE following # "content"
        <5>1. (Before(r)' <=> Before(r)) /\ (Replaceable(r)' <=> Replaceable(r))
          BY <1>1, <1>2, <4>2 DEF TypeOK, Before, Replaceable
        <5>. QED  BY <3>1, <5>1 DEF WritesInv
      <4>. QED  BY <4>1, <4>2
    <3>2. CASE q # r
      <4>1. on[q] # c
        BY <1>1, <3>2, ConnsType DEF UseInv, OneSessionPerConnection
      <4>2. (Before(q)' <=> Before(q)) /\ (Replaceable(q)' <=> Replaceable(q))
        BY <1>2, <3>2, <4>1 DEF TypeOK, Before, Replaceable
      <4>. QED  BY <4>2 DEF WritesInv
    <3>. QED  BY <3>1, <3>2
  <2>. QED  BY <1>2, <1>4, <2>1 DEF WritesInv
<1>7. TrafficInv'
  <2>1. \A d \in Conns \ in_use' : Clean(d)' \/ d \in spoilt'
    BY <1>2 DEF TrafficInv, Clean, peerVars
  <2>2. ASSUME NEW q \in Active', NEW d \in Conns, on'[q] = d
        PROVE  OwnTraffic(q, d)' \/ d \in spoilt'
    <3>1. q \in Active /\ (OwnTraffic(q, d) \/ d \in spoilt)
      BY <1>2, <1>4, <2>2 DEF TrafficInv
    <3>2. Sent(q) => Sent(q)'
      BY <1>1, <1>2 DEF Sent, TypeOK, Parts
    <3>3. HeaderRead(q) => HeaderRead(q)'
      BY <1>1, <1>2 DEF HeaderRead, TypeOK, Parts
    <3>. QED  BY <1>2, <3>1, <3>2, <3>3 DEF OwnTraffic, Clean, peerVars
  <2>. QED  BY <1>2, <2>1, <2>2 DEF TrafficInv
<1>8. SpoiltInv'
  <2>1. r \in late \/ c \notin spoilt
    BY DEF SpoiltInv
  <2>2. \A q \in Ids \ {r} : stage'[q] = stage[q] /\ done'[q] = done[q]
    BY <1>2 DEF TypeOK
  <2>3. spoilt' = spoilt
    BY <1>2 DEF peerVars
  <2>. QED  BY <1>2, <1>4, <2>1, <2>2, <2>3 DEF SpoiltInv, Active
<1>. QED  BY <1>3, <1>5, <1>6, <1>7, <1>8

\* Connections that nobody holds any more lose what is on them; the others
\* keep it, unless it was nothing.
LEMMA ForgetFacts ==
  ASSUME TypeOK, NEW gone, Forget(gone)
  PROVE  /\ open' \subseteq Conns /\ fired' \subseteq Conns /\ up' \subseteq Conns
         /\ unanswered' \in [Conns -> Seq(Ids)] /\ arrived' \in [Conns -> Seq(Pieces)]
         /\ spoilt' = spoilt \ gone
         /\ \A c \in Conns : c \in gone => Clean(c)'
         /\ \A c \in Conns : Clean(c)' \/ (unanswered'[c] = unanswered[c] /\ arrived'[c] = arrived[c])
  BY DEF TypeOK, Forget, Clean

LEMMA TrafficStays ==
  ASSUME NEW q, NEW c, OwnTraffic(q, c), UNCHANGED <<stage[q], done[q]>>,
         Clean(c)' \/ (unanswered'[c] = unanswered[c] /\ arrived'[c] = arrived[c])
  PROVE  OwnTraffic(q, c)'
  BY DEF OwnTraffic, Clean, Sent, HeaderRead

LEMMA CleanStays ==
  ASSUME NEW c, Clean(c),
         Clean(c)' \/ (unanswered'[c] = unanswered[c] /\ arrived'[c] = arrived[c])
  PROVE  Clean(c)'
  BY DEF Clean

\* A session ends; its connection stays only if nothing is on it, or if it is
\* spoilt.
LEMMA ReleaseStep ==
  ASSUME IInv, NEW r \in Active, NEW c \in Conns, on[r] = c,
         NEW ending \in {"called", "dropped"}, NEW response \in {0} \cup Ids,
         r \notin late => response \in {0, r},
         Release(r, ending, response), UNCHANGED <<alive, late>>,
         connections' \subseteq connections,
         \A d, e \in connections' \ (in_use \ {c}) : d = e,
         c \in connections' => Clean(c) \/ c \in spoilt
  PROVE  IInv'
<1>. USE DEF IInv
<1>1. r \in Ids /\ c \in in_use
  BY DEF Active, UseInv
<1>2. /\ stage' = [stage EXCEPT ![r] = ending]
      /\ done' = [done EXCEPT ![r] = "pending"]
      /\ on' = [on EXCEPT ![r] = 0]
      /\ writes' = [writes EXCEPT ![r] = 0]
      /\ result' = [result EXCEPT ![r] = response]
      /\ timer' \subseteq timer /\ in_use' = in_use \ {c}
      /\ attempt_reconnect' = attempt_reconnect \cap Held'
      /\ Forget(Held \ Held')
  BY DEF Release
<1>3. TypeOK'
  BY <1>1, <1>2, ForgetFacts DEF TypeOK, Stages, Running, Results
<1>4. Active' = Active \ {r}
  BY <1>1, <1>2 DEF TypeOK, Active, Running
<1>5. \A q \in Ids \ {r} : /\ on'[q] = on[q] /\ stage'[q] = stage[q] /\ done'[q] = done[q]
                           /\ on[q] # c
  BY <1>1, <1>2, ConnsType DEF TypeOK, UseInv, OneSessionPerConnection
<1>6. UseInv'
  <2>1. \A q \in Ids : on'[q] # 0 <=> q \in Active'
    BY <1>1, <1>2, <1>4, <1>5 DEF TypeOK, UseInv
  <2>2. in_use' = {on'[q] : q \in Active'}
    BY <1>2, <1>4, <1>5 DEF UseInv, Active
  <2>3. OneSessionPerConnection'
    BY <1>4, <1>5 DEF UseInv, OneSessionPerConnection, Active
  <2>. QED  BY <2>1, <2>2, <2>3 DEF UseInv
<1>7. Held' = connections' \cup in_use' /\ Held = connections \cup in_use
  BY <1>6, HeldIs, HeldNext
<1>8. SpareInv'
  BY <1>1, <1>2, <1>4 DEF SpareInv
<1>9. ReconnectInv'
  BY <1>2, <1>7 DEF ReconnectInv
<1>10. WritesInv'
  <2>1. writes'[r] = 0
    BY <1>1, <1>2 DEF TypeOK
  <2>2. ASSUME NEW q \in Ids, q # r
        PROVE  /\ writes'[q] = writes[q] /\ (q \in Active' <=> q \in Active)
               /\ Before(q)' <=> Before(q)
               /\ Replaceable(q)' => Replaceable(q)
    BY <1>2, <1>4, <1>5, <2>2 DEF TypeOK, Before, Replaceable
  <2>3. ASSUME NEW q \in Ids, q # r, q \in Active, Replaceable(q) PROVE Replaceable(q)'
    <3>1. on[q] \in Held'
      BY <1>2, <1>5, <1>7, <2>3 DEF UseInv
    <3>. QED  BY <1>2, <1>5, <2>3, <3>1 DEF Replaceable
  <2>. QED  BY <1>4, <2>1, <2>2, <2>3 DEF WritesInv
<1>11. TrafficInv'
  <2>1. ASSUME NEW d \in Conns \ in_use' PROVE Clean(d)' \/ d \in spoilt'
    <3>1. CASE d \in Held \ Held'
      BY <1>2, <3>1, ForgetFacts
    <3>2. CASE d \notin Held \ Held'
      <4>1. d \in spoilt => d \in spoilt'
        BY <1>2, <3>2, ForgetFacts
      <4>2. Clean(d) \/ d \in spoilt
        <5>1. CASE d = c
          BY <1>1, <1>2, <1>7, <2>1, <3>2, <5>1
        <5>2. CASE d # c
          BY <1>2, <2>1, <5>2 DEF TrafficInv
        <5>. QED  BY <5>1, <5>2
      <4>. QED  BY <1>2, <4>1, <4>2, ForgetFacts, CleanStays
    <3>. QED  BY <3>1, <3>2
  <2>2. ASSUME NEW q \in Active', NEW d \in Conns, on'[q] = d
        PROVE  OwnTraffic(q, d)' \/ d \in spoilt'
    <3>1. q \in Active /\ q # r /\ on[q] = d /\ stage'[q] = stage[q] /\ done'[q] = done[q]
      BY <1>4, <1>5, <2>2 DEF Active
    <3>2. OwnTraffic(q, d) \/ d \in spoilt
      BY <3>1 DEF TrafficInv
    <3>3. d \in spoilt => d \in spoilt'
      BY <1>2, <1>6, <1>7, <2>2, ForgetFacts DEF UseInv
    <3>. QED  BY <1>2, <3>1, <3>2, <3>3, ForgetFacts, TrafficStays
  <2>3. \A q \in Ids \ late : result'[q] \in {0, q}
    BY <1>2 DEF TrafficInv, TypeOK
  <2>. QED  BY <2>1, <2>2, <2>3 DEF TrafficInv
<1>12. SpoiltInv'
  <2>1. spoilt' = spoilt \ (Held \ Held')
    BY <1>2, ForgetFacts
  <2>2. spoilt' \subseteq connections' \cup in_use'
    BY <1>7, <2>1 DEF SpoiltInv
  <2>3. ASSUME NEW q \in Active' \ late', on'[q] \in spoilt'
        PROVE  stage'[q] = "read" /\ done'[q] = "unframed"
    <3>1. q \in Active \ late /\ q \in Ids \ {r} /\ on[q] \in spoilt
      BY <1>4, <1>5, <2>1, <2>3 DEF Active
    <3>. QED  BY <1>5, <3>1 DEF SpoiltInv
  <2>. QED  BY <2>2, <2>3 DEF SpoiltInv
<1>. QED  BY <1>3, <1>6, <1>8, <1>9, <1>10, <1>11, <1>12

LEMMA CallbackStep ==
  ASSUME IInv, NEW r \in Active, NEW c \in Conns, on[r] = c, NEW bad \in BOOLEAN, Callback(r, bad),
         bad \/ Clean(c) \/ c \in spoilt
  PROVE  IInv'
<1>1. Tidy(c, bad)
  BY DEF Callback
<1>2. connections' \subseteq connections /\ \A d, e \in connections' \ (in_use \ {c}) : d = e
  BY <1>1 DEF Tidy
<1>3. c \in connections' => Clean(c) \/ c \in spoilt
  BY <1>1 DEF Tidy
<1>4. PICK response \in {0} \cup Ids :
        Release(r, "called", response) /\ (r \notin late => response \in {0, r})
  BY DEF Callback, IInv, TrafficInv, TypeOK, Active
<1>. QED  BY <1>2, <1>3, <1>4, ReleaseStep DEF Callback

\* A connection is replaced by a free one.
LEMMA ReconnectStep ==
  ASSUME IInv, NEW r \in Active, NEW c \in Conns, on[r] = c, Reconnect(r)
  PROVE  IInv'
<1>. USE DEF IInv
<1>. DEFINE new == create_connection
<1>1. r \in Ids /\ c \in in_use
  BY DEF Active, UseInv
<1>2. new \in Conns /\ new \notin connections \cup in_use
  BY FreeConn, HeldIs
<1>3. /\ stage[r] = "read" /\ alive /\ c \in attempt_reconnect /\ c \in connections
      /\ stage' = [stage EXCEPT ![r] = "resolve"]
      /\ done' = [done EXCEPT ![r] = "pending"]
      /\ on' = [on EXCEPT ![r] = new]
      /\ connections' = (connections \ {c}) \cup {new}
      /\ in_use' = (in_use \ {c}) \cup {new}
      /\ attempt_reconnect' = attempt_reconnect \ {c}
      /\ timer' \subseteq timer \cup {new}
      /\ Forget({c})
      /\ UNCHANGED <<writes, result, alive, late>>
  BY DEF Reconnect, Replace, Ended, MayReconnect, Begin
<1>. HIDE DEF new
<1>4. TypeOK'
  BY <1>1, <1>2, <1>3, ForgetFacts DEF TypeOK, Stages, Running, Results
<1>5. Active' = Active
  BY <1>1, <1>3 DEF TypeOK, Active, Running
<1>6. on'[r] = new /\ \A q \in Ids \ {r} :
        /\ on'[q] = on[q] /\ stage'[q] = stage[q] /\ done'[q] = done[q]
        /\ on[q] # c /\ on[q] # new
  BY <1>1, <1>2, <1>3, ConnsType DEF TypeOK, UseInv, OneSessionPerConnection
<1>7. UseInv'
  <2>1. \A q \in Ids : on'[q] # 0 <=> q \in Active'
    BY <1>1, <1>2, <1>5, <1>6, ConnsType DEF UseInv
  <2>2. in_use' = {on'[q] : q \in Active'}
    BY <1>1, <1>3, <1>5, <1>6 DEF UseInv, Active
  <2>3. OneSessionPerConnection'
    BY <1>5, <1>6 DEF UseInv, OneSessionPerConnection, Active
  <2>. QED  BY <2>1, <2>2, <2>3 DEF UseInv
<1>8. SpareInv' /\ ReconnectInv'
  BY <1>1, <1>2, <1>3, <1>5 DEF SpareInv, ReconnectInv
<1>9. WritesInv'
  <2>1. ASSUME NEW q \in Ids
        PROVE  writes[q] <= (IF Before(q)' THEN 0 ELSE 1) + (IF Replaceable(q)' THEN 0 ELSE 1)
    <3>1. CASE q = r
      <4>1. Replaceable(r) /\ writes[r] <= 1
        <5>1. Replaceable(r) /\ ~ Before(r)
          BY <1>3 DEF Replaceable, Before
        <5>. QED  BY <1>1, <5>1 DEF WritesInv
      <4>2. ~ Replaceable(r)'
        BY <1>2, <1>3, <1>6 DEF Replaceable, ReconnectInv
      <4>. QED  BY <1>1, <3>1, <4>1, <4>2 DEF TypeOK
    <3>2. CASE q # r
      <4>1. (Before(q)' <=> Before(q)) /\ (Replaceable(q)' <=> Replaceable(q))
        BY <1>3, <1>6, <3>2 DEF Before, Replaceable
      <4>. QED  BY <4>1 DEF WritesInv
    <3>. QED  BY <3>1, <3>2
  <2>. QED  BY <1>3, <1>5, <2>1 DEF WritesInv
<1>10. spoilt' = spoilt \ {c} /\ new \notin spoilt
  BY <1>2, <1>3, ForgetFacts DEF SpoiltInv
<1>11. SpoiltInv'
  <2>1. spoilt' \subseteq connections' \cup in_use'
    BY <1>3, <1>10 DEF SpoiltInv
  <2>2. ASSUME NEW q \in Active' \ late', on'[q] \in spoilt'
        PROVE  stage'[q] = "read" /\ done'[q] = "unframed"
    <3>1. q \in Active \ late /\ q \in Ids \ {r} /\ on[q] \in spoilt
      BY <1>3, <1>5, <1>6, <1>10, <2>2 DEF Active
    <3>. QED  BY <1>6, <3>1 DEF SpoiltInv
  <2>. QED  BY <2>1, <2>2 DEF SpoiltInv
<1>12. TrafficInv'
  <2>1. ASSUME NEW d \in Conns \ in_use' PROVE Clean(d)' \/ d \in spoilt'
    <3>1. CASE d = c
      BY <1>3, <3>1, ForgetFacts
    <3>2. CASE d # c
      <4>1. Clean(d) \/ d \in spoilt
        BY <1>3, <2>1, <3>2 DEF TrafficInv
      <4>. QED  BY <1>3, <1>10, <3>2, <4>1, ForgetFacts, CleanStays
    <3>. QED  BY <3>1, <3>2
  <2>2. ASSUME NEW q \in Active', NEW d \in Conns, on'[q] = d
        PROVE  OwnTraffic(q, d)' \/ d \in spoilt'
    <3>1. CASE q = r
      <4>1. Clean(new)
        BY <1>2, <1>10 DEF TrafficInv
      <4>2. d = new
        BY <1>6, <2>2, <3>1
      <4>3. Clean(d)'
        BY <1>3, <4>1, <4>2, ForgetFacts, CleanStays
      <4>. QED  BY <4>3 DEF OwnTraffic
    <3>2. CASE q # r
      <4>1. /\ q \in Active /\ on[q] = d /\ d # c
            /\ stage'[q] = stage[q] /\ done'[q] = done[q]
        BY <1>5, <1>6, <2>2, <3>2 DEF Active
      <4>2. OwnTraffic(q, d) \/ d \in spoilt
        BY <4>1 DEF TrafficInv
      <4>. QED  BY <1>3, <1>10, <4>1, <4>2, ForgetFacts, TrafficStays
    <3>. QED  BY <3>1, <3>2
  <2>. QED  BY <1>3, <2>1, <2>2 DEF TrafficInv
<1>. QED  BY <1>4, <1>7, <1>8, <1>9, <1>11, <1>12

\* After the destructor a session ends without its callback.
LEMMA LockRefusedStep ==
  ASSUME IInv, NEW r \in Active, NEW c \in Conns, on[r] = c, LockRefused(r)
  PROVE  IInv'
<1>1. connections = {}
  BY DEF IInv, SpareInv, LockRefused
<1>. QED  BY <1>1, ReleaseStep DEF LockRefused

LEMMA HandlerStep ==
  ASSUME IInv, NEW r \in Active, Handler(r)
  PROVE  IInv'
<1>1. PICK c \in Conns : on[r] = c
  BY DEF IInv, UseInv, TypeOK, Active
<1>2. CASE ResolveHandler(r) \/ ConnectHandler(r) \/ WriteHandler(r)
  BY <1>1, <1>2, ContinueStep, CallbackStep
  DEF ResolveHandler, ConnectHandler, WriteHandler, Leads, Ended
<1>3. CASE HeaderHandler(r)
  <2>1. CASE done[r] = "header"
    BY <1>1, <1>3, <2>1, ContinueStep DEF HeaderHandler, Ended
  <2>2. CASE done[r] # "header"
    <3>1. done[r] = "malformed" \/ Clean(c) \/ c \in spoilt
      BY <1>1, <1>3, <2>2
      DEF HeaderHandler, Ended, IInv, TrafficInv, OwnTraffic, Sent, HeaderRead
    <3>. QED  BY <1>1, <1>3, <2>2, <3>1, CallbackStep DEF HeaderHandler
  <2>. QED  BY <2>1, <2>2
<1>4. CASE ContentHandler(r)
  <2>1. done[r] \notin Parts \/ Clean(c) \/ c \in spoilt
    BY <1>1, <1>4
    DEF ContentHandler, Ended, IInv, TrafficInv, OwnTraffic, Sent, HeaderRead
  <2>. QED  BY <1>1, <1>4, <2>1, CallbackStep DEF ContentHandler
<1>. QED
  BY <1>1, <1>2, <1>3, <1>4, ReconnectStep, CallbackStep, LockRefusedStep
  DEF Handler, ReadGivesUp

-----------------------------------------------------------------------------
(* The client stops.                                                       *)

LEMMA CloseAllStep ==
  ASSUME IInv, CloseAll, alive' \in BOOLEAN
  PROVE  IInv'
<1>. USE DEF IInv
<1>. DEFINE gone == connections \ {on[r] : r \in Ids}
<1>1. /\ connections' = {} /\ UNCHANGED <<stage, on, writes, result, in_use, timer, late>>
      /\ attempt_reconnect' = attempt_reconnect \cap {on[r] : r \in Ids}
      /\ Forget(gone)
  BY DEF CloseAll
<1>2. /\ done' \in [Ids -> Results]
      /\ \A r \in Ids : done'[r] = done[r] \/ (done[r] = "pending" /\ done'[r] = "aborted")
  BY DEF CloseAll, Cancelled, TypeOK, Results
<1>. HIDE DEF gone
<1>3. TypeOK'
  BY <1>1, <1>2, ForgetFacts DEF TypeOK
<1>4. Active' = Active
  BY <1>1 DEF Active
<1>5. UseInv' /\ SpareInv'
  BY <1>1, <1>4 DEF UseInv, OneSessionPerConnection, SpareInv
<1>6. ReconnectInv'
  BY <1>1, ConnsType DEF TypeOK, UseInv, ReconnectInv
<1>7. \A q \in Ids : /\ Before(q)' <=> Before(q)
                     /\ Replaceable(q)' <=> Replaceable(q)
                     /\ Sent(q)' <=> Sent(q)
                     /\ HeaderRead(q)' <=> HeaderRead(q)
  BY <1>1, <1>2 DEF Before, Replaceable, Sent, HeaderRead, Parts
<1>8. WritesInv'
  BY <1>1, <1>4, <1>7 DEF WritesInv
<1>9. TrafficInv'
  <2>1. ASSUME NEW d \in Conns \ in_use' PROVE Clean(d)' \/ d \in spoilt'
    <3>1. Clean(d) \/ d \in spoilt
      BY <1>1, <2>1 DEF TrafficInv
    <3>. QED  BY <1>1, <3>1, ForgetFacts, CleanStays
  <2>2. ASSUME NEW q \in Active', NEW d \in Conns, on'[q] = d
        PROVE  OwnTraffic(q, d)' \/ d \in spoilt'
    <3>1. q \in Ids /\ (OwnTraffic(q, d) \/ d \in spoilt) /\ (d \in spoilt => d \in spoilt')
      BY <1>1, <1>4, <2>2, ForgetFacts DEF TrafficInv, Active, gone
    <3>2. Clean(d)' \/ (unanswered'[d] = unanswered[d] /\ arrived'[d] = arrived[d])
      BY <1>1, ForgetFacts
    <3>. QED  BY <1>7, <3>1, <3>2 DEF OwnTraffic, Clean
  <2>. QED  BY <1>1, <2>1, <2>2 DEF TrafficInv
<1>10. SpoiltInv'
  <2>1. spoilt' = spoilt \ gone
    BY <1>1, ForgetFacts
  <2>2. connections \ gone \subseteq in_use
    BY ConnsType DEF gone, TypeOK, UseInv
  <2>3. spoilt' \subseteq connections' \cup in_use'
    BY <1>1, <2>1, <2>2 DEF SpoiltInv
  <2>4. \A q \in Active \ late : stage[q] = "read" /\ done[q] = "unframed" => done'[q] = "unframed"
    BY <1>2 DEF Active
  <2>. QED  BY <1>1, <1>4, <2>1, <2>3, <2>4 DEF SpoiltInv
<1>. QED  BY <1>3, <1>5, <1>6, <1>8, <1>9, <1>10

-----------------------------------------------------------------------------
(* The invariant and what follows from it.                                 *)

LEMMA InitIInv == Init => IInv
<1>. SUFFICES ASSUME Init PROVE IInv
  OBVIOUS
<1>. USE DEF Init
<1>1. TypeOK
  BY DEF TypeOK, Stages, Results
<1>2. Active = {}
  BY DEF Active, Running
<1>3. UseInv /\ SpareInv /\ ReconnectInv /\ SpoiltInv
  BY <1>2 DEF SpoiltInv, UseInv, OneSessionPerConnection, SpareInv, ReconnectInv
<1>4. WritesInv /\ TrafficInv
  BY <1>2 DEF WritesInv, TrafficInv, Clean
<1>. QED  BY <1>1, <1>3, <1>4 DEF IInv

LEMMA NextIInv == IInv /\ [Next]_vars => IInv'
<1>. SUFFICES ASSUME IInv, [Next]_vars PROVE IInv'
  OBVIOUS
<1>1. ASSUME NEW r \in Active, Completion(r) PROVE IInv'
  <2>1. PICK c \in Conns : on[r] = c
    BY DEF IInv, UseInv, TypeOK, Active
  <2>. QED
    BY <1>1, <2>1, QuietCompletion, WrittenStep, ReadStep, ReadsOnStep DEF Completion
<1>2. CASE stop \/ Destroy
  BY <1>2, CloseAllStep DEF stop, Destroy, IInv, TypeOK
<1>3. CASE UNCHANGED vars
  BY <1>3, QuietStep
  DEF vars, sessionVars, poolVars, timerVars, peerVars, SameSessions, IInv, TypeOK
<1>. QED
  BY <1>1, <1>2, <1>3, RequestStep, HandlerStep, TimerStep, AnswerStep, CloseStep
  DEF Next, Run

\* The inductive invariant: who uses which connection, how often a request was
\* written, and what is under way to whom (get_connection, reconnect, callback).
THEOREM Invariance == Spec => []IInv
  BY InitIInv, NextIInv, PTL DEF Spec

\* Two requests under way never share a connection: get_connection takes one
\* that is not in use, and in_use is cleared with the session only.
THEOREM OneSessionTheorem == Spec => []OneSessionPerConnection
<1>1. IInv => OneSessionPerConnection
  BY DEF IInv, UseInv
<1>. QED  BY <1>1, Invariance, PTL

\* A callback without an error gets the response to its own request, for every
\* response a server may send: a connection goes back to the set with nothing
\* left on it unless an unframed response was read on it, and only the requests
\* that are given such a connection are excepted.
THEOREM AnswersTheorem == Spec => []AnswersMatch
<1>1. IInv => AnswersMatch
  BY DEF IInv, TrafficInv, AnswersMatch
<1>. QED  BY <1>1, Invariance, PTL

\* A request is sent at most twice: the connection that replaces the first is
\* not replaced again.
THEOREM SentTheorem == Spec => []SentAtMostTwice
<1>1. IInv => SentAtMostTwice
  <2>. SUFFICES ASSUME IInv, NEW r \in Ids PROVE writes[r] <= 2
    BY DEF SentAtMostTwice
  <2>1. writes[r] \in Nat
    BY DEF IInv, TypeOK
  <2>2. writes[r] <= (IF Before(r) THEN 0 ELSE 1) + (IF Replaceable(r) THEN 0 ELSE 1)
    BY DEF IInv, WritesInv
  <2>. QED  BY <2>1, <2>2
<1>. QED  BY <1>1, Invariance, PTL

=============================================================================
