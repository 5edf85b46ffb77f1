--------------------- MODULE StatementsRefinement_proofs ---------------------
(***************************************************************************)
(* That the statements of machine_info-odb.cpp keep the promise of         *)
(* ObjectStore, for any objects and any capacity of new buffers.           *)
(*                                                                         *)
(* A buffer that is replaced gives the image another version, and a        *)
(* statement's binding either has seen an earlier version or is to the     *)
(* buffers the image has now.  So a statement that is executed sends what  *)
(* is in those buffers, and fetches into them; what a first fetch cuts     *)
(* fits after grow, so that a second one brings the whole row.             *)
(***************************************************************************)
EXTENDS StatementsRefinement, FiniteSetTheorems, SequenceTheorems, TLAPS

-----------------------------------------------------------------------------
(* The columns of a row, and what is in them.                              *)

Columns == {"id", "client_key", "memory_mem_total", "memory_mem_available", "memory_mem_free",
            "cpu_idle_time", "cpu_use_time", "process_total", "process_running", "process_blocked",
            "system_info_system_ip", "system_info_system_name", "time_stamp"}

Own == Columns \ {"id"}

Cells == Seq(Nat) \cup Nat
         \cup UNION {{o.memory.mem_total, o.memory.mem_available, o.memory.mem_free, o.cpu.idle_time, o.cpu.use_time,
                      o.process.total, o.process.running, o.process.blocked, o.time_stamp} : o \in Objects}

\* What a statement sends, and what it fetches.
Rows     == {r \in [Own -> Cells] : \A s \in TextSlots : r[s] \in Seq(Nat)}
FullRows == {r \in [Columns -> Cells] : \A s \in TextSlots : r[s] \in Seq(Nat)}

Images == [value : FullRows, size : [TextSlots -> Nat], capacity : [TextSlots -> Nat], version : Nat]

\* Texts are columns of their own.
LEMMA TextsAre == /\ TextSlots \subseteq Own /\ Own \subseteq Columns /\ "id" \in Columns /\ "id" \notin Own
                  /\ "client_key" \in TextSlots /\ "system_info_system_ip" \in TextSlots
                  /\ "system_info_system_name" \in TextSlots
  BY DEF TextSlots, Own, Columns

\* The select statements name every column once, the others all but the id.
LEMMA SelectNames ==
  /\ find_statement \in Seq(Columns) /\ Len(find_statement) = 13 /\ DOMAIN find_statement = 1 .. 13
  /\ query_statement = find_statement /\ ToSet(find_statement) = Columns
  /\ \A k, l \in 1 .. 13 : find_statement[k] = find_statement[l] => k = l
  <1>1. find_statement \in Seq(Columns) /\ Len(find_statement) = 13 /\ DOMAIN find_statement = 1 .. 13
    BY DEF find_statement, Columns
  <1>2. query_statement = find_statement
    BY DEF query_statement, find_statement
  <1>3. \A k, l \in 1 .. 13 : find_statement[k] = find_statement[l] => k = l
    BY DEF find_statement
  <1>4. ToSet(find_statement) = Columns
    BY DEF ToSet, find_statement, Columns
  <1>. QED  BY <1>1, <1>2, <1>3, <1>4

LEMMA InsertNames ==
  /\ persist_statement \in Seq(Own) /\ Len(persist_statement) = 12 /\ DOMAIN persist_statement = 1 .. 12
  /\ update_statement = persist_statement /\ ToSet(persist_statement) = Own
  <1>1. persist_statement \in Seq(Own) /\ Len(persist_statement) = 12 /\ DOMAIN persist_statement = 1 .. 12
    BY DEF persist_statement, Own, Columns
  <1>2. update_statement = persist_statement
    BY DEF update_statement, persist_statement
  <1>4. ToSet(persist_statement) = Own
    BY DEF ToSet, persist_statement, Own, Columns
  <1>. QED  BY <1>1, <1>2, <1>4

-----------------------------------------------------------------------------
(* Bindings.                                                               *)

Slots == Columns \X Nat

\* What is appended follows what was there.
LEMMA Concat ==
  ASSUME NEW s \in Seq(Slots), NEW t \in Seq(Slots)
  PROVE  /\ s \o t \in Seq(Slots) /\ Len(s \o t) = Len(s) + Len(t)
         /\ \A i \in 1 .. Len(s) : (s \o t)[i] = s[i]
         /\ \A i \in 1 .. Len(t) : (s \o t)[Len(s) + i] = t[i]
  <1>1. s \o t \in Seq(Slots) /\ Len(s \o t) = Len(s) + Len(t)
    BY ConcatProperties
  <1>2. \A i \in 1 .. Len(s) + Len(t) : (s \o t)[i] = IF i <= Len(s) THEN s[i] ELSE t[i - Len(s)]
    BY ConcatProperties
  <1>3. Len(t) \in Nat /\ Len(s) \in Nat
    OBVIOUS
  <1>4. \A i \in 1 .. Len(s) : (s \o t)[i] = s[i]
    BY <1>2, <1>3
  <1>5. \A i \in 1 .. Len(t) : (s \o t)[Len(s) + i] = t[i]
    <2>. TAKE i \in 1 .. Len(t)
    <2>1. Len(s) + i \in 1 .. Len(s) + Len(t) /\ ~ (Len(s) + i <= Len(s)) /\ Len(s) + i - Len(s) = i
      BY <1>3
    <2>. QED  BY <1>2, <2>1
  <1>. QED  BY <1>1, <1>4, <1>5

\* What bind puts after its first n columns.
Composed(b, im, n) ==
    /\ b \in Seq(Slots) /\ Len(b) = n + 12
    /\ b[n + 1] = <<"client_key", im.capacity["client_key"]>>
    /\ b[n + 2] = <<"memory_mem_total", 0>> /\ b[n + 3] = <<"memory_mem_available", 0>>
    /\ b[n + 4] = <<"memory_mem_free", 0>>
    /\ b[n + 5] = <<"cpu_idle_time", 0>> /\ b[n + 6] = <<"cpu_use_time", 0>>
    /\ b[n + 7] = <<"process_total", 0>> /\ b[n + 8] = <<"process_running", 0>>
    /\ b[n + 9] = <<"process_blocked", 0>>
    /\ b[n + 10] = <<"system_info_system_ip", im.capacity["system_info_system_ip"]>>
    /\ b[n + 11] = <<"system_info_system_name", im.capacity["system_info_system_name"]>>
    /\ b[n + 12] = <<"time_stamp", 0>>

LEMMA ComposeBind ==
  ASSUME NEW im, im.capacity \in [TextSlots -> Nat],
         NEW head \in Seq(Slots)
  PROVE  LET b == head \o <<Text(im, "client_key")>> \o MemoryBind \o CPUBind \o ProcessBind \o SystemInfoBind(im)
                      \o <<Number("time_stamp")>>
         IN  Composed(b, im, Len(head)) /\ \A i \in 1 .. Len(head) : b[i] = head[i]
  <1>0. PICK n : n = Len(head)
    OBVIOUS
  <1>30. n \in Nat /\ head \in Seq(Slots) /\ Len(head) = n
    BY <1>0
  <1>31. PICK p1 : p1 = <<Text(im, "client_key")>>
    OBVIOUS
  <1>32. PICK p6 : p6 = <<Number("time_stamp")>>
    OBVIOUS
  <1>1. /\ p1 \in Seq(Slots) /\ Len(p1) = 1 /\ p1[1] = <<"client_key", im.capacity["client_key"]>>
        /\ p6 \in Seq(Slots) /\ Len(p6) = 1 /\ p6[1] = <<"time_stamp", 0>>
    BY TextsAre, <1>31, <1>32 DEF Text, Number, Slots, Columns
  <1>2. /\ MemoryBind \in Seq(Slots) /\ Len(MemoryBind) = 3
        /\ MemoryBind[1] = <<"memory_mem_total", 0>> /\ MemoryBind[2] = <<"memory_mem_available", 0>>
        /\ MemoryBind[3] = <<"memory_mem_free", 0>>
    BY DEF MemoryBind, Number, Slots, Columns
  <1>3. /\ CPUBind \in Seq(Slots) /\ Len(CPUBind) = 2
        /\ CPUBind[1] = <<"cpu_idle_time", 0>> /\ CPUBind[2] = <<"cpu_use_time", 0>>
    BY DEF CPUBind, Number, Slots, Columns
  <1>4. /\ ProcessBind \in Seq(Slots) /\ Len(ProcessBind) = 3
        /\ ProcessBind[1] = <<"process_total", 0>> /\ ProcessBind[2] = <<"process_running", 0>>
        /\ ProcessBind[3] = <<"process_blocked", 0>>
    BY DEF ProcessBind, Number, Slots, Columns
  <1>5. /\ SystemInfoBind(im) \in Seq(Slots) /\ Len(SystemInfoBind(im)) = 2
        /\ SystemInfoBind(im)[1] = <<"system_info_system_ip", im.capacity["system_info_system_ip"]>>
        /\ SystemInfoBind(im)[2] = <<"system_info_system_name", im.capacity["system_info_system_name"]>>
    BY TextsAre DEF SystemInfoBind, Text, Slots
  <1>40. PICK s1 : s1 = head \o p1
    OBVIOUS
  <1>6. /\ s1 \in Seq(Slots) /\ Len(s1) = n + 1 /\ \A i \in 1 .. n : s1[i] = head[i]
        /\ s1[n + 1] = p1[1]
    <2>1. /\ head \o p1 \in Seq(Slots) /\ Len(head \o p1) = Len(head) + Len(p1)
          /\ \A i \in 1 .. Len(head) : (head \o p1)[i] = head[i]
          /\ \A i \in 1 .. Len(p1) : (head \o p1)[Len(head) + i] = p1[i]
      BY <1>30, <1>0, <1>1, <1>30, Concat
    <2>2. Len(head) = n /\ Len(p1) = 1
      BY <1>30, <1>0, <1>1, <1>30
    <2>3. /\ s1 \in Seq(Slots) /\ Len(s1) = (n) + 1
          /\ \A i \in 1 .. n : s1[i] = head[i]
          /\ \A i \in 1 .. 1 : s1[(n) + i] = p1[i]
      BY <1>40, <2>1, <2>2
    <2>4. 1 \in 1 .. 1 /\ (n) + 1 = n + 1
      BY <1>30
    <2>. QED  BY <2>3, <2>4
  <1>41. PICK s2 : s2 = s1 \o MemoryBind
    OBVIOUS
  <1>7. /\ s2 \in Seq(Slots) /\ Len(s2) = n + 4 /\ \A i \in 1 .. n + 1 : s2[i] = s1[i]
        /\ s2[n + 2] = MemoryBind[1] /\ s2[n + 3] = MemoryBind[2] /\ s2[n + 4] = MemoryBind[3]
    <2>1. /\ s1 \o MemoryBind \in Seq(Slots) /\ Len(s1 \o MemoryBind) = Len(s1) + Len(MemoryBind)
          /\ \A i \in 1 .. Len(s1) : (s1 \o MemoryBind)[i] = s1[i]
          /\ \A i \in 1 .. Len(MemoryBind) : (s1 \o MemoryBind)[Len(s1) + i] = MemoryBind[i]
      BY <1>30, <1>0, <1>2, <1>6, Concat
    <2>2. Len(s1) = n + 1 /\ Len(MemoryBind) = 3
      BY <1>30, <1>0, <1>2, <1>6
    <2>3. /\ s2 \in Seq(Slots) /\ Len(s2) = (n + 1) + 3
          /\ \A i \in 1 .. n + 1 : s2[i] = s1[i]
          /\ \A i \in 1 .. 3 : s2[(n + 1) + i] = MemoryBind[i]
      BY <1>41, <2>1, <2>2
    <2>4. 1 \in 1 .. 3 /\ (n + 1) + 1 = n + 2 /\ 2 \in 1 .. 3 /\ (n + 1) + 2 = n + 3 /\ 3 \in 1 .. 3 /\ (n + 1) + 3 = n + 4
      BY <1>30
    <2>. QED  BY <2>3, <2>4
  <1>42. PICK s3 : s3 = s2 \o CPUBind
    OBVIOUS
  <1>8. /\ s3 \in Seq(Slots) /\ Len(s3) = n + 6 /\ \A i \in 1 .. n + 4 : s3[i] = s2[i]
        /\ s3[n + 5] = CPUBind[1] /\ s3[n + 6] = CPUBind[2]
    <2>1. /\ s2 \o CPUBind \in Seq(Slots) /\ Len(s2 \o CPUBind) = Len(s2) + Len(CPUBind)
          /\ \A i \in 1 .. Len(s2) : (s2 \o CPUBind)[i] = s2[i]
          /\ \A i \in 1 .. Len(CPUBind) : (s2 \o CPUBind)[Len(s2) + i] = CPUBind[i]
      BY <1>30, <1>0, <1>3, <1>7, Concat
    <2>2. Len(s2) = n + 4 /\ Len(CPUBind) = 2
      BY <1>30, <1>0, <1>3, <1>7
    <2>3. /\ s3 \in Seq(Slots) /\ Len(s3) = (n + 4) + 2
          /\ \A i \in 1 .. n + 4 : s3[i] = s2[i]
          /\ \A i \in 1 .. 2 : s3[(n + 4) + i] = CPUBind[i]
      BY <1>42, <2>1, <2>2
    <2>4. 1 \in 1 .. 2 /\ (n + 4) + 1 = n + 5 /\ 2 \in 1 .. 2 /\ (n + 4) + 2 = n + 6
      BY <1>30
    <2>. QED  BY <2>3, <2>4
  <1>43. PICK s4 : s4 = s3 \o ProcessBind
    OBVIOUS
  <1>9. /\ s4 \in Seq(Slots) /\ Len(s4) = n + 9 /\ \A i \in 1 .. n + 6 : s4[i] = s3[i]
        /\ s4[n + 7] = ProcessBind[1] /\ s4[n + 8] = ProcessBind[2] /\ s4[n + 9] = ProcessBind[3]
    <2>1. /\ s3 \o ProcessBind \in Seq(Slots) /\ Len(s3 \o ProcessBind) = Len(s3) + Len(ProcessBind)
          /\ \A i \in 1 .. Len(s3) : (s3 \o ProcessBind)[i] = s3[i]
          /\ \A i \in 1 .. Len(ProcessBind) : (s3 \o ProcessBind)[Len(s3) + i] = ProcessBind[i]
      BY <1>30, <1>0, <1>4, <1>8, Concat
    <2>2. Len(s3) = n + 6 /\ Len(ProcessBind) = 3
      BY <1>30, <1>0, <1>4, <1>8
    <2>3. /\ s4 \in Seq(Slots) /\ Len(s4) = (n + 6) + 3
          /\ \A i \in 1 .. n + 6 : s4[i] = s3[i]
          /\ \A i \in 1 .. 3 : s4[(n + 6) + i] = ProcessBind[i]
      BY <1>43, <2>1, <2>2
    <2>4. 1 \in 1 .. 3 /\ (n + 6) + 1 = n + 7 /\ 2 \in 1 .. 3 /\ (n + 6) + 2 = n + 8 /\ 3 \in 1 .. 3 /\ (n + 6) + 3 = n + 9
      BY <1>30
    <2>. QED  BY <2>3, <2>4
  <1>44. PICK s5 : s5 = s4 \o SystemInfoBind(im)
    OBVIOUS
  <1>10. /\ s5 \in Seq(Slots) /\ Len(s5) = n + 11 /\ \A i \in 1 .. n + 9 : s5[i] = s4[i]
        /\ s5[n + 10] = SystemInfoBind(im)[1] /\ s5[n + 11] = SystemInfoBind(im)[2]
    <2>1. /\ s4 \o SystemInfoBind(im) \in Seq(Slots) /\ Len(s4 \o SystemInfoBind(im)) = Len(s4) + Len(SystemInfoBind(im))
          /\ \A i \in 1 .. Len(s4) : (s4 \o SystemInfoBind(im))[i] = s4[i]
          /\ \A i \in 1 .. Len(SystemInfoBind(im)) : (s4 \o SystemInfoBind(im))[Len(s4) + i] = SystemInfoBind(im)[i]
      BY <1>30, <1>0, <1>5, <1>9, Concat
    <2>2. Len(s4) = n + 9 /\ Len(SystemInfoBind(im)) = 2
      BY <1>30, <1>0, <1>5, <1>9
    <2>3. /\ s5 \in Seq(Slots) /\ Len(s5) = (n + 9) + 2
          /\ \A i \in 1 .. n + 9 : s5[i] = s4[i]
          /\ \A i \in 1 .. 2 : s5[(n + 9) + i] = SystemInfoBind(im)[i]
      BY <1>44, <2>1, <2>2
    <2>4. 1 \in 1 .. 2 /\ (n + 9) + 1 = n + 10 /\ 2 \in 1 .. 2 /\ (n + 9) + 2 = n + 11
      BY <1>30
    <2>. QED  BY <2>3, <2>4
  <1>45. PICK s6 : s6 = s5 \o p6
    OBVIOUS
  <1>11. /\ s6 \in Seq(Slots) /\ Len(s6) = n + 12 /\ \A i \in 1 .. n + 11 : s6[i] = s5[i]
        /\ s6[n + 12] = p6[1]
    <2>1. /\ s5 \o p6 \in Seq(Slots) /\ Len(s5 \o p6) = Len(s5) + Len(p6)
          /\ \A i \in 1 .. Len(s5) : (s5 \o p6)[i] = s5[i]
          /\ \A i \in 1 .. Len(p6) : (s5 \o p6)[Len(s5) + i] = p6[i]
      BY <1>30, <1>0, <1>1, <1>10, Concat
    <2>2. Len(s5) = n + 11 /\ Len(p6) = 1
      BY <1>30, <1>0, <1>1, <1>10
    <2>3. /\ s6 \in Seq(Slots) /\ Len(s6) = (n + 11) + 1
          /\ \A i \in 1 .. n + 11 : s6[i] = s5[i]
          /\ \A i \in 1 .. 1 : s6[(n + 11) + i] = p6[i]
      BY <1>45, <2>1, <2>2
    <2>4. 1 \in 1 .. 1 /\ (n + 11) + 1 = n + 12
      BY <1>30
    <2>. QED  BY <2>3, <2>4
  <1>21. \A i \in 1 .. n + 9 : s6[i] = s4[i]
    BY <1>30, <1>10, <1>11
  <1>22. \A i \in 1 .. n + 6 : s6[i] = s3[i]
    BY <1>30, <1>9, <1>21
  <1>23. \A i \in 1 .. n + 4 : s6[i] = s2[i]
    BY <1>30, <1>8, <1>22
  <1>24. \A i \in 1 .. n + 1 : s6[i] = s1[i]
    BY <1>30, <1>7, <1>23
  <1>12. \A i \in 1 .. n : s6[i] = head[i]
    BY <1>30, <1>6, <1>24
  <1>13. s6[n + 1] = <<"client_key", im.capacity["client_key"]>>
    BY <1>30, <1>1, <1>6, <1>24
  <1>14. /\ s6[n + 2] = <<"memory_mem_total", 0>> /\ s6[n + 3] = <<"memory_mem_available", 0>>
         /\ s6[n + 4] = <<"memory_mem_free", 0>>
    BY <1>30, <1>2, <1>7, <1>23
  <1>15. s6[n + 5] = <<"cpu_idle_time", 0>> /\ s6[n + 6] = <<"cpu_use_time", 0>>
    BY <1>30, <1>3, <1>8, <1>22
  <1>16. /\ s6[n + 7] = <<"process_total", 0>> /\ s6[n + 8] = <<"process_running", 0>>
         /\ s6[n + 9] = <<"process_blocked", 0>>
    BY <1>30, <1>4, <1>9, <1>21
  <1>17. /\ s6[n + 10] = <<"system_info_system_ip", im.capacity["system_info_system_ip"]>>
         /\ s6[n + 11] = <<"system_info_system_name", im.capacity["system_info_system_name"]>>
    BY <1>30, <1>5, <1>10, <1>11
  <1>18. s6[n + 12] = <<"time_stamp", 0>>
    BY <1>1, <1>11
  <1>19. Composed(s6, im, n)
    BY <1>11, <1>13, <1>14, <1>15, <1>16, <1>17, <1>18 DEF Composed
  <1>20. s6 = head \o <<Text(im, "client_key")>> \o MemoryBind \o CPUBind \o ProcessBind \o SystemInfoBind(im)
                      \o <<Number("time_stamp")>>
    BY <1>31, <1>32, <1>40, <1>41, <1>42, <1>43, <1>44, <1>45
  <1>. QED  BY <1>0, <1>12, <1>19, <1>20

\* The select statement binds the column it names k-th k-th, and a text to
\* the buffer that the image has for it; so do insert and update.
Binds(b, im, columns) ==
    /\ DOMAIN b = DOMAIN columns /\ b # << >>
    /\ \A k \in DOMAIN columns :
          /\ b[k][1] = columns[k]
          /\ columns[k] \in TextSlots => b[k][2] = im.capacity[columns[k]]

LEMMA SelectBinds ==
  ASSUME NEW im, im.capacity \in [TextSlots -> Nat]
  PROVE  Binds(bind(im, "select"), im, find_statement)
  <1>1. PICK b : b = bind(im, "select")
    OBVIOUS
  <1>2. PICK h : h = <<Number("id")>>
    OBVIOUS
  <1>3. h \in Seq(Slots) /\ Len(h) = 1 /\ h[1] = <<"id", 0>>
    BY <1>2 DEF Number, Slots, Columns
  <1>4. b = h \o <<Text(im, "client_key")>> \o MemoryBind \o CPUBind \o ProcessBind \o SystemInfoBind(im)
                 \o <<Number("time_stamp")>>
    BY <1>1, <1>2 DEF bind
  <1>5. /\ b \in Seq(Slots) /\ Len(b) = 13
        /\ b[1] = <<"id", 0>> /\ b[2] = <<"client_key", im.capacity["client_key"]>>
        /\ b[3] = <<"memory_mem_total", 0>> /\ b[4] = <<"memory_mem_available", 0>>
        /\ b[5] = <<"memory_mem_free", 0>>
        /\ b[6] = <<"cpu_idle_time", 0>> /\ b[7] = <<"cpu_use_time", 0>>
        /\ b[8] = <<"process_total", 0>> /\ b[9] = <<"process_running", 0>>
        /\ b[10] = <<"process_blocked", 0>>
        /\ b[11] = <<"system_info_system_ip", im.capacity["system_info_system_ip"]>>
        /\ b[12] = <<"system_info_system_name", im.capacity["system_info_system_name"]>>
        /\ b[13] = <<"time_stamp", 0>>
    <2>1. Composed(b, im, Len(h)) /\ \A i \in 1 .. Len(h) : b[i] = h[i]
      BY <1>3, <1>4, ComposeBind
    <2>2. Composed(b, im, 1) /\ b[1] = h[1]
      BY <1>3, <2>1
    <2>3. 1 + 1 = 2 /\ 1 + 2 = 3 /\ 1 + 3 = 4 /\ 1 + 4 = 5 /\ 1 + 5 = 6 /\ 1 + 6 = 7
          /\ 1 + 7 = 8 /\ 1 + 8 = 9 /\ 1 + 9 = 10 /\ 1 + 10 = 11 /\ 1 + 11 = 12 /\ 1 + 12 = 13
      OBVIOUS
    <2>. QED  BY <1>3, <2>2, <2>3 DEF Composed
  <1>6. DOMAIN b = 1 .. 13 /\ b # << >>
    BY <1>5
  <1>7. \A k \in 1 .. 13 : b[k][1] = find_statement[k]
    BY <1>5 DEF find_statement
  <1>8. \A k \in 1 .. 13 : find_statement[k] \in TextSlots => b[k][2] = im.capacity[find_statement[k]]
    <2>1. \A k \in 1 .. 13 : find_statement[k] \in TextSlots => k \in {2, 11, 12}
      BY DEF find_statement, TextSlots
    <2>2. /\ find_statement[2] = "client_key" /\ find_statement[11] = "system_info_system_ip"
          /\ find_statement[12] = "system_info_system_name"
      BY DEF find_statement
    <2>3. /\ b[2][2] = im.capacity["client_key"] /\ b[11][2] = im.capacity["system_info_system_ip"]
          /\ b[12][2] = im.capacity["system_info_system_name"]
      BY <1>5
    <2>. QED  BY <2>1, <2>2, <2>3
  <1>. QED  BY <1>1, <1>6, <1>7, <1>8, SelectNames DEF Binds

LEMMA InsertBinds ==
  ASSUME NEW im, im.capacity \in [TextSlots -> Nat], NEW kind \in {"insert", "update"}
  PROVE  Binds(bind(im, kind), im, persist_statement)
  <1>1. PICK b : b = bind(im, kind)
    OBVIOUS
  <1>2. PICK h : h = << >>
    OBVIOUS
  <1>3. h \in Seq(Slots) /\ Len(h) = 0
    BY <1>2
  <1>4. b = h \o <<Text(im, "client_key")>> \o MemoryBind \o CPUBind \o ProcessBind \o SystemInfoBind(im)
                 \o <<Number("time_stamp")>>
    BY <1>1, <1>2 DEF bind
  <1>5. /\ b \in Seq(Slots) /\ Len(b) = 12
        /\ b[1] = <<"client_key", im.capacity["client_key"]>>
        /\ b[2] = <<"memory_mem_total", 0>> /\ b[3] = <<"memory_mem_available", 0>>
        /\ b[4] = <<"memory_mem_free", 0>>
        /\ b[5] = <<"cpu_idle_time", 0>> /\ b[6] = <<"cpu_use_time", 0>>
        /\ b[7] = <<"process_total", 0>> /\ b[8] = <<"process_running", 0>>
        /\ b[9] = <<"process_blocked", 0>>
        /\ b[10] = <<"system_info_system_ip", im.capacity["system_info_system_ip"]>>
        /\ b[11] = <<"system_info_system_name", im.capacity["system_info_system_name"]>>
        /\ b[12] = <<"time_stamp", 0>>
    <2>1. Composed(b, im, Len(h))
      BY <1>3, <1>4, ComposeBind
    <2>2. Composed(b, im, 0)
      BY <1>3, <2>1
    <2>3. 0 + 1 = 1 /\ 0 + 2 = 2 /\ 0 + 3 = 3 /\ 0 + 4 = 4 /\ 0 + 5 = 5 /\ 0 + 6 = 6
          /\ 0 + 7 = 7 /\ 0 + 8 = 8 /\ 0 + 9 = 9 /\ 0 + 10 = 10 /\ 0 + 11 = 11 /\ 0 + 12 = 12
      OBVIOUS
    <2>. QED  BY <2>2, <2>3 DEF Composed
  <1>6. DOMAIN b = 1 .. 12 /\ b # << >>
    BY <1>5
  <1>7. \A k \in 1 .. 12 : b[k][1] = persist_statement[k]
    BY <1>5 DEF persist_statement
  <1>8. \A k \in 1 .. 12 : persist_statement[k] \in TextSlots => b[k][2] = im.capacity[persist_statement[k]]
    <2>1. \A k \in 1 .. 12 : persist_statement[k] \in TextSlots => k \in {1, 10, 11}
      BY DEF persist_statement, TextSlots
    <2>2. /\ persist_statement[1] = "client_key" /\ persist_statement[10] = "system_info_system_ip"
          /\ persist_statement[11] = "system_info_system_name"
      BY DEF persist_statement
    <2>3. /\ b[1][2] = im.capacity["client_key"] /\ b[10][2] = im.capacity["system_info_system_ip"]
          /\ b[11][2] = im.capacity["system_info_system_name"]
      BY <1>5
    <2>. QED  BY <2>1, <2>2, <2>3
  <1>. QED  BY <1>1, <1>6, <1>7, <1>8, InsertNames DEF Binds

\* A binding is of the version it has seen, if the image has that version
\* still.
Valid(b, im, kind) ==
    /\ b.seen \in Nat /\ b.seen <= im.version
    /\ b.seen = im.version /\ b.to # << >> => b.to = bind(im, kind)

LEMMA BoundIs ==
  ASSUME NEW im, im.version \in Nat, NEW b, NEW kind, Valid(b, im, kind)
  PROVE  /\ Bound(b, im, kind).to = bind(im, kind) /\ Bound(b, im, kind).seen = im.version
         /\ Valid(Bound(b, im, kind), im, kind)
  BY DEF Bound, Valid

\* Buffers that are replaced are a new version.
LEMMA VersionIs ==
  ASSUME NEW im, im.version \in Nat, NEW after, after \in Images, after.version = im.version
  PROVE  LET n == Versioned(im, after)
         IN  /\ n \in Images /\ n.value = after.value /\ n.size = after.size /\ n.capacity = after.capacity
             /\ im.capacity # after.capacity => n.version # im.version
             /\ \A b, kind : Valid(b, im, kind) => Valid(b, n, kind)
  <1>1. PICK n : n = Versioned(im, after)
    OBVIOUS
  <1>2. /\ n \in Images /\ n.value = after.value /\ n.size = after.size /\ n.capacity = after.capacity
        /\ n.version = IF im.capacity = after.capacity THEN im.version ELSE im.version + 1
    BY <1>1 DEF Versioned, Images
  <1>3. ASSUME NEW b, NEW kind, Valid(b, im, kind)
        PROVE  Valid(b, n, kind)
    <2>1. im.capacity = n.capacity => bind(im, kind) = bind(n, kind)
      BY DEF bind, Text, SystemInfoBind
    <2>. QED  BY <1>2, <1>3, <2>1 DEF Valid
  <1>. QED  BY <1>1, <1>2, <1>3

-----------------------------------------------------------------------------
(* The image.                                                              *)

LEMMA MaxOfTwo ==
  ASSUME NEW a \in Nat, NEW b \in Nat
  PROVE  Max({a, b}) = IF a >= b THEN a ELSE b
  BY DEF Max

LEMMA MinOfTwo ==
  ASSUME NEW a \in Nat, NEW b \in Nat
  PROVE  Min({a, b}) = IF a <= b THEN a ELSE b
  BY DEF Min

LEMMA EnlargedIs ==
  ASSUME NEW im \in Images, NEW slots
  PROVE  LET n == Enlarged(im, slots)
         IN  /\ n \in Images /\ n.value = im.value /\ n.size = im.size /\ n.version = im.version
             /\ \A s \in TextSlots :
                   n.capacity[s] = IF s \in slots /\ im.size[s] > im.capacity[s] THEN im.size[s]
                                   ELSE im.capacity[s]
  <1>1. PICK c : c = [s \in TextSlots |-> IF s \in slots THEN Max({im.capacity[s], im.size[s]}) ELSE im.capacity[s]]
    OBVIOUS
  <1>2. \A s \in TextSlots : im.capacity[s] \in Nat /\ im.size[s] \in Nat
    BY DEF Images
  <1>3. \A s \in TextSlots : c[s] = IF s \in slots /\ im.size[s] > im.capacity[s] THEN im.size[s]
                                    ELSE im.capacity[s]
    BY <1>1, <1>2, MaxOfTwo
  <1>4. c \in [TextSlots -> Nat]
    BY <1>1, <1>2, <1>3
  <1>5. Enlarged(im, slots) = [im EXCEPT !.capacity = c]
    BY <1>1 DEF Enlarged
  <1>6. /\ [im EXCEPT !.capacity = c] \in Images /\ [im EXCEPT !.capacity = c].value = im.value
        /\ [im EXCEPT !.capacity = c].size = im.size /\ [im EXCEPT !.capacity = c].version = im.version
        /\ [im EXCEPT !.capacity = c].capacity = c
    BY <1>4 DEF Images
  <1>. QED  BY <1>3, <1>5, <1>6

\* Each text that was cut gets a buffer it fits in.
LEMMA GrowIs ==
  ASSUME NEW im \in Images, NEW t
  PROVE  LET n == grow(im, t)
             flag == [client_key |-> 1, system_info_system_ip |-> 10, system_info_system_name |-> 11]
         IN  /\ n \in Images /\ n.value = im.value /\ n.size = im.size /\ n.version = im.version
             /\ \A s \in TextSlots :
                   n.capacity[s] = IF flag[s] \in t /\ im.size[s] > im.capacity[s] THEN im.size[s]
                                   ELSE im.capacity[s]
  <1>1. PICK key : key = Enlarged(im, IF 1 \in t THEN {"client_key"} ELSE {})
    OBVIOUS
  <1>2. PICK slots : slots = {s \in TextSlots : \/ s = "system_info_system_ip" /\ 10 \in t
                                                \/ s = "system_info_system_name" /\ 10 + 1 \in t}
    OBVIOUS
  <1>3. grow(im, t) = Enlarged(key, slots)
    BY <1>1, <1>2 DEF grow, MemoryGrow, CPUGrow, ProcessGrow, SystemInfoGrow
  <1>4. /\ key \in Images /\ key.value = im.value /\ key.size = im.size /\ key.version = im.version
        /\ \A s \in TextSlots :
              key.capacity[s] = IF s = "client_key" /\ 1 \in t /\ im.size[s] > im.capacity[s] THEN im.size[s]
                                ELSE im.capacity[s]
    BY <1>1, EnlargedIs
  <1>5. PICK n : n = Enlarged(key, slots)
    OBVIOUS
  <1>6. /\ n \in Images /\ n.value = key.value /\ n.size = key.size /\ n.version = key.version
        /\ \A s \in TextSlots :
              n.capacity[s] = IF s \in slots /\ key.size[s] > key.capacity[s] THEN key.size[s]
                              ELSE key.capacity[s]
    BY <1>4, <1>5, EnlargedIs
  <1>7. PICK flag : flag = [client_key |-> 1, system_info_system_ip |-> 10, system_info_system_name |-> 11]
    OBVIOUS
  <1>8. \A s \in TextSlots :
           n.capacity[s] = IF flag[s] \in t /\ im.size[s] > im.capacity[s] THEN im.size[s]
                           ELSE im.capacity[s]
    <2>1. flag["client_key"] = 1 /\ flag["system_info_system_ip"] = 10 /\ flag["system_info_system_name"] = 11
      BY <1>7
    <2>2. 10 + 1 = 11
      OBVIOUS
    <2>3. TextSlots = {"client_key", "system_info_system_ip", "system_info_system_name"}
      BY DEF TextSlots
    <2>. SUFFICES ASSUME NEW s \in TextSlots
                  PROVE  n.capacity[s] = IF flag[s] \in t /\ im.size[s] > im.capacity[s] THEN im.size[s]
                                         ELSE im.capacity[s]
      OBVIOUS
    <2>4. CASE s = "client_key"
      BY <1>2, <1>4, <1>6, <2>1, <2>4
    <2>5. CASE s = "system_info_system_ip"
      BY <1>2, <1>4, <1>6, <2>1, <2>5
    <2>6. CASE s = "system_info_system_name"
      BY <1>2, <1>4, <1>6, <2>1, <2>2, <2>6
    <2>. QED  BY <2>3, <2>4, <2>5, <2>6
  <1>. QED  BY <1>3, <1>4, <1>5, <1>6, <1>7, <1>8

\* The object goes into the image as it is.
LEMMA InitIs ==
  ASSUME NEW im \in Images, NEW o \in Objects
  PROVE  LET n == init(im, o)
         IN  n \in Images /\ n.version = im.version /\ Stored(n.value) = o
  <1>1. /\ im.value \in [Columns -> Cells] /\ im.size \in [TextSlots -> Nat]
        /\ im.capacity \in [TextSlots -> Nat] /\ im.version \in Nat
    BY DEF Images, FullRows
  <1>2. /\ o.client_key \in Seq(Nat) /\ o.system_info.system_ip \in Seq(Nat) /\ o.system_info.system_name \in Seq(Nat)
    BY StatementsAssumption
  <1>3. /\ Seq(Nat) \subseteq Cells
        /\ {o.memory.mem_total, o.memory.mem_available, o.memory.mem_free, o.cpu.idle_time, o.cpu.use_time,
            o.process.total, o.process.running, o.process.blocked, o.time_stamp} \subseteq Cells
    BY DEF Cells
  <1>4. PICK v : v = SystemInfoImage(ProcessImage(CPUImage(MemoryImage(
                        [im.value EXCEPT !.client_key = o.client_key, !.time_stamp = o.time_stamp],
                        o.memory), o.cpu), o.process), o.system_info)
    OBVIOUS
  <1>5. v = [im.value EXCEPT !.client_key = o.client_key, !.time_stamp = o.time_stamp,
               !.memory_mem_total = o.memory.mem_total, !.memory_mem_available = o.memory.mem_available,
               !.memory_mem_free = o.memory.mem_free, !.cpu_idle_time = o.cpu.idle_time,
               !.cpu_use_time = o.cpu.use_time, !.process_total = o.process.total,
               !.process_running = o.process.running, !.process_blocked = o.process.blocked,
               !.system_info_system_ip = o.system_info.system_ip,
               !.system_info_system_name = o.system_info.system_name]
    BY <1>4 DEF SystemInfoImage, ProcessImage, CPUImage, MemoryImage
  <1>6. /\ v \in [Columns -> Cells]
        /\ v.client_key = o.client_key /\ v.time_stamp = o.time_stamp
        /\ v.memory_mem_total = o.memory.mem_total /\ v.memory_mem_available = o.memory.mem_available
        /\ v.memory_mem_free = o.memory.mem_free
        /\ v.cpu_idle_time = o.cpu.idle_time /\ v.cpu_use_time = o.cpu.use_time
        /\ v.process_total = o.process.total /\ v.process_running = o.process.running
        /\ v.process_blocked = o.process.blocked
        /\ v.system_info_system_ip = o.system_info.system_ip
        /\ v.system_info_system_name = o.system_info.system_name
    BY <1>1, <1>2, <1>3, <1>5 DEF Columns
  <1>7. v \in FullRows
    BY <1>2, <1>6 DEF FullRows, TextSlots
  <1>8. Stored(v) = o
    BY <1>6, StatementsAssumption DEF Stored
  <1>9. [s \in TextSlots |-> Len(v[s])] \in [TextSlots -> Nat]
    BY <1>7 DEF FullRows
  <1>10. PICK m : m = [im EXCEPT !.value = v, !.size = [s \in TextSlots |-> Len(v[s])]]
    OBVIOUS
  <1>11. m \in Images /\ m.value = v /\ m.version = im.version
    BY <1>1, <1>7, <1>9, <1>10 DEF Images
  <1>12. init(im, o) = Enlarged(m, TextSlots)
    BY <1>4, <1>10 DEF init
  <1>. QED  BY <1>8, <1>11, <1>12, EnlargedIs

LEMMA ObjectIs == ASSUME NEW r PROVE object(r) = Stored(r)
  BY DEF object, Stored, MemoryValue, CPUValue, ProcessValue, SystemInfoValue

\* What a statement that is bound to the image sends is what is in it.
LEMMA RowIs ==
  ASSUME NEW im \in Images, NEW b, Binds(b, im, persist_statement)
  PROVE  /\ Row(im, persist_statement, b) = [c \in Own |-> im.value[c]]
         /\ Row(im, persist_statement, b) \in Rows
         /\ Stored(Row(im, persist_statement, b)) = Stored(im.value)
  <1>1. \A c \in Own : \E k \in DOMAIN persist_statement : persist_statement[k] = c
    BY InsertNames DEF ToSet
  <1>2. ASSUME NEW c \in Own
        PROVE  Sent(im, b[CHOOSE k \in DOMAIN persist_statement : persist_statement[k] = c]) = im.value[c]
    <2>1. PICK k : k = CHOOSE l \in DOMAIN persist_statement : persist_statement[l] = c
      OBVIOUS
    <2>2. k \in DOMAIN persist_statement /\ persist_statement[k] = c
      BY <1>1, <2>1
    <2>. QED  BY <2>1, <2>2 DEF Binds, Sent
  <1>3. Row(im, persist_statement, b) = [c \in Own |-> im.value[c]]
    <2>1. Row(im, persist_statement, b)
            = [c \in Own |-> Sent(im, b[CHOOSE k \in DOMAIN persist_statement : persist_statement[k] = c])]
      BY InsertNames, Zenon DEF Row
    <2>. QED  BY <1>2, <2>1, Zenon
  <1>4. im.value \in [Columns -> Cells] /\ \A s \in TextSlots : im.value[s] \in Seq(Nat)
    BY DEF Images, FullRows
  <1>5. [c \in Own |-> im.value[c]] \in Rows
    BY <1>4, TextsAre DEF Rows
  <1>6. Stored([c \in Own |-> im.value[c]]) = Stored(im.value)
    BY DEF Stored, Own, Columns
  <1>. QED  BY <1>3, <1>5, <1>6

-----------------------------------------------------------------------------
(* Rows into the image.                                                    *)

Flag == [client_key |-> 1, system_info_system_ip |-> 10, system_info_system_name |-> 11]

\* A text that does not fit is cut and its flag is set; the others are there
\* as they are in the row.
LEMMA FetchedIs ==
  ASSUME NEW im \in Images, NEW b, Binds(b, im, find_statement), NEW row \in FullRows
  PROVE  LET f == Fetched(im, find_statement, b, row)
         IN  /\ f.image \in Images /\ f.image.capacity = im.capacity /\ f.image.version = im.version
             /\ \A s \in TextSlots : f.image.size[s] = Len(row[s])
             /\ \A s \in TextSlots : Flag[s] \in f.cut <=> Len(row[s]) > im.capacity[s]
             /\ f.cut = {} <=> \A s \in TextSlots : Len(row[s]) <= im.capacity[s]
             /\ f.cut = {} => f.image.value = row
  <1>. DEFINE At(slot) == CHOOSE k \in DOMAIN b : b[k][1] = slot
              Cut(slot) == slot \in TextSlots /\ Len(row[find_statement[At(slot)]]) > b[At(slot)][2]
              Value(slot) ==
                 CASE slot \notin TextSlots -> row[find_statement[At(slot)]]
                   [] slot \in TextSlots /\ b[At(slot)][2] # im.capacity[slot] -> Freed
                   [] OTHER -> LET text == row[find_statement[At(slot)]]
                               IN  SubSeq(text, 1, Min({Len(text), b[At(slot)][2]}))
              cut == {At(slot) - 1 : slot \in {s \in DOMAIN im.value : Cut(s)}}
              img == [im EXCEPT !.value = [s \in DOMAIN @ |-> Value(s)],
                                !.size = [s \in TextSlots |-> Len(row[find_statement[At(s)]])]]
  <1>1. Fetched(im, find_statement, b, row) = [cut |-> cut, image |-> img]
    BY DEF Fetched
  <1>2. DOMAIN b = 1 .. 13 /\ \A k \in 1 .. 13 : /\ b[k][1] = find_statement[k]
                                                 /\ find_statement[k] \in TextSlots => b[k][2] = im.capacity[find_statement[k]]
    BY SelectNames DEF Binds
  <1>3. \A c \in Columns : \E k \in 1 .. 13 : find_statement[k] = c
    BY SelectNames DEF ToSet
  <1>4. ASSUME NEW c \in Columns
        PROVE  /\ At(c) \in 1 .. 13 /\ find_statement[At(c)] = c
               /\ c \in TextSlots => b[At(c)][2] = im.capacity[c]
    <2>1. \E k \in DOMAIN b : b[k][1] = c
      BY <1>2, <1>3
    <2>2. At(c) \in DOMAIN b /\ b[At(c)][1] = c
      BY <2>1
    <2>. HIDE DEF At
    <2>. QED  BY <1>2, <2>2
  <1>5. At("client_key") = 2 /\ At("system_info_system_ip") = 11 /\ At("system_info_system_name") = 12
    <2>1. /\ find_statement[2] = "client_key" /\ find_statement[11] = "system_info_system_ip"
          /\ find_statement[12] = "system_info_system_name"
      BY DEF find_statement
    <2>2. {"client_key", "system_info_system_ip", "system_info_system_name"} \subseteq Columns
      BY DEF Columns
    <2>. HIDE DEF At
    <2>. QED  BY <1>4, <2>1, <2>2, SelectNames
  <1>. HIDE DEF At
  <1>6. /\ im.value \in [Columns -> Cells] /\ im.capacity \in [TextSlots -> Nat] /\ im.size \in [TextSlots -> Nat]
        /\ im.version \in Nat /\ DOMAIN im.value = Columns
    BY DEF Images, FullRows
  <1>7. /\ row \in [Columns -> Cells] /\ \A s \in TextSlots : row[s] \in Seq(Nat) /\ Len(row[s]) \in Nat
    BY DEF FullRows
  <1>8. \A s \in TextSlots : Cut(s) <=> Len(row[s]) > im.capacity[s]
    BY <1>4, TextsAre
  <1>9. \A c \in Columns : Cut(c) => c \in TextSlots
    OBVIOUS
  <1>10. \A c \in Columns \ TextSlots : Value(c) = row[c]
    BY <1>4
  <1>11. ASSUME NEW s \in TextSlots
         PROVE  Value(s) \in Seq(Nat) /\ (Len(row[s]) <= im.capacity[s] => Value(s) = row[s])
    <2>1. Value(s) = SubSeq(row[s], 1, Min({Len(row[s]), im.capacity[s]}))
      BY <1>4, TextsAre
    <2>2. Min({Len(row[s]), im.capacity[s]}) = IF Len(row[s]) <= im.capacity[s] THEN Len(row[s]) ELSE im.capacity[s]
      BY <1>6, <1>7, MinOfTwo
    <2>3. PICK m : m = Min({Len(row[s]), im.capacity[s]})
      OBVIOUS
    <2>4. m \in 0 .. Len(row[s]) /\ (Len(row[s]) <= im.capacity[s] => m = Len(row[s]))
      BY <1>6, <1>7, <2>2, <2>3
    <2>5. SubSeq(row[s], 1, m) \in Seq(Nat)
      BY <1>7, <2>4
    <2>6. SubSeq(row[s], 1, Len(row[s])) = row[s]
      BY <1>7
    <2>. QED  BY <2>1, <2>3, <2>4, <2>5, <2>6
  <1>. HIDE DEF Value, Cut
  <1>12. PICK v : v = [s \in Columns |-> Value(s)]
    OBVIOUS
  <1>13. v \in FullRows
    <2>1. \A c \in Columns : v[c] \in Cells
      BY <1>7, <1>10, <1>11, <1>12 DEF Cells
    <2>. QED  BY <1>11, <1>12, <2>1, TextsAre DEF FullRows
  <1>14. PICK z : z = [s \in TextSlots |-> Len(row[find_statement[At(s)]])]
    OBVIOUS
  <1>15. z \in [TextSlots -> Nat] /\ \A s \in TextSlots : z[s] = Len(row[s])
    BY <1>4, <1>7, <1>14, TextsAre
  <1>16. img = [im EXCEPT !.value = v, !.size = z]
    BY <1>6, <1>12, <1>14
  <1>17. img \in Images /\ img.capacity = im.capacity /\ img.version = im.version /\ img.value = v /\ img.size = z
    BY <1>6, <1>13, <1>15, <1>16 DEF Images
  <1>18. cut = {At(s) - 1 : s \in {t \in TextSlots : Len(row[t]) > im.capacity[t]}}
    <2>1. {s \in DOMAIN im.value : Cut(s)} = {t \in TextSlots : Len(row[t]) > im.capacity[t]}
      BY <1>6, <1>8, <1>9, TextsAre
    <2>. QED  BY <2>1
  <1>. HIDE DEF cut, img
  <1>19. \A s \in TextSlots : At(s) - 1 = Flag[s]
    BY <1>5 DEF Flag, TextSlots
  <1>20. \A s, t \in TextSlots : Flag[s] = Flag[t] => s = t
    BY DEF Flag, TextSlots
  <1>21. \A s \in TextSlots : Flag[s] \in cut <=> Len(row[s]) > im.capacity[s]
    BY <1>18, <1>19, <1>20
  <1>22. cut = {} <=> \A s \in TextSlots : Len(row[s]) <= im.capacity[s]
    BY <1>6, <1>7, <1>18
  <1>23. cut = {} => v = row
    <2>1. cut = {} => \A c \in Columns : Value(c) = row[c]
      BY <1>10, <1>11, <1>22
    <2>. QED  BY <1>7, <1>12, <2>1
  <1>. QED  BY <1>1, <1>15, <1>17, <1>21, <1>22, <1>23

\* Whatever a select statement is bound to, it loads the row as it is: what
\* was cut at first fits when it is fetched again.
LEMMA LoadIs ==
  ASSUME NEW im \in Images, NEW select, Valid(select, im, "select"), NEW row \in FullRows
  PROVE  LET l == Load(im, select, find_statement, row)
         IN  /\ l.image \in Images /\ l.image.value = row
             /\ Valid(l.select, l.image, "select")
             /\ \A b, kind : Valid(b, im, kind) => Valid(b, l.image, kind)
  <1>1. PICK b : b = Bound(select, im, "select")
    OBVIOUS
  <1>2. PICK first : first = Fetched(im, find_statement, b.to, row)
    OBVIOUS
  <1>3. PICK larger : larger = Versioned(first.image, grow(first.image, first.cut))
    OBVIOUS
  <1>4. PICK again : again = Bound(b, larger, "select")
    OBVIOUS
  <1>5. Load(im, select, find_statement, row)
          = IF first.cut = {} \/ larger.version = b.seen THEN [image |-> larger, select |-> b]
            ELSE [image |-> Fetched(larger, find_statement, again.to, row).image, select |-> again]
    BY <1>1, <1>2, <1>3, <1>4 DEF Load
  <1>6. im.version \in Nat /\ im.capacity \in [TextSlots -> Nat] /\ im.size \in [TextSlots -> Nat]
    BY DEF Images
  <1>7. b.to = bind(im, "select") /\ b.seen = im.version /\ Valid(b, im, "select")
    BY <1>1, <1>6, BoundIs
  <1>8. /\ first.image \in Images /\ first.image.capacity = im.capacity /\ first.image.version = im.version
        /\ \A s \in TextSlots : first.image.size[s] = Len(row[s])
        /\ \A s \in TextSlots : Flag[s] \in first.cut <=> Len(row[s]) > im.capacity[s]
        /\ first.cut = {} <=> \A s \in TextSlots : Len(row[s]) <= im.capacity[s]
        /\ first.cut = {} => first.image.value = row
    <2>1. PICK t : t = b.to
      OBVIOUS
    <2>2. Binds(t, im, find_statement)
      BY <1>6, <1>7, <2>1, SelectBinds
    <2>3. first = Fetched(im, find_statement, t, row)
      BY <1>2, <2>1
    <2>. QED  BY <2>2, <2>3, FetchedIs
  <1>9. PICK g : g = grow(first.image, first.cut)
    OBVIOUS
  <1>10. /\ g \in Images /\ g.value = first.image.value /\ g.size = first.image.size
         /\ g.version = im.version
         /\ \A s \in TextSlots :
               g.capacity[s] = IF Flag[s] \in first.cut /\ first.image.size[s] > first.image.capacity[s]
                               THEN first.image.size[s] ELSE first.image.capacity[s]
    BY <1>8, <1>9, GrowIs DEF Flag
  <1>11. \A s \in TextSlots : Len(row[s]) \in Nat /\ im.capacity[s] \in Nat
    BY <1>6 DEF FullRows
  <1>12. \A s \in TextSlots : g.capacity[s] = IF Len(row[s]) > im.capacity[s] THEN Len(row[s]) ELSE im.capacity[s]
    BY <1>8, <1>10
  <1>13. \A kept, kind : Valid(kept, im, kind) => Valid(kept, first.image, kind)
    <2>1. \A kind : bind(im, kind) = bind(first.image, kind)
      BY <1>8 DEF bind, Text, SystemInfoBind
    <2>. QED  BY <1>8, <2>1 DEF Valid
  <1>14. /\ larger \in Images /\ larger.value = g.value /\ larger.capacity = g.capacity
         /\ first.image.capacity # g.capacity => larger.version # im.version
         /\ \A kept, kind : Valid(kept, im, kind) => Valid(kept, larger, kind)
    BY <1>3, <1>6, <1>8, <1>9, <1>10, <1>13, VersionIs
  <1>15. CASE first.cut = {}
    BY <1>5, <1>7, <1>8, <1>10, <1>14, <1>15
  <1>16. CASE first.cut # {}
    <2>1. PICK s \in TextSlots : Len(row[s]) > im.capacity[s]
      BY <1>8, <1>11, <1>16
    <2>2. g.capacity[s] # first.image.capacity[s]
      BY <1>8, <1>11, <1>12, <2>1
    <2>3. larger.version # b.seen
      BY <1>7, <1>14, <2>2
    <2>4. larger.version \in Nat /\ larger.capacity \in [TextSlots -> Nat] /\ Valid(b, larger, "select")
      BY <1>7, <1>14 DEF Images
    <2>5. again.to = bind(larger, "select") /\ Valid(again, larger, "select")
      BY <1>4, <2>4, BoundIs
    <2>6. PICK second : second = Fetched(larger, find_statement, again.to, row)
      OBVIOUS
    <2>7. /\ second.image \in Images /\ second.image.capacity = larger.capacity
          /\ second.image.version = larger.version
          /\ second.cut = {} <=> \A t \in TextSlots : Len(row[t]) <= larger.capacity[t]
          /\ second.cut = {} => second.image.value = row
      BY <1>14, <2>4, <2>5, <2>6, SelectBinds, FetchedIs
    <2>8. second.image.value = row
      BY <1>11, <1>12, <1>14, <2>7
    <2>9. \A kept, kind : Valid(kept, larger, kind) => Valid(kept, second.image, kind)
      <3>1. \A kind : bind(larger, kind) = bind(second.image, kind)
        BY <2>7 DEF bind, Text, SystemInfoBind
      <3>. QED  BY <2>7, <3>1 DEF Valid
    <2>10. PICK l : l = Load(im, select, find_statement, row)
      OBVIOUS
    <2>11. l.image = second.image /\ l.select = again
      BY <1>5, <1>16, <2>3, <2>6, <2>10
    <2>. QED  BY <1>14, <2>5, <2>7, <2>8, <2>9, <2>10, <2>11
  <1>. QED  BY <1>15, <1>16

-----------------------------------------------------------------------------
(* What the refinement rests on: every row is one, and no statement takes  *)
(* the binding of another version of the image for its own.                *)

Kinds == {"insert", "update", "select"}

Statements(st, im) ==
    /\ st = [insert |-> st.insert, update |-> st.update, select |-> st.select]
    /\ \A kind \in Kinds : Valid(st[kind], im, kind)

IInv ==
    /\ image \in Images
    /\ Statements(sts, image)
    /\ used \in Nat
    /\ IsFiniteSet(DOMAIN table) /\ DOMAIN table \subseteq Nat /\ table \in [DOMAIN table -> Rows]
    /\ rows \in Seq(FullRows)

LEMMA NewStatements == NoImage \in Images /\ Statements(Unprepared, NoImage)
  <1>1. /\ << >> \in Seq(Nat) /\ 0 \in Nat /\ Seq(Nat) \subseteq Cells /\ Nat \subseteq Cells
        /\ Capacity \in Nat
    BY StatementsAssumption DEF Cells
  <1>2. PICK v : v = [s \in Columns |-> IF s \in TextSlots THEN << >> ELSE 0]
    OBVIOUS
  <1>3. v \in FullRows
    BY <1>1, <1>2, TextsAre DEF FullRows
  <1>4. NoImage = [value |-> v, size |-> [s \in TextSlots |-> 0],
                   capacity |-> [s \in TextSlots |-> Capacity], version |-> 0]
    BY <1>2, SelectNames DEF NoImage
  <1>5. NoImage \in Images
    BY <1>1, <1>3, <1>4 DEF Images
  <1>6. /\ Unprepared = [insert |-> Unprepared.insert, update |-> Unprepared.update, select |-> Unprepared.select]
        /\ \A kind \in Kinds : Unprepared[kind] = NoBinding
    BY DEF Unprepared, Kinds
  <1>7. \A kind : Valid(NoBinding, NoImage, kind)
    BY <1>4 DEF Valid, NoBinding
  <1>. QED  BY <1>5, <1>6, <1>7 DEF Statements

\* A statement that is bound anew leaves the others as they are.
LEMMA Rebound ==
  ASSUME NEW st, NEW im, Statements(st, im), NEW kind \in Kinds, NEW b, Valid(b, im, kind)
  PROVE  Statements([st EXCEPT ![kind] = b], im)
  <1>1. PICK new : new = [st EXCEPT ![kind] = b]
    OBVIOUS
  <1>2. st = [insert |-> st.insert, update |-> st.update, select |-> st.select]
    BY DEF Statements
  <1>3. new = [insert |-> new.insert, update |-> new.update, select |-> new.select]
    BY <1>1, <1>2
  <1>4. DOMAIN st = Kinds
    BY <1>2 DEF Kinds
  <1>5. \A k \in Kinds : new[k] = IF k = kind THEN b ELSE st[k]
    BY <1>1, <1>4
  <1>6. \A k \in Kinds : Valid(new[k], im, k)
    BY <1>5 DEF Statements
  <1>. QED  BY <1>1, <1>3, <1>6 DEF Statements

LEMMA Carried ==
  ASSUME NEW st, NEW im, Statements(st, im), NEW n,
         \A b, kind : Valid(b, im, kind) => Valid(b, n, kind)
  PROVE  Statements(st, n)
  BY DEF Statements

LEMMA ValidOf ==
  ASSUME NEW st, NEW im, Statements(st, im)
  PROVE  Valid(st.insert, im, "insert") /\ Valid(st.update, im, "update") /\ Valid(st.select, im, "select")
  BY DEF Statements, Kinds

-----------------------------------------------------------------------------
(* The table and its objects.                                              *)

LEMMA WithIs ==
  ASSUME NEW t, NEW id, NEW r
  PROVE  [k \in DOMAIN With(t, id, r) |-> Stored(With(t, id, r)[k])]
            = Store!With([k \in DOMAIN t |-> Stored(t[k])], id, Stored(r))
  BY DEF With, Store!With

LEMMA ExceptIs ==
  ASSUME NEW t, NEW ids
  PROVE  [k \in DOMAIN Except(t, ids) |-> Stored(Except(t, ids)[k])]
            = Store!Except([k \in DOMAIN t |-> Stored(t[k])], ids)
  BY DEF Except, Store!Except

LEMMA MatchingIs ==
  ASSUME NEW key
  PROVE  Store!Matching(key) = Matching(key)
  BY DEF Store!Matching, Matching, Stored

\* A table stays one when a row is put in or taken out.
Table(t) == IsFiniteSet(DOMAIN t) /\ DOMAIN t \subseteq Nat /\ t \in [DOMAIN t -> Rows]

LEMMA WithKeeps ==
  ASSUME NEW t, Table(t), NEW id \in Nat, NEW r \in Rows
  PROVE  Table(With(t, id, r))
  <1>1. DOMAIN With(t, id, r) = DOMAIN t \cup {id}
    BY DEF With
  <1>2. IsFiniteSet(DOMAIN t \cup {id})
    BY FS_AddElement DEF Table
  <1>3. \A k \in DOMAIN t \cup {id} : With(t, id, r)[k] \in Rows
    BY DEF With, Table
  <1>4. With(t, id, r) \in [DOMAIN t \cup {id} -> Rows]
    BY <1>3 DEF With
  <1>. QED  BY <1>1, <1>2, <1>4 DEF Table

LEMMA ExceptKeeps ==
  ASSUME NEW t, Table(t), NEW ids
  PROVE  Table(Except(t, ids))
  <1>1. DOMAIN Except(t, ids) = DOMAIN t \ ids
    BY DEF Except
  <1>2. IsFiniteSet(DOMAIN t \ ids)
    BY FS_Subset DEF Table
  <1>3. Except(t, ids) \in [DOMAIN t \ ids -> Rows]
    BY DEF Except, Table
  <1>. QED  BY <1>1, <1>2, <1>3 DEF Table

\* What the database sends is the row with its id.
LEMMA WithIdIs ==
  ASSUME Table(table), NEW id \in DOMAIN table
  PROVE  WithId(id) \in FullRows /\ WithId(id).id = id /\ Stored(WithId(id)) = Stored(table[id])
  <1>1. WithId(id) = [c \in Columns |-> IF c = "id" THEN id ELSE table[id][c]]
    BY SelectNames DEF WithId
  <1>2. table[id] \in [Own -> Cells] /\ (\A s \in TextSlots : table[id][s] \in Seq(Nat)) /\ id \in Cells
    BY DEF Table, Rows, Cells
  <1>3. WithId(id) \in FullRows
    BY <1>1, <1>2, TextsAre DEF FullRows, Own
  <1>4. WithId(id).id = id
    BY <1>1, TextsAre
  <1>5. Stored(WithId(id)) = Stored(table[id])
    BY <1>1 DEF Stored, Columns
  <1>. QED  BY <1>3, <1>4, <1>5

-----------------------------------------------------------------------------
(* The calls.                                                              *)

LEMMA FailedIs == ASSUME Failed PROVE Store!Fail
  BY DEF Failed, Store!Fail

\* An object that is stored or updated gets into the image, and from there
\* into its row, as it is.
LEMMA ImageOf ==
  ASSUME IInv, NEW o \in Objects, NEW kind \in {"insert", "update"}
  PROVE  LET im == Versioned(image, init(image, o))
             b  == Bound(sts[kind], im, kind)
         IN  /\ im \in Images /\ Statements([sts EXCEPT ![kind] = b], im)
             /\ Row(im, persist_statement, b.to) \in Rows
             /\ Stored(Row(im, persist_statement, b.to)) = o
  <1>1. PICK n : n = init(image, o)
    OBVIOUS
  <1>2. image \in Images /\ image.version \in Nat /\ Statements(sts, image)
    BY DEF IInv, Images
  <1>3. n \in Images /\ n.version = image.version /\ Stored(n.value) = o
    BY <1>1, <1>2, InitIs
  <1>4. PICK im : im = Versioned(image, n)
    OBVIOUS
  <1>5. /\ im \in Images /\ im.value = n.value
        /\ \A b, k : Valid(b, image, k) => Valid(b, im, k)
    BY <1>2, <1>3, <1>4, VersionIs
  <1>6. Statements(sts, im)
    BY <1>2, <1>5, Carried
  <1>7. kind \in Kinds /\ Valid(sts[kind], im, kind)
    BY <1>6 DEF Statements, Kinds
  <1>8. PICK b : b = Bound(sts[kind], im, kind)
    OBVIOUS
  <1>9. b.to = bind(im, kind) /\ Valid(b, im, kind)
    BY <1>5, <1>7, <1>8, BoundIs DEF Images
  <1>10. Statements([sts EXCEPT ![kind] = b], im)
    BY <1>6, <1>7, <1>9, Rebound
  <1>11. PICK t : t = b.to
    OBVIOUS
  <1>12. Binds(t, im, persist_statement)
    BY <1>5, <1>9, <1>11, InsertBinds DEF Images
  <1>13. Row(im, persist_statement, t) \in Rows /\ Stored(Row(im, persist_statement, t)) = o
    BY <1>3, <1>5, <1>12, RowIs
  <1>. QED  BY <1>1, <1>4, <1>5, <1>8, <1>10, <1>11, <1>13

LEMMA PersistStep ==
  ASSUME IInv, NEW o \in Objects, persist(o)
  PROVE  IInv' /\ (Store!Fail \/ Store!Persist(o))
  <1>1. PICK im : im = Versioned(image, init(image, o))
    OBVIOUS
  <1>2. PICK b : b = Bound(sts.insert, im, "insert")
    OBVIOUS
  <1>3. PICK r : r = Row(im, persist_statement, b.to)
    OBVIOUS
  <1>4. /\ im \in Images /\ Statements([sts EXCEPT !.insert = b], im) /\ r \in Rows /\ Stored(r) = o
    BY <1>1, <1>2, <1>3, ImageOf
  <1>5. /\ image' = im /\ sts' = [sts EXCEPT !.insert = b]
        /\ \/ Failed
           \/ /\ used < MaxId /\ used' = used + 1 /\ table' = With(table, used + 1, r)
              /\ answer' = <<"id", used + 1>> /\ rows' = rows
    BY <1>1, <1>2, <1>3 DEF persist
  <1>6. image' \in Images /\ Statements(sts', image')
    BY <1>4, <1>5
  <1>7. CASE Failed
    <2>1. table' = table /\ used' = used /\ rows' = rows
      BY <1>7 DEF Failed
    <2>. QED  BY <1>6, <1>7, <2>1, FailedIs DEF IInv
  <1>8. CASE /\ used < MaxId /\ used' = used + 1 /\ table' = With(table, used + 1, r)
             /\ answer' = <<"id", used + 1>> /\ rows' = rows
    <2>1. Table(table) /\ used + 1 \in Nat
      BY DEF IInv, Table
    <2>2. Table(table')
      BY <1>4, <1>8, <2>1, WithKeeps
    <2>3. IInv'
      BY <1>6, <1>8, <2>1, <2>2 DEF IInv, Table
    <2>4. [k \in DOMAIN table' |-> Stored(table'[k])]
            = Store!With([k \in DOMAIN table |-> Stored(table[k])], used + 1, o)
      BY <1>4, <1>8, WithIs
    <2>5. Store!Persist(o)
      BY <1>8, <2>4 DEF Store!Persist
    <2>. QED  BY <2>3, <2>5
  <1>. QED  BY <1>5, <1>7, <1>8

LEMMA UpdateStep ==
  ASSUME IInv, NEW id \in 1 .. MaxId, NEW o \in Objects, update(id, o)
  PROVE  IInv' /\ (Store!Fail \/ Store!Update(id, o) \/ Store!NotThere(id))
  <1>1. PICK im : im = Versioned(image, init(image, o))
    OBVIOUS
  <1>2. PICK b : b = Bound(sts.update, im, "update")
    OBVIOUS
  <1>3. PICK r : r = Row(im, persist_statement, b.to)
    OBVIOUS
  <1>4. /\ im \in Images /\ Statements([sts EXCEPT !.update = b], im) /\ r \in Rows /\ Stored(r) = o
    BY <1>1, <1>2, <1>3, ImageOf
  <1>5. /\ image' = im /\ sts' = [sts EXCEPT !.update = b]
        /\ \/ Failed
           \/ /\ id \in DOMAIN table /\ answer' = Nothing /\ table' = With(table, id, r)
              /\ UNCHANGED <<used, rows>>
           \/ id \notin DOMAIN table /\ answer' = <<"not persistent">> /\ UNCHANGED <<table, used, rows>>
    BY <1>1, <1>2, <1>3, InsertNames DEF update
  <1>6. image' \in Images /\ Statements(sts', image')
    BY <1>4, <1>5
  <1>7. CASE UNCHANGED <<table, used, rows>>
    <2>1. IInv'
      BY <1>6, <1>7 DEF IInv
    <2>2. CASE Failed
      BY <2>1, <2>2, FailedIs
    <2>3. CASE id \notin DOMAIN table /\ answer' = <<"not persistent">>
      BY <1>7, <2>1, <2>3 DEF Store!NotThere
    <2>4. CASE id \in DOMAIN table /\ answer' = Nothing /\ table' = With(table, id, r)
      <3>1. [k \in DOMAIN table' |-> Stored(table'[k])]
              = Store!With([k \in DOMAIN table |-> Stored(table[k])], id, o)
        BY <1>4, <2>4, WithIs
      <3>. QED  BY <1>7, <2>1, <2>4, <3>1 DEF Store!Update, Nothing, Store!Nothing
    <2>. QED  BY <1>5, <2>2, <2>3, <2>4
  <1>8. CASE id \in DOMAIN table /\ answer' = Nothing /\ table' = With(table, id, r) /\ UNCHANGED <<used, rows>>
    <2>1. Table(table) /\ id \in Nat
      BY DEF IInv, Table
    <2>2. Table(table')
      BY <1>4, <1>8, <2>1, WithKeeps
    <2>3. IInv'
      BY <1>6, <1>8, <2>2 DEF IInv, Table
    <2>4. [k \in DOMAIN table' |-> Stored(table'[k])]
            = Store!With([k \in DOMAIN table |-> Stored(table[k])], id, o)
      BY <1>4, <1>8, WithIs
    <2>. QED  BY <1>8, <2>3, <2>4 DEF Store!Update, Nothing, Store!Nothing
  <1>. QED  BY <1>5, <1>7, <1>8 DEF Failed

LEMMA EraseStep ==
  ASSUME IInv, NEW id \in 1 .. MaxId, erase(id)
  PROVE  IInv' /\ (Store!Fail \/ Store!Erase(id) \/ Store!NotThere(id))
  <1>1. /\ UNCHANGED <<image, sts>>
        /\ \/ Failed
           \/ /\ id \in DOMAIN table /\ answer' = Nothing /\ table' = Except(table, {id})
              /\ UNCHANGED <<used, rows>>
           \/ id \notin DOMAIN table /\ answer' = <<"not persistent">> /\ UNCHANGED <<table, used, rows>>
    BY DEF erase
  <1>2. CASE Failed
    BY <1>1, <1>2, FailedIs DEF IInv, Failed
  <1>3. CASE id \in DOMAIN table /\ answer' = Nothing /\ table' = Except(table, {id}) /\ UNCHANGED <<used, rows>>
    <2>1. Table(table')
      BY <1>3, ExceptKeeps DEF IInv, Table
    <2>2. IInv'
      BY <1>1, <1>3, <2>1 DEF IInv, Table
    <2>3. [k \in DOMAIN table' |-> Stored(table'[k])]
            = Store!Except([k \in DOMAIN table |-> Stored(table[k])], {id})
      BY <1>3, ExceptIs
    <2>. QED  BY <1>3, <2>2, <2>3 DEF Store!Erase, Nothing, Store!Nothing
  <1>4. CASE id \notin DOMAIN table /\ answer' = <<"not persistent">> /\ UNCHANGED <<table, used, rows>>
    BY <1>1, <1>4 DEF IInv, Store!NotThere
  <1>. QED  BY <1>1, <1>2, <1>3, <1>4

LEMMA SelectRebound ==
  ASSUME IInv, image' = image, sts' = [sts EXCEPT !.select = Bound(sts.select, image, "select")]
  PROVE  image' \in Images /\ Statements(sts', image')
  <1>1. PICK b : b = Bound(sts.select, image, "select")
    OBVIOUS
  <1>2. image \in Images /\ image.version \in Nat /\ Statements(sts, image) /\ "select" \in Kinds
    BY DEF IInv, Images, Kinds
  <1>3. Valid(b, image, "select")
    BY <1>1, <1>2, ValidOf, BoundIs
  <1>4. sts' = [sts EXCEPT !["select"] = b]
    BY <1>1
  <1>. QED  BY <1>2, <1>3, <1>4, Rebound

\* A row that is loaded is in the image, and the bindings are as good as
\* before.
LEMMA Loaded ==
  ASSUME IInv, NEW row \in FullRows,
         image' = Load(image, sts.select, find_statement, row).image,
         sts' = [sts EXCEPT !.select = Load(image, sts.select, find_statement, row).select]
  PROVE  image' \in Images /\ Statements(sts', image') /\ image'.value = row
  <1>1. PICK l : l = Load(image, sts.select, find_statement, row)
    OBVIOUS
  <1>2. PICK b : b = l.select
    OBVIOUS
  <1>3. image \in Images /\ Statements(sts, image) /\ Valid(sts.select, image, "select") /\ "select" \in Kinds
    BY ValidOf DEF IInv, Kinds
  <1>4. /\ l.image \in Images /\ l.image.value = row /\ Valid(b, l.image, "select")
        /\ \A kept, kind : Valid(kept, image, kind) => Valid(kept, l.image, kind)
    BY <1>1, <1>2, <1>3, LoadIs
  <1>5. Statements(sts, l.image)
    BY <1>3, <1>4, Carried
  <1>6. sts' = [sts EXCEPT !["select"] = b] /\ image' = l.image
    BY <1>1, <1>2
  <1>. QED  BY <1>3, <1>4, <1>5, <1>6, Rebound

LEMMA FindStep ==
  ASSUME IInv, NEW id \in 1 .. MaxId, find(id)
  PROVE  IInv' /\ (Store!Fail \/ Store!Find(id))
  <1>1. \/ Failed /\ image' = image /\ sts' = [sts EXCEPT !.select = Bound(sts.select, image, "select")]
        \/ /\ find_(id) /\ UNCHANGED <<table, used, rows>>
           /\ answer' = IF id \in DOMAIN table THEN <<"object", image'.value.id, object(image'.value)>>
                        ELSE <<"absent">>
    BY DEF find
  <1>2. CASE Failed /\ image' = image /\ sts' = [sts EXCEPT !.select = Bound(sts.select, image, "select")]
    BY <1>2, SelectRebound, FailedIs DEF IInv, Failed
  <1>3. CASE /\ find_(id) /\ UNCHANGED <<table, used, rows>>
             /\ answer' = IF id \in DOMAIN table THEN <<"object", image'.value.id, object(image'.value)>>
                          ELSE <<"absent">>
    <2>1. CASE id \in DOMAIN table
      <3>1. WithId(id) \in FullRows /\ WithId(id).id = id /\ Stored(WithId(id)) = Stored(table[id])
        BY <2>1, WithIdIs DEF IInv, Table
      <3>2. /\ image' = Load(image, sts.select, find_statement, WithId(id)).image
            /\ sts' = [sts EXCEPT !.select = Load(image, sts.select, find_statement, WithId(id)).select]
        BY <1>3, <2>1 DEF find_
      <3>3. image' \in Images /\ Statements(sts', image') /\ image'.value = WithId(id)
        BY <3>1, <3>2, Loaded
      <3>4. IInv'
        BY <1>3, <3>3 DEF IInv
      <3>5. answer' = <<"object", id, Stored(table[id])>>
        BY <1>3, <2>1, <3>1, <3>3, ObjectIs
      <3>6. Store!Find(id)
        BY <1>3, <2>1, <3>5 DEF Store!Find
      <3>. QED  BY <3>4, <3>6
    <2>2. CASE id \notin DOMAIN table
      <3>1. image' = image /\ sts' = [sts EXCEPT !.select = Bound(sts.select, image, "select")]
        BY <1>3, <2>2 DEF find_
      <3>2. IInv'
        BY <1>3, <3>1, SelectRebound DEF IInv
      <3>3. Store!Find(id)
        BY <1>3, <2>2 DEF Store!Find
      <3>. QED  BY <3>2, <3>3
    <2>. QED  BY <2>1, <2>2
  <1>. QED  BY <1>1, <1>2, <1>3

LEMMA CardinalityIs ==
  ASSUME NEW S
  PROVE  Store!Cardinality(S) = Cardinality(S)
  BY DEF Store!Cardinality, Cardinality

LEMMA SetToSeqsIs ==
  ASSUME NEW S
  PROVE  Store!SetToSeqs(S) = SetToSeqs(S)
  BY CardinalityIs DEF Store!SetToSeqs, SetToSeqs

LEMMA QueryStep ==
  ASSUME IInv, NEW key, query(key)
  PROVE  IInv' /\ (Store!Fail \/ Store!Query(key))
  <1>1. /\ sts' = [sts EXCEPT !.select = Bound(sts.select, image, "select")] /\ image' = image
        /\ \/ Failed
           \/ /\ rows' \in {[i \in DOMAIN order |-> WithId(order[i])] : order \in SetToSeqs(Matching(key))}
              /\ answer' = Nothing /\ UNCHANGED <<table, used>>
    BY DEF query
  <1>2. image' \in Images /\ Statements(sts', image')
    BY <1>1, SelectRebound
  <1>3. CASE Failed
    BY <1>2, <1>3, FailedIs DEF IInv, Failed
  <1>4. CASE /\ rows' \in {[i \in DOMAIN order |-> WithId(order[i])] : order \in SetToSeqs(Matching(key))}
             /\ answer' = Nothing /\ UNCHANGED <<table, used>>
    <2>1. PICK order \in SetToSeqs(Matching(key)) : rows' = [i \in DOMAIN order |-> WithId(order[i])]
      BY <1>4
    <2>2. Matching(key) \subseteq DOMAIN table
      BY DEF Matching
    <2>3. PICK n \in Nat : n = Cardinality(Matching(key))
      BY <2>2, FS_Subset, FS_CardinalityType DEF IInv
    <2>4. order \in [1 .. n -> Matching(key)]
      BY <2>1, <2>3 DEF SetToSeqs
    <2>5. \A i \in 1 .. n : /\ order[i] \in DOMAIN table /\ WithId(order[i]) \in FullRows
                            /\ WithId(order[i]).id = order[i]
                            /\ Stored(WithId(order[i])) = Stored(table[order[i]])
      BY <2>2, <2>4, WithIdIs DEF IInv, Table
    <2>6. DOMAIN order = 1 .. n
      BY <2>4
    <2>7. rows' = [i \in 1 .. n |-> WithId(order[i])]
      BY <2>1, <2>6
    <2>8. rows' \in Seq(FullRows)
      BY <2>5, <2>7
    <2>9. IInv'
      BY <1>2, <1>4, <2>8 DEF IInv
    <2>10. [i \in DOMAIN rows' |-> <<rows'[i].id, Stored(rows'[i])>>]
             = [i \in DOMAIN order |-> <<order[i], [k \in DOMAIN table |-> Stored(table[k])][order[i]]>>]
      BY <2>5, <2>6, <2>7
    <2>11. order \in Store!SetToSeqs(Store!Matching(key))
      BY <2>1, MatchingIs, SetToSeqsIs
    <2>12. Store!Query(key)
      BY <1>4, <2>10, <2>11 DEF Store!Query, Nothing, Store!Nothing
    <2>. QED  BY <2>9, <2>12
  <1>. QED  BY <1>1, <1>3, <1>4

LEMMA NextRowStep ==
  ASSUME IInv, Next_row
  PROVE  IInv' /\ Store!Read
  <1>1. /\ rows # << >> /\ rows' = Tail(rows)
        /\ image' = Load(image, sts.select, find_statement, rows[1]).image
        /\ sts' = [sts EXCEPT !.select = Load(image, sts.select, find_statement, rows[1]).select]
        /\ answer' = <<"object", image'.value.id, object(image'.value)>>
        /\ UNCHANGED <<table, used>>
    BY SelectNames DEF Next_row
  <1>2. rows \in Seq(FullRows) /\ rows[1] \in FullRows /\ Len(rows) \in Nat /\ Len(rows) >= 1
    BY <1>1 DEF IInv
  <1>3. image' \in Images /\ Statements(sts', image') /\ image'.value = rows[1]
    BY <1>1, <1>2, Loaded
  <1>4. rows' \in Seq(FullRows)
    BY <1>1, <1>2
  <1>5. IInv'
    BY <1>1, <1>3, <1>4 DEF IInv
  <1>6. PICK r : r = [i \in DOMAIN rows |-> <<rows[i].id, Stored(rows[i])>>]
    OBVIOUS
  <1>7. PICK S : S = {<<rows[i].id, Stored(rows[i])>> : i \in DOMAIN rows}
    OBVIOUS
  <1>8. r \in Seq(S) /\ Len(r) = Len(rows) /\ r # << >>
    BY <1>2, <1>6, <1>7
  <1>9. /\ rows' \in Seq(FullRows) /\ Len(rows') = Len(rows) - 1
        /\ \A i \in 1 .. Len(rows) - 1 : rows'[i] = rows[i + 1]
    BY <1>1, <1>2, HeadTailProperties
  <1>10. /\ Tail(r) \in Seq(S) /\ Len(Tail(r)) = Len(rows) - 1
         /\ \A i \in 1 .. Len(rows) - 1 : Tail(r)[i] = r[i + 1]
    BY <1>8, HeadTailProperties
  <1>11. [i \in DOMAIN rows' |-> <<rows'[i].id, Stored(rows'[i])>>] = Tail(r)
    <2>1. PICK t : t = [i \in DOMAIN rows' |-> <<rows'[i].id, Stored(rows'[i])>>]
      OBVIOUS
    <2>2. DOMAIN rows' = 1 .. Len(rows) - 1 /\ DOMAIN Tail(r) = 1 .. Len(rows) - 1
      BY <1>9, <1>10
    <2>3. \A i \in 1 .. Len(rows) - 1 : i + 1 \in DOMAIN rows
      BY <1>2
    <2>4. \A i \in 1 .. Len(rows) - 1 : t[i] = Tail(r)[i]
      BY <1>6, <1>9, <1>10, <2>1, <2>2, <2>3
    <2>5. t = [i \in 1 .. Len(rows) - 1 |-> t[i]]
      BY <2>1, <2>2
    <2>6. \A u \in Seq(S) : u = [i \in 1 .. Len(u) |-> u[i]]
      OBVIOUS
    <2>7. Tail(r) = [i \in 1 .. Len(rows) - 1 |-> Tail(r)[i]]
      BY <1>10, <2>6
    <2>. QED  BY <2>1, <2>4, <2>5, <2>7
  <1>12. answer' = <<"object", r[1][1], r[1][2]>>
    <2>1. r[1] = <<rows[1].id, Stored(rows[1])>>
      BY <1>2, <1>6
    <2>. QED  BY <1>1, <1>3, <2>1, ObjectIs
  <1>13. Store!Read
    BY <1>1, <1>6, <1>8, <1>11, <1>12 DEF Store!Read
  <1>. QED  BY <1>5, <1>13

LEMMA EraseQueryStep ==
  ASSUME IInv, NEW key, erase_query(key)
  PROVE  IInv' /\ (Store!Fail \/ Store!EraseQuery(key))
  <1>1. /\ UNCHANGED <<image, sts>>
        /\ \/ Failed
           \/ /\ table' = Except(table, Matching(key)) /\ UNCHANGED <<used, rows>>
              /\ answer' = <<"erased", Cardinality(Matching(key))>>
    BY DEF erase_query
  <1>2. CASE Failed
    BY <1>1, <1>2, FailedIs DEF IInv, Failed
  <1>3. CASE /\ table' = Except(table, Matching(key)) /\ UNCHANGED <<used, rows>>
             /\ answer' = <<"erased", Cardinality(Matching(key))>>
    <2>1. Table(table')
      BY <1>3, ExceptKeeps DEF IInv, Table
    <2>2. IInv'
      BY <1>1, <1>3, <2>1 DEF IInv, Table
    <2>3. [k \in DOMAIN table' |-> Stored(table'[k])]
            = Store!Except([k \in DOMAIN table |-> Stored(table[k])], Store!Matching(key))
      BY <1>3, ExceptIs, MatchingIs
    <2>4. answer' = <<"erased", Store!Cardinality(Store!Matching(key))>>
      BY <1>3, MatchingIs, CardinalityIs
    <2>5. Store!EraseQuery(key)
      BY <1>3, <2>3, <2>4 DEF Store!EraseQuery
    <2>. QED  BY <2>2, <2>5
  <1>. QED  BY <1>1, <1>2, <1>3

LEMMA ConnectStep ==
  ASSUME IInv, Connect
  PROVE  IInv' /\ Store!Connect
  <1>1. /\ rows' = << >> /\ answer' = Nothing /\ image' = NoImage /\ sts' = Unprepared
        /\ UNCHANGED <<table, used>>
    BY DEF Connect
  <1>2. IInv'
    BY <1>1, NewStatements DEF IInv
  <1>3. [i \in DOMAIN rows' |-> <<rows'[i].id, Stored(rows'[i])>>] = << >>
    BY <1>1
  <1>4. Store!Connect
    BY <1>1, <1>3 DEF Store!Connect, Nothing, Store!Nothing
  <1>. QED  BY <1>2, <1>4

-----------------------------------------------------------------------------
LEMMA Start ==
  ASSUME StatementsInit
  PROVE  IInv /\ Store!Init
  <1>1. /\ table = [id \in {} |-> 0] /\ used = 0 /\ rows = << >> /\ answer = Nothing
        /\ image = NoImage /\ sts = Unprepared
    BY DEF StatementsInit
  <1>2. DOMAIN table = {} /\ table \in [{} -> Rows]
    BY <1>1
  <1>3. IInv
    BY <1>1, <1>2, NewStatements, FS_EmptySet DEF IInv
  <1>4. [id \in DOMAIN table |-> Stored(table[id])] = [id \in {} |-> 0]
    BY <1>2
  <1>5. [i \in DOMAIN rows |-> <<rows[i].id, Stored(rows[i])>>] = << >>
    BY <1>1
  <1>6. Store!Init
    BY <1>1, <1>4, <1>5 DEF Store!Init, Nothing, Store!Nothing
  <1>. QED  BY <1>3, <1>6

LEMMA Step ==
  ASSUME IInv, StatementsNext
  PROVE  IInv' /\ Store!Next
  <1>1. ASSUME NEW o \in Objects, persist(o) PROVE IInv' /\ Store!Next
    BY <1>1, PersistStep DEF Store!Next
  <1>2. ASSUME NEW o \in Objects, NEW id \in 1 .. MaxId, update(id, o) PROVE IInv' /\ Store!Next
    BY <1>2, UpdateStep DEF Store!Next
  <1>3. ASSUME NEW id \in 1 .. MaxId, erase(id) PROVE IInv' /\ Store!Next
    BY <1>3, EraseStep DEF Store!Next
  <1>4. ASSUME NEW id \in 1 .. MaxId, find(id) PROVE IInv' /\ Store!Next
    BY <1>4, FindStep DEF Store!Next
  <1>5. ASSUME NEW key \in Keys \cup {<< >>}, query(key) PROVE IInv' /\ Store!Next
    BY <1>5, QueryStep DEF Store!Next
  <1>6. ASSUME NEW key \in Keys \cup {<< >>}, erase_query(key) PROVE IInv' /\ Store!Next
    BY <1>6, EraseQueryStep DEF Store!Next
  <1>7. CASE Next_row
    BY <1>7, NextRowStep DEF Store!Next
  <1>8. CASE Connect
    BY <1>8, ConnectStep DEF Store!Next
  <1>. QED  BY <1>1, <1>2, <1>3, <1>4, <1>5, <1>6, <1>7, <1>8 DEF StatementsNext

\* Whatever objects with texts of whatever length are stored, updated, erased,
\* found and queried in whatever order on whatever connections, with buffers
\* of whatever size at first: each statement answers as a table of objects
\* would (machine_info-odb.cpp).
THEOREM StoreTheorem == StatementsSpec => ImplementsStore
  <1>1. StatementsInit => IInv /\ Store!Init
    BY Start
  <1>2. IInv /\ [StatementsNext]_statementVars => IInv' /\ [Store!Next]_<<[id \in DOMAIN table |-> Stored(table[id])], used,
                                                       [i \in DOMAIN rows |-> <<rows[i].id, Stored(rows[i])>>],
                                                       answer>>
    <2>1. ASSUME IInv, UNCHANGED statementVars
          PROVE  IInv' /\ UNCHANGED <<[id \in DOMAIN table |-> Stored(table[id])], used,
                                      [i \in DOMAIN rows |-> <<rows[i].id, Stored(rows[i])>>], answer>>
      BY <2>1 DEF statementVars, IInv
    <2>. QED  BY <2>1, Step
  <1>. QED  BY <1>1, <1>2, PTL DEF StatementsSpec, ImplementsStore, Store!Spec, Store!vars

=============================================================================
