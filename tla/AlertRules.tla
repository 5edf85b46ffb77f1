------------------------------ MODULE AlertRules ------------------------------
(***************************************************************************)
(* How the server decides whether the statistics of a report satisfy an    *)
(* alert: alert_for_memory, alert_for_cpu and alert_for_process of         *)
(* server/src/client.cpp.  A quantity is a fraction num/den, exact where   *)
(* the code rounds to float; with den = 0 it is an infinity of num's sign, *)
(* or the NaN of 0/0.                                                      *)
(***************************************************************************)
EXTENDS Integers

Alert == {"none", "memory", "cpu", "process"}

Condition == {"none", "equal", "under", "over"}

\* A trigger value is text; stoi makes an int of it or throws.
Text == [stoi : BOOLEAN, int : Int]

Number(n) == [stoi |-> TRUE, int |-> n]

NoNumber == [stoi |-> FALSE, int |-> 0]

\* The statistics of a report: memory in kB, the idle ticks of a second of all
\* CPUs (100 of each) and the CPUs that were counted, running processes.
Statistics == [mem_total : Int, mem_free : Int, idle : Int, cpus : Nat, running : Int]

\* What an alert of each type looks at.
Quantity(type, s) ==
    CASE type = "memory"  -> [num |-> 100 * (s.mem_total - s.mem_free), den |-> s.mem_total]
      [] type = "cpu"     -> [num |-> 100 * s.cpus - s.idle, den |-> s.cpus]
      [] type = "process" -> [num |-> s.running, den |-> 1]

\* Mutant: a use without CPUs is taken for 0.
Below_Zero(q, n) == IF q.den = 0 THEN 0 < n ELSE q.num < n * q.den

\* q < n and q > n; both false of NaN.
Below(q, n) == \/ q.den = 0 /\ q.num < 0
               \/ q.den > 0 /\ q.num < n * q.den
               \/ q.den < 0 /\ q.num > n * q.den

Above(q, n) == \/ q.den = 0 /\ q.num > 0
               \/ q.den > 0 /\ q.num > n * q.den
               \/ q.den < 0 /\ q.num < n * q.den

\* (int)q = n: the cast drops the fraction, towards 0.  Of NaN and of
\* the infinities it gives INT_MIN on x86, which no alert is set to.
Truncates(q, n) ==
    /\ q.den # 0
    /\ n >= 0 => Below(q, n + 1)
    /\ n > 0 => ~Below(q, n)
    /\ n <= 0 => Above(q, n - 1)
    /\ n < 0 => ~Above(q, n)

\* The condition of an alert holds of the statistics: it sends a mail.
Met(type, condition, n, s) ==
    LET q == Quantity(type, s) IN
    \/ condition = "equal" /\ Truncates(q, n)
    \/ condition = "under" /\ Below(q, n)
    \/ condition = "over" /\ Above(q, n)

=============================================================================
