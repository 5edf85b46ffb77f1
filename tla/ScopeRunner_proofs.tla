-------------------------- MODULE ScopeRunner_proofs --------------------------
(***************************************************************************)
(* Proofs about ScopeRunner, for any number of threads and stoppers.       *)
(***************************************************************************)
EXTENDS ScopeRunner, FiniteSetTheorems, TLAPS

\* The types, the meaning of the counter, and what a stopper that has
\* returned knows: together they are inductive.
IInv ==
    /\ TypeOK
    /\ CountIsExact
    /\ Stopped => count = -1

\* How the set of lock holders changes with the program counters.
LEMMA InsideFinite == IsFiniteSet(Inside) /\ Cardinality(Inside) \in Nat
  BY ScopeAssumption, FS_Subset, FS_CardinalityType DEF Inside

\* A thread that takes a lock joins the holders, and makes them one more.
LEMMA EnterInside ==
  ASSUME TypeOK, NEW t \in Threads, pc[t] # "inside",
         pc' = [pc EXCEPT ![t] = "inside"]
  PROVE  Inside' = Inside \cup {t} /\ Cardinality(Inside') = Cardinality(Inside) + 1
<1>1. Inside' = Inside \cup {t}
  BY DEF Inside, TypeOK
<1>2. t \notin Inside
  BY DEF Inside
<1>. QED  BY <1>1, <1>2, InsideFinite, FS_AddElement

\* A thread that gives its lock back leaves them, and makes them one less.
LEMMA LeaveInside ==
  ASSUME TypeOK, NEW t \in Threads, pc[t] = "inside",
         pc' = [pc EXCEPT ![t] = "idle"]
  PROVE  /\ t \in Inside
         /\ Inside' = Inside \ {t} /\ Cardinality(Inside') = Cardinality(Inside) - 1
<1>1. Inside' = Inside \ {t}
  BY DEF Inside, TypeOK
<1>2. t \in Inside
  BY DEF Inside
<1>. QED  BY <1>1, <1>2, InsideFinite, FS_RemoveElement

\* The other steps of a thread do not touch the set.
LEMMA SameInside ==
  ASSUME TypeOK, NEW t \in Threads, pc[t] # "inside",
         NEW w \in {"idle", "trying"}, pc' = [pc EXCEPT ![t] = w]
  PROVE  Inside' = Inside
  BY DEF Inside, TypeOK

\* ScopeRunner never leaves its inductive invariant.
LEMMA InitIInv == Init => IInv
<1>. SUFFICES ASSUME Init PROVE IInv
  OBVIOUS
<1>1. TypeOK
  BY DEF Init, TypeOK
<1>2. Inside = {}
  BY DEF Init, Inside
<1>3. CountIsExact
  BY <1>2, FS_EmptySet DEF Init, CountIsExact
<1>. QED  BY <1>1, <1>3 DEF Init, IInv, Stopped

LEMMA NextIInv == IInv /\ [Next]_vars => IInv'
<1>. SUFFICES ASSUME IInv, [Next]_vars PROVE IInv'
  OBVIOUS
<1>. USE DEF IInv
<1>1. ASSUME NEW t \in Threads, Load(t) PROVE IInv'
  <2>1. TypeOK'
    BY <1>1 DEF Load, TypeOK
  <2>2. Inside' = Inside
    BY <1>1, SameInside DEF Load
  <2>. QED  BY <1>1, <2>1, <2>2 DEF Load, CountIsExact, Stopped
<1>2. ASSUME NEW t \in Threads, Acquire(t) PROVE IInv'
  <2>1. TypeOK'
    BY <1>2 DEF Acquire, TypeOK
  <2>2. Inside' = Inside \cup {t} /\ Cardinality(Inside') = Cardinality(Inside) + 1
    BY <1>2, EnterInside DEF Acquire
  <2>3. count >= 0 /\ ~Stopped
    BY <1>2 DEF Acquire, TypeOK
  <2>. QED  BY <1>2, <2>1, <2>2, <2>3, InsideFinite DEF Acquire, CountIsExact, Stopped
<1>3. ASSUME NEW t \in Threads, Retry(t) PROVE IInv'
  BY <1>3 DEF Retry, TypeOK, CountIsExact, Inside, Stopped
<1>4. ASSUME NEW t \in Threads, Refuse(t) PROVE IInv'
  <2>1. TypeOK'
    BY <1>4 DEF Refuse, TypeOK
  <2>2. Inside' = Inside
    BY <1>4, SameInside DEF Refuse
  <2>. QED  BY <1>4, <2>1, <2>2 DEF Refuse, CountIsExact, Stopped
<1>5. ASSUME NEW t \in Threads, Release(t) PROVE IInv'
  <2>1. /\ t \in Inside
        /\ Inside' = Inside \ {t} /\ Cardinality(Inside') = Cardinality(Inside) - 1
    BY <1>5, LeaveInside DEF Release
  <2>2. count # -1 /\ count = Cardinality(Inside) /\ ~Stopped
    BY <2>1 DEF CountIsExact
  <2>3. count >= 1
    BY <2>1, <2>2, InsideFinite, FS_EmptySet
  <2>4. TypeOK'
    BY <1>5, <2>3 DEF Release, TypeOK
  <2>. QED  BY <1>5, <2>1, <2>2, <2>3, <2>4 DEF Release, CountIsExact, Stopped
<1>6. ASSUME NEW s \in Stoppers, CallStop(s) PROVE IInv'
  BY <1>6 DEF CallStop, TypeOK, CountIsExact, Inside, Stopped
<1>7. ASSUME NEW s \in Stoppers, StopSucceeds(s) PROVE IInv'
  <2>1. Inside = {}
    BY <1>7, InsideFinite, FS_EmptySet DEF StopSucceeds, CountIsExact
  <2>2. Inside' = Inside
    BY <1>7 DEF StopSucceeds, Inside
  <2>3. TypeOK'
    BY <1>7 DEF StopSucceeds, TypeOK
  <2>. QED  BY <1>7, <2>1, <2>2, <2>3 DEF StopSucceeds, CountIsExact
<1>8. ASSUME NEW s \in Stoppers, StopFindsStopped(s) PROVE IInv'
  BY <1>8 DEF StopFindsStopped, TypeOK, CountIsExact, Inside, Stopped
<1>9. ASSUME UNCHANGED vars PROVE IInv'
  BY <1>9 DEF vars, TypeOK, CountIsExact, Inside, Stopped
<1>. QED
  BY <1>1, <1>2, <1>3, <1>4, <1>5, <1>6, <1>7, <1>8, <1>9
  DEF Next, ThreadStep, StopperStep, Done

THEOREM Invariance == Spec => []IInv
  BY InitIInv, NextIInv, PTL DEF Spec

\* The counter is the number of locks held, or -1 with no lock held.
THEOREM CountTheorem == Spec => []CountIsExact
<1>1. IInv => CountIsExact
  BY DEF IInv
<1>. QED  BY <1>1, Invariance, PTL

\* When a stop() has returned no callback is under way: what ~ClientBase and
\* ~ServerBase rely on before they destroy what the callbacks use.
THEOREM StopTheorem == Spec => []NoneInsideAfterStop
<1>1. IInv => NoneInsideAfterStop
  BY DEF IInv, CountIsExact, NoneInsideAfterStop
<1>. QED  BY <1>1, Invariance, PTL

\* ScopeRunner implements ScopeGate: nobody enters after the gate is closed.
THEOREM GateTheorem == Spec => GateSpec
<1>1. Init => Gate!Init
  BY DEF Init, Gate!Init, Inside
<1>2. IInv /\ [Next]_vars => [Gate!Next]_<<Inside, count = -1>>
  <2>. SUFFICES ASSUME IInv, [Next]_vars
                PROVE  Gate!Next \/ UNCHANGED <<Inside, count = -1>>
    OBVIOUS
  <2>. USE DEF IInv
  <2>1. ASSUME NEW t \in Threads, Load(t) PROVE UNCHANGED <<Inside, count = -1>>
    BY <2>1, SameInside DEF Load
  <2>2. ASSUME NEW t \in Threads, Acquire(t) PROVE Gate!Enter(t)
    <3>1. Inside' = Inside \cup {t}
      BY <2>2, EnterInside DEF Acquire
    <3>2. count # -1 /\ count' # -1
      BY <2>2 DEF Acquire, TypeOK
    <3>. QED  BY <3>1, <3>2 DEF Gate!Enter
  <2>3. ASSUME NEW t \in Threads, Retry(t) PROVE UNCHANGED <<Inside, count = -1>>
    BY <2>3 DEF Retry, Inside
  <2>4. ASSUME NEW t \in Threads, Refuse(t) PROVE UNCHANGED <<Inside, count = -1>>
    BY <2>4, SameInside DEF Refuse
  <2>5. ASSUME NEW t \in Threads, Release(t) PROVE Gate!Leave(t)
    <3>1. /\ t \in Inside
          /\ Inside' = Inside \ {t}
      BY <2>5, LeaveInside DEF Release
    <3>2. count # -1 /\ count = Cardinality(Inside)
      BY <3>1 DEF CountIsExact
    <3>3. count >= 1
      BY <3>1, <3>2, InsideFinite, FS_EmptySet
    <3>. QED  BY <2>5, <3>1, <3>2, <3>3 DEF Release, Gate!Leave
  <2>6. ASSUME NEW s \in Stoppers, CallStop(s) PROVE UNCHANGED <<Inside, count = -1>>
    BY <2>6 DEF CallStop, Inside
  <2>7. ASSUME NEW s \in Stoppers, StopSucceeds(s) PROVE Gate!Close
    <3>1. Inside = {}
      BY <2>7, InsideFinite, FS_EmptySet DEF StopSucceeds, CountIsExact
    <3>. QED  BY <2>7, <3>1 DEF StopSucceeds, Gate!Close, Inside
  <2>8. ASSUME NEW s \in Stoppers, StopFindsStopped(s) PROVE UNCHANGED <<Inside, count = -1>>
    BY <2>8 DEF StopFindsStopped, Inside
  <2>9. ASSUME UNCHANGED vars PROVE UNCHANGED <<Inside, count = -1>>
    BY <2>9 DEF vars, Inside
  <2>. QED
    BY <2>1, <2>2, <2>3, <2>4, <2>5, <2>6, <2>7, <2>8, <2>9
    DEF Next, ThreadStep, StopperStep, Done, Gate!Next
<1>. QED  BY <1>1, <1>2, Invariance, PTL DEF Spec, GateSpec, Gate!Spec

=============================================================================
