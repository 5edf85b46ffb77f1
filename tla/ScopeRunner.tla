------------------------------ MODULE ScopeRunner ------------------------------
(***************************************************************************)
(* SimpleWeb::ScopeRunner (utility.hpp).  Every asio callback of the HTTP  *)
(* client and server runs under continue_lock(); the destructors call      *)
(* stop(), which waits for the callbacks that hold a lock and turns the    *)
(* later ones away.  Both sides work on one atomic counter, with           *)
(* compare_exchange_weak, which may fail spuriously.                       *)
(***************************************************************************)
EXTENDS Integers, FiniteSets

CONSTANTS
    Threads,    \* threads that run callbacks
    Stoppers,   \* threads that call stop()
    MaxScopes   \* bound: callbacks one thread runs

ASSUME ScopeAssumption ==
    /\ IsFiniteSet(Threads)
    /\ MaxScopes \in Nat

VARIABLES
    count,      \* ScopeRunner::count
    pc,         \* of each thread: "idle", "trying" (in continue_lock's loop)
                \* or "inside" (holds a SharedLock)
    expected,   \* continue_lock's local variable
    scopes,     \* callbacks each thread has started
    stopping    \* of each stopper: "running", "trying" (in stop's loop), "returned"

vars == <<count, pc, expected, scopes, stopping>>

TypeOK ==
    /\ count \in Nat \cup {-1}
    /\ pc \in [Threads -> {"idle", "trying", "inside"}]
    /\ expected \in [Threads -> Nat \cup {-1}]
    /\ scopes \in [Threads -> Nat]
    /\ stopping \in [Stoppers -> {"running", "trying", "returned"}]

Init ==
    /\ count = 0
    /\ pc = [t \in Threads |-> "idle"]
    /\ expected = [t \in Threads |-> 0]
    /\ scopes = [t \in Threads |-> 0]
    /\ stopping = [s \in Stoppers |-> "running"]

-----------------------------------------------------------------------------
\* A callback starts: expected = count.
Load(t) ==
    /\ pc[t] = "idle" /\ scopes[t] < MaxScopes
    /\ pc' = [pc EXCEPT ![t] = "trying"]
    /\ expected' = [expected EXCEPT ![t] = count]
    /\ scopes' = [scopes EXCEPT ![t] = @ + 1]
    /\ UNCHANGED <<count, stopping>>

\* Mutant: the sign of expected is looked at only before the loop.
Acquire_Unchecked(t) ==
    /\ pc[t] = "trying"
    /\ count = expected[t]
    /\ count' = count + 1
    /\ pc' = [pc EXCEPT ![t] = "inside"]
    /\ UNCHANGED <<expected, scopes, stopping>>

\* compare_exchange_weak(expected, expected + 1) succeeds: a SharedLock.
Acquire(t) ==
    /\ pc[t] = "trying" /\ expected[t] >= 0
    /\ count = expected[t]
    /\ count' = count + 1
    /\ pc' = [pc EXCEPT ![t] = "inside"]
    /\ UNCHANGED <<expected, scopes, stopping>>

\* It fails, because count has changed or spuriously, and loads count.
Retry(t) ==
    /\ pc[t] = "trying" /\ expected[t] >= 0
    /\ expected' = [expected EXCEPT ![t] = count]
    /\ UNCHANGED <<count, pc, scopes, stopping>>

\* expected < 0: continue_lock returns nullptr and the callback returns.
Refuse(t) ==
    /\ pc[t] = "trying" /\ expected[t] < 0
    /\ pc' = [pc EXCEPT ![t] = "idle"]
    /\ UNCHANGED <<count, expected, scopes, stopping>>

\* The SharedLock is destroyed at the end of the callback.
Release(t) ==
    /\ pc[t] = "inside"
    /\ count' = count - 1
    /\ pc' = [pc EXCEPT ![t] = "idle"]
    /\ UNCHANGED <<expected, scopes, stopping>>

-----------------------------------------------------------------------------
CallStop(s) ==
    /\ stopping[s] = "running"
    /\ stopping' = [stopping EXCEPT ![s] = "trying"]
    /\ UNCHANGED <<count, pc, expected, scopes>>

\* Mutant: stop() does not wait for the locks that are held.
StopSucceeds_AtOnce(s) ==
    /\ stopping[s] = "trying"
    /\ count' = -1
    /\ stopping' = [stopping EXCEPT ![s] = "returned"]
    /\ UNCHANGED <<pc, expected, scopes>>

\* Mutant: stop() leaves the counter as it is.
StopSucceeds_Unmarked(s) ==
    /\ stopping[s] = "trying" /\ count = 0
    /\ stopping' = [stopping EXCEPT ![s] = "returned"]
    /\ UNCHANGED <<count, pc, expected, scopes>>

\* compare_exchange_weak(0, -1) succeeds.  A failure with count >= 0 is
\* followed by another try, with nothing changed.
StopSucceeds(s) ==
    /\ stopping[s] = "trying" /\ count = 0
    /\ count' = -1
    /\ stopping' = [stopping EXCEPT ![s] = "returned"]
    /\ UNCHANGED <<pc, expected, scopes>>

\* Mutant: a second stop() waits for a counter that never comes back to 0.
StopFindsStopped_Waits(s) ==
    /\ stopping[s] = "trying" /\ count = 0
    /\ stopping' = [stopping EXCEPT ![s] = "returned"]
    /\ UNCHANGED <<count, pc, expected, scopes>>

\* It fails because somebody else has stopped the runner: stop() returns.
StopFindsStopped(s) ==
    /\ stopping[s] = "trying" /\ count < 0
    /\ stopping' = [stopping EXCEPT ![s] = "returned"]
    /\ UNCHANGED <<count, pc, expected, scopes>>

-----------------------------------------------------------------------------
ThreadStep(t) == Load(t) \/ Acquire(t) \/ Retry(t) \/ Refuse(t) \/ Release(t)

StopperStep(s) == CallStop(s) \/ StopSucceeds(s) \/ StopFindsStopped(s)

\* Every callback has run and every stop() has returned.
Done ==
    /\ \A t \in Threads : pc[t] = "idle" /\ scopes[t] = MaxScopes
    /\ \A s \in Stoppers : stopping[s] = "returned"
    /\ UNCHANGED vars

Next ==
    \/ \E t \in Threads : ThreadStep(t)
    \/ \E s \in Stoppers : StopperStep(s)
    \/ Done

Spec == Init /\ [][Next]_vars

\* Threads are scheduled, a callback ends, and compare_exchange_weak does not
\* fail spuriously for ever.
Fairness ==
    /\ \A t \in Threads : WF_vars(Acquire(t) \/ Refuse(t)) /\ WF_vars(Release(t))
                          /\ WF_vars(Retry(t) /\ expected[t] # count)
    /\ \A s \in Stoppers : WF_vars(StopSucceeds(s) \/ StopFindsStopped(s))

FairSpec == Spec /\ Fairness

-----------------------------------------------------------------------------
Inside == {t \in Threads : pc[t] = "inside"}

Stopped == \E s \in Stoppers : stopping[s] = "returned"

\* Once any stop() has returned no callback holds a lock: the object the
\* callbacks work on may be destroyed.
NoneInsideAfterStop == Stopped => Inside = {}

\* The counter counts the locks, and -1 is the mark of a stopped runner only.
CountIsExact ==
    IF count = -1 THEN Inside = {} ELSE count = Cardinality(Inside)

\* ScopeRunner implements ScopeGate.
Gate == INSTANCE ScopeGate WITH inside <- Inside, closed <- (count = -1)

GateSpec == Gate!Spec

\* With finitely many callbacks every stop() returns, also a second one.
StopReturns == \A s \in Stoppers : stopping[s] = "trying" ~> stopping[s] = "returned"

=============================================================================
