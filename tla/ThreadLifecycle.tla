--------------------------- MODULE ThreadLifecycle ---------------------------
(***************************************************************************)
(* What the scheduler promises about one thread's life, as a state machine *)
(* over whole threads (spec.md 4.7): a thread is spawned, added to a       *)
(* run-queue, dispatched, preempted or yields back to a run-queue, sleeps  *)
(* and is woken back onto a run-queue, exits as a zombie and is finally    *)
(* dropped from the pool.  Each step moves a single thread.  Scheduler.tla *)
(* implements this specification under the mapping LifeState.             *)
(***************************************************************************)
CONSTANTS
  Threads,     \* thread handles
  InitThreads  \* threads enqueued by Scheduler::start

\* Fresh: created and in the pool, not yet added to a run-queue.
\* Dead: dropped from the pool; its handle is never reissued.
LifeStates == {"Unborn", "Fresh", "Ready", "Running", "Asleep", "Zombie",
               "Dead"}

\* The transitions of spec.md 4.7, plus the two ends of a thread's life.
Transition ==
  { <<"Unborn", "Fresh">>,     \* spawn: RawThread::new, ThreadPool::add
    <<"Fresh", "Ready">>,      \* add enqueues the new thread
    <<"Ready", "Running">>,    \* dispatch: switch_context picks it
    <<"Running", "Ready">>,    \* preempt, yield, or a wake racing a sleep
    <<"Running", "Asleep">>,   \* sleep: retire clears QUEUED
    <<"Asleep", "Ready">>,     \* wake: add enqueues it
    <<"Running", "Zombie">>,   \* exit: ZOMBIE is set
    <<"Zombie", "Dead">> }     \* retire drops the zombie from the pool

VARIABLE st   \* [Threads -> LifeStates]

Init == st = [t \in Threads |-> IF t \in InitThreads THEN "Ready" ELSE "Unborn"]

Step(t) ==
  \E s \in LifeStates :
    /\ <<st[t], s>> \in Transition
    /\ st' = [st EXCEPT ![t] = s]

Next == \E t \in Threads : Step(t)

Spec == Init /\ [][Next]_st
=============================================================================
