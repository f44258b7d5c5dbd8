---------------------------- MODULE DraftScheduler ----------------------------
(***************************************************************************)
(* The round-robin scheduler of the first-generation draft,                *)
(*   src/src/myos/scheduler.rs  (GlobalScheduler start, reschedule,        *)
(*   wait_for, next, retire; LocalScheduler::next_thread;                  *)
(*   sch_setup_new_thread; Quantum::consume)                               *)
(* on one CPU.  Threads wait in two ThreadQueues: ready, read by next(),   *)
(* and retired, written by retire() and poured back into ready when ready  *)
(* runs dry.  Every entry point runs with interrupts disabled, so on one   *)
(* CPU each queue call is atomic and a queue is a FIFO of at most mask     *)
(* handles (DraftQueue.tla models the calls step by step, for several     *)
(* CPUs).  next_thread is split at sch_switch_context: Switch is the part  *)
(* before it, run by the outgoing thread, PostSwitch the part after it,    *)
(* run by the incoming one.  A deadline is abstracted to whether           *)
(* Timer::until() still holds for it.                                      *)
(***************************************************************************)
EXTENDS Integers, Sequences, SequencesExt

CONSTANTS
  Threads,        \* the 20 scheduler_threads and the main thread of start
  Idle,           \* LocalScheduler.idle, the CPU's boot context
  Capacity,       \* slots of a ThreadQueue (32: with_capacity ignores its argument)
  NormalQuantum,  \* Quantum::from(Priority::Normal) (10 in the code)
  None            \* Option::None

ASSUME /\ Idle \notin Threads /\ None \notin Threads \cup {Idle}
       /\ NormalQuantum >= 1

AllThreads == Threads \cup {Idle}

\* let mask = capacity - 1
mask == Capacity - 1

VARIABLES
  ready,     \* GlobalScheduler.ready[0], oldest first
  retired,   \* GlobalScheduler.retired
  current,   \* LocalScheduler.current
  lretired,  \* LocalScheduler.retired: the thread switched away from
  sleeping,  \* [AllThreads -> BOOLEAN]: deadline.until() holds
  quantum,   \* [AllThreads -> Nat]: NativeThread.quantum
  panicked   \* a write(..).unwrap() met Err and the kernel panicked

vars == <<ready, retired, current, lretired, sleeping, quantum, panicked>>

\* NativeThread::is_idle: the idle thread is the one of Priority::Idle.
IsIdle(t) == t = Idle

\* Quantum::from(priority): Idle gets 1, Normal 10.
DefaultQuantum(t) == IF IsIdle(t) THEN 1 ELSE NormalQuantum

\* Mutant: the queue reports full one handle early.
FullEarly(q) == Len(q) + 1 >= mask

\* ThreadQueue::write's `if count >= mask { Err }`.
Full(q) == Len(q) >= mask

\* Mutant: the is_idle test dropped, the idle thread is retired too.
RetireAll(t, q) ==
  IF Full(q) THEN [q |-> q, err |-> TRUE] ELSE [q |-> Append(q, t), err |-> FALSE]

\* GlobalScheduler::retire: `if !is_idle { retired.write(thread).unwrap() }`.
Retire(t, q) ==
  IF IsIdle(t) THEN [q |-> q, err |-> FALSE]
  ELSE IF Full(q) THEN [q |-> q, err |-> TRUE]
  ELSE [q |-> Append(q, t), err |-> FALSE]

\* The second loop of next(): every retired handle is written to the empty
\* ready queue with unwrap, and the (mask + 1)-th write fails; then None.
Refill(rt) == [pick |-> None, ready |-> rt, retired |-> <<>>,
               err |-> Len(rt) > mask]

\* Mutant: a thread is dispatched without looking at its deadline.
DueIgnored(t) == TRUE

\* `if next.deadline.until() { retire; continue } else { return Some }`
Due(t) == ~sleeping[t]

\* GlobalScheduler::next: read ready; a thread still before its deadline is
\* retired and the loop goes on; when ready is empty, refill it from retired.
RECURSIVE NextFrom(_, _)
NextFrom(rq, rt) ==
  IF rq = <<>> THEN Refill(rt)
  ELSE LET t == Head(rq)
       IN  IF Due(t) THEN [pick |-> t, ready |-> Tail(rq), retired |-> rt,
                           err |-> FALSE]
           ELSE LET r == Retire(t, rt)
                IN  IF r.err THEN [pick |-> None, ready |-> Tail(rq),
                                   retired |-> rt, err |-> TRUE]
                    ELSE NextFrom(Tail(rq), r.q)

\* LocalScheduler::next_thread up to sch_switch_context: take next() or the
\* idle thread; unless it is the current one, remember current as retired,
\* make next current and give the outgoing thread its default quantum.
Switch ==
  LET r   == NextFrom(ready, retired)
      nxt == IF r.pick = None THEN Idle ELSE r.pick
  IN  /\ ready' = r.ready
      /\ retired' = r.retired
      /\ panicked' = r.err
      /\ IF nxt = current
           THEN UNCHANGED <<current, lretired, quantum>>
           ELSE /\ current' = nxt
                /\ lretired' = current
                /\ quantum' = [quantum EXCEPT ![current] = DefaultQuantum(current)]

\* No entry point runs while another is half done (interrupts are off from
\* wait_for or reschedule to the end of next_thread), nor after a panic.
Quiet == lretired = None /\ ~panicked

\* NativeThread.priority: start creates Normal threads, LocalScheduler::new
\* an Idle one.
Priority(t) == IF IsIdle(t) THEN "Idle" ELSE "Normal"

\* Mutant: the Realtime test reversed.
PreemptibleRealtime(t) == Priority(t) = "Realtime"

\* lsch.current.priority != Priority::Realtime
Preemptible(t) == Priority(t) # "Realtime"

\* Mutant: consume tests `q > 0`, and a quantum is used down to 0.
ExpiredAtZero(q) == q <= 0

\* Quantum::consume: `if q > 1 { q -= 1; false } else { true }`.
Expired(q) == q <= 1

\* GlobalScheduler::reschedule, on a timer tick, while the quantum lasts.
Consume ==
  /\ Quiet /\ Preemptible(current) /\ ~Expired(quantum[current])
  /\ quantum' = [quantum EXCEPT ![current] = @ - 1]
  /\ UNCHANGED <<ready, retired, current, lretired, sleeping, panicked>>

\* GlobalScheduler::reschedule when the quantum is used up: next_thread.
Preempt ==
  /\ Quiet /\ Preemptible(current) /\ Expired(quantum[current])
  /\ Switch
  /\ UNCHANGED sleeping

Tick == Consume \/ Preempt

\* GlobalScheduler::wait_for(_, duration), called by a thread (the idle
\* context never calls it): deadline = Timer::new(duration), which is still
\* ahead unless duration is 0; then next_thread.
WaitFor ==
  /\ Quiet /\ current # Idle
  /\ \E ahead \in BOOLEAN : sleeping' = [sleeping EXCEPT ![current] = ahead]
  /\ Switch

\* Time passes a thread's deadline.
Expire(t) ==
  /\ ~panicked /\ sleeping[t]
  /\ sleeping' = [sleeping EXCEPT ![t] = FALSE]
  /\ UNCHANGED <<ready, retired, current, lretired, quantum, panicked>>

\* next_thread after sch_switch_context, in the incoming thread (or
\* sch_setup_new_thread, for its first run): clear its deadline, take
\* lsch.retired and retire it.
PostSwitch ==
  /\ lretired # None /\ ~panicked
  /\ LET r == Retire(lretired, retired)
     IN  /\ retired' = r.q
         /\ panicked' = r.err
  /\ sleeping' = [sleeping EXCEPT ![current] = FALSE]
  /\ lretired' = None
  /\ UNCHANGED <<ready, current, quantum>>

\* GlobalScheduler::start: both queues created, every thread retired in
\* creation order (any order of the model values), the CPU running its
\* idle context; then is_enabled.
Init ==
  /\ ready = <<>>
  /\ retired \in {s \in [1..Cardinality(Threads) -> Threads] : ToSet(s) = Threads}
  /\ current = Idle
  /\ lretired = None
  /\ sleeping = [t \in AllThreads |-> FALSE]
  /\ quantum = [t \in AllThreads |-> DefaultQuantum(t)]
  /\ panicked = FALSE

Next == Tick \/ WaitFor \/ PostSwitch \/ \E t \in Threads : Expire(t)

\* The timer interrupt keeps coming, time keeps passing, and the code after
\* sch_switch_context runs once the switch is made.  A thread is never
\* obliged to call wait_for.
Fairness == /\ WF_vars(Tick) /\ WF_vars(PostSwitch)
            /\ \A t \in Threads : WF_vars(Expire(t))

Spec == Init /\ [][Next]_vars /\ Fairness

-----------------------------------------------------------------------------

TypeOK ==
  /\ ready \in Seq(Threads \cup {Idle}) /\ retired \in Seq(Threads \cup {Idle})
  /\ current \in AllThreads /\ lretired \in AllThreads \cup {None}
  /\ sleeping \in [AllThreads -> BOOLEAN]
  /\ quantum \in [AllThreads -> 1..NormalQuantum]
  /\ panicked \in BOOLEAN

\* The places a thread can be: in one of the queues, on the CPU, or just
\* switched away from.
Places(t) ==
  Len(SelectSeq(ready \o retired, LAMBDA u : u = t))
  + (IF current = t THEN 1 ELSE 0) + (IF lretired = t THEN 1 ELSE 0)

\* Every thread start created is, at every point between two entry points,
\* in exactly one place: next() never drops a thread it passes over and
\* never dispatches one that is still queued, next_thread always retires
\* the thread it switched away from, and the idle context (which retire
\* refuses) is never queued.
ThreadsConserved ==
  ~panicked =>
    /\ \A t \in Threads : Places(t) = 1
    /\ Idle \notin ToSet(ready \o retired)

\* No ThreadQueue::write(..).unwrap() in retire or in next()'s refill ever
\* meets a full queue: with no more threads than a queue holds, neither
\* queue is ever asked to hold more.
WritesNeverFail == ~panicked

\* The life cycle of spec.md 4.7 as the draft realises it: a thread on the
\* CPU or just switched away from runs; a queued thread is asleep while its
\* deadline is ahead and ready after; a thread found nowhere is lost.
LifeState(t) ==
  IF t = current \/ t = lretired THEN "Running"
  ELSE IF t \in ToSet(ready \o retired)
         THEN IF sleeping[t] THEN "Asleep" ELSE "Ready"
  ELSE "Dead"

Life == INSTANCE ThreadLifecycle WITH InitThreads <- Threads,
                                      st <- [t \in Threads |-> LifeState(t)]

\* Every step moves at most one thread along the life cycle: next() only
\* dispatches a thread whose deadline has passed, moving a sleeper from
\* ready to retired or back leaves it asleep, and no thread is lost.
LifecycleRefined == Life!Spec

\* Round robin: every thread gets the CPU again and again, whether other
\* threads sleep or not, as long as the timer tick keeps preempting.
EveryThreadRuns == \A t \in Threads : []<>(current = t)
=============================================================================
