------------------------------ MODULE Scheduler ------------------------------
(***************************************************************************)
(* The mature multi-queue thread scheduler of                              *)
(*   src/sys/kernel/src/task/scheduler.rs                                  *)
(* Per-CPU local schedulers (current, retired, idle), four global run      *)
(* queues, the thread attribute bits QUEUED/ASLEEP/AWAKE/ZOMBIE, the       *)
(* two halves of switch_context with retire(), the wake/add protocol, the  *)
(* sleep entry points, preemption by quantum, exit and the thread pool.    *)
(*                                                                         *)
(* Granularity.  Code that runs with interrupts disabled on one CPU        *)
(* (switch_context, retire, wait_for, sleep) cannot be interleaved by      *)
(* other code of that CPU, but every other CPU runs concurrently: such     *)
(* code is split at each atomic operation whose interleaving with another  *)
(* CPU can change the outcome.  Code that runs with interrupts enabled     *)
(* (wake, add, Timer::sleep called directly) can also be preempted by the  *)
(* tick of its own CPU: its progress is kept per thread in tpc.            *)
(***************************************************************************)
EXTENDS Naturals, Sequences, FiniteSets, SequencesExt, Functions

CONSTANTS
  CPUs,          \* processor indices; index 0 is the boot processor
  Threads,       \* handles of the non-idle threads (ThreadHandle)
  InitThreads,   \* threads spawned by Scheduler::start (enqueued, never run)
  Priority,      \* [Threads -> RunQueues]: RawThread.priority
  CoreType,      \* [CPUs -> {"Main", "Sub"}]: Cpu::processor_type
  QuantumOf,     \* [RunQueues -> Nat \ {0}]: Quantum::from(priority)
  Capacity,      \* [RunQueues -> Nat \ {0}]: ArrayQueue capacity per queue
  MaxEvents,     \* model bound on pending OneShot timer events in total
  Ops,           \* the thread operations a configuration lets threads call
  Idle,          \* model value: the running CPU's own idle thread
  NONE           \* model value: LocalScheduler.retired == None

RunQueues == {"Realtime", "High", "Normal", "Low"}
Rank == [Realtime |-> 4, High |-> 3, Normal |-> 2, Low |-> 1]
Flags == {"QUEUED", "ASLEEP", "AWAKE", "ZOMBIE"}
States == {"Saving", "Running", "FullThrottle"}
AllOps == {"yield", "wait_for", "timer_sleep", "new_object", "signal",
           "fire", "spawn", "exit", "freeze", "set_state"}

\* Program points of a thread's own code (kept across preemption).
ThreadPCs == {"run", "add_check", "add_queue", "tsleep", "exit_tsleep",
              "exit_zombie", "exit_sleep", "dead"}
\* Program points of a CPU's interrupts-disabled scheduler code.
CpuPCs == {"user", "resume", "setup", "unqueue", "halted"}

ASSUME /\ InitThreads \subseteq Threads
       /\ Priority \in [Threads -> RunQueues]
       /\ CoreType \in [CPUs -> {"Main", "Sub"}]
       /\ 0 \in CPUs
       /\ Ops \subseteq AllOps

VARIABLES
  attr,      \* [Threads -> SUBSET Flags]      RawThread.attribute
  pool,      \* live threads                   ThreadPool.data keys
  born,      \* handles ever issued            ThreadHandle::next
  rq,        \* [RunQueues -> Seq(Threads)]    queue_realtime .. queue_lower
  current,   \* [CPUs -> Threads \cup {Idle}]  LocalScheduler.current
  retired,   \* [CPUs -> ...]                  LocalScheduler.retired
  cpc,       \* [CPUs -> CpuPCs]
  fresh,     \* threads whose context was never entered (first entry)
  quantum,   \* [Threads -> Nat]               RawThread.quantum.current
  tpc,       \* [Threads -> ThreadPCs]
  target,    \* [Threads -> Threads \cup {NONE}] thread a wake/add is for
  events,    \* [Threads -> Nat] pending TimerType::OneShot events
  armed,     \* [Threads -> BOOLEAN] the thread's SignallingObject holds it
  frozen,    \* Scheduler.is_frozen
  state,     \* Scheduler.state
  panics     \* reasons of the kernel panics that happened

vars == <<attr, pool, born, rq, current, retired, cpc, fresh, quantum, tpc,
          target, events, armed, frozen, state, panics>>

-----------------------------------------------------------------------------
(* Where a thread can be found.                                            *)

QueueCount(t) ==
  LET InOne(p) == Cardinality({i \in 1..Len(rq[p]) : rq[p][i] = t})
  IN  InOne("Realtime") + InOne("High") + InOne("Normal") + InOne("Low")

InQueue(t) == QueueCount(t) > 0
Running(t) == \E c \in CPUs : current[c] = t
Retiring(t) == \E c \in CPUs : retired[c] = t

\* Number of places a thread occupies: queue slots, CPUs it is current on,
\* CPUs about to retire it.
Places(t) ==
  QueueCount(t) + Cardinality({c \in CPUs : current[c] = t})
                + Cardinality({c \in CPUs : retired[c] = t})

TotalEvents == SumFunction(events)

-----------------------------------------------------------------------------
(* Kernel panic: the panic handler freezes the scheduler and stops the CPU *)
(* (lib.rs panic -> MyScheduler::freeze(true); Cpu::stop()).               *)
Panic(c, why) ==
  /\ cpc' = [cpc EXCEPT ![c] = "halted"]
  /\ panics' = panics \cup {why}
  /\ frozen' = TRUE

\* Scheduler::enqueue: push on the queue of the thread's priority; the
\* .unwrap() panics when the ArrayQueue is full.
Full(t) == Len(rq[Priority[t]]) >= Capacity[Priority[t]]
Pushed(t) == [rq EXCEPT ![Priority[t]] = Append(@, t)]

\* Scheduler::next: the dispatch gate.
Gate(c) ==
  /\ ~frozen
  /\ CASE state = "FullThrottle" -> TRUE
       [] state = "Saving"       -> c = 0
       [] OTHER                  -> CoreType[c] = "Main"

NonEmpty == {p \in RunQueues : rq[p] # <<>>}
Top == CHOOSE p \in NonEmpty : \A q \in NonEmpty : Rank[p] >= Rank[q]
Picks(c) == Gate(c) /\ NonEmpty # {}

\* Mutant: the result of next() used without unwrap_or(idle).
NextOrNone(c) == IF Picks(c) THEN Head(rq[Top]) ELSE NONE

\* next().unwrap_or(lsch.idle).
NextOrIdle(c) == IF Picks(c) THEN Head(rq[Top]) ELSE Idle

\* LocalScheduler::switch_context up to the context switch: take
\* next().unwrap_or(idle); when it differs from current, remember current
\* as retired and switch; the CPU continues in the resumed thread, at the
\* post-switch code, or at sch_setup_new_thread for a thread never run.
SwitchContext(c) ==
  LET nxt == NextOrIdle(c)
  IN  /\ rq' = IF Picks(c) THEN [rq EXCEPT ![Top] = Tail(@)] ELSE rq
      /\ IF nxt = current[c]
           THEN UNCHANGED <<current, retired, cpc, fresh>>
           ELSE /\ retired' = [retired EXCEPT ![c] = current[c]]
                /\ current' = [current EXCEPT ![c] = nxt]
                /\ cpc' = [cpc EXCEPT ![c] =
                             IF nxt \in fresh THEN "setup" ELSE "resume"]
                /\ fresh' = fresh \ {nxt}

-----------------------------------------------------------------------------
Init ==
  /\ attr = [t \in Threads |-> IF t \in InitThreads THEN {"QUEUED"} ELSE {}]
  /\ pool = InitThreads
  /\ born = InitThreads
  /\ rq = [p \in RunQueues |-> SetToSeq({t \in InitThreads : Priority[t] = p})]
  /\ current = [c \in CPUs |-> Idle]
  /\ retired = [c \in CPUs |-> NONE]
  /\ cpc = [c \in CPUs |-> "user"]
  /\ fresh = InitThreads
  /\ quantum = [t \in Threads |-> QuantumOf[Priority[t]]]
  /\ tpc = [t \in Threads |-> "run"]
  /\ target = [t \in Threads |-> NONE]
  /\ events = [t \in Threads |-> 0]
  /\ armed = [t \in Threads |-> FALSE]
  /\ frozen = FALSE
  /\ state = "Running"
  /\ panics = {}

-----------------------------------------------------------------------------
(* The CPU's scheduler code after the context switch (interrupts off).     *)

\* Mutant: retire tests AWAKE before ZOMBIE.
RetireAwakeFirst(r, a) ==
  CASE r = Idle                                 -> "none"
    [] "AWAKE" \in a[r]                         -> "enqueue"
    [] "ZOMBIE" \in a[r]                        -> "drop"
    [] "ASLEEP" \in a[r]                        -> "sleep"
    [] OTHER                                    -> "enqueue"

\* ThreadPool::drop_thread: the thread leaves the pool.
DropThread(r) == pool \ {r}

\* Scheduler::retire: the branch it takes for thread r under attributes a.
RetireBranch(r, a) ==
  CASE r = Idle                                 -> "none"
    [] "ZOMBIE" \in a[r]                        -> "drop"
    [] "AWAKE" \in a[r]                         -> "enqueue"
    [] "ASLEEP" \in a[r]                        -> "sleep"
    [] OTHER                                    -> "enqueue"

\* Post-switch half of switch_context (clear AWAKE and ASLEEP of the
\* resumed thread) or sch_setup_new_thread (first entry), then
\* lsch.retired = None and retire(retired).  retire reads ZOMBIE, then
\* test_and_clear(AWAKE), then ASLEEP; nothing another CPU does between
\* these reads changes the branch taken except a wake, which sets AWAKE and
\* finds QUEUED still set, so they are one step here.
Resume(c) ==
  LET t == current[c]
      r == retired[c]
      a == IF cpc[c] = "resume" /\ t # Idle
             THEN [attr EXCEPT ![t] = @ \ {"AWAKE", "ASLEEP"}] ELSE attr
  IN  /\ cpc[c] \in {"resume", "setup"}
      /\ \/ /\ RetireBranch(r, a) = "none"
            /\ attr' = a /\ retired' = [retired EXCEPT ![c] = NONE]
            /\ cpc' = [cpc EXCEPT ![c] = "user"]
            /\ UNCHANGED <<pool, rq, frozen, panics>>
         \/ /\ RetireBranch(r, a) = "drop"
            /\ pool' = DropThread(r)
            /\ attr' = a /\ retired' = [retired EXCEPT ![c] = NONE]
            /\ cpc' = [cpc EXCEPT ![c] = "user"]
            /\ UNCHANGED <<rq, frozen, panics>>
         \/ /\ RetireBranch(r, a) = "enqueue"
            /\ retired' = [retired EXCEPT ![c] = NONE]
            /\ IF Full(r)
                 THEN /\ Panic(c, "queue_full") /\ attr' = a
                      /\ UNCHANGED rq
                 ELSE /\ attr' = [a EXCEPT ![r] = @ \ {"AWAKE", "ASLEEP"}]
                      /\ rq' = Pushed(r)
                      /\ cpc' = [cpc EXCEPT ![c] = "user"]
                      /\ UNCHANGED <<frozen, panics>>
            /\ UNCHANGED pool
         \/ /\ RetireBranch(r, a) = "sleep"
            /\ attr' = a
            /\ cpc' = [cpc EXCEPT ![c] = "unqueue"]
            /\ UNCHANGED <<pool, rq, retired, frozen, panics>>
      /\ UNCHANGED <<born, current, fresh, quantum, tpc, target, events,
                     armed, state>>

\* retire, ASLEEP branch: attribute.remove(QUEUED).
Unqueue(c) ==
  LET r == retired[c]
  IN  /\ cpc[c] = "unqueue"
      /\ attr' = [attr EXCEPT ![r] = @ \ {"QUEUED"}]
      /\ retired' = [retired EXCEPT ![c] = NONE]
      /\ cpc' = [cpc EXCEPT ![c] = "user"]
      /\ UNCHANGED <<pool, born, rq, current, fresh, quantum, tpc, target,
                     events, armed, frozen, state, panics>>

\* Scheduler::reschedule on the timer tick: a non-Realtime current thread
\* consumes its quantum (Quantum::consume) and is switched away when it
\* expires.  The idle thread has quantum 1, so an idle CPU polls next()
\* on every tick.
\* Mutant: the Realtime test of reschedule inverted.
PreemptibleInverted(t) == Priority[t] = "Realtime"

\* reschedule only preempts a current thread that is not Realtime.
Preemptible(t) == Priority[t] # "Realtime"

\* Quantum::consume: true when the quantum is used up.
Expired(t) == quantum[t] <= 1

\* Quantum::consume: count down, or reload the default once used up.
Consumed(t) ==
  [quantum EXCEPT ![t] = IF Expired(t) THEN QuantumOf[Priority[t]] ELSE @ - 1]

Tick(c) ==
  LET t == current[c]
  IN  /\ cpc[c] = "user"
      /\ \/ /\ t = Idle
            /\ SwitchContext(c)
            /\ UNCHANGED quantum
         \/ /\ t # Idle /\ Preemptible(t) /\ ~Expired(t)
            /\ quantum' = Consumed(t)
            /\ UNCHANGED <<rq, current, retired, cpc, fresh>>
         \/ /\ t # Idle /\ Preemptible(t) /\ Expired(t)
            /\ quantum' = Consumed(t)
            /\ SwitchContext(c)
      /\ UNCHANGED <<attr, pool, born, tpc, target, events, armed, frozen,
                     state, panics>>

-----------------------------------------------------------------------------
(* A thread's own code, run while it is current on CPU c with interrupts   *)
(* enabled (cpc = "user").                                                 *)

Runs(c, t) == /\ cpc[c] = "user" /\ t = current[c] /\ t # Idle

\* Scheduler::yield_thread: switch_context with interrupts disabled.
Yield(c) ==
  LET t == current[c]
  IN  /\ "yield" \in Ops /\ Runs(c, t) /\ tpc[t] = "run"
      /\ SwitchContext(c)
      /\ UNCHANGED <<attr, pool, born, quantum, tpc, target, events, armed,
                     frozen, state, panics>>

\* Scheduler::wait_for(object, duration), all of it with interrupts
\* disabled: object.set(current) (a CAS that leaves a set object alone),
\* then Timer::sleep(duration) when duration > 0 (schedule_timer of a
\* OneShot(current) event, then Scheduler::sleep) or else Scheduler::sleep
\* (insert ASLEEP, switch_context).  The call with neither an object nor a
\* duration sleeps until some unrelated wake and is not enumerated.
WaitFor(c) ==
  LET t == current[c]
  IN  /\ "wait_for" \in Ops /\ Runs(c, t) /\ tpc[t] = "run"
      /\ \E useObj, timed \in BOOLEAN :
           /\ useObj \/ timed
           /\ armed' = IF useObj THEN [armed EXCEPT ![t] = TRUE] ELSE armed
           /\ IF timed
                THEN /\ TotalEvents < MaxEvents
                     /\ events' = [events EXCEPT ![t] = @ + 1]
                ELSE UNCHANGED events
      /\ attr' = [attr EXCEPT ![t] = @ \cup {"ASLEEP"}]
      /\ SwitchContext(c)
      /\ UNCHANGED <<pool, born, quantum, tpc, target, frozen, state, panics>>

\* Timer::sleep called with interrupts enabled: schedule_timer succeeds,
\* then the thread runs on (and can be preempted) until Scheduler::sleep.
TimerSleep(c) ==
  LET t == current[c]
  IN  /\ "timer_sleep" \in Ops /\ Runs(c, t) /\ tpc[t] = "run"
      /\ TotalEvents < MaxEvents
      /\ events' = [events EXCEPT ![t] = @ + 1]
      /\ tpc' = [tpc EXCEPT ![t] = "tsleep"]
      /\ UNCHANGED <<attr, pool, born, rq, current, retired, cpc, fresh,
                     quantum, target, armed, frozen, state, panics>>

\* Scheduler::sleep reached from Timer::sleep (directly or from exit).
SleepAfterTimer(c) ==
  LET t == current[c]
  IN  /\ Runs(c, t) /\ tpc[t] \in {"tsleep", "exit_tsleep"}
      /\ attr' = [attr EXCEPT ![t] = @ \cup {"ASLEEP"}]
      /\ SwitchContext(c)
      /\ tpc' = [tpc EXCEPT ![t] = IF @ = "tsleep" THEN "run" ELSE "exit_zombie"]
      /\ UNCHANGED <<pool, born, quantum, target, events, armed, frozen,
                     state, panics>>

\* ThreadHandle::wake by thread t running on CPU c: as_ref() (which panics
\* on a handle no longer in the pool), insert AWAKE, then Scheduler::add.
Wake(c, t, x) ==
  \/ /\ x \notin pool
     /\ Panic(c, "stale_handle")
     /\ UNCHANGED <<attr, tpc, target>>
  \/ /\ x \in pool
     /\ attr' = [attr EXCEPT ![x] = @ \cup {"AWAKE"}]
     /\ tpc' = [tpc EXCEPT ![t] = "add_check"]
     /\ target' = [target EXCEPT ![t] = x]
     /\ UNCHANGED <<cpc, frozen, panics>>

\* SignallingObject::new: the slot is initialised with the current thread's
\* handle, so a signal can wake the thread before it ever waits.
NewObject(c) ==
  LET t == current[c]
  IN  /\ "new_object" \in Ops /\ Runs(c, t) /\ tpc[t] = "run"
      /\ ~armed[t]
      /\ armed' = [armed EXCEPT ![t] = TRUE]
      /\ UNCHANGED <<attr, pool, born, rq, current, retired, cpc, fresh,
                     quantum, tpc, target, events, frozen, state, panics>>

\* SignallingObject::signal: unbox() swaps the slot to NONE and wakes the
\* thread it held.
Signal(c) ==
  LET t == current[c]
  IN  /\ "signal" \in Ops /\ Runs(c, t) /\ tpc[t] = "run"
      /\ \E x \in born :
           /\ armed[x]
           /\ armed' = [armed EXCEPT ![x] = FALSE]
           /\ Wake(c, t, x)
      /\ UNCHANGED <<pool, born, rq, current, retired, fresh, quantum,
                     events, state>>

\* TimerEvent::fire of a due OneShot(x) event: the event is removed from
\* the timer queue and x.wake() runs.
Fire(c) ==
  LET t == current[c]
  IN  /\ "fire" \in Ops /\ Runs(c, t) /\ tpc[t] = "run"
      /\ \E x \in Threads :
           /\ events[x] > 0
           /\ events' = [events EXCEPT ![x] = @ - 1]
           /\ Wake(c, t, x)
      /\ UNCHANGED <<pool, born, rq, current, retired, fresh, quantum,
                     armed, state>>

\* ThreadHandle::next: NEXT_ID.fetch_add(1) never hands out a handle twice.
Unissued == Threads \ born

\* ThreadPool::add: the new thread enters the pool.
PoolAdd(u) == pool \cup {u}

\* Scheduler::spawn_f: RawThread::new takes a fresh handle and adds the
\* thread (attribute empty, context initialised) to the pool, then add().
Spawn(c) ==
  LET t == current[c]
  IN  /\ "spawn" \in Ops /\ Runs(c, t) /\ tpc[t] = "run"
      /\ \E u \in Unissued :
           /\ born' = born \cup {u}
           /\ pool' = PoolAdd(u)
           /\ fresh' = fresh \cup {u}
           /\ tpc' = [tpc EXCEPT ![t] = "add_check"]
           /\ target' = [target EXCEPT ![t] = u]
      /\ UNCHANGED <<attr, rq, current, retired, cpc, quantum, events, armed,
                     frozen, state, panics>>

\* Scheduler::add, first part: as_ref() (panics on a dropped handle), and
\* return when the thread is a zombie.
AddCheck(c) ==
  LET t == current[c]
      x == target[t]
  IN  /\ Runs(c, t) /\ tpc[t] = "add_check"
      /\ \/ /\ x \notin pool
            /\ Panic(c, "stale_handle")
            /\ UNCHANGED <<tpc, target>>
         \/ /\ x \in pool /\ "ZOMBIE" \in attr[x]
            /\ tpc' = [tpc EXCEPT ![t] = "run"]
            /\ target' = [target EXCEPT ![t] = NONE]
            /\ UNCHANGED <<cpc, frozen, panics>>
         \/ /\ x \in pool /\ "ZOMBIE" \notin attr[x]
            /\ tpc' = [tpc EXCEPT ![t] = "add_queue"]
            /\ UNCHANGED <<target, cpc, frozen, panics>>
      /\ UNCHANGED <<attr, pool, born, rq, current, retired, fresh, quantum,
                     events, armed, state>>

\* Mutant: add inserts QUEUED without testing it.
QueuedWasClearIgnored(x) == TRUE

\* !test_and_set(QUEUED): add finds QUEUED clear (and sets it).
QueuedWasClear(x) == "QUEUED" \notin attr[x]

\* Scheduler::add, second part, through the reference taken by as_ref():
\* test_and_set(QUEUED); when it was clear, test_and_clear(AWAKE) with
\* remove(ASLEEP), and enqueue (whose unwrap panics on a full queue).
\* The reference stays valid after drop_thread because the exiting thread
\* never releases its Arc (exit does not return from ThreadHandle::update).
AddQueue(c) ==
  LET t == current[c]
      x == target[t]
      a == [attr EXCEPT ![x] = IF "AWAKE" \in @
                                 THEN (@ \cup {"QUEUED"}) \ {"AWAKE", "ASLEEP"}
                                 ELSE @ \cup {"QUEUED"}]
  IN  /\ Runs(c, t) /\ tpc[t] = "add_queue"
      /\ \/ /\ ~QueuedWasClear(x)
            /\ tpc' = [tpc EXCEPT ![t] = "run"]
            /\ target' = [target EXCEPT ![t] = NONE]
            /\ UNCHANGED <<attr, rq, cpc, frozen, panics>>
         \/ /\ QueuedWasClear(x) /\ Full(x)
            /\ attr' = a
            /\ Panic(c, "queue_full")
            /\ UNCHANGED <<rq, tpc, target>>
         \/ /\ QueuedWasClear(x) /\ ~Full(x)
            /\ attr' = a
            /\ rq' = Pushed(x)
            /\ tpc' = [tpc EXCEPT ![t] = "run"]
            /\ target' = [target EXCEPT ![t] = NONE]
            /\ UNCHANGED <<cpc, frozen, panics>>
      /\ UNCHANGED <<pool, born, current, retired, fresh, quantum, events,
                     armed, state>>

\* Scheduler::exit -> RawThread::exit: signal the join semaphore, run the
\* personality's on_exit, then Timer::sleep(2 s) (interrupts enabled).
Exit(c) ==
  LET t == current[c]
  IN  /\ "exit" \in Ops /\ Runs(c, t) /\ tpc[t] = "run"
      /\ TotalEvents < MaxEvents
      /\ events' = [events EXCEPT ![t] = @ + 1]
      /\ tpc' = [tpc EXCEPT ![t] = "exit_tsleep"]
      /\ UNCHANGED <<attr, pool, born, rq, current, retired, cpc, fresh,
                     quantum, target, armed, frozen, state, panics>>

\* RawThread::exit after the sleep: attribute.insert(ZOMBIE).
ExitZombie(c) ==
  LET t == current[c]
  IN  /\ Runs(c, t) /\ tpc[t] = "exit_zombie"
      /\ attr' = [attr EXCEPT ![t] = @ \cup {"ZOMBIE"}]
      /\ tpc' = [tpc EXCEPT ![t] = "exit_sleep"]
      /\ UNCHANGED <<pool, born, rq, current, retired, cpc, fresh, quantum,
                     target, events, armed, frozen, state, panics>>

\* RawThread::exit: the final Scheduler::sleep; what follows it is
\* unreachable!().
ExitSleep(c) ==
  LET t == current[c]
  IN  /\ Runs(c, t) /\ tpc[t] = "exit_sleep"
      /\ attr' = [attr EXCEPT ![t] = @ \cup {"ASLEEP"}]
      /\ SwitchContext(c)
      /\ tpc' = [tpc EXCEPT ![t] = "dead"]
      /\ UNCHANGED <<pool, born, quantum, target, events, armed, frozen,
                     state, panics>>

-----------------------------------------------------------------------------
(* Other writers of the scheduler's shared state.                          *)

\* Scheduler::freeze, called by the panic handler and Cpu::reset.
Freeze ==
  /\ "freeze" \in Ops /\ ~frozen
  /\ frozen' = TRUE
  /\ UNCHANGED <<attr, pool, born, rq, current, retired, cpc, fresh, quantum,
                 tpc, target, events, armed, state, panics>>

\* The statistics thread's store of a new SchedulerState.
SetState ==
  /\ "set_state" \in Ops
  /\ \E s \in States \ {state} : state' = s
  /\ UNCHANGED <<attr, pool, born, rq, current, retired, cpc, fresh, quantum,
                 tpc, target, events, armed, frozen, panics>>

CpuStep(c) ==
  \/ Resume(c) \/ Unqueue(c) \/ Tick(c)
  \/ Yield(c) \/ WaitFor(c) \/ TimerSleep(c) \/ SleepAfterTimer(c)
  \/ NewObject(c) \/ Signal(c) \/ Fire(c) \/ Spawn(c) \/ AddCheck(c) \/ AddQueue(c)
  \/ Exit(c) \/ ExitZombie(c) \/ ExitSleep(c)

Next == (\E c \in CPUs : CpuStep(c)) \/ Freeze \/ SetState

\* The steps a thread takes without choosing: once it is dispatched again
\* it executes its next statement.
ThreadContinues(t) ==
  \E c \in CPUs : /\ current[c] = t
                  /\ AddCheck(c) \/ AddQueue(c) \/ SleepAfterTimer(c)
                     \/ ExitZombie(c) \/ ExitSleep(c)

\* Timer interrupts keep arriving on every CPU, and interrupts-disabled
\* scheduler code runs to its end.  A thread that is dispatched again and
\* again eventually executes its next statement (strong fairness, since it
\* is switched in and out).
Fairness ==
  /\ \A c \in CPUs : WF_vars(Tick(c)) /\ WF_vars(Resume(c))
                     /\ WF_vars(Unqueue(c))
  /\ \A t \in Threads : SF_vars(ThreadContinues(t))

Spec == Init /\ [][Next]_vars
FairSpec == Spec /\ Fairness

-----------------------------------------------------------------------------
(* Properties.                                                             *)

TypeOK ==
  /\ attr \in [Threads -> SUBSET Flags]
  /\ pool \subseteq born /\ born \subseteq Threads
  /\ rq \in [RunQueues -> Seq(Threads)]
  /\ current \in [CPUs -> Threads \cup {Idle}]
  /\ retired \in [CPUs -> Threads \cup {Idle, NONE}]
  /\ cpc \in [CPUs -> CpuPCs]
  /\ fresh \subseteq born
  /\ quantum \in [Threads -> Nat]
  /\ tpc \in [Threads -> ThreadPCs]
  /\ target \in [Threads -> Threads \cup {NONE}]
  /\ events \in [Threads -> 0..MaxEvents]
  /\ armed \in [Threads -> BOOLEAN]
  /\ frozen \in BOOLEAN
  /\ state \in States
  /\ panics \subseteq {"queue_full", "stale_handle"}

\* The QUEUED handshake of add/retire keeps every thread in at most one
\* place (one run-queue slot, one CPU's current, or one CPU's retired), so
\* no two CPUs run or save the same context; a queued or running thread
\* has QUEUED set (spec invariant 1); and only pool members are placed.
RunQueueIntegrity ==
  \A t \in Threads :
    /\ Places(t) <= 1
    /\ (InQueue(t) \/ Running(t)) => "QUEUED" \in attr[t]
    /\ Places(t) > 0 => t \in pool

\* Refinement mapping to the thread life cycle of spec.md 4.7: where the
\* thread is (pool, run-queue, CPU) and its ZOMBIE bit give its state.  A
\* thread stays Running while its CPU retires it, until retire has
\* re-enqueued it, cleared its QUEUED bit, or dropped it.
LifeState(t) ==
  IF t \notin born THEN "Unborn"
  ELSE IF t \notin pool THEN "Dead"
  ELSE IF InQueue(t) THEN "Ready"
  ELSE IF "ZOMBIE" \in attr[t] THEN "Zombie"
  ELSE IF Running(t) \/ Retiring(t) THEN "Running"
  ELSE IF t \in fresh THEN "Fresh"
  ELSE "Asleep"

Life == INSTANCE ThreadLifecycle WITH st <- [t \in Threads |-> LifeState(t)]

\* Every step of the scheduler moves at most one thread, along a transition
\* of the life cycle of spec.md 4.7: nothing is dispatched that was not on
\* a run-queue, a sleeper only returns through a wake and add, a zombie is
\* never re-enqueued or dispatched, and a dropped thread never comes back.
LifecycleRefined == Life!Spec

\* No lost wakeup: a live thread that is on no run-queue and on no CPU
\* (it went to sleep and retire took it off) still has something that will
\* wake it: a pending OneShot timer event, its SignallingObject holding its
\* handle, or a wake or spawn whose Scheduler::add is in progress.  (After
\* a kernel panic the system is halted and nothing is owed.)
Blocked(t) == t \in pool /\ Places(t) = 0 /\ panics = {}
HasWaker(t) ==
  \/ events[t] > 0
  \/ armed[t]
  \/ \E w \in Threads : tpc[w] \in {"add_check", "add_queue"} /\ target[w] = t
SleeperHasWaker == \A t \in Threads : Blocked(t) => HasWaker(t)

\* A thread handle stays valid for every wake that can reach it: no
\* ThreadHandle::as_ref() (in wake or in Scheduler::add) unwraps the None
\* of a thread that exited and was dropped by retire.
NoStaleHandlePanic == "stale_handle" \notin panics

\* Spec property 8: enqueueing into a full priority queue returns an error
\* and leaves the queues unchanged; Scheduler::enqueue instead unwraps the
\* ArrayQueue push, so no full queue may ever be reached.
NoQueueFullPanic == "queue_full" \notin panics

\* Round robin: every thread waiting on a run-queue is eventually running
\* (unless the scheduler is frozen), given timer ticks on every CPU.
EventuallyDispatched ==
  \A t \in Threads : InQueue(t) ~> (Running(t) \/ frozen)
=============================================================================
