-------------------------------- MODULE Timer --------------------------------
(***************************************************************************)
(* The timer subsystem of src/sys/kernel/src/task/scheduler.rs: the        *)
(* bounded ingress timer_queue, Timer::sleep with its retry loop, the      *)
(* scheduler_thread that drains, sorts and fires OneShot events, the       *)
(* next_timer it leaves for Scheduler::next, and the counting semaphore    *)
(* sem_timer between them.  Time is a discrete clock (the timer source's   *)
(* measure()).                                                             *)
(*                                                                         *)
(* The sleep/wake protocol of Scheduler.tla is taken here at its          *)
(* specification: a wake makes an asleep thread runnable, and sets AWAKE   *)
(* on a thread that is not asleep, which makes its next Scheduler::sleep   *)
(* return at once unless a switch-in clears AWAKE first.  Timer::sleep is  *)
(* taken as reached from wait_for (interrupts disabled), so a thread is    *)
(* not preempted between schedule_timer and Scheduler::sleep.             *)
(***************************************************************************)
EXTENDS Naturals, Sequences, FiniteSets, TLC

CONSTANTS
  Threads,     \* threads that sleep (owners of OneShot events)
  Durations,   \* durations passed to Timer::sleep, in clock ticks
  Kinds,       \* entry points used: "sleep" (Timer::sleep), "wait_for"
  MaxTime,     \* model bound on the clock
  QueueCap,    \* capacity of timer_queue (ArrayQueue::new(100))
  MaxEvents,   \* model bound on the OneShot events ever scheduled
  MaxSignals   \* model bound on the count of sem_timer

ASSUME /\ Durations \subseteq Nat \ {0}
       /\ Kinds \subseteq {"sleep", "wait_for"}
       /\ QueueCap \in Nat \ {0}

VARIABLES
  now,         \* TIMER_SOURCE.measure()
  timer_queue, \* Scheduler.timer_queue, oldest first
  events,      \* scheduler_thread's local Vec<TimerEvent>
  next_timer,  \* Scheduler.next_timer.deadline; 0 is Timer::JUST
  sem_timer,   \* count of Scheduler.sem_timer
  spc,         \* scheduler_thread's program point
  issued,      \* OneShot events pushed so far; the ids are 1..issued
  fired,       \* ids of the events fired
  pc,          \* [Threads -> {"run", "sched", "asleep"}]
  deadline,    \* [Threads -> Nat] deadline of the thread's Timer::sleep
  kind,        \* [Threads -> Kinds] how that sleep was entered
  awake,       \* [Threads -> BOOLEAN] AWAKE set while not asleep
  armed        \* [Threads -> BOOLEAN] its SignallingObject holds it

vars == <<now, timer_queue, events, next_timer, sem_timer, spc, issued, fired,
          pc, deadline, kind, awake, armed>>

Event == [id : Nat, owner : Threads, deadline : Nat]

\* Timer::until: TRUE while the deadline is still ahead; Timer::JUST
\* (deadline 0) has always expired.
Until(d) == d # 0 /\ now < d

\* The sort_by key of scheduler_thread: deadline, ties in push order
\* (sort_by is stable and ids grow in push order).
Earlier(a, b) == a.deadline < b.deadline
                 \/ (a.deadline = b.deadline /\ a.id < b.id)

Init ==
  /\ now = 0
  /\ timer_queue = <<>>
  /\ events = <<>>
  /\ next_timer = 0
  /\ sem_timer = 0
  /\ spc = "drain"
  /\ issued = 0
  /\ fired = {}
  /\ pc = [t \in Threads |-> "run"]
  /\ deadline = [t \in Threads |-> 0]
  /\ kind = [t \in Threads |-> "sleep"]
  /\ awake = [t \in Threads |-> FALSE]
  /\ armed = [t \in Threads |-> FALSE]

-----------------------------------------------------------------------------
(* The clock, and the scheduler's read of next_timer.                      *)

Clock ==
  /\ now < MaxTime
  /\ now' = now + 1
  /\ UNCHANGED <<timer_queue, events, next_timer, sem_timer, spc, issued,
                 fired, pc, deadline, kind, awake, armed>>

\* Mutant: the test of Scheduler::next without its negation.
NextTimerPending == Until(next_timer)

\* Scheduler::next: !next_timer.until().
NextTimerPassed == ~Until(next_timer)

\* Scheduler::next on any CPU: signal sem_timer when next_timer has passed.
Poll ==
  /\ NextTimerPassed
  /\ sem_timer < MaxSignals
  /\ sem_timer' = sem_timer + 1
  /\ UNCHANGED <<now, timer_queue, events, next_timer, spc, issued, fired,
                 pc, deadline, kind, awake, armed>>

-----------------------------------------------------------------------------
(* Waking a thread (ThreadHandle::wake through Scheduler::add).            *)

\* Mutant: wake only sets AWAKE and never re-queues a sleeper.
WakeFlagOnly(t) ==
  /\ awake' = [awake EXCEPT ![t] = TRUE]
  /\ UNCHANGED pc

\* An asleep thread is re-queued (and AWAKE is cleared when it is switched
\* in); on a thread not asleep, AWAKE stays set.
Wake(t) ==
  IF pc[t] = "asleep"
    THEN /\ pc' = [pc EXCEPT ![t] = "run"]
         /\ UNCHANGED awake
    ELSE /\ awake' = [awake EXCEPT ![t] = TRUE]
         /\ UNCHANGED pc

-----------------------------------------------------------------------------
(* Sleeping threads.                                                       *)

\* Timer::sleep(duration), or wait_for(Some(object), duration) which first
\* sets the object to the current thread: Timer::new(duration) fixes the
\* deadline at now + duration.
Sleep(t) ==
  /\ pc[t] = "run"
  /\ issued + Cardinality({u \in Threads : pc[u] = "sched"}) < MaxEvents
  /\ \E d \in Durations, k \in Kinds :
       /\ now + d <= MaxTime
       /\ deadline' = [deadline EXCEPT ![t] = now + d]
       /\ kind' = [kind EXCEPT ![t] = k]
       /\ armed' = IF k = "wait_for" THEN [armed EXCEPT ![t] = TRUE] ELSE armed
  /\ pc' = [pc EXCEPT ![t] = "sched"]
  /\ UNCHANGED <<now, timer_queue, events, next_timer, sem_timer, spc, issued,
                 fired, awake>>

\* Mutant: the capacity test of the push is off by one.
HasRoomOffByOne == Len(timer_queue) <= QueueCap

\* schedule_timer: timer_queue.push succeeds while the queue has room.
HasRoom == Len(timer_queue) < QueueCap

\* One turn of the while timer.until() loop of Timer::sleep: leave when the
\* deadline has passed; otherwise schedule_timer, which pushes the event
\* and signals sem_timer, followed by Scheduler::sleep; or, when the queue
\* is full, yield_thread and retry (the switch-in clears AWAKE).
Schedule(t) ==
  /\ pc[t] = "sched"
  /\ \/ /\ ~Until(deadline[t])
        /\ pc' = [pc EXCEPT ![t] = "run"]
        /\ UNCHANGED <<timer_queue, sem_timer, issued, awake>>
     \/ /\ Until(deadline[t])
        /\ HasRoom
        /\ issued' = issued + 1
        /\ timer_queue' = Append(timer_queue,
                            [id |-> issued + 1, owner |-> t,
                             deadline |-> deadline[t]])
        /\ sem_timer' = sem_timer + 1
        /\ pc' = [pc EXCEPT ![t] = IF awake[t] THEN "run" ELSE "asleep"]
        /\ awake' = [awake EXCEPT ![t] = FALSE]
     \/ /\ Until(deadline[t])
        /\ ~HasRoom
        /\ awake' = [awake EXCEPT ![t] = FALSE]
        /\ UNCHANGED <<timer_queue, sem_timer, issued, pc>>
  /\ UNCHANGED <<now, events, next_timer, spc, fired, deadline, kind, armed>>

\* SignallingObject::signal by another thread: unbox, then wake.
Signal(t) ==
  /\ armed[t]
  /\ armed' = [armed EXCEPT ![t] = FALSE]
  /\ Wake(t)
  /\ UNCHANGED <<now, timer_queue, events, next_timer, sem_timer, spc, issued,
                 fired, deadline, kind>>

\* A running thread is switched out and back in: the post-switch code of
\* switch_context clears AWAKE.
SwitchIn(t) ==
  /\ pc[t] = "run" /\ awake[t]
  /\ awake' = [awake EXCEPT ![t] = FALSE]
  /\ UNCHANGED <<now, timer_queue, events, next_timer, sem_timer, spc, issued,
                 fired, pc, deadline, kind, armed>>

-----------------------------------------------------------------------------
(* Scheduler::scheduler_thread, a Realtime thread.                         *)

\* Pop everything from timer_queue into the Vec and sort it by deadline.
Drain ==
  /\ spc = "drain"
  /\ events' = SortSeq(events \o timer_queue, Earlier)
  /\ timer_queue' = <<>>
  /\ spc' = "fire"
  /\ UNCHANGED <<now, next_timer, sem_timer, issued, fired, pc, deadline,
                 kind, awake, armed>>

\* Mutant: the loop fires the first event without testing its deadline.
HeadDueAlways == events # <<>>

\* while let Some(event) = events.first(): continue while !event.until().
HeadDue == events # <<>> /\ ~Until(Head(events).deadline)

\* events.remove(0).fire(): a OneShot event wakes its thread.
Fire ==
  /\ spc = "fire" /\ HeadDue
  /\ events' = Tail(events)
  /\ fired' = fired \cup {Head(events).id}
  /\ Wake(Head(events).owner)
  /\ UNCHANGED <<now, timer_queue, next_timer, sem_timer, spc, issued,
                 deadline, kind, armed>>

\* After the loop: next_timer = the first remaining deadline, when there is
\* one (otherwise it keeps its old value); then sem_timer.wait().
SetNext ==
  /\ spc = "fire" /\ ~HeadDue
  /\ next_timer' = IF events # <<>> THEN Head(events).deadline ELSE next_timer
  /\ spc' = "wait"
  /\ UNCHANGED <<now, timer_queue, events, sem_timer, issued, fired, pc,
                 deadline, kind, awake, armed>>

\* Semaphore::wait: take a signal, or block until there is one.
Wait ==
  /\ spc = "wait" /\ sem_timer > 0
  /\ sem_timer' = sem_timer - 1
  /\ spc' = "drain"
  /\ UNCHANGED <<now, timer_queue, events, next_timer, issued, fired, pc,
                 deadline, kind, awake, armed>>

TimerThread == Drain \/ Fire \/ SetNext \/ Wait

Next ==
  \/ Clock \/ Poll \/ TimerThread
  \/ \E t \in Threads : Sleep(t) \/ Schedule(t) \/ Signal(t) \/ SwitchIn(t)

\* Time passes; some CPU keeps passing through Scheduler::next; the
\* Realtime timer thread runs whenever it is signalled; a thread inside
\* Timer::sleep keeps running its loop (it is runnable, and yield_thread
\* re-queues it).
Fairness ==
  /\ WF_vars(Clock) /\ WF_vars(Poll) /\ WF_vars(TimerThread)
  /\ \A t \in Threads : WF_vars(Schedule(t))

Spec == Init /\ [][Next]_vars
FairSpec == Spec /\ Fairness

-----------------------------------------------------------------------------
(* Properties.                                                             *)

TypeOK ==
  /\ now \in 0..MaxTime
  /\ timer_queue \in Seq(Event) /\ Len(timer_queue) <= QueueCap
  /\ events \in Seq(Event)
  /\ next_timer \in 0..MaxTime
  /\ sem_timer \in 0..(MaxSignals + MaxEvents)
  /\ spc \in {"drain", "fire", "wait"}
  /\ issued \in 0..MaxEvents /\ fired \subseteq 1..issued
  /\ pc \in [Threads -> {"run", "sched", "asleep"}]
  /\ deadline \in [Threads -> 0..MaxTime]
  /\ kind \in [Threads -> Kinds]
  /\ awake \in [Threads -> BOOLEAN]
  /\ armed \in [Threads -> BOOLEAN]

\* Timer::sleep never returns before its deadline (spec scenario S2: a
\* sleep of 50 ms takes at least 50 ms): a thread that entered a plain
\* Timer::sleep leaves it only once the clock has reached the deadline.
SleepNotEarly ==
  [][\A t \in Threads :
       (pc[t] \in {"sched", "asleep"} /\ pc'[t] = "run" /\ kind[t] = "sleep")
         => now >= deadline[t]]_vars

\* Every OneShot event accepted by schedule_timer is eventually fired by
\* scheduler_thread (drain, sort, fire, next_timer and the sem_timer
\* signals of Scheduler::next together).
EveryEventFires ==
  \A i \in 1..MaxEvents : (i <= issued) ~> (i \in fired)

\* Every Timer::sleep returns: a thread retrying against a full
\* timer_queue, or asleep on its event, eventually runs again.
SleepReturns ==
  \A t \in Threads : (pc[t] # "run") ~> (pc[t] = "run")
=============================================================================
