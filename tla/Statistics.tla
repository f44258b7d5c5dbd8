------------------------------ MODULE Statistics ------------------------------
(***************************************************************************)
(* CPU time accounting and load measurement of                            *)
(* src/sys/kernel/src/task/scheduler.rs: the statistics update of          *)
(* LocalScheduler::switch_context for the outgoing thread, the reset of    *)
(* measure when a thread is switched in (post-switch code and              *)
(* sch_setup_new_thread), and one pass of Scheduler::statistics_thread,    *)
(* which swaps every load0 to 0, derives load, usage and the scheduler     *)
(* state.  Which thread a CPU switches to is left open: any thread that is *)
(* neither current nor being retired on some CPU.  Time is counted in the  *)
(* timer source's units; load0 keeps its width, Width bits (32 in the      *)
(* code).                                                                  *)
(***************************************************************************)
EXTENDS Naturals, FiniteSets, Functions, TLC

CONSTANTS
  CPUs,        \* logical CPUs
  PerfCPUs,    \* System::num_of_performance_cpus()
  Threads,     \* threads in the pool
  IdleThreads, \* the idle threads (Priority::Idle), one per CPU
  Interval,    \* the duration of the statistics thread's Timer::sleep
  Width,       \* bit width of load0 (AtomicU32)
  MaxTime,     \* model bound on the clock
  NoThread     \* None, for LocalScheduler.retired

ASSUME /\ NoThread \notin Threads
       /\ IdleThreads \subseteq Threads
       /\ Cardinality(Threads) > Cardinality(CPUs)
       /\ PerfCPUs \in 0..Cardinality(CPUs)

\* The constants of scheduler.rs.
THRESHOLD_SAVING == 666
THRESHOLD_FULL_THROTTLE_MODE == 750
Expect == 1000000

VARIABLES
  now,        \* Timer::measure()
  cur,        \* [CPUs -> Threads] the current thread of each local scheduler
  retired,    \* [CPUs -> Threads \cup {NoThread}] thread being switched out
  measure,    \* [Threads -> Nat] RawThread.measure
  cpu_time,   \* [Threads -> Nat] RawThread.cpu_time
  load0,      \* [Threads -> 0..2^Width-1] RawThread.load0
  load,       \* [Threads -> 0..1000] RawThread.load
  smeasure,   \* the statistics thread's local measure
  usage,      \* Scheduler.usage
  usage_total,\* Scheduler.usage_total
  state,      \* Scheduler.state
  ran,        \* ghost: time each thread has really been running
  swapped     \* ghost: sum of the load0 values taken by the statistics thread

vars == <<now, cur, retired, measure, cpu_time, load0, load, smeasure, usage,
          usage_total, state, ran, swapped>>

NCPU == Cardinality(CPUs)

\* A CPU runs its current thread unless it is inside switch_context between
\* the switch and the post-switch code.
Running(t) == \E c \in CPUs : cur[c] = t /\ retired[c] = NoThread

\* Time a running thread has run since its measure was last stored.
Pending(t) == IF Running(t) THEN now - measure[t] ELSE 0

Init ==
  /\ now = 0
  /\ \E f \in [CPUs -> IdleThreads] : /\ IsInjective(f)
                                      /\ cur = f
  /\ retired = [c \in CPUs |-> NoThread]
  /\ measure = [t \in Threads |-> 0]
  /\ cpu_time = [t \in Threads |-> 0]
  /\ load0 = [t \in Threads |-> 0]
  /\ load = [t \in Threads |-> 0]
  /\ smeasure = 0
  /\ usage = 0
  /\ usage_total = 0
  /\ state = "Running"
  /\ ran = [t \in Threads |-> 0]
  /\ swapped = [t \in Threads |-> 0]

-----------------------------------------------------------------------------

\* The clock ticks; every running thread runs for that tick.
Clock ==
  /\ now < MaxTime
  /\ now' = now + 1
  /\ ran' = [t \in Threads |-> IF Running(t) THEN ran[t] + 1 ELSE ran[t]]
  /\ UNCHANGED <<cur, retired, measure, cpu_time, load0, load, smeasure,
                 usage, usage_total, state, swapped>>

\* The statistics update of switch_context for the outgoing thread:
\* diff = now - measure; cpu_time += diff; load0 += diff as u32;
\* measure = now.
Account(t) ==
  LET diff == now - measure[t] IN
  /\ cpu_time' = [cpu_time EXCEPT ![t] = @ + diff]
  /\ load0' = [load0 EXCEPT ![t] = (@ + (diff % 2^Width)) % 2^Width]
  /\ measure' = [measure EXCEPT ![t] = now]

\* switch_context on CPU c: account the current thread; if next() chose
\* another thread n, make it current and switch (the old one becomes
\* retired until the post-switch code runs on the new stack).
SwitchContext(c) ==
  /\ retired[c] = NoThread
  /\ Account(cur[c])
  /\ \/ /\ UNCHANGED <<cur, retired>>
     \/ \E n \in Threads \ IdleThreads :
          /\ n \notin Range(cur) /\ n \notin Range(retired)
          /\ cur' = [cur EXCEPT ![c] = n]
          /\ retired' = [retired EXCEPT ![c] = cur[c]]
     \/ \E n \in IdleThreads :
          /\ n \notin Range(cur) /\ n \notin Range(retired)
          /\ cur' = [cur EXCEPT ![c] = n]
          /\ retired' = [retired EXCEPT ![c] = cur[c]]
  /\ UNCHANGED <<now, load, smeasure, usage, usage_total, state, ran, swapped>>

\* Mutant: the switched-in thread keeps the measure stored when it was
\* switched out.
ResetMeasureDropped(c) == measure

\* The post-switch code (or sch_setup_new_thread for a new thread): the
\* now-current thread stores measure = now; the retired thread is retired.
ResetMeasure(c) == [measure EXCEPT ![cur[c]] = now]

PostSwitch(c) ==
  /\ retired[c] # NoThread
  /\ measure' = ResetMeasure(c)
  /\ retired' = [retired EXCEPT ![c] = NoThread]
  /\ UNCHANGED <<now, cur, cpu_time, load0, load, smeasure, usage,
                 usage_total, state, ran, swapped>>

\* Mutant: load0 is read and not swapped to 0.
TakeLoad0Keeps == load0

\* load0.swap(0) for every thread of the pool.
TakeLoad0 == [t \in Threads |-> 0]

\* Mutant: the load is not clamped to one CPU.
LoadOfUnclamped(l0, actual) == (l0 * Expect) \div (actual * 1000)

\* load = min(load0 * expect / actual1000, 1000).
LoadOf(l0, actual) == LET v == (l0 * Expect) \div (actual * 1000) IN
                      IF v < 1000 THEN v ELSE 1000

\* The state chosen from usage_total.
StateOf(total) ==
  IF total < THRESHOLD_SAVING THEN "Saving"
  ELSE IF total > PerfCPUs * THRESHOLD_FULL_THROTTLE_MODE THEN "FullThrottle"
  ELSE "Running"

\* One pass of the statistics_thread loop, once its Timer::sleep(interval)
\* has returned (at the deadline or later).
Statistics ==
  /\ now - smeasure >= Interval
  /\ LET actual == now - smeasure
         newload == [t \in Threads |-> LoadOf(load0[t], actual)]
         sum == SumFunctionOnSet(newload, Threads \ IdleThreads)
         total == IF sum < NCPU * 1000 THEN sum ELSE NCPU * 1000
     IN /\ load' = newload
        /\ usage_total' = total
        /\ usage' = IF sum \div NCPU < 1000 THEN sum \div NCPU ELSE 1000
        /\ state' = StateOf(total)
  /\ load0' = TakeLoad0
  /\ swapped' = [t \in Threads |-> swapped[t] + load0[t]]
  /\ smeasure' = now
  /\ UNCHANGED <<now, cur, retired, measure, cpu_time, ran>>

Next ==
  \/ Clock \/ Statistics
  \/ \E c \in CPUs : SwitchContext(c) \/ PostSwitch(c)

Spec == Init /\ [][Next]_vars

-----------------------------------------------------------------------------

TypeOK ==
  /\ now \in 0..MaxTime
  /\ cur \in [CPUs -> Threads]
  /\ retired \in [CPUs -> Threads \cup {NoThread}]
  /\ measure \in [Threads -> 0..MaxTime]
  /\ cpu_time \in [Threads -> 0..MaxTime]
  /\ load0 \in [Threads -> 0..(2^Width - 1)]
  /\ load \in [Threads -> 0..1000]
  /\ usage \in 0..1000 /\ usage_total \in 0..(NCPU * 1000)
  /\ state \in {"Saving", "Running", "FullThrottle"}

\* Every unit of time a thread runs is counted exactly once: in cpu_time,
\* and in the stream of load0 values the statistics thread swaps out,
\* once the running stretch has been accounted by switch_context; this
\* needs the post-switch reset of measure on the CPU that picks the thread
\* up, and no loss in the u32 addition to load0.
TimeAccounted ==
  \A t \in Threads :
    /\ cpu_time[t] + Pending(t) = ran[t]
    /\ swapped[t] + load0[t] + Pending(t) = ran[t]
=============================================================================
