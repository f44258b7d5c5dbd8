# TLA+ models of the myos thread scheduler

This directory holds TLA+ models of the kernel scheduler in
`src/sys/kernel/src/task/scheduler.rs` (its thread core, its timer subsystem
and its load statistics) and of the first-generation scheduler draft in `src/src/myos/scheduler.rs`
(its round-robin `GlobalScheduler`/`LocalScheduler` and its lock-free
`ThreadQueue`). It also
models the line breaking and text drawing of the kernel UI in
`src/system/kernel/src/ui/text.rs`. Alongside the modules are the
configurations TLC checks them with, and `PROJECT.json`. `PROJECT.json` lists the components, runs, mutants,
the map from every definition to the source lines it models, the findings and
the hazards.

## 1. The system

The scheduler is one Rust file. Its parts, leaves first:

| Part | State | Operations | Interacts with |
|---|---|---|---|
| Thread attributes (`ThreadAttributes`, `AtomicBitflags`) | `QUEUED`, `ASLEEP`, `AWAKE`, `ZOMBIE` per thread | `insert`, `remove`, `test_and_set`, `test_and_clear`, all atomic | every other part |
| Thread pool (`ThreadPool`, `ThreadHandle`) | map handle → `RawThread`, monotonic handle counter | `add`, `drop_thread`, `get`/`as_ref` (panics on a dropped handle) | spawn, retire, wake |
| Run-queues (`ThreadQueue` on `ArrayQueue`) | four bounded MPMC queues: Realtime, High, Normal (256 slots), Low (64 slots each for the others) | `enqueue` (`unwrap` on full), `dequeue` | `next`, `add`, `retire` |
| Global scheduler (`Scheduler`) | queues, `is_frozen`, `state` ∈ {Saving, Running, FullThrottle}, `timer_queue`, `next_timer`, `sem_timer`, usage counters | `next`, `enqueue`, `retire`, `add`, `reschedule`, `wait_for`, `sleep`, `yield_thread`, `spawn_f`, `exit`, `freeze`, `schedule_timer` | local schedulers, timer thread |
| Local scheduler (`LocalScheduler`, one per CPU) | `current`, `retired`, `idle` | `switch_context` (before and after the switch), `sch_setup_new_thread` | global scheduler |
| Preemption (`reschedule`, `Quantum`) | quantum per thread | `consume` on every tick; Realtime is never preempted | local scheduler |
| Timer (`Timer::sleep`, `TimerEvent`, `scheduler_thread`) | ingress `timer_queue` (100 slots), sorted event vector, `next_timer` | `schedule_timer`, `fire` → `wake` | add, `next` (which signals `sem_timer`) |
| `SignallingObject` | one handle slot | `new` (holds the creator), `set` (CAS from empty), `unbox`, `signal` → `wake` | wait_for, wake |
| Statistics thread | per-thread load, `state` | measures load every second, stores a new `state` | `next`'s gate |
| Panic handler (`lib.rs`) | — | `freeze(true)`, then the CPU stops | `next` |

How they interact:

- **Sleeping.** A thread sleeps by setting `ASLEEP` and calling `switch_context`.
  The CPU that switches away runs `retire` for it. retire re-queues the
  thread if `AWAKE` is set. Otherwise it takes `QUEUED` off, which lets the
  next wake's `add` enqueue the thread.
- **Waking.** A wake sets `AWAKE` and calls `add`. `add` enqueues only if its
  `test_and_set(QUEUED)` finds the bit clear.
- **Exiting.** A thread exits by sleeping 2 s, setting `ZOMBIE` and sleeping
  for good. retire then drops it from the pool.

Code that runs under `Cpu::without_interrupts` cannot be preempted on its own
CPU, but it can run concurrently with every other CPU. That covers
`switch_context`, `retire`, `wait_for`, `sleep` and `reschedule`.

Hard behaviours:

- wakes racing retire on other CPUs;
- preemption inside `Timer::sleep`, `wake` and `add`, which run with interrupts
  enabled;
- handles that outlive their thread;
- full bounded queues;
- the state gate, under which Sub cores do not dispatch;
- freeze after a panic.

The properties that make the system correct:

- a thread is in at most one place (a queue slot, or one CPU's
  `current`/`retired`), and `QUEUED` is set while it is queued or running
  (spec invariant 1, spec invariant 3);
- every thread follows the life cycle of spec 4.7 (spawned, ready, running,
  asleep, zombie, dropped): in particular a zombie is never re-queued or
  resumed and a dropped thread never returns (spec invariant 5);
- no wakeup is lost (spec property 4, scenario S5);
- no wake reaches a dropped handle;
- no enqueue reaches a full queue (spec property 8);
- every queued thread is eventually dispatched;
- a sleep never ends before its deadline, every accepted timer event fires,
  and every sleep returns (spec property 7, scenario S2);
- every unit of running time is counted once in `cpu_time` and in `load0`.

## 2. Modules

| Module | Models |
|---|---|
| `Scheduler.tla` | The whole scheduler core: run-queues, `next`, `switch_context`, `retire`, `add`, `wake`, `reschedule`, the sleep API, `SignallingObject`, `spawn_f`, `RawThread::exit`, `drop_thread`, `freeze`, the state store, and the panic handler's freeze and stop. |
| `ThreadLifecycle.tla` | The abstract life cycle of one thread (spec 4.7), one thread moving per step. `Scheduler` implements it under the mapping `LifeState` (`Life == INSTANCE ThreadLifecycle WITH st <- ...`), checked as the property `LifecycleRefined`. |
| `Timer.tla` | The timer subsystem: `timer_queue` (bounded), `Timer::sleep` with its retry loop, `wait_for`'s object and timeout, `scheduler_thread` (drain, sort, fire loop, `next_timer`, `sem_timer.wait`), `next()`'s signal of `sem_timer`, on a discrete clock. |
| `Statistics.tla` | CPU time accounting: the statistics half of `switch_context`, the `measure` reset after a switch, and one pass of `statistics_thread` (swap of `load0`, `load`, `usage`, `usage_total`, `state`). |
| `DraftQueue.tla` | The draft's lock-free `ThreadQueue` (`with_capacity`, `read`, `write`), one step per atomic operation of each CPU. It implements `BoundedFifo` under the mapping `AbsQueue`, checked as `FifoRefined`. |
| `DraftScheduler.tla` | The draft's round robin on one CPU: `GlobalScheduler::start`, `reschedule` with `Quantum::consume`, `wait_for`, `next`, `retire`, and `LocalScheduler::next_thread` split at `sch_switch_context` (with `sch_setup_new_thread`). It implements `ThreadLifecycle` under its own `LifeState`, checked as `LifecycleRefined`. |
| `TextLayout.tla` | `TextProcessing::line_statuses`, `bounding_size` and the char walk of `draw_text`, with `FontDescriptor::width_of`. These are pure functions written as operators; a state is one call's arguments. |
| `BoundedFifo.tla` | The abstract promise of a run-queue: a FIFO of at most `Capacity` handles whose enqueues and dequeues each take effect at one instant, with the dequeued handles recorded in order. |
| `MC_Scheduler.tla`, `MC_Timer.tla`, `MC_Statistics.tla`, `MC_DraftQueue.tla`, `MC_DraftScheduler.tla`, `MC_TextLayout.tla` | The constants of the instances TLC checks. |

### State

| Variable | Code |
|---|---|
| `attr[t]` | `RawThread.attribute` |
| `pool` | `ThreadPool.data` keys |
| `born` | handles issued |
| `rq[p]` | the queue of priority `p` |
| `current[c]`, `retired[c]` | `LocalScheduler` fields; `Idle` is the CPU's idle thread and `NONE` is `None` |
| `quantum[t]` | `Quantum.current` |
| `frozen` | `is_frozen` |
| `state` | `Scheduler.state` |
| `events[t]` | the number of pending `OneShot(t)` timer events |
| `armed[t]` | the thread's `SignallingObject` holds `t` |
| `panics` | the reasons of kernel panics so far |

Two program counters record where code stands that other steps can interleave
with:

- **`cpc[c]` (per CPU)** marks the CPU's interrupts-off scheduler code.
  - `resume`: after the switch, before `retire`.
  - `setup`: the same point on first entry.
  - `unqueue`: between retire's tests and its removal of `QUEUED`.
  - `halted`: after a panic.
- **`tpc[t]` (per thread)** marks a thread's own interrupts-enabled code,
  which the tick can preempt.
  - `add_check`: between `wake` and `add`'s `as_ref`.
  - `add_queue`: before `test_and_set(QUEUED)`.
  - `tsleep`: in `Timer::sleep` after `schedule_timer`.
  - The stages of `RawThread::exit`.
- **`target[t]`** is the thread that an `add` in progress is for.

### Actions

Each action is one atomic step of the code:

| Action | Code |
|---|---|
| `Tick` | `reschedule` with `consume` |
| `Resume` | post-switch clear plus the tests of `retire` |
| `Unqueue` | retire's `remove(QUEUED)` |
| `Yield` | `yield_thread` |
| `WaitFor` | `wait_for` |
| `TimerSleep`, `SleepAfterTimer` | the two halves of `Timer::sleep` |
| `NewObject`, `Signal` | `SignallingObject` |
| `Fire` | `TimerEvent::fire` of a pending event |
| `Spawn` | `spawn_f` |
| `AddCheck`, `AddQueue` | the two halves of `add` |
| `Exit`, `ExitZombie`, `ExitSleep` | `RawThread::exit` |
| `Freeze` | `freeze` |
| `SetState` | the statistics thread's store of a new state |

`PROJECT.json` "map" gives the exact lines of each. `Ops` selects which thread
operations a configuration enables.

Data is abstracted. Handles are model values. Names, stacks, contexts,
personalities, load figures and deadlines are left out: no property reads
them. Event deadlines are abstracted by letting any pending event fire at any
time.

### Timer.tla

| Variable / action | Code |
|---|---|
| `now`, `Clock` | `TIMER_SOURCE.measure()` (the timer source is not under `src/`) |
| `timer_queue`, `HasRoom` | `Scheduler.timer_queue`, `schedule_timer`'s push |
| `events`, `Drain`, `HeadDue`, `Fire`, `SetNext`, `Wait` | `scheduler_thread`'s Vec and loop, `TimerEvent::fire`, `next_timer`, `sem_timer.wait()` |
| `next_timer`, `Poll` | `Scheduler.next_timer` (0 is `Timer::JUST`), `next()`'s `if !next_timer.until() { sem_timer.signal() }` |
| `pc[t]`, `Sleep`, `Schedule` | `wait_for` / `Timer::new`, then the `while timer.until()` loop of `Timer::sleep` (push and sleep, or yield and retry) |
| `awake[t]`, `armed[t]`, `Signal`, `SwitchIn` | AWAKE, the `SignallingObject` slot, `signal`, the post-switch clear of AWAKE |

Events carry an id, an owner and a deadline. The sleep/wake protocol is taken
at its specification (a wake re-queues an asleep thread or sets AWAKE);
`Scheduler.tla` checks the protocol itself. `Timer::sleep` is taken as called
from `wait_for`, with interrupts off; the preempted variant is in `Scheduler`.

### Statistics.tla

| Variable / action | Code |
|---|---|
| `cur`, `retired`, `SwitchContext`, `PostSwitch` | `LocalScheduler` and the two halves of `switch_context` (and `sch_setup_new_thread`) |
| `measure`, `cpu_time`, `load0`, `Account`, `ResetMeasure` | the `RawThread` statistics and lines 549-556 and 573 |
| `load`, `usage`, `usage_total`, `state`, `Statistics`, `LoadOf`, `StateOf` | the `statistics_thread` loop |
| `ran`, `swapped` | ghosts: time really run, and the `load0` values taken |

`load0` keeps its width as a constant `Width` (32 in the code).

### DraftQueue.tla

| Variable / action | Code |
|---|---|
| `rd`, `wr`, `count`, `buf`, `Init` | `ThreadQueue.read`, `.write`, `.count`, `.buf`, `with_capacity` |
| `pc[p]`, `idx[p]`, `calls[p]`, `Call` | a CPU calling `read` (from `GlobalScheduler::next`) or `write` (from `retire`), its local index |
| `RCount`, `RLoad`, `RXchg`, `RInc`, `RDec` | `read`: `count > 0`, `read.load`, `atomic_xchg(slot, 0)`, `read.fetch_add`, `count.fetch_sub` |
| `WCount`, `WLoad`, `WCxchg`, `WCountInc`, `WInc` | `write`: `count >= mask`, `mask & write.load`, `atomic_cxchg(slot, 0, data)`, `count.fetch_add`, `write.fetch_add` |
| `taken` | ghost: the handles `read` returned, in the order their xchg took them |

The ring has `Capacity` slots (32 in the code, 4 here); `count` is kept modulo
`2^Width` (a usize), since its wrap below zero is one of the races. The read
and write indices are not wrapped: the bounded number of calls keeps them
small. `AbsQueue` maps the ring to the abstract queue: the non-empty slots in
ring order from the read index.

### DraftScheduler.tla

The draft keeps runnable and sleeping threads alike in two `ThreadQueue`s.
`next()` reads `ready`: a thread whose deadline is still ahead
(`deadline.until()`) is retired into `retired` and the loop goes on; the
first other thread is returned. When `ready` runs dry, `next()` writes every
retired thread back into it and returns `None`, so the CPU runs its idle
context until the next tick. `next_thread` switches to the chosen thread and
leaves the outgoing one in `lsch.retired`; the incoming thread retires it
after `sch_switch_context` returns.

| Variable / action | Code |
|---|---|
| `ready`, `retired` | `GlobalScheduler.ready[0]`, `GlobalScheduler.retired`, FIFOs of at most `mask` handles |
| `current`, `lretired` | `LocalScheduler.current`, `LocalScheduler.retired` |
| `sleeping[t]`, `quantum[t]` | `deadline.until()` of the thread, `NativeThread.quantum` |
| `panicked` | a `write(..).unwrap()` met `Err` |
| `Init` | `start`: both queues, every thread retired, the idle context on the CPU |
| `Consume`, `Preempt` (`Tick`) | `reschedule` with `Quantum::consume` returning false, or true and `next_thread` |
| `WaitFor` | `wait_for`: a deadline ahead (or already passed, for 0) and `next_thread` |
| `Switch`, `NextFrom`, `Retire`, `Refill` | `next_thread` up to the switch, `next()` with its two loops, `retire` |
| `PostSwitch` | `next_thread` after the switch, and `sch_setup_new_thread` |
| `Expire(t)` | time passing a thread's deadline |

Every entry point runs with interrupts off, so on one CPU each call of a
queue is atomic and the two halves of `next_thread` follow each other with
nothing between them but time passing. A deadline is abstracted to whether
`until()` still holds. The draft's `start` runs on every CPU but its
architecture layer (`myos::arch`) is not in this tree; the model has one
CPU, and what several CPUs do to the queues is `DraftQueue`'s subject. The
`ThreadPool`'s lock and length check are left out: every thread exists before
`is_enabled` is set.

`LifeState` maps a thread on the CPU or in `lretired` to Running, a queued
thread to Asleep or Ready by its deadline, and a thread found nowhere to
Dead, which no transition of `ThreadLifecycle` reaches from Running, Ready
or Asleep.

### TextLayout.tla

The UI lays text out with `TextProcessing::line_statuses`. It walks
`s.chars().enumerate()` once. A `'\n'` ends the current line. A glyph whose
advance would push a non-empty line past `size.width` starts a new line.
After each line it stops once `max_lines` lines are pushed (0 means no limit)
or the height so far reaches `size.height`. `bounding_size` folds the lines
into a size. `draw_text` walks the char iterator a second time, skipping from
one line's end to the next line's start and drawing `end - start` chars with
`chars.next().unwrap()`.

| Definition | Code |
|---|---|
| `POINT`, `DESCENT`, `HersheyLineHeight`, `LineHeight` | `HersheyFont`'s constants and line height, and `FontDescriptor::new`'s `preferred_line_height * point / base_height` |
| `GlyphFor`, `DriverWidth`, `WidthOf` | `HersheyFont::glyph_for` and `width_of` (0 for a missing glyph), and `FontDescriptor::width_of`'s scaling by `point / base_height` |
| `AdvanceOf` | `cursor.x += width_of(c)` over a line |
| `EmptyLine`, `MaxLinesOf` | `LineStatus::empty()`, `NonZeroUsize::new(max_lines).unwrap_or(usize::MAX)` |
| `ScanChar`, `Wraps`, `PushLine`, `Exhausted` | one turn of the `for` loop: the `'\n'` arm, the wrap test, the push with its height sum and its `break` test |
| `ScanFrom`, `Finish`, `LineStatuses` | the loop (ending at `break`), the push of the last line, the whole function |
| `BoundingSize` | `bounding_size` |
| `Skip`, `NextPrev`, `DrawWalk`, `DrawText` | `draw_text`'s skip loop, `prev_position`, and its walk over the lines |
| `call`, `Type`, `Resize`, `Limit` | a caller (a label or text field laid out again after each change): a char typed, the box resized, `max_lines` changed |

The text is a sequence of glyph model values and `NL`, set in a Hershey
font. `GlyphInfo` gives the width column of `glyph_info` for the glyphs the
font has; parsing the `.jhf` data into that table (`search_for_glyph` and the
loop in `HersheyFont::new`) is left out, as is `FixedFontDriver`. The run
uses the code's `POINT` 32 and `DESCENT` 2 at point 2: the line height is
(34 × 2) / 32 = 2, glyphs 20 and 32 wide scale to advances 1 and 2, and a
glyph the font lacks has advance 0. `usize::MAX` is a line count no text of the model reaches.
Pixel placement (alignment, `megstd`'s `Coordinates`, which is not in this
tree), colour and rendering are left out: no property reads them.
`LineBreakMode` is ignored by the code (`// TODO: Line Breaking`).

The reference `IsCharWrapping` states what char wrapping is, independently
of the loop:

- lines start at 0;
- lines follow each other across exactly one newline, or at a wrap point;
- no line holds a newline;
- a line's width is the advance of its glyphs;
- a line fits the box unless only its last glyph has any width;
- a line is wrapped only where the next glyph does not fit it.

## 3. Runs

Each run uses the MC module of its module and the `<MC module>_<run>.cfg`
file named in `PROJECT.json`.

| Run | Expect | Bounds | Properties | What it shows |
|---|---|---|---|---|
| lifecycle | pass | 2 CPUs, 2 threads (1 started, 1 spawned), quantum 1, 1 slot per queue, 2 events; yield, wait_for, new_object, signal, fire, spawn, exit | TypeOK, RunQueueIntegrity, LifecycleRefined | The QUEUED handshake holds across two CPUs, and the scheduler refines the thread life cycle of spec 4.7, including after panics on one CPU. |
| dispatch | pass | CPU 0 Main, CPU 1 Sub, 2 threads, quantum 2, 1 event; yield, timer_sleep, fire, freeze, set_state; fairness below | EventuallyDispatched | Every queued thread runs eventually under any state sequence, unless frozen. |
| lostwake_smp | violation | 2 CPUs, 2 threads; wait_for, signal, fire | SleeperHasWaker | Lost wakeup across CPUs (finding 1). |
| lostwake_timer | violation | 1 CPU, 2 threads; timer_sleep, fire | SleeperHasWaker | Lost wakeup inside Timer::sleep (finding 2). |
| stale_handle | violation | as lifecycle | NoStaleHandlePanic | Wake through a dropped handle (finding 3). |
| timer_waitfor | pass | 2 threads, durations 1-2, clock to 3, `timer_queue` of 1 slot, 2 events, `sem_timer` up to 2; Timer::sleep, wait_for and signals; fairness below | TypeOK, EveryEventFires, SleepReturns | Every event fires and every sleep returns, through the full-queue retry and early wakes too. |
| early_wake | violation | as timer_waitfor, 3 events | SleepNotEarly | A later sleep is cut short (finding 4). |
| stats_accounting | pass | 2 CPUs, 2 idle threads and a worker, interval 2, clock to 4, `load0` of 8 bits, 1 performance CPU | TypeOK, TimeAccounted | A migrating thread's time is counted exactly once. |
| draft_queue_spsc | pass | ring of 4 slots, one writing CPU (5 handles), one reading CPU (6 calls), `count` of 8 bits; fairness below | TypeOK, FifoRefined | With one CPU on each side the ring, wrapped and filled to `mask`, is a bounded FIFO. |
| draft_scheduler | pass | 1 CPU, 3 threads and the idle context, queues of 4 slots (`mask` 3), Normal quantum 2; fairness below | TypeOK, ThreadsConserved, WritesNeverFail, LifecycleRefined, EveryThreadRuns | The draft round robin keeps each thread in one place, never overfills a queue, refines the life cycle, and runs every thread again and again. |
| text_layout | pass | a Hershey font at point 2: a missing glyph and glyphs 20 and 32 wide (advances 0, 1, 2), line height 2, texts of up to 4 chars, box widths 1-3, box heights 2, 3, 4, 5, 11, max_lines 0-2 (15,345 calls) | WrapCorrect, Bounded, DrawWalkInBounds | line_statuses breaks lines exactly where char wrapping does, never exceeds max_lines or (beyond one line) the box, and draw_text draws each line's own chars without unwrapping `None`. |
| text_last_glyph | violation | as text_layout | DrawsLayout | A last glyph that wraps onto a new line is never drawn (finding 5). |

**Why the bounds are enough.** Every race found needs two threads and at most
two CPUs:

- a waker and a sleeper;
- one CPU retiring while another wakes.

Queues of one slot and quanta of one or two ticks make the full-queue branch
and both quantum branches a few steps away. The code's 64/256 slots and
1–25-tick quanta only lengthen the paths to them.

Together, the passing runs of each module fire every action and every
disjunct of its `Next`.

The timer runs use two threads and a queue of one slot, so one thread meets a
full queue while the other's event is pending; durations 1 and 2 let a later
sleep end before an earlier one. The statistics run has a worker that can
run on either CPU, which is what the `measure` reset is for. A clock of 4 with
an interval of 2 gives passes with `actual` 2, 3 and 4, and loads that reach
each of the three states; it also lets a stretch of running span a pass,
which makes the clamp to 1000 matter.

The draft queue's ring of 4 slots wraps after four writes, and holds its
limit of `mask` = 3 handles after three; five writes with a reader that can
lag let every slot be reused and every `Err` and `None` branch be taken.

The draft scheduler run has three threads in queues of `mask` = 3: they
fill a queue exactly, as the code's 21 threads do not fill its 31 slots, so
one handle too many (a duplicate, or the idle context) makes a write fail.
A quantum of 2 takes both branches of `consume`; three threads let one sleep
while two rotate, and all three sleep at once.

The text runs take every text of up to four chars over a glyph of each
advance and `NL`. That includes a wrap at the last char, a newline after a
wrap, a zero-width glyph before and after a wide one, and a glyph wider than
a one-wide box. Heights of 2, 4 and 11 are exact multiples of the line
height, and 3 and 5 are not. A height of 11 leaves room for every line of
every text, and max_lines 1 and 2 are each reached.

**Fairness (dispatch run).**

- `WF` on `Tick`, `Resume` and `Unqueue` of every CPU. The timer interrupt keeps
  arriving, and interrupts-off code runs to its end.
- `SF` on a thread's forced continuation (`ThreadContinues`: finishing `add`,
  `Timer::sleep` or `exit`). A thread switched in again and again does
  execute its next statement.

No fairness is assumed for a thread's voluntary calls.

**Fairness (timer runs).** `WF` on the clock, on `Poll` (some CPU keeps
passing through `next()`: the idle thread's quantum is one tick), on the
timer thread (it is Realtime and runs when signalled), and on each thread's
turn of the `Timer::sleep` loop (a yielding thread is re-queued and runs
again). None on `Sleep`, `Signal` or `SwitchIn`. The timer runs do not check
deadlock: once every thread sleeps and the clock has reached its bound, the
idle CPUs halt, which is not an error.

**Fairness (draft queue run).** `Spec` has `WF` on each CPU's step: `read`
and `write` are called from `next` and `retire` with interrupts off, so a CPU
inside a call keeps executing it. The run checks no liveness property: with
one writer and one reader neither retry loop can be entered, so every call
returning is not in question there. The run ends when every CPU has made its
calls (`Terminating` stutters there), so deadlock is checked.

**Fairness (draft scheduler run).** `WF` on `Tick` (the timer interrupt
keeps arriving), on `PostSwitch` (the code after the switch runs with
interrupts off) and on each thread's `Expire` (time passes). None on
`WaitFor`: a thread may compute forever. Deadlock is checked: a tick is
always possible.

**Mutants.** Each property of a passing run is broken by a plausible bug in
the code it is about:

| Mutant | Breaks |
|---|---|
| `next()` without `unwrap_or(idle)` | TypeOK |
| `add` without `test_and_set(QUEUED)` | RunQueueIntegrity |
| retire testing `AWAKE` before `ZOMBIE` | LifecycleRefined |
| reschedule's Realtime test inverted | EventuallyDispatched |
| `schedule_timer`'s capacity test off by one | TypeOK (Timer) |
| `next()` testing `next_timer.until()` without `!` | EveryEventFires |
| a wake that only sets AWAKE | SleepReturns |
| the load not clamped to 1000 | TypeOK (Statistics) |
| the post-switch `measure` reset dropped | TimeAccounted |
| `write` using the write index without `& mask` | TypeOK (DraftQueue) |
| `read` loading the slot without clearing it | FifoRefined |
| `consume` testing `q > 0` | TypeOK (DraftScheduler) |
| `retire` without the `is_idle` test | ThreadsConserved |
| `write`'s full test one handle early | WritesNeverFail |
| `next()` dispatching without `deadline.until()` | LifecycleRefined (DraftScheduler) |
| reschedule's Realtime test reversed | EveryThreadRuns |
| the wrap test `new_width >= size.width` | WrapCorrect |
| the `break` test without `current_height >= size.height()` | Bounded |
| `prev_position = line.start_position` | DrawWalkInBounds |

## 4. Findings

1. **Lost wakeup across CPUs** (`scheduler.rs:275`).
   - retire tests `AWAKE` and later removes `QUEUED`.
   - A wake on another CPU in between finds `QUEUED` set and does not enqueue.
   - The thread is left off every queue with `AWAKE` set, and nothing will
     wake it again.
   - This contradicts spec §4.2's claim that the ASLEEP/AWAKE pair resolves
     the race. Scenario S5 would hit it.
2. **Lost wakeup in `Timer::sleep`** (`scheduler.rs:701`, line 570).
   - The thread is preempted between `schedule_timer` and `Scheduler::sleep`.
   - Its event fires, and `add` skips because `QUEUED` is set.
   - The post-switch code clears the `AWAKE` it left.
   - The thread then sleeps with no event left.
3. **Wake through a dropped handle** (`scheduler.rs:979`).
   - A waker delayed between `wake`'s insert and `add` (or holding a late
     timer event or signal) calls `as_ref().unwrap()`.
   - By then the thread has exited and `retire` has dropped it.
   - The result is a kernel panic.
4. **A sleep ends before its deadline** (`scheduler.rs:173`).
   - `wait_for` sets the `SignallingObject` and does not clear it when the
     timeout wins; when the signal wins, its OneShot event stays queued.
   - Either one later wakes the same thread out of an unrelated
     `Timer::sleep`, which returns without re-checking its deadline.
   - Spec property 7 and scenario S2 say a sleep lasts its duration.
5. **The last glyph of a text can go undrawn** (`text.rs:319`).
   - A glyph that does not fit starts a new line from `LineStatus::empty()`.
     The code sets `start_position = index` and leaves `end_position` at 0.
   - If that glyph is the text's last char, the `end_position += 1` after
     the loop makes the line `[index, 1)`.
   - `draw_text` skips lines with `start >= end`, so the glyph is never
     drawn. For example, "ab" in a box one glyph wide shows "a".
   - `bounding_size` still counts the glyph's width.

Three more behaviours met while modelling are kept as hazards, not runs:

- **A full queue panics** (`scheduler.rs:257`).
  - `enqueue` unwraps the push into the bounded queue.
  - Spec property 8 asks for an error and unchanged queues. Spec §7 asks for
    `spawn` to fail.
  - `MC_Scheduler_lifecycle.cfg` with `CPUs <- One_CPU`,
    `Threads <- Three_Threads`, `QuantumOf <- Quantum_Two`,
    `Ops <- Overflow_Ops` and `INVARIANT NoQueueFullPanic` alone shows it
    (194 states).

- **The timer thread is signalled with nothing due** (`scheduler.rs:235`,
  line 336).
  - `next()` signals `sem_timer` whenever `next_timer` has passed.
    `next_timer` starts as `Timer::JUST` and keeps the last deadline once
    the Vec is empty.
  - So every scheduler pass wakes the timer thread. Spec 4.2 step 3 signals
    only when the head of the timer queue is due.
  - The model's `Poll` does what the code does. `EveryEventFires` shows no
    event is lost by it.
- **An exact fit loses a line** (`text.rs:302`).
  - `current_height` already includes the next line when it is compared
    with `>=`. So a box exactly n line heights tall shows n - 1 lines.
  - A text of several lines drawn into the height `bounding_size` measured
    for it therefore loses its last line.
  - With the `text_layout` constants, the text `g2 g1` in a box 1 wide and 4
    high keeps one line of the two that fit.

Two races of the draft `ThreadQueue` on more than one CPU. Every CPU of the
draft calls `next()` and `retire`, so both are reachable as soon as two CPUs
schedule. The project keeps no run for them: the draft's run checks its
scheduler on one CPU, and the other runs go to the mature kernel. They are
reproduced by `MC_DraftQueue.tla` with the constants given:

- **Two writers break FIFO order** (`src/src/myos/scheduler.rs:632`).
  - The constants are `Writers <- Two_Writers`, `Readers <- One_Reader`,
    `Input <- Three_Handles`, `Reads <- Reads_Three`. `FifoRefined` is
    violated in 19 states.
  - Writer 2 loads the write index 0. Writer 1 writes handle 1 into slot 0,
    advances the index and writes handle 2 into slot 1.
  - The reader empties slot 0 before it advances the read index.
  - Writer 2's cmpxchg on its stale slot 0 then succeeds: handle 3 goes ahead
    of handle 2, and behind the read index once the reader moves on. The
    reader then spins, with interrupts off, on an empty slot while `count` is 1.
- **Two readers wrap `count`** (line 613).
  - The constants are `Readers <- Two_Readers`, `Reads <- Reads_Two_Two`,
    `Input <- Two_Handles`, with `INVARIANT CountBounded` alone. `CountBounded`
    is violated in 23 states; no run checks it, since one reader cannot wrap `count`.
  - Both readers pass `count > 0` while `count` is 1.
  - The second takes a handle whose write has not been counted yet.
  - `count.fetch_sub` wraps to the maximum. Until the writer's
    `count.fetch_add`, every `write` returns `Err`, which `retire` and
    `next` unwrap.

The `u32` `load0` (line 554) loses time when a thread runs 2^32 timer units
without a switch. `TimeAccounted` states what is lost, but 2^32 is out of
TLC's reach, so no run exercises the wrap.

## 5. Not modelled, and the plan

Not modelled yet:

- **Window timer events.** Their target, the window manager, is not in this
  tree; `fire` with `window.post(...).unwrap()` (line 810) is a hazard
  without a property.
- **The statistics thread's own running time** and `get_idle_statistics` /
  `print_statistics` (formatting only).
- **The join semaphore.**
- **Names, executor and personality.**
- **The rest of the UI.** That is `draw_text`'s pixel placement and
  alignment, glyph rendering, the font drivers' data, the window manager,
  HID decoding and the user environment. They are outside the spec, and the
  placement depends on `megstd`, which is not in this tree.
- **The CPU layer** (`cpu.rs`). It is register, port and descriptor-table
  code, out of TLC's reach apart from its pure encodings.
- **The rest of the first-generation drafts.** The draft scheduler on
  several CPUs at once (its queue races are `DraftQueue`'s), the
  `ThreadPool` lock, the busy-wait `thread.rs` (`Thread::spawn` just calls
  its closure) and `mux/queue.rs`'s `ConcurrentRingBuffer`, which nothing
  uses.

The next modules, in order:

1. **The draft scheduler on two CPUs** with each queue call stepped as in
   `DraftQueue`, which needs a run slot of its own.
2. **`ConcurrentRingBuffer`** against `BoundedFifo`.
