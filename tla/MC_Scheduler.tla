---------------------------- MODULE MC_Scheduler ----------------------------
(* Constants of the Scheduler instances checked by TLC.  Thread handles    *)
(* are model values; CPU 0 is the boot processor.  Queue capacities and    *)
(* quanta are scaled down (the code has 64/256 slots and quanta of 1..20   *)
(* ticks) so that a full queue and an expired quantum are a few steps      *)
(* away.                                                                   *)
EXTENDS Scheduler, TLC

CONSTANTS t1, t2, t3

One_CPU == {0}
Two_CPUs == {0, 1}
AllMain == [c \in CPUs |-> "Main"]
\* CPU 1 is a hyper-thread sibling (Sub core), which only FullThrottle lets
\* dispatch.
OneSub == [c \in CPUs |-> IF c = 0 THEN "Main" ELSE "Sub"]

Two_Threads == {t1, t2}
Three_Threads == {t1, t2, t3}
First_Only == {t1}
Both_First == {t1, t2}
AllNormal == [t \in Threads |-> "Normal"]

Quantum_One == [Realtime |-> 1, High |-> 1, Normal |-> 1, Low |-> 1]
Quantum_Two == [Realtime |-> 2, High |-> 2, Normal |-> 2, Low |-> 2]
Capacity_Two == [Realtime |-> 2, High |-> 2, Normal |-> 2, Low |-> 2]
Capacity_One == [Realtime |-> 1, High |-> 1, Normal |-> 1, Low |-> 1]
Events_Two == 2
Events_One == 1

\* Sleeping, waking (also by a signal sent before the wait), spawning and
\* exiting threads.
Lifecycle_Ops == {"yield", "wait_for", "new_object", "signal", "fire", "spawn",
                  "exit"}
\* Sleeping in wait_for (interrupts disabled) and waking.
WaitWake_Ops == {"wait_for", "signal", "fire"}
\* One CPU, more ready threads than queue slots.
Overflow_Ops == {"yield", "wait_for", "new_object", "signal", "fire", "spawn"}
\* Timer::sleep called directly (with interrupts enabled) and firing.
TimerSleep_Ops == {"timer_sleep", "fire"}
\* Dispatch under the state gate and freeze.
Dispatch_Ops == {"yield", "timer_sleep", "fire", "freeze", "set_state"}
=============================================================================
