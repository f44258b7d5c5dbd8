-------------------------- MODULE MC_DraftScheduler --------------------------
(* Three threads on one CPU, queues of four slots (mask 3, so the three    *)
(* threads fill a queue exactly), a Normal quantum of two ticks.           *)
EXTENDS DraftScheduler

CONSTANTS t1, t2, t3

Threads_Three == {t1, t2, t3}
=============================================================================
