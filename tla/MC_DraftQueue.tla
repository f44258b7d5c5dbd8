---------------------------- MODULE MC_DraftQueue ----------------------------
(* Constants of the DraftQueue instances checked by TLC.  The ring has 4   *)
(* slots instead of 32, so that five writes wrap it and three handles fill *)
(* it; handles are small numbers (ThreadHandle is a non-zero usize).       *)
EXTENDS DraftQueue

CONSTANTS w1, w2, r1, r2

Ring_Four == 4
\* count keeps a width; only its comparisons with 0 and mask matter.
Width_Eight == 8
\* One CPU writing, one reading.
One_Writer == {w1}
One_Reader == {r1}
Five_Handles == [w \in One_Writer |-> <<1, 2, 3, 4, 5>>]
Reads_Six == [r \in One_Reader |-> 6]
\* One CPU writing, two reading (GlobalScheduler::next on two CPUs).
Two_Readers == {r1, r2}
Reads_Two_Two == [r \in Two_Readers |-> 2]
Two_Handles == [w \in One_Writer |-> <<1, 2>>]
\* Two CPUs retiring threads into the same queue, one reading.
Two_Writers == {w1, w2}
Three_Handles == [w \in Two_Writers |-> IF w = w1 THEN <<1, 2>> ELSE <<3>>]
Reads_Three == [r \in One_Reader |-> 3]
=============================================================================
