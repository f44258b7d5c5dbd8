------------------------------ MODULE DraftQueue ------------------------------
(***************************************************************************)
(* The lock-free ThreadQueue of the first-generation scheduler draft,      *)
(*   src/src/myos/scheduler.rs  (struct ThreadQueue, read, write)          *)
(* A ring of Capacity usize slots (32 in the code), 0 meaning empty, with  *)
(* atomic read, write and count indices.  Writers and readers are CPUs     *)
(* running GlobalScheduler::retire and GlobalScheduler::next with          *)
(* interrupts disabled; they interleave at every atomic operation: each    *)
(* load, xchg, cmpxchg and fetch_add/fetch_sub is one step.  Each writer   *)
(* calls write for the handles of its Input in turn; each reader calls     *)
(* read Reads[r] times.  taken is a ghost: the handles reads returned, in  *)
(* the order their xchg took them.                                         *)
(***************************************************************************)
EXTENDS Integers, Sequences

CONSTANTS
  Writers,   \* CPUs calling ThreadQueue::write
  Readers,   \* CPUs calling ThreadQueue::read
  Capacity,  \* slots in the ring, a power of two (32 in the code)
  Input,     \* [Writers -> Seq(Nat \ {0})]: handles each writer writes
  Reads,     \* [Readers -> Nat]: calls of read each reader makes
  Width      \* bit width of count (usize: 64 in the code)

ASSUME /\ Writers \cap Readers = {}
       /\ \E k \in 1..8 : Capacity = 2^k
       /\ \A w \in Writers : \A i \in DOMAIN Input[w] : Input[w][i] > 0

Procs == Writers \cup Readers
Empty == 0
NoIndex == -1
Handles == UNION {{Input[w][i] : i \in DOMAIN Input[w]} : w \in Writers}
Slots == 0..(Capacity - 1)

VARIABLES
  rd,     \* ThreadQueue.read
  wr,     \* ThreadQueue.write
  count,  \* ThreadQueue.count, modulo 2^Width
  buf,    \* [Slots -> Nat]  ThreadQueue.buf
  pc,     \* [Procs -> program point]
  idx,    \* [Procs -> Int]  the local read / write index
  calls,  \* [Procs -> Nat]  calls made so far
  taken   \* ghost: handles returned by read, in order

vars == <<rd, wr, count, buf, pc, idx, calls, taken>>

\* let mask = capacity - 1
mask == Capacity - 1

\* ThreadQueue::with_capacity: indices and count 0, every slot 0.
Init ==
  /\ rd = 0 /\ wr = 0 /\ count = 0
  /\ buf = [s \in Slots |-> Empty]
  /\ pc = [p \in Procs |-> "call"]
  /\ idx = [p \in Procs |-> NoIndex]
  /\ calls = [p \in Procs |-> 0]
  /\ taken = <<>>

Goto(p, l) == pc' = [pc EXCEPT ![p] = l]

\* A CPU calls write or read again, or has made all its calls.
Call(p) ==
  /\ pc[p] = "call"
  /\ \/ /\ p \in Writers /\ calls[p] < Len(Input[p])
        /\ Goto(p, "w_count")
        /\ calls' = [calls EXCEPT ![p] = @ + 1]
     \/ /\ p \in Readers /\ calls[p] < Reads[p]
        /\ Goto(p, "r_count")
        /\ calls' = [calls EXCEPT ![p] = @ + 1]
     \/ /\ calls[p] = IF p \in Writers THEN Len(Input[p]) ELSE Reads[p]
        /\ Goto(p, "done")
        /\ UNCHANGED calls
  /\ idx' = [idx EXCEPT ![p] = NoIndex]
  /\ UNCHANGED <<rd, wr, count, buf, taken>>

Return(p) == Goto(p, "call")

-----------------------------------------------------------------------------
(* read: while count > 0 { r = read; v = xchg(buf[r & mask], 0);          *)
(*   if v != 0 { read += 1; count -= 1; return Some(v) } }  None           *)

\* while self.count.load() > 0
HasItems(c) == c > 0

RCount(p) ==
  /\ pc[p] = "r_count"
  /\ IF HasItems(count) THEN Goto(p, "r_load") ELSE Return(p)
  /\ UNCHANGED <<rd, wr, count, buf, idx, calls, taken>>

\* self.read.load(), at every turn of the loop.
ReadIndex(p) == rd

RLoad(p) ==
  /\ pc[p] = "r_load"
  /\ idx' = [idx EXCEPT ![p] = ReadIndex(p)]
  /\ Goto(p, "r_xchg")
  /\ UNCHANGED <<rd, wr, count, buf, calls, taken>>

\* Mutant: the slot is read but not cleared (a plain load for the xchg).
ClearedNot(s) == buf

\* atomic_xchg(ptr, 0): the slot is emptied as it is read.
Cleared(s) == [buf EXCEPT ![s] = Empty]

RXchg(p) ==
  LET s == idx[p] % Capacity
      v == buf[s]
  IN  /\ pc[p] = "r_xchg"
      /\ buf' = Cleared(s)
      /\ IF v # Empty
           THEN /\ taken' = Append(taken, v)
                /\ Goto(p, "r_inc")
           ELSE /\ UNCHANGED taken
                /\ Goto(p, "r_count")
      /\ UNCHANGED <<rd, wr, count, idx, calls>>

RInc(p) ==
  /\ pc[p] = "r_inc"
  /\ rd' = rd + 1
  /\ Goto(p, "r_dec")
  /\ UNCHANGED <<wr, count, buf, idx, calls, taken>>

RDec(p) ==
  /\ pc[p] = "r_dec"
  /\ count' = (count - 1) % 2^Width
  /\ Return(p)
  /\ UNCHANGED <<rd, wr, buf, idx, calls, taken>>

-----------------------------------------------------------------------------
(* write: loop { if count >= mask { Err }; w = mask & write;              *)
(*   if cmpxchg(buf[w], 0, data) { count += 1; write += 1; Ok } }          *)

Full(c) == c >= mask

WCount(p) ==
  /\ pc[p] = "w_count"
  /\ IF Full(count) THEN Return(p) ELSE Goto(p, "w_load")
  /\ UNCHANGED <<rd, wr, count, buf, idx, calls, taken>>

\* Mutant: the write index is used without the mask.
WriteSlotUnmasked(p) == wr

\* let write = mask & self.write.load()
WriteSlot(p) == wr % Capacity

WLoad(p) ==
  /\ pc[p] = "w_load"
  /\ idx' = [idx EXCEPT ![p] = WriteSlot(p)]
  /\ Goto(p, "w_cxchg")
  /\ UNCHANGED <<rd, wr, count, buf, calls, taken>>

WCxchg(p) ==
  LET s == idx[p]
  IN  /\ pc[p] = "w_cxchg"
      /\ IF buf[s] = Empty
           THEN /\ buf' = [buf EXCEPT ![s] = Input[p][calls[p]]]
                /\ Goto(p, "w_count_inc")
           ELSE /\ UNCHANGED buf
                /\ Goto(p, "w_count")
      /\ UNCHANGED <<rd, wr, count, idx, calls, taken>>

WCountInc(p) ==
  /\ pc[p] = "w_count_inc"
  /\ count' = (count + 1) % 2^Width
  /\ Goto(p, "w_inc")
  /\ UNCHANGED <<rd, wr, buf, idx, calls, taken>>

WInc(p) ==
  /\ pc[p] = "w_inc"
  /\ wr' = wr + 1
  /\ Return(p)
  /\ UNCHANGED <<rd, count, buf, idx, calls, taken>>

-----------------------------------------------------------------------------

Step(p) ==
  \/ Call(p)
  \/ RCount(p) \/ RLoad(p) \/ RXchg(p) \/ RInc(p) \/ RDec(p)
  \/ WCount(p) \/ WLoad(p) \/ WCxchg(p) \/ WCountInc(p) \/ WInc(p)

\* Every CPU has made all its calls.
Terminating == /\ \A p \in Procs : pc[p] = "done"
               /\ UNCHANGED vars

Next == (\E p \in Procs : Step(p)) \/ Terminating

\* Each CPU runs read and write with interrupts disabled, so a CPU inside a
\* call keeps executing it.
Spec == Init /\ [][Next]_vars /\ \A p \in Procs : WF_vars(Step(p))

-----------------------------------------------------------------------------

TypeOK ==
  /\ rd \in Nat /\ wr \in Nat /\ count \in 0..(2^Width - 1)
  /\ buf \in [Slots -> {Empty} \cup Handles]
  /\ idx \in [Procs -> Nat \cup {NoIndex}]
  /\ \A p \in Writers : pc[p] = "w_cxchg" => idx[p] \in Slots
  /\ calls \in [Procs -> Nat]
  /\ taken \in Seq(Handles)

\* The handles in the ring, oldest first: the non-empty slots in ring order
\* starting at the read index.
AbsQueue ==
  SelectSeq([i \in 1..Capacity |-> buf[(rd + i - 1) % Capacity]],
            LAMBDA v : v # Empty)

\* ThreadQueue is a bounded FIFO holding at most mask handles: every write
\* that succeeds appends at the tail, every read that returns a handle
\* returns the oldest one.
Fifo == INSTANCE BoundedFifo WITH q <- AbsQueue, Capacity <- mask
FifoRefined == Fifo!Spec

\* count never leaves 0..mask: it never wraps below zero when a read takes
\* a handle whose write has not yet been counted, and never passes the
\* full check of write.  Only two readers can break it; no run checks it,
\* the two-reader reproduction of the README does.
CountBounded == count <= mask
=============================================================================
