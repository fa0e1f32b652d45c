------------------------------ MODULE UartRing ------------------------------
(***************************************************************************)
(* The console receive path of the AT firmware (projects/mac_atcmd/src/    *)
(* cli/cli.c): the UART interrupt handler uart_rx_isr moves bytes from the *)
(* hardware FIFO into a ring buffer, uart_read takes them out in the CLI   *)
(* task, and the event cli_rx_evt wakes the task.                          *)
(*                                                                         *)
(* The k-th byte the hardware FIFO accepts is represented by its serial    *)
(* number k, so that a lost, duplicated or reordered byte is visible.      *)
(* Handler and reader run inside critical sections, modelled step by step: *)
(* no step of one may run while the other is inside its loop.              *)
(***************************************************************************)
EXTENDS Integers, Sequences

CONSTANTS
  Cap,        \* slots of the ring (RINGBUF_SIZE, a power of two: see RingMask)
  FifoDepth,  \* bytes the hardware FIFO holds
  ReadSize,   \* char_2read of the caller (Cli_Start passes 1)
  MaxBytes    \* bound on the bytes that arrive, for model checking

ASSUME RingAssumption ==
  /\ Cap \in Nat \ {0}
  /\ FifoDepth \in Nat \ {0}
  /\ ReadSize \in Nat \ {0}
  /\ MaxBytes \in Nat

VARIABLES
  arrived,  \* bytes the hardware FIFO has accepted
  taken,    \* bytes software has read out of the hardware FIFO
  data,     \* g_uart_rx_ringbuf.data
  vidx_w,   \* g_uart_rx_ringbuf.vidx_w
  vidx_r,   \* g_uart_rx_ringbuf.vidx_r
  isrReg,   \* the data-ready interrupt has its handler (FALSE: NULL, disabled)
  evt,      \* cli_rx_evt is set
  isr,      \* uart_rx_isr: program counter and locals vidx_w, vidx_w_full
  rd,       \* uart_read and Cli_Start: program counter, vidx_r, _empty, cnt
  out,      \* the last byte stored into dst
  popped    \* bytes stored into dst so far

hwVars   == <<arrived, taken>>
ringVars == <<data, vidx_w, vidx_r>>
outVars  == <<out, popped>>
vars     == <<hwVars, ringVars, isrReg, evt, isr, rd, outVars>>

\* A virtual index runs over twice the slots, so that a full and an empty
\* ring differ.
VIdx == 0 .. 2 * Cap - 1
Slot == 0 .. Cap - 1

\* v & RINGBUF_VIDX_WRAP and v & RINGBUF_IDX_WRAP of the code (see RingMask).
VWrap(v) == IF v >= 2 * Cap THEN v - 2 * Cap ELSE v
IdxOf(v) == IF v >= Cap THEN v - Cap ELSE v

\* Virtual indices from r up to w.
Used(r, w) == IF w >= r THEN w - r ELSE w + 2 * Cap - r

Init ==
  /\ arrived = 0 /\ taken = 0
  /\ data = [s \in Slot |-> 0]
  /\ vidx_w = 0 /\ vidx_r = 0
  /\ isrReg = TRUE
  /\ evt = FALSE
  /\ isr = [pc |-> "idle", w |-> 0, full |-> 0]
  /\ rd = [pc |-> "call", r |-> 0, empty |-> 0, cnt |-> 0]
  /\ out = 0 /\ popped = 0

DataReady == taken < arrived

-----------------------------------------------------------------------------
(* The UART hardware: a byte that finds the FIFO full is lost before any   *)
(* software sees it.                                                       *)

Arrive ==
  /\ arrived < MaxBytes
  /\ arrived - taken < FifoDepth
  /\ arrived' = arrived + 1
  /\ UNCHANGED <<taken, ringVars, isrReg, evt, isr, rd, outVars>>

-----------------------------------------------------------------------------
(* uart_rx_isr.                                                            *)

\* The interrupt is taken, outside the reader's critical section.
IsrEnter ==
  /\ isr.pc = "idle"
  /\ isrReg
  /\ DataReady
  /\ rd.pc # "loop"
  /\ isr' = [pc |-> "loop", w |-> vidx_w, full |-> VWrap(vidx_r + Cap)]
  /\ UNCHANGED <<hwVars, ringVars, isrReg, evt, rd, outVars>>

\* Faulty: a byte is stored over an unread one when the ring is full.
IsrStoreOver ==
  /\ isr.pc = "loop"
  /\ DataReady
  /\ data' = [data EXCEPT ![IdxOf(isr.w)] = taken + 1]
  /\ taken' = taken + 1
  /\ isr' = [isr EXCEPT !.w = VWrap(@ + 1)]
  /\ UNCHANGED <<arrived, vidx_w, vidx_r, isrReg, evt, rd, outVars>>

IsrStore ==
  /\ isr.pc = "loop"
  /\ DataReady
  /\ isr.w # isr.full
  /\ data' = [data EXCEPT ![IdxOf(isr.w)] = taken + 1]
  /\ taken' = taken + 1
  /\ isr' = [isr EXCEPT !.w = VWrap(@ + 1)]
  /\ UNCHANGED <<arrived, vidx_w, vidx_r, isrReg, evt, rd, outVars>>

\* "Disable uart interrupt until RX ring buffer is available."
IsrFull ==
  /\ isr.pc = "loop"
  /\ DataReady
  /\ isr.w = isr.full
  /\ isrReg' = FALSE
  /\ isr' = [isr EXCEPT !.pc = "exit"]
  /\ UNCHANGED <<hwVars, ringVars, evt, rd, outVars>>

IsrDrained ==
  /\ isr.pc = "loop"
  /\ ~DataReady
  /\ isr' = [isr EXCEPT !.pc = "exit"]
  /\ UNCHANGED <<hwVars, ringVars, isrReg, evt, rd, outVars>>

\* Faulty: the index is published without setting the event.
IsrExitSilent ==
  /\ isr.pc = "exit"
  /\ vidx_w' = isr.w
  /\ isr' = [isr EXCEPT !.pc = "idle"]
  /\ UNCHANGED <<hwVars, data, vidx_r, isrReg, evt, rd, outVars>>

\* The index is published and the event set; no task runs in between.
IsrExit ==
  /\ isr.pc = "exit"
  /\ vidx_w' = isr.w
  /\ evt' = TRUE
  /\ isr' = [isr EXCEPT !.pc = "idle"]
  /\ UNCHANGED <<hwVars, data, vidx_r, isrReg, rd, outVars>>

-----------------------------------------------------------------------------
(* uart_read, and the wait in Cli_Start when it returned nothing.  A task  *)
(* runs only while no interrupt handler does.                              *)

ReadEnter ==
  /\ rd.pc = "call"
  /\ isr.pc = "idle"
  /\ rd' = [pc |-> "loop", r |-> vidx_r, empty |-> vidx_w, cnt |-> 0]
  /\ UNCHANGED <<hwVars, ringVars, isrReg, evt, isr, outVars>>

ReadPop ==
  /\ rd.pc = "loop"
  /\ isr.pc = "idle"
  /\ rd.r # rd.empty
  /\ rd.cnt # ReadSize
  /\ out' = data[IdxOf(rd.r)]
  /\ popped' = popped + 1
  /\ rd' = [rd EXCEPT !.r = VWrap(@ + 1), !.cnt = @ + 1]
  /\ UNCHANGED <<hwVars, ringVars, isrReg, evt, isr>>

\* Faulty: what the read left behind is dropped.
ReadExitDropRest ==
  /\ rd.pc = "loop"
  /\ isr.pc = "idle"
  /\ rd.r = rd.empty \/ rd.cnt = ReadSize
  /\ vidx_r' = rd.empty
  /\ isrReg' = TRUE
  /\ rd' = [rd EXCEPT !.pc = IF rd.cnt < 1 THEN "wait" ELSE "call"]
  /\ UNCHANGED <<hwVars, data, vidx_w, evt, isr, outVars>>

\* Faulty: the removed handler is not put back.
ReadExitUnregistered ==
  /\ rd.pc = "loop"
  /\ isr.pc = "idle"
  /\ rd.r = rd.empty \/ rd.cnt = ReadSize
  /\ vidx_r' = rd.r
  /\ rd' = [rd EXCEPT !.pc = IF rd.cnt < 1 THEN "wait" ELSE "call"]
  /\ UNCHANGED <<hwVars, data, vidx_w, isrReg, evt, isr, outVars>>

\* The handler is registered again whether or not it had been removed.
ReadExit ==
  /\ rd.pc = "loop"
  /\ isr.pc = "idle"
  /\ rd.r = rd.empty \/ rd.cnt = ReadSize
  /\ vidx_r' = rd.r
  /\ isrReg' = TRUE
  /\ rd' = [rd EXCEPT !.pc = IF rd.cnt < 1 THEN "wait" ELSE "call"]
  /\ UNCHANGED <<hwVars, data, vidx_w, evt, isr, outVars>>

EventWait ==
  /\ rd.pc = "wait"
  /\ isr.pc = "idle"
  /\ evt
  /\ evt' = FALSE
  /\ rd' = [rd EXCEPT !.pc = "call"]
  /\ UNCHANGED <<hwVars, ringVars, isrReg, isr, outVars>>

-----------------------------------------------------------------------------
Isr     == IsrEnter \/ IsrStore \/ IsrFull \/ IsrDrained \/ IsrExit
CliTask == ReadEnter \/ ReadPop \/ ReadExit \/ EventWait

Next == Arrive \/ Isr \/ CliTask

Spec == Init /\ [][Next]_vars

\* The handler runs whenever its interrupt is enabled and pending, and the
\* CLI task is scheduled again and again.
FairSpec == Spec /\ WF_vars(Isr) /\ WF_vars(CliTask)

-----------------------------------------------------------------------------
\* Where the oldest and one past the newest unread byte are, seen through
\* the locals of whoever is inside its critical section.
ReadPos == IF rd.pc = "loop" THEN rd.r ELSE vidx_r
WritePos == IF isr.pc = "idle" THEN vidx_w ELSE isr.w

(* The queue this path implements: the unread bytes of the ring, read      *)
(* through the masks, are the abstract queue.                              *)

Unread ==
  [i \in 1 .. taken - popped |-> data[IdxOf(VWrap(ReadPos + i - 1))]]

Queue == INSTANCE ByteQueue WITH q <- Unread, put <- taken, got <- out

(***************************************************************************)
(* Refinement: every step of the handler and of the reader is a step of a  *)
(* bounded FIFO queue or leaves it alone, and a queue that is not empty is *)
(* read.                                                                   *)
(***************************************************************************)
ImplementsQueue == Queue!FairSpec

-----------------------------------------------------------------------------
(* Type invariant.                                                         *)

TypeOK ==
  /\ arrived \in Nat /\ taken \in Nat /\ popped \in Nat
  /\ data \in [Slot -> Nat]
  /\ vidx_w \in VIdx /\ vidx_r \in VIdx
  /\ isrReg \in BOOLEAN /\ evt \in BOOLEAN
  /\ isr \in [pc : {"idle", "loop", "exit"}, w : VIdx, full : VIdx]
  /\ rd \in [pc : {"call", "loop", "wait"}, r : VIdx, empty : VIdx, cnt : 0 .. ReadSize]
  /\ out \in Nat

(***************************************************************************)
(* Byte stream: whatever uart_rx_isr and uart_read interleave to, the      *)
(* bytes stored into dst are the bytes the hardware accepted, in order,    *)
(* none missing and none twice.                                            *)
(***************************************************************************)
InOrder == out = popped

(***************************************************************************)
(* Ring: the ring holds exactly the bytes taken from the FIFO and not yet  *)
(* read, never more than its slots, each in the slot of its virtual index. *)
(***************************************************************************)
RingHolds ==
  /\ Used(ReadPos, WritePos) = taken - popped
  /\ taken - popped <= Cap
  /\ \A i \in Slot :
       i < taken - popped => data[IdxOf(VWrap(ReadPos + i))] = popped + 1 + i

\* The two critical sections of cli.c exclude each other, and the index each
\* of them captured at its entry is still the shared one.
Captured ==
  /\ isr.pc # "idle" => rd.pc # "loop" /\ isr.full = VWrap(vidx_r + Cap)
  /\ rd.pc = "loop" => isr.pc = "idle" /\ rd.empty = vidx_w

(***************************************************************************)
(* No lost wake-up: while the CLI task waits for cli_rx_evt, unread bytes  *)
(* in the ring or a removed handler imply that the event is set or that a  *)
(* running handler will set it.  Were it false, the console would hang     *)
(* with input pending or with its interrupt off for ever.                  *)
(***************************************************************************)
NoLostWakeup ==
  rd.pc = "wait" /\ (vidx_w # vidx_r \/ ~isrReg) => evt \/ isr.pc # "idle"

(***************************************************************************)
(* Flow control: the handler is removed only while the ring is full as     *)
(* uart_read has left it, so that the very next read makes room.           *)
(***************************************************************************)
RemovedOnlyWhenFull ==
  ~isrReg => Used(vidx_r, WritePos) = Cap

(***************************************************************************)
(* Every byte the hardware accepts reaches the CLI task.                   *)
(***************************************************************************)
Delivered == \A k \in 1 .. MaxBytes : arrived >= k ~> popped >= k

=============================================================================
