---------------------------- MODULE BurstConsole ----------------------------
(***************************************************************************)
(* The console of projects/lite_mac/src/cli/cli.c, whose ring and line     *)
(* buffer change size at run time: the key '~' switches between an 80-byte *)
(* and a 4096-byte ring.  The handler of '~' assigns ringbuf_size first    *)
(* and replaces the buffer later, inside a critical section; the interrupt *)
(* handler may run in between.                                             *)
(*                                                                         *)
(* Unlike UartRing, the handler stores one byte a step: its loop runs with *)
(* interrupts off and a byte left in the FIFO calls it again at once.  The *)
(* masks are those of cli.c.  Like every & they depend on the size alone,  *)
(* so that 80 counts fewer slots than it has bytes (RingMask).             *)
(***************************************************************************)
EXTENDS Integers, Sequences

CONSTANTS
  SmallSize,  \* CLI_BUFFER_SIZE
  BurstSize,  \* BURST_CLI_SIZE
  FifoDepth,
  MaxBytes,   \* bound on the bytes that arrive, for model checking
  BitAnd(_, _)  \* the operator & of C

VARIABLES
  arrived,       \* bytes the hardware FIFO has accepted
  taken,         \* bytes software has read out of it
  tilde,         \* the serial numbers of the bytes that are '~'
  ringbuf_size,
  data,          \* the allocated bytes, on 0 .. (allocated - 1)
  vidx_w, vidx_r,
  isrReg, evt,
  pc,            \* "read", "wait", "realloc" (inside the '~' key)
  out,           \* the last byte uart_read returned
  strayed        \* a byte was stored outside the allocated data

hwVars   == <<arrived, taken, tilde>>
ringVars == <<data, vidx_w, vidx_r>>
vars     == <<hwVars, ringbuf_size, ringVars, isrReg, evt, pc, out, strayed>>

VIdx(v) == BitAnd(v, ringbuf_size * 2 - 1)
Idx(v)  == BitAnd(v, ringbuf_size - 1)

\* The masks of a size, on the indices they reach, are those of a ring of c
\* slots.
CountSlots(size, c) ==
  \A v \in 0 .. 2 * c - 1 :
    /\ BitAnd(v + 1, size * 2 - 1) = IF v = 2 * c - 1 THEN 0 ELSE v + 1
    /\ BitAnd(v + size, size * 2 - 1) = IF v < c THEN v + c ELSE v - c
    /\ BitAnd(v, size - 1) = IF v < c THEN v ELSE v - c

Init ==
  /\ arrived = 0 /\ taken = 0 /\ tilde = {}
  /\ ringbuf_size = SmallSize
  /\ data = [i \in 0 .. SmallSize - 1 |-> 0]
  /\ vidx_w = 0 /\ vidx_r = 0
  /\ isrReg = TRUE /\ evt = FALSE
  /\ pc = "read"
  /\ out = 0
  /\ strayed = FALSE

DataReady == taken < arrived

Arrive ==
  /\ arrived < MaxBytes
  /\ arrived - taken < FifoDepth
  /\ arrived' = arrived + 1
  /\ tilde' \in {tilde, tilde \cup {arrived + 1}}
  /\ UNCHANGED <<taken, ringbuf_size, ringVars, isrReg, evt, pc, out, strayed>>

-----------------------------------------------------------------------------
(* uart_rx_isr                                                             *)

IsrStore ==
  /\ isrReg /\ DataReady
  /\ vidx_w # VIdx(vidx_r + ringbuf_size)
  /\ data' = IF Idx(vidx_w) \in DOMAIN data
             THEN [data EXCEPT ![Idx(vidx_w)] = taken + 1] ELSE data
  /\ strayed' = (strayed \/ Idx(vidx_w) \notin DOMAIN data)
  /\ vidx_w' = VIdx(vidx_w + 1)
  /\ taken' = taken + 1
  /\ evt' = TRUE
  /\ UNCHANGED <<arrived, tilde, ringbuf_size, vidx_r, isrReg, pc, out>>

IsrFull ==
  /\ isrReg /\ DataReady
  /\ vidx_w = VIdx(vidx_r + ringbuf_size)
  /\ isrReg' = FALSE
  /\ evt' = TRUE
  /\ UNCHANGED <<hwVars, ringbuf_size, ringVars, pc, out, strayed>>

-----------------------------------------------------------------------------
(* Cli_Start                                                               *)

\* Faulty: the handler stays removed.
ReadNothingUnregistered ==
  /\ pc = "read"
  /\ vidx_r = vidx_w
  /\ pc' = "wait"
  /\ UNCHANGED <<hwVars, ringbuf_size, ringVars, isrReg, evt, out, strayed>>

ReadNothing ==
  /\ pc = "read"
  /\ vidx_r = vidx_w
  /\ isrReg' = TRUE
  /\ pc' = "wait"
  /\ UNCHANGED <<hwVars, ringbuf_size, ringVars, evt, out, strayed>>

EventWait ==
  /\ pc = "wait"
  /\ evt
  /\ evt' = FALSE
  /\ pc' = "read"
  /\ UNCHANGED <<hwVars, ringbuf_size, ringVars, isrReg, out, strayed>>

\* A byte is read; for '~' the sizes change at once, before the message.
ReadByte ==
  /\ pc = "read"
  /\ vidx_r # vidx_w
  /\ out' = data[Idx(vidx_r)]
  /\ vidx_r' = VIdx(vidx_r + 1)
  /\ isrReg' = TRUE
  /\ IF out' \in tilde
     THEN /\ ringbuf_size' = IF ringbuf_size = SmallSize THEN BurstSize ELSE SmallSize
          /\ pc' = "realloc"
     ELSE UNCHANGED <<ringbuf_size, pc>>
  /\ UNCHANGED <<hwVars, data, vidx_w, evt, strayed>>

\* Faulty: the buffer is replaced but the indices are kept.
ReallocKeepsIndices ==
  /\ pc = "realloc"
  /\ data' = [i \in 0 .. ringbuf_size - 1 |-> 0]
  /\ pc' = "read"
  /\ UNCHANGED <<hwVars, ringbuf_size, vidx_w, vidx_r, isrReg, evt, out, strayed>>

\* The critical section: new buffer, indices at zero; unread bytes are gone.
Realloc ==
  /\ pc = "realloc"
  /\ data' = [i \in 0 .. ringbuf_size - 1 |-> 0]
  /\ vidx_w' = 0 /\ vidx_r' = 0
  /\ pc' = "read"
  /\ UNCHANGED <<hwVars, ringbuf_size, isrReg, evt, out, strayed>>

Isr       == IsrStore \/ IsrFull
Cli_Start == ReadNothing \/ EventWait \/ ReadByte \/ Realloc

Next == Arrive \/ Isr \/ Cli_Start

Spec == Init /\ [][Next]_vars

-----------------------------------------------------------------------------
(***************************************************************************)
(* No lost wake-up, across a change of size too.                           *)
(***************************************************************************)
NoLostWakeup == pc = "wait" /\ (vidx_w # vidx_r \/ ~isrReg) => evt

(***************************************************************************)
(* "when data ready ,move all data in fifo into ringbuf": every byte taken *)
(* from the FIFO is stored inside the ring's memory.                       *)
(***************************************************************************)
AllIntoRing == ~strayed

=============================================================================
