------------------------------ MODULE Consoles ------------------------------
(***************************************************************************)
(* The two consoles that do not have the ring of UartRing.  A firmware     *)
(* image is linked with one of them: PollConsole in the driver             *)
(* demonstrations, BurstConsole in lite_mac.  Which one, is chosen in the  *)
(* initial state; the variables both have are shared.                      *)
(***************************************************************************)
EXTENDS Naturals, Sequences

CONSTANTS
  SmallSize, BurstSize,  \* of BurstConsole
  FifoDepth,
  MaxBytes,              \* bound on the bytes that arrive, for model checking
  BitAnd(_, _)           \* the operator & of C

VARIABLES
  image,  \* "poll" or "burst": the console of this firmware
  arrived, taken, isrReg, pc,
  sem,
  tilde, ringbuf_size, data, vidx_w, vidx_r, evt, out, strayed

Poll  == INSTANCE PollConsole
Burst == INSTANCE BurstConsole

pollOnly  == sem
burstOnly == <<tilde, ringbuf_size, data, vidx_w, vidx_r, evt, out, strayed>>
vars      == <<image, arrived, taken, isrReg, pc, pollOnly, burstOnly>>

\* Every size in use is a ring of some number of slots to its masks, 80 of 16
\* and 4096 of 4096 (MasksCountSlots of RingMask).
ASSUME ConsolesAssumption ==
  /\ MaxBytes \in Nat
  /\ \A size \in {SmallSize, BurstSize} :
       size \in Nat \ {0} /\ \E c \in 1 .. size : Burst!CountSlots(size, c)

None == << >>  \* the value of a variable the image does not have

Init ==
  \/ /\ image = "poll" /\ Poll!Init
     /\ tilde = None /\ ringbuf_size = None /\ data = None
     /\ vidx_w = None /\ vidx_r = None
     /\ evt = None /\ out = None /\ strayed = None
  \/ /\ image = "burst" /\ Burst!Init
     /\ sem = None

Same == UNCHANGED image

PollIsr   == image = "poll" /\ Poll!uart_rx_isr /\ Same /\ UNCHANGED burstOnly
PollTask  == image = "poll" /\ Poll!Cli_Start /\ Same /\ UNCHANGED burstOnly
BurstIsr  == image = "burst" /\ Burst!Isr /\ Same /\ UNCHANGED pollOnly
BurstTask == image = "burst" /\ Burst!Cli_Start /\ Same /\ UNCHANGED pollOnly

Arrive ==
  \/ image = "poll" /\ Poll!Arrive /\ Same /\ UNCHANGED burstOnly
  \/ image = "burst" /\ Burst!Arrive /\ Same /\ UNCHANGED pollOnly

Next == Arrive \/ PollIsr \/ PollTask \/ BurstIsr \/ BurstTask

\* The interrupt is taken when pending and the task is scheduled.
Spec ==
  /\ Init /\ [][Next]_vars
  /\ WF_vars(PollIsr) /\ WF_vars(PollTask)
  /\ WF_vars(BurstIsr) /\ WF_vars(BurstTask)

-----------------------------------------------------------------------------
(***************************************************************************)
(* No lost wake-up: a task that waits will be signalled when a byte comes, *)
(* or has been: the handler is in place and nothing it stored is unread,   *)
(* or the semaphore (the event) is up already, however the handler fell    *)
(* between the task's check and its wait, and across a change of the size. *)
(***************************************************************************)
NoLostWakeup ==
  /\ image = "poll" => Poll!NoLostWakeup
  /\ image = "burst" => Burst!NoLostWakeup

(***************************************************************************)
(* Order across '~': the key may drop unread bytes, but no byte is         *)
(* returned twice, out of order, or as a slot that was never written.      *)
(***************************************************************************)
NeverGarbage ==
  [][image = "burst" /\ vidx_r' # vidx_r /\ pc = "read" => out' > out]_vars

(***************************************************************************)
(* Every byte the hardware accepts is read out of the FIFO: by the task    *)
(* itself, or by the handler into the ring.                                *)
(***************************************************************************)
Drained == \A k \in 1 .. MaxBytes : arrived >= k ~> taken >= k

=============================================================================
