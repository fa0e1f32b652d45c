---------------------------- MODULE PollConsole -----------------------------
(***************************************************************************)
(* The console of the driver demonstrations (projects/gpio and eleven      *)
(* others, src/cli/cli.c): no ring buffer.  The interrupt handler removes  *)
(* itself and signals cli_rx_sem; the task reads the hardware FIFO itself  *)
(* and, when that is empty, puts the handler back and waits.               *)
(***************************************************************************)
EXTENDS Naturals

CONSTANTS
  FifoDepth,  \* bytes the hardware FIFO holds
  MaxBytes    \* bound on the bytes that arrive, for model checking

VARIABLES
  arrived,  \* bytes the hardware FIFO has accepted
  taken,    \* bytes read out of it
  isrReg,   \* the data-ready interrupt has its handler
  sem,      \* count of cli_rx_sem, at most 1
  pc        \* where Cli_Start is

vars == <<arrived, taken, isrReg, sem, pc>>

Init ==
  /\ arrived = 0 /\ taken = 0
  /\ isrReg = TRUE
  /\ sem = 0
  /\ pc = "check"

DataReady == taken < arrived

Arrive ==
  /\ arrived < MaxBytes
  /\ arrived - taken < FifoDepth
  /\ arrived' = arrived + 1
  /\ UNCHANGED <<taken, isrReg, sem, pc>>

\* Faulty: the handler removes itself without signalling.
uart_rx_isr_silent ==
  /\ isrReg /\ DataReady
  /\ isrReg' = FALSE
  /\ UNCHANGED <<arrived, taken, sem, pc>>

uart_rx_isr ==
  /\ isrReg /\ DataReady
  /\ isrReg' = FALSE
  /\ sem' = 1
  /\ UNCHANGED <<arrived, taken, pc>>

\* drv_uart_is_receiver_available
Check ==
  /\ pc = "check"
  /\ pc' = IF DataReady THEN "read" ELSE "register"
  /\ UNCHANGED <<arrived, taken, isrReg, sem>>

\* drv_uart_read_fifo of one byte, and the switch on it; after an escape the
\* task reads the next byte at once and polls for it.
Read ==
  /\ pc = "read"
  /\ DataReady
  /\ taken' = taken + 1
  /\ pc' \in {"check", "read"}
  /\ UNCHANGED <<arrived, isrReg, sem>>

\* Faulty: the handler is not put back.
RegisterNot ==
  /\ pc = "register"
  /\ pc' = "wait"
  /\ UNCHANGED <<arrived, taken, isrReg, sem>>

Register ==
  /\ pc = "register"
  /\ isrReg' = TRUE
  /\ pc' = "wait"
  /\ UNCHANGED <<arrived, taken, sem>>

\* OS_SemWait(cli_rx_sem, portMAX_DELAY)
SemWait ==
  /\ pc = "wait"
  /\ sem = 1
  /\ sem' = 0
  /\ pc' = "check"
  /\ UNCHANGED <<arrived, taken, isrReg>>

Cli_Start == Check \/ Read \/ Register \/ SemWait

Next == Arrive \/ uart_rx_isr \/ Cli_Start

Spec == Init /\ [][Next]_vars

-----------------------------------------------------------------------------
(***************************************************************************)
(* No lost wake-up: a task that waits will be signalled when a byte comes, *)
(* because the handler is in place or the semaphore is up already, however *)
(* the handler fell between the task's check and its wait.                 *)
(***************************************************************************)
NoLostWakeup == pc = "wait" => isrReg \/ sem = 1
=============================================================================
