----------------------------- MODULE ByteQueue ------------------------------
(***************************************************************************)
(* What the console receive path promises: a bounded first-in first-out    *)
(* queue of bytes.  Byte k is represented by its serial number k.          *)
(***************************************************************************)
EXTENDS Naturals, Sequences

CONSTANT Cap  \* the most bytes the queue holds

VARIABLES
  q,    \* the unread bytes, oldest first
  put,  \* how many bytes have been put
  got   \* the last byte taken out

qvars == <<q, put, got>>

Init ==
  /\ q = << >>
  /\ put = 0
  /\ got = 0

Put ==
  /\ Len(q) < Cap
  /\ q' = Append(q, put + 1)
  /\ put' = put + 1
  /\ UNCHANGED got

Get ==
  /\ q # << >>
  /\ got' = Head(q)
  /\ q' = Tail(q)
  /\ UNCHANGED put

Next == Put \/ Get

Spec == Init /\ [][Next]_qvars

\* A queue that is not empty is read.
FairSpec == Spec /\ WF_qvars(Get)
=============================================================================
