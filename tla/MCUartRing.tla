----------------------------- MODULE MCUartRing -----------------------------
(* Model-checking instance of UartRing: the ring wraps its virtual indices, *)
(* fills up and empties within the bytes that arrive.  RingMask adds the    *)
(* assumption that the masks of cli.c count modulo the capacity.            *)
EXTENDS UartRing, RingMask
=============================================================================
