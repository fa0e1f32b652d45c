------------------------------ MODULE RingMask ------------------------------
(***************************************************************************)
(* The index arithmetic of the console rings.  cli.c reduces the virtual   *)
(* indices with bit masks built from RINGBUF_SIZE, which is 2048 in        *)
(* mac_atcmd, 4096 in burst_cli and, at run time, 80 or 4096 in lite_mac.  *)
(* 80 is not a power of two, so its masks have holes.  UartRing counts     *)
(* modulo its capacity instead; this module says for which capacity that   *)
(* is the same, and TLC evaluates it before it checks UartRing.            *)
(***************************************************************************)
EXTENDS Naturals, Bitwise

\* The three values RINGBUF_SIZE takes in the repository.
RingSizes == {80, 2048, 4096}

VIDX_WRAP(size) == size * 2 - 1
IDX_WRAP(size)  == size - 1

\* vidx = (vidx + 1) & RINGBUF_VIDX_WRAP
MaskedNext(size, vidx) == (vidx + 1) & VIDX_WRAP(size)

\* vidx_w_full, when vidx is vidx_r
MaskedFull(size, vidx) == (vidx + size) & VIDX_WRAP(size)

\* idx_w, idx_r
MaskedSlot(size, vidx) == vidx & IDX_WRAP(size)

\* The slots a size really gives: the largest power of two dividing it.
Slots(size) ==
  CHOOSE c \in {2 ^ k : k \in 0 .. 12} : size % c = 0 /\ (size \div c) % 2 = 1

(***************************************************************************)
(* Masks: for every size in use the masked arithmetic, on the indices it   *)
(* reaches, is that of a ring of Slots slots, so UartRing stands for it    *)
(* with Cap = Slots: 2048 and 4096 lose nothing, while the 80 bytes of     *)
(* lite_mac work as a ring of 16.  It is not so for every size: with 7 the *)
(* full test would never succeed.                                          *)
(***************************************************************************)
ASSUME MasksCountSlots ==
  \A size \in RingSizes : LET c == Slots(size) IN
    \A vidx \in 0 .. 2 * c - 1 :
      /\ MaskedNext(size, vidx) = (vidx + 1) % (2 * c)
      /\ MaskedFull(size, vidx) = (vidx + c) % (2 * c)
      /\ MaskedSlot(size, vidx) = vidx % c
      /\ MaskedSlot(size, vidx) < size

=============================================================================
