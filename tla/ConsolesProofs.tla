---------------------------- MODULE ConsolesProofs ---------------------------
(***************************************************************************)
(* Proofs about Consoles, for any two sizes of the ring whose masks count  *)
(* slots (80 is a ring of 16 to its masks): no wake-up is lost, and no     *)
(* byte comes twice, out of order or from a slot never written, although   *)
(* the key '~' changes the size under the interrupt handler.               *)
(***************************************************************************)
EXTENDS Consoles, TLAPS

\* The slots a size gives.
SlotsOf(size) == CHOOSE c \in 1 .. size : Burst!CountSlots(size, c)

\* The bytes between two virtual indices of a ring of c slots, and the slot of
\* the k-th byte from one on.
Between(r, w, c) == IF r <= w THEN w - r ELSE w - r + 2 * c
Slot(r, k, c) ==
  IF r + k < c THEN r + k ELSE IF r + k < 2 * c THEN r + k - c ELSE r + k - 2 * c

\* The ring holds the last n bytes the handler took, oldest first, all newer
\* than what uart_read returned last.
Contents(c) ==
  LET n == Between(vidx_r, vidx_w, c)
  IN  /\ vidx_r \in 0 .. 2 * c - 1 /\ vidx_w \in 0 .. 2 * c - 1
      /\ n <= c /\ out <= taken - n
      /\ DOMAIN data = 0 .. ringbuf_size - 1
      /\ \A k \in 0 .. n - 1 : data[Slot(vidx_r, k, c)] = (taken - n) + (k + 1)

\* Between the assignment of the size and the new buffer, inside the key '~',
\* nothing is said of the ring.
BurstInv ==
  /\ pc \in {"read", "wait", "realloc"}
  /\ ringbuf_size \in {SmallSize, BurstSize}
  /\ taken \in Nat /\ out \in Nat /\ out <= taken /\ strayed \in BOOLEAN
  /\ pc # "realloc" => Contents(SlotsOf(ringbuf_size))
  /\ Burst!NoLostWakeup

IInv ==
  \/ image = "poll" /\ Poll!NoLostWakeup
  \/ image = "burst" /\ BurstInv

-----------------------------------------------------------------------------
(* The masks.                                                              *)

LEMMA SlotsCount ==
  ASSUME NEW size \in {SmallSize, BurstSize}
  PROVE  /\ size \in Nat \ {0} /\ SlotsOf(size) \in 1 .. size
         /\ Burst!CountSlots(size, SlotsOf(size))
  BY ConsolesAssumption DEF SlotsOf

\* What the macros of cli.c come to on the indices of the ring.
LEMMA Masks ==
  ASSUME ringbuf_size \in {SmallSize, BurstSize},
         NEW v \in 0 .. 2 * SlotsOf(ringbuf_size) - 1
  PROVE  LET c == SlotsOf(ringbuf_size) IN
         /\ Burst!VIdx(v + 1) = IF v = 2 * c - 1 THEN 0 ELSE v + 1
         /\ Burst!VIdx(v + ringbuf_size) = IF v < c THEN v + c ELSE v - c
         /\ Burst!Idx(v) = IF v < c THEN v ELSE v - c
<1>1. Burst!CountSlots(ringbuf_size, SlotsOf(ringbuf_size))
  BY SlotsCount
<1> QED
  BY <1>1 DEF Burst!CountSlots, Burst!VIdx, Burst!Idx

-----------------------------------------------------------------------------
(* The handler and the task of BurstConsole.                               *)

\* The handler finds its slot inside the buffer.
LEMMA SlotInside ==
  ASSUME BurstInv, pc # "realloc"
  PROVE  Burst!Idx(vidx_w) \in DOMAIN data
<1> DEFINE c == SlotsOf(ringbuf_size)
<1>1. c \in Nat /\ c > 0 /\ c <= ringbuf_size /\ ringbuf_size \in Nat
  BY SlotsCount DEF BurstInv
<1>2. vidx_w \in 0 .. 2 * c - 1 /\ DOMAIN data = 0 .. ringbuf_size - 1
  BY DEF BurstInv, Contents
<1>3. Burst!Idx(vidx_w) = IF vidx_w < c THEN vidx_w ELSE vidx_w - c
  BY <1>2, Masks DEF BurstInv
<1> HIDE DEF c
<1> QED
  BY <1>1, <1>2, <1>3

\* A byte stored in a ring that is not full.
LEMMA StoreKeeps ==
  ASSUME BurstInv, pc # "realloc", Burst!IsrStore
  PROVE  Contents(SlotsOf(ringbuf_size))'
<1> DEFINE c == SlotsOf(ringbuf_size)
           n == Between(vidx_r, vidx_w, c)
<1>1. /\ c \in Nat /\ c > 0 /\ c <= ringbuf_size /\ ringbuf_size \in Nat
      /\ taken \in Nat /\ out \in Nat /\ Contents(c)
  BY SlotsCount DEF BurstInv
<1>2. vidx_r \in 0 .. 2 * c - 1 /\ vidx_w \in 0 .. 2 * c - 1 /\ n \in 0 .. c
  BY <1>1 DEF Contents, Between
<1>0. /\ out <= taken - n /\ DOMAIN data = 0 .. ringbuf_size - 1
      /\ \A k \in 0 .. n - 1 : data[Slot(vidx_r, k, c)] = (taken - n) + (k + 1)
  BY <1>1 DEF Contents
<1>3. /\ Burst!VIdx(vidx_w + 1) = IF vidx_w = 2 * c - 1 THEN 0 ELSE vidx_w + 1
      /\ Burst!VIdx(vidx_r + ringbuf_size) = IF vidx_r < c THEN vidx_r + c ELSE vidx_r - c
      /\ Burst!Idx(vidx_w) = IF vidx_w < c THEN vidx_w ELSE vidx_w - c
  BY <1>2, Masks DEF BurstInv
<1> DEFINE i == Burst!Idx(vidx_w)
<1>4. /\ ringbuf_size' = ringbuf_size /\ vidx_r' = vidx_r /\ out' = out
      /\ taken' = taken + 1 /\ vidx_w' = Burst!VIdx(vidx_w + 1)
      /\ vidx_w # Burst!VIdx(vidx_r + ringbuf_size)
      /\ data' = IF i \in DOMAIN data THEN [data EXCEPT ![i] = taken + 1] ELSE data
  BY DEF Burst!IsrStore
<1> HIDE DEF c
<1>5. n < c /\ vidx_w' \in 0 .. 2 * c - 1 /\ Between(vidx_r, vidx_w', c) = n + 1
  <2>1. vidx_w' = IF vidx_w = 2 * c - 1 THEN 0 ELSE vidx_w + 1
    BY ONLY <1>3, <1>4
  <2>2. vidx_w # IF vidx_r < c THEN vidx_r + c ELSE vidx_r - c
    BY ONLY <1>3, <1>4
  <2>3. n < c
    BY <1>1, <1>2, <2>2 DEF Between
  <2> QED
    BY <1>1, <1>2, <2>1, <2>3 DEF Between
<1>6. i \in 0 .. ringbuf_size - 1 /\ i = Slot(vidx_r, n, c)
  BY <1>1, <1>2, <1>3 DEF Between, Slot
<1> HIDE DEF i
<1>7. /\ DOMAIN data' = 0 .. ringbuf_size - 1 /\ data'[i] = taken + 1
      /\ \A j \in 0 .. ringbuf_size - 1 : j # i => data'[j] = data[j]
  BY <1>0, <1>4, <1>6
<1>8. \A k \in 0 .. n - 1 : Slot(vidx_r, k, c) # i /\ Slot(vidx_r, k, c) \in 0 .. ringbuf_size - 1
  <2> SUFFICES ASSUME NEW k \in 0 .. n - 1
               PROVE  Slot(vidx_r, k, c) # i /\ Slot(vidx_r, k, c) \in 0 .. ringbuf_size - 1
    OBVIOUS
  <2> HIDE DEF n
  <2>1. Slot(vidx_r, k, c) # Slot(vidx_r, n, c)
    BY <1>1, <1>2, <1>5 DEF Slot
  <2>2. Slot(vidx_r, k, c) \in 0 .. c - 1
    BY <1>1, <1>2, <1>5 DEF Slot
  <2> QED
    BY <1>1, <1>6, <2>1, <2>2
<1> HIDE DEF n
<1>9. \A k \in 0 .. n : data'[Slot(vidx_r, k, c)] = (taken - n) + (k + 1)
  <2> SUFFICES ASSUME NEW k \in 0 .. n
               PROVE  data'[Slot(vidx_r, k, c)] = (taken - n) + (k + 1)
    OBVIOUS
  <2>1. CASE k = n
    BY <1>1, <1>2, <1>6, <1>7, <2>1
  <2>2. CASE k # n
    <3>1. k \in 0 .. n - 1
      BY <1>2, <2>2
    <3> QED
      BY <1>0, <1>7, <1>8, <3>1
  <2> QED
    BY <2>1, <2>2
<1>10. SlotsOf(ringbuf_size)' = c
  BY <1>4 DEF c
<1> DEFINE m == Between(vidx_r', vidx_w', c)
<1>11. m = n + 1 /\ m <= c /\ taken' - m = taken - n /\ 0 .. m - 1 = 0 .. n
  BY <1>1, <1>2, <1>4, <1>5
<1> HIDE DEF m
<1>12. /\ out' <= taken' - m /\ DOMAIN data' = 0 .. ringbuf_size' - 1
       /\ \A k \in 0 .. m - 1 : data'[Slot(vidx_r', k, c)] = (taken' - m) + (k + 1)
  BY ONLY <1>0, <1>4, <1>7, <1>9, <1>11
<1> QED
  BY <1>2, <1>4, <1>5, <1>10, <1>11, <1>12 DEF Contents, m

\* A byte read is the oldest one in the ring.
LEMMA ReadTakesOldest ==
  ASSUME BurstInv, Burst!ReadByte
  PROVE  /\ out' \in Nat /\ out' > out /\ out' <= taken
         /\ UNCHANGED ringbuf_size => Contents(SlotsOf(ringbuf_size))'
<1> DEFINE c == SlotsOf(ringbuf_size)
           n == Between(vidx_r, vidx_w, c)
<1>1. /\ c \in Nat /\ c > 0 /\ c <= ringbuf_size /\ ringbuf_size \in Nat
      /\ taken \in Nat /\ out \in Nat /\ Contents(c)
  BY SlotsCount DEF BurstInv, Burst!ReadByte
<1>2. vidx_r \in 0 .. 2 * c - 1 /\ vidx_w \in 0 .. 2 * c - 1 /\ n \in 0 .. c
  BY <1>1 DEF Contents, Between
<1>0. /\ out <= taken - n /\ DOMAIN data = 0 .. ringbuf_size - 1
      /\ \A k \in 0 .. n - 1 : data[Slot(vidx_r, k, c)] = (taken - n) + (k + 1)
  BY <1>1 DEF Contents
<1>3. /\ Burst!VIdx(vidx_r + 1) = IF vidx_r = 2 * c - 1 THEN 0 ELSE vidx_r + 1
      /\ Burst!Idx(vidx_r) = IF vidx_r < c THEN vidx_r ELSE vidx_r - c
  BY <1>2, Masks DEF BurstInv
<1>4. /\ vidx_r # vidx_w /\ out' = data[Burst!Idx(vidx_r)]
      /\ vidx_r' = Burst!VIdx(vidx_r + 1)
      /\ vidx_w' = vidx_w /\ data' = data /\ taken' = taken
  BY DEF Burst!ReadByte, Burst!hwVars
<1> HIDE DEF c
<1>5. /\ n > 0 /\ vidx_r' \in 0 .. 2 * c - 1 /\ Between(vidx_r', vidx_w, c) = n - 1
      /\ Burst!Idx(vidx_r) = Slot(vidx_r, 0, c)
  <2>1. vidx_r' = IF vidx_r = 2 * c - 1 THEN 0 ELSE vidx_r + 1
    BY ONLY <1>3, <1>4
  <2>2. Burst!Idx(vidx_r) = Slot(vidx_r, 0, c)
    BY <1>1, <1>2, <1>3 DEF Slot
  <2>3. n > 0
    BY <1>1, <1>2, <1>4 DEF Between
  <2> QED
    BY <1>1, <1>2, <1>4, <2>1, <2>2, <2>3 DEF Between
<1>6. \A k \in 0 .. n - 2 : Slot(vidx_r', k, c) = Slot(vidx_r, k + 1, c)
  <2>1. vidx_r' = IF vidx_r = 2 * c - 1 THEN 0 ELSE vidx_r + 1
    BY ONLY <1>3, <1>4
  <2> HIDE DEF n
  <2> QED
    BY <1>1, <1>2, <2>1 DEF Slot
<1> HIDE DEF n
<1>7. out' = (taken - n) + 1
  BY <1>0, <1>2, <1>4, <1>5
<1>8. \A k \in 0 .. n - 2 : data'[Slot(vidx_r', k, c)] = (taken - n) + (k + 2)
  BY <1>0, <1>2, <1>4, <1>6
<1>9. ASSUME UNCHANGED ringbuf_size
      PROVE  Contents(SlotsOf(ringbuf_size))'
  <2>1. SlotsOf(ringbuf_size)' = c
    BY <1>9 DEF c
  <2>2. /\ out' <= taken' - (n - 1) /\ n - 1 <= c /\ (n - 1) - 1 = n - 2
        /\ \A k \in 0 .. n - 2 : data'[Slot(vidx_r', k, c)] = (taken' - (n - 1)) + (k + 1)
    BY <1>1, <1>2, <1>4, <1>7, <1>8
  <2>3. DOMAIN data' = 0 .. ringbuf_size' - 1
    BY <1>0, <1>4, <1>9
  <2> QED
    BY <1>2, <1>4, <1>5, <2>1, <2>2, <2>3 DEF Contents
<1> QED
  BY <1>0, <1>1, <1>2, <1>5, <1>7, <1>9

LEMMA BurstStep ==
  ASSUME BurstInv, Burst!Next
  PROVE  BurstInv'
<1> USE DEF Burst!NoLostWakeup
<1>1. CASE Burst!Arrive
  BY <1>1 DEF Burst!Arrive, Burst!ringVars, BurstInv, Contents
<1>2. CASE Burst!IsrStore
  <2>1. /\ taken' = taken + 1 /\ evt' = TRUE /\ strayed' \in BOOLEAN
        /\ UNCHANGED <<ringbuf_size, pc, out>>
    BY <1>2 DEF Burst!IsrStore
  <2>2. taken' \in Nat /\ out <= taken'
    BY <2>1 DEF BurstInv
  <2> QED
    BY <1>2, <2>1, <2>2, StoreKeeps DEF BurstInv
<1>3. CASE Burst!IsrFull
  BY <1>3 DEF Burst!IsrFull, Burst!hwVars, Burst!ringVars, BurstInv, Contents
<1>4. CASE Burst!ReadNothing
  BY <1>4 DEF Burst!ReadNothing, Burst!hwVars, Burst!ringVars, BurstInv, Contents
<1>5. CASE Burst!EventWait
  BY <1>5 DEF Burst!EventWait, Burst!hwVars, Burst!ringVars, BurstInv, Contents
<1>6. CASE Burst!ReadByte
  <2>1. /\ pc = "read" /\ taken' = taken /\ strayed' = strayed
        /\ \/ pc' = "realloc" /\ ringbuf_size' \in {SmallSize, BurstSize}
           \/ UNCHANGED <<ringbuf_size, pc>>
    BY <1>6 DEF Burst!ReadByte, Burst!hwVars
  <2> QED
    BY <1>6, <2>1, ReadTakesOldest DEF BurstInv
<1>7. CASE Burst!Realloc
  <2>1. /\ pc' = "read" /\ vidx_w' = 0 /\ vidx_r' = 0
        /\ data' = [i \in 0 .. ringbuf_size - 1 |-> 0]
        /\ UNCHANGED <<taken, ringbuf_size, out, strayed>>
    BY <1>7 DEF Burst!Realloc, Burst!hwVars
  <2>2. SlotsOf(ringbuf_size)' = SlotsOf(ringbuf_size) /\ SlotsOf(ringbuf_size) \in Nat \ {0}
    BY <2>1, SlotsCount DEF BurstInv
  <2>3. Contents(SlotsOf(ringbuf_size))'
    BY <2>1, <2>2 DEF Contents, Between, BurstInv
  <2> QED
    BY <2>1, <2>3 DEF BurstInv
<1> QED
  BY <1>1, <1>2, <1>3, <1>4, <1>5, <1>6, <1>7
     DEF Burst!Next, Burst!Isr, Burst!Cli_Start

LEMMA PollStep ==
  ASSUME Poll!NoLostWakeup, Poll!Next
  PROVE  Poll!NoLostWakeup'
  BY DEF Poll!NoLostWakeup, Poll!Next, Poll!Arrive, Poll!uart_rx_isr, Poll!Cli_Start,
         Poll!Check, Poll!Read, Poll!Register, Poll!SemWait

-----------------------------------------------------------------------------
LEMMA InitIInv ==
  ASSUME Init
  PROVE  IInv
<1>1. CASE image = "poll" /\ Poll!Init
  BY <1>1 DEF IInv, Poll!Init, Poll!NoLostWakeup
<1>2. CASE image = "burst" /\ Burst!Init
  <2>1. ringbuf_size = SmallSize /\ SlotsOf(ringbuf_size) \in Nat \ {0}
    BY <1>2, SlotsCount DEF Burst!Init
  <2>2. Contents(SlotsOf(ringbuf_size))
    BY <1>2, <2>1 DEF Burst!Init, Contents, Between
  <2>3. taken = 0 /\ out = 0 /\ pc = "read" /\ strayed \in BOOLEAN
    BY <1>2 DEF Burst!Init
  <2> QED
    BY <1>2, <2>1, <2>2, <2>3 DEF IInv, BurstInv, Burst!NoLostWakeup
<1> QED
  BY <1>1, <1>2 DEF Init

LEMMA StepIInv ==
  ASSUME IInv, [Next]_vars
  PROVE  IInv'
<1>1. CASE image = "poll" /\ image' = image /\ Poll!Next
  BY <1>1, PollStep DEF IInv
<1>2. CASE image = "burst" /\ image' = image /\ Burst!Next
  BY <1>2, BurstStep DEF IInv
<1>3. CASE UNCHANGED vars
  BY <1>3 DEF vars, pollOnly, burstOnly, IInv, BurstInv, Contents,
              Poll!NoLostWakeup, Burst!NoLostWakeup
<1> QED
  BY <1>1, <1>2, <1>3
     DEF Next, Arrive, PollIsr, PollTask, BurstIsr, BurstTask, Same, Poll!Next, Burst!Next

\* The inductive invariant: outside the key '~' the ring of lite_mac holds the
\* newest bytes the handler took, in order, newer than all uart_read returned.
THEOREM ConsolesInductive == Spec => []IInv
  BY InitIInv, StepIInv, PTL DEF Spec

\* Neither console sleeps on a byte nobody will signal: however the handler
\* falls between the check of the task and its wait, and across '~'.
THEOREM ConsolesWake == Spec => []NoLostWakeup
<1>1. IInv => NoLostWakeup
  BY DEF IInv, BurstInv, NoLostWakeup
<1> QED
  BY <1>1, ConsolesInductive, PTL

\* uart_read of lite_mac returns newer bytes only: none twice, none out of
\* order, none from a slot never written, across any changes of the size.
THEOREM BytesGoForward == Spec => NeverGarbage
<1> DEFINE Forward == image = "burst" /\ vidx_r' # vidx_r /\ pc = "read" => out' > out
<1>1. ASSUME IInv, [Next]_vars
      PROVE  Forward
  <2> SUFFICES ASSUME image = "burst", vidx_r' # vidx_r, pc = "read"
               PROVE  out' > out
    OBVIOUS
  <2>1. BurstInv
    BY <1>1 DEF IInv
  <2>2. CASE Burst!ReadByte
    BY <2>1, <2>2, ReadTakesOldest
  <2> QED
    BY <1>1, <2>2
       DEF Next, vars, Arrive, PollIsr, PollTask, BurstIsr, BurstTask, burstOnly,
           Burst!Arrive, Burst!Isr, Burst!IsrStore, Burst!IsrFull, Burst!Cli_Start,
           Burst!ReadNothing, Burst!EventWait, Burst!Realloc, Burst!ringVars
<1>2. IInv /\ [Next]_vars => [Forward]_vars
  BY <1>1
<1> HIDE DEF Forward
<1>3. Spec => [][Forward]_vars
  BY <1>2, ConsolesInductive, PTL DEF Spec
<1> QED
  BY <1>3 DEF NeverGarbage, Forward

\* A byte goes astray inside the key '~' only: AllIntoRing fails (run
\* burst_resize) between the assignment of ringbuf_size and the new buffer,
\* and nowhere else.
StraysInTilde == [][image = "burst" /\ strayed' # strayed => pc = "realloc"]_vars

THEOREM BytesStrayInTilde == Spec => StraysInTilde
<1> DEFINE Confined == image = "burst" /\ strayed' # strayed => pc = "realloc"
<1>1. ASSUME IInv, [Next]_vars
      PROVE  Confined
  <2> SUFFICES ASSUME image = "burst", pc # "realloc"
               PROVE  strayed' = strayed
    OBVIOUS
  <2>1. BurstInv
    BY <1>1 DEF IInv
  <2>2. CASE Burst!IsrStore
    <3>1. strayed' = (strayed \/ Burst!Idx(vidx_w) \notin DOMAIN data) /\ strayed \in BOOLEAN
      BY <2>1, <2>2 DEF Burst!IsrStore, BurstInv
    <3> QED
      BY <2>1, <3>1, SlotInside
  <2>3. CASE UNCHANGED vars
    BY <2>3 DEF vars, burstOnly
  <2>4. CASE Burst!Arrive \/ Burst!IsrFull \/ Burst!Cli_Start
    BY <2>4 DEF Burst!Arrive, Burst!IsrFull, Burst!Cli_Start, Burst!ReadByte,
       Burst!ReadNothing, Burst!EventWait, Burst!Realloc
  <2> QED
    BY ONLY <1>1, <2>2, <2>3, <2>4, image = "burst"
       DEF Next, Arrive, PollIsr, PollTask, BurstIsr, BurstTask, Burst!Isr
<1>2. IInv /\ [Next]_vars => [Confined]_vars
  BY <1>1
<1> HIDE DEF Confined
<1>3. Spec => [][Confined]_vars
  BY <1>2, ConsolesInductive, PTL DEF Spec
<1> QED
  BY <1>3 DEF StraysInTilde, Confined
=============================================================================
