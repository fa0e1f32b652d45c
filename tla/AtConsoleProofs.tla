--------------------------- MODULE AtConsoleProofs --------------------------
(***************************************************************************)
(* Proofs about the console of the AT firmware, its receive ring and the   *)
(* CLI task on it, for every ring size, FIFO depth, line buffer and number *)
(* of bytes.                                                               *)
(*                                                                         *)
(* The first part is about UartRing, for every read size.  IInv is its     *)
(* inductive invariant: Control is the part that does not look at the      *)
(* bytes (types, what the critical sections captured, and the two facts    *)
(* about waking up and flow control), the rest says what the ring contains.*)
(*                                                                         *)
(* The second part is about CliConsole.  Behind an escape __get_char takes *)
(* a byte past the ring, so the bytes read are no longer those that        *)
(* arrived (InOrder fails there); what remains is that they only go        *)
(* forward, and that the editor does with them what the keys say.          *)
(***************************************************************************)
EXTENDS CliConsole, SequenceTheorems, WellFoundedInduction, TLAPS

\* The handler's loop body only runs while the handler is registered.
LoopRegistered == isr.pc = "loop" => isrReg

Control == TypeOK /\ Captured /\ LoopRegistered /\ NoLostWakeup /\ RemovedOnlyWhenFull

IInv == Control /\ InOrder /\ RingHolds

-----------------------------------------------------------------------------
(* Arithmetic of the virtual indices.                                      *)

\* Advancing a virtual index, or adding the ring size to it, gives a virtual
\* index, and its slot is a slot.
LEMMA VWrapType ==
  ASSUME NEW v \in VIdx, NEW k \in 0 .. Cap
  PROVE  VWrap(v + k) \in VIdx /\ IdxOf(v) \in Slot
BY RingAssumption DEF VWrap, IdxOf, VIdx, Slot

\* Storing one byte lengthens the used part by one unless the ring is full,
\* and the slot of the new byte is the one just behind the used part.
LEMMA Push ==
  ASSUME NEW r \in VIdx, NEW w \in VIdx, Used(r, w) <= Cap,
         w # VWrap(r + Cap)
  PROVE  /\ Used(r, w) < Cap
         /\ Used(r, VWrap(w + 1)) = Used(r, w) + 1
         /\ w = VWrap(r + Used(r, w))
BY RingAssumption DEF VWrap, Used, VIdx

\* Distinct offsets below the ring size have distinct slots.
LEMMA SlotsDistinct ==
  ASSUME NEW r \in VIdx, NEW i \in Slot, NEW j \in Slot, i # j
  PROVE  IdxOf(VWrap(r + i)) # IdxOf(VWrap(r + j))
BY RingAssumption DEF VWrap, IdxOf, VIdx, Slot

\* Reading one byte shortens the used part by one, and offset i from the new
\* index is offset i + 1 from the old one.
LEMMA Pop ==
  ASSUME NEW r \in VIdx, NEW w \in VIdx, Used(r, w) <= Cap, r # w
  PROVE  /\ Used(VWrap(r + 1), w) = Used(r, w) - 1
         /\ Used(r, w) > 0
         /\ \A i \in Slot : i + 1 < Cap => VWrap(VWrap(r + 1) + i) = VWrap(r + (i + 1))
BY RingAssumption DEF VWrap, Used, VIdx, Slot

\* The index the handler compares with is reached exactly at a full ring.
LEMMA FullIndex ==
  ASSUME NEW r \in VIdx
  PROVE  Used(r, VWrap(r + Cap)) = Cap
BY RingAssumption DEF VWrap, Used, VIdx

-----------------------------------------------------------------------------
LEMMA InitIInv == Init => IInv
<1> SUFFICES ASSUME Init PROVE IInv
  OBVIOUS
<1>1. TypeOK
  <2>1. 0 \in VIdx /\ 0 \in 0 .. ReadSize
    BY RingAssumption DEF VIdx
  <2>2. data \in [Slot -> Nat]
    BY DEF Init
  <2> QED
    BY <2>1, <2>2 DEF Init, TypeOK
<1>2. RingHolds
  <2>1. Used(ReadPos, WritePos) = 0
    BY RingAssumption DEF Init, ReadPos, WritePos, Used
  <2>2. taken - popped = 0
    BY DEF Init
  <2> QED
    BY <2>1, <2>2, RingAssumption DEF RingHolds, Slot
<1>3. InOrder /\ Captured /\ LoopRegistered /\ NoLostWakeup /\ RemovedOnlyWhenFull
  BY RingAssumption DEF Init, InOrder, Captured, LoopRegistered, NoLostWakeup, RemovedOnlyWhenFull
<1> QED
  BY <1>1, <1>2, <1>3 DEF IInv, Control

\* Every step preserves the type invariant: the virtual indices stay in range.
LEMMA NextTypeOK ==
  ASSUME Control, [Next]_vars
  PROVE  TypeOK'
<1> USE RingAssumption DEF Control, TypeOK
<1>1. CASE Arrive
  BY <1>1 DEF Arrive, ringVars, outVars
<1>2. CASE IsrEnter
  BY <1>2, VWrapType DEF IsrEnter, hwVars, ringVars, outVars
<1>3. CASE IsrStore
  <2>1. VWrap(isr.w + 1) \in VIdx
    BY VWrapType
  <2>2. data' \in [Slot -> Nat]
    BY <1>3, VWrapType DEF IsrStore
  <2> QED
    BY <1>3, <2>1, <2>2 DEF IsrStore, outVars
<1>4. CASE IsrFull
  BY <1>4 DEF IsrFull, hwVars, ringVars, outVars
<1>5. CASE IsrDrained
  BY <1>5 DEF IsrDrained, hwVars, ringVars, outVars
<1>6. CASE IsrExit
  BY <1>6 DEF IsrExit, hwVars, outVars
<1>7. CASE ReadEnter
  BY <1>7 DEF ReadEnter, hwVars, ringVars, outVars
<1>8. CASE ReadPop
  <2>1. VWrap(rd.r + 1) \in VIdx /\ IdxOf(rd.r) \in Slot
    BY VWrapType
  <2>2. rd.cnt + 1 \in 0 .. ReadSize
    BY <1>8 DEF ReadPop
  <2>3. rd' \in [pc : {"call", "loop", "wait"}, r : VIdx, empty : VIdx, cnt : 0 .. ReadSize]
    BY <1>8, <2>1, <2>2 DEF ReadPop
  <2> QED
    BY <1>8, <2>1, <2>3 DEF ReadPop, hwVars, ringVars
<1>9. CASE ReadExit
  BY <1>9 DEF ReadExit, hwVars, outVars
<1>10. CASE EventWait
  BY <1>10 DEF EventWait, hwVars, ringVars, outVars
<1>11. CASE UNCHANGED vars
  BY <1>11 DEF vars, hwVars, ringVars, outVars
<1> QED
  BY <1>1, <1>2, <1>3, <1>4, <1>5, <1>6, <1>7, <1>8, <1>9, <1>10, <1>11
     DEF Next, Isr, CliTask

\* The contents of the ring change only in IsrStore and ReadPop.
LEMMA NextRing ==
  ASSUME IInv, [Next]_vars
  PROVE  RingHolds' /\ InOrder'
<1> USE RingAssumption DEF IInv, Control, TypeOK
<1> DEFINE Same == UNCHANGED <<ReadPos, WritePos, taken, data, out, popped>>
<1>0. Same => RingHolds' /\ InOrder'
  BY DEF RingHolds, InOrder
<1>1. CASE Arrive
  BY <1>1, <1>0 DEF Arrive, ringVars, outVars, ReadPos, WritePos
<1>2. CASE IsrEnter
  BY <1>2, <1>0 DEF IsrEnter, hwVars, ringVars, outVars, ReadPos, WritePos
<1>3. CASE IsrStore
  <2> DEFINE n == taken - popped
  <2>1. ReadPos = vidx_r /\ ReadPos' = vidx_r /\ WritePos = isr.w /\ WritePos' = VWrap(isr.w + 1)
    BY <1>3 DEF IsrStore, ReadPos, WritePos, Captured
  <2>2. isr.w # VWrap(vidx_r + Cap)
    BY <1>3 DEF IsrStore, Captured
  <2>3. /\ n < Cap
        /\ Used(vidx_r, VWrap(isr.w + 1)) = n + 1
        /\ isr.w = VWrap(vidx_r + n)
    BY <2>1, <2>2, Push DEF RingHolds
  <2>4. n \in Slot
    <3>1. taken \in Nat /\ popped \in Nat /\ n \in Nat
      BY <2>1 DEF RingHolds, Used, VIdx
    <3> QED
      BY <2>3, <3>1 DEF Slot
  <2>5. taken' = taken + 1 /\ popped' = popped /\ out' = out
    BY <1>3 DEF IsrStore, outVars
  <2>6. IdxOf(isr.w) \in Slot /\ data' = [data EXCEPT ![IdxOf(isr.w)] = taken + 1]
    BY <1>3, VWrapType DEF IsrStore
  <2>7. ASSUME NEW i \in Slot, i < n + 1
        PROVE  data'[IdxOf(VWrap(vidx_r + i))] = popped + 1 + i
    <3>1. CASE i = n
      BY <2>3, <2>6, <3>1
    <3>2. CASE i < n
      <4>1. IdxOf(VWrap(vidx_r + i)) # IdxOf(isr.w)
        BY <2>3, <2>4, <3>2, SlotsDistinct
      <4>2. IdxOf(VWrap(vidx_r + i)) \in Slot
        <5>1. i \in 0 .. Cap
          BY DEF Slot
        <5>2. VWrap(vidx_r + i) \in VIdx
          BY <5>1, VWrapType
        <5> QED
          BY <5>2, VWrapType
      <4>3. data[IdxOf(VWrap(vidx_r + i))] = popped + 1 + i
        BY <2>1, <3>2 DEF RingHolds
      <4> QED
        BY <2>6, <4>1, <4>2, <4>3
    <3> QED
      BY <2>4, <2>7, <3>1, <3>2 DEF Slot
  <2>8. Used(ReadPos', WritePos') = taken' - popped' /\ taken' - popped' <= Cap
    BY <2>1, <2>3, <2>5
  <2>9. \A i \in Slot : i < taken' - popped' => data'[IdxOf(VWrap(ReadPos' + i))] = popped' + 1 + i
    BY <2>1, <2>5, <2>7
  <2>10. RingHolds'
    BY <2>8, <2>9 DEF RingHolds, Used, IdxOf, VWrap, Slot
  <2> QED
    BY <2>5, <2>10 DEF InOrder
<1>4. CASE IsrFull
  BY <1>4, <1>0 DEF IsrFull, hwVars, ringVars, outVars, ReadPos, WritePos
<1>5. CASE IsrDrained
  BY <1>5, <1>0 DEF IsrDrained, hwVars, ringVars, outVars, ReadPos, WritePos
<1>6. CASE IsrExit
  BY <1>6, <1>0 DEF IsrExit, hwVars, outVars, ReadPos, WritePos
<1>7. CASE ReadEnter
  BY <1>7, <1>0 DEF ReadEnter, hwVars, ringVars, outVars, ReadPos, WritePos
<1>8. CASE ReadPop
  <2> DEFINE n == taken - popped
  <2>1. ReadPos = rd.r /\ ReadPos' = VWrap(rd.r + 1) /\ WritePos = vidx_w /\ WritePos' = vidx_w
    BY <1>8 DEF ReadPop, ringVars, ReadPos, WritePos
  <2>2. rd.r # vidx_w
    BY <1>8 DEF ReadPop, Captured
  <2>3. /\ Used(VWrap(rd.r + 1), vidx_w) = n - 1
        /\ n > 0 /\ n <= Cap
        /\ \A i \in Slot : i + 1 < Cap => VWrap(VWrap(rd.r + 1) + i) = VWrap(rd.r + (i + 1))
    BY <2>1, <2>2, Pop DEF RingHolds
  <2>4. /\ out' = data[IdxOf(rd.r)] /\ popped' = popped + 1
        /\ taken' = taken /\ data' = data
    BY <1>8 DEF ReadPop, hwVars, ringVars
  <2>5. data[IdxOf(rd.r)] = popped + 1
    <3>1. 0 \in Slot /\ VWrap(rd.r + 0) = rd.r
      BY DEF Slot, VWrap, VIdx
    <3> QED
      BY <2>1, <2>3, <3>1 DEF RingHolds
  <2>6. ASSUME NEW i \in Slot, i < n - 1
        PROVE  data[IdxOf(VWrap(VWrap(rd.r + 1) + i))] = popped + 1 + 1 + i
    <3>1. i + 1 \in Slot /\ i + 1 < n
      BY <2>3, <2>6 DEF Slot
    <3>2. data[IdxOf(VWrap(rd.r + (i + 1)))] = popped + 1 + (i + 1)
      BY <2>1, <3>1 DEF RingHolds
    <3>3. i + 1 < Cap
      BY <3>1 DEF Slot
    <3>4. VWrap(VWrap(rd.r + 1) + i) = VWrap(rd.r + (i + 1))
      BY <2>3, <3>3
    <3>5. popped + 1 + 1 + i = popped + 1 + (i + 1)
      BY <2>6 DEF Slot
    <3> QED
      BY <3>2, <3>4, <3>5
  <2>7. InOrder'
    BY <2>1, <2>4, <2>5 DEF InOrder
  <2>8. Used(VWrap(rd.r + 1), vidx_w) = taken - (popped + 1) /\ taken - (popped + 1) <= Cap
    BY <2>3 DEF RingHolds
  <2>9. ASSUME NEW i \in Slot, i < taken - (popped + 1)
        PROVE  data[IdxOf(VWrap(VWrap(rd.r + 1) + i))] = (popped + 1) + 1 + i
    BY <2>6, <2>9
  <2>10. RingHolds'
    BY <2>1, <2>4, <2>8, <2>9 DEF RingHolds
  <2> QED
    BY <2>7, <2>10
<1>9. CASE ReadExit
  BY <1>9, <1>0 DEF ReadExit, hwVars, outVars, ReadPos, WritePos
<1>10. CASE EventWait
  BY <1>10, <1>0 DEF EventWait, hwVars, ringVars, outVars, ReadPos, WritePos
<1>11. CASE UNCHANGED vars
  BY <1>11, <1>0 DEF vars, hwVars, ringVars, outVars, ReadPos, WritePos
<1> QED
  BY <1>1, <1>2, <1>3, <1>4, <1>5, <1>6, <1>7, <1>8, <1>9, <1>10, <1>11
     DEF Next, Isr, CliTask

\* What a critical section captured stays current, because the other one
\* cannot run inside it.
LEMMA NextCaptured ==
  ASSUME Control, [Next]_vars
  PROVE  Captured' /\ LoopRegistered'
<1> USE DEF Control, Captured, LoopRegistered
<1>1. CASE Arrive
  BY <1>1 DEF Arrive, ringVars, outVars
<1>2. CASE Isr
  BY <1>2 DEF Isr, TypeOK, IsrEnter, IsrStore, IsrFull, IsrDrained, IsrExit, hwVars, ringVars, outVars
<1>3. CASE ReadEnter
  BY <1>3 DEF ReadEnter, ringVars
<1>4. CASE ReadPop
  BY <1>4 DEF ReadPop, TypeOK, ringVars
<1>5. CASE ReadExit
  BY <1>5 DEF ReadExit, TypeOK
<1>6. CASE EventWait
  BY <1>6 DEF EventWait, TypeOK, ringVars
<1>7. CASE UNCHANGED vars
  BY <1>7 DEF vars, ringVars
<1> QED
  BY <1>1, <1>2, <1>3, <1>4, <1>5, <1>6, <1>7 DEF Next, CliTask

\* A step that leaves the task waiting leaves it something to wake up for.
LEMMA NextWakeup ==
  ASSUME Control, [Next]_vars
  PROVE  NoLostWakeup'
<1> USE RingAssumption DEF Control, NoLostWakeup
<1>1. CASE Arrive
  BY <1>1 DEF Arrive, ringVars
<1>2. CASE Isr
  <2>1. CASE IsrEnter
    BY <2>1 DEF IsrEnter
  <2>2. CASE IsrStore \/ IsrFull \/ IsrDrained
    BY <2>2 DEF IsrStore, IsrFull, IsrDrained, TypeOK
  <2>3. CASE IsrExit
    BY <2>3 DEF IsrExit
  <2> QED
    BY <1>2, <2>1, <2>2, <2>3 DEF Isr
<1>3. CASE ReadExit
  <2>1. rd'.pc = "wait" => rd.cnt < 1
    BY <1>3 DEF ReadExit, TypeOK
  <2>2. rd.cnt < 1 => rd.r = vidx_w
    BY <1>3 DEF ReadExit, TypeOK, Captured
  <2> QED
    BY <1>3, <2>1, <2>2 DEF ReadExit
<1>4. CASE ReadEnter \/ ReadPop \/ EventWait
  <2>1. CASE ReadEnter
    BY <2>1 DEF ReadEnter
  <2>2. CASE ReadPop
    BY <2>2 DEF ReadPop, TypeOK
  <2>3. CASE EventWait
    BY <2>3 DEF EventWait, TypeOK
  <2> QED
    BY <1>4, <2>1, <2>2, <2>3
<1>5. CASE UNCHANGED vars
  BY <1>5 DEF vars, ringVars
<1> QED
  BY <1>1, <1>2, <1>3, <1>4, <1>5 DEF Next, CliTask

\* The handler is removed in IsrFull, at a full ring; any later read puts it
\* back before it publishes the room it made.
LEMMA NextFlow ==
  ASSUME Control, [Next]_vars
  PROVE  RemovedOnlyWhenFull'
<1> USE DEF Control, RemovedOnlyWhenFull
<1>1. CASE Arrive
  BY <1>1 DEF Arrive, ringVars, WritePos, Used
<1>2. CASE IsrFull
  <2>1. Used(vidx_r, isr.w) = Cap
    BY <1>2, FullIndex DEF IsrFull, Captured, TypeOK
  <2>2. vidx_r' = vidx_r /\ WritePos' = isr.w
    BY <1>2 DEF IsrFull, TypeOK, ringVars, WritePos
  <2> QED
    BY <2>1, <2>2 DEF Used
<1>3. CASE IsrEnter \/ IsrStore \/ IsrDrained \/ IsrExit
  BY <1>3 DEF IsrEnter, IsrStore, IsrDrained, IsrExit, LoopRegistered, TypeOK,
     ringVars, WritePos, Used
<1>4. CASE CliTask
  BY <1>4 DEF CliTask, ReadEnter, ReadPop, ReadExit, EventWait, ringVars, WritePos, Used
<1>5. CASE UNCHANGED vars
  BY <1>5 DEF vars, ringVars, WritePos, Used
<1> QED
  BY <1>1, <1>2, <1>3, <1>4, <1>5 DEF Next, Isr

LEMMA NextControl ==
  ASSUME Control, [Next]_vars
  PROVE  Control'
BY NextTypeOK, NextCaptured, NextWakeup, NextFlow DEF Control

-----------------------------------------------------------------------------
(* The inductive invariant holds in every reachable state.                 *)
THEOREM Inductive == Spec => []IInv
<1>1. IInv /\ [Next]_vars => IInv'
  BY NextControl, NextRing DEF IInv
<1> QED
  BY InitIInv, <1>1, PTL DEF Spec

(* Every variable of the receive path keeps its type: in particular the    *)
(* virtual indices never leave the range the masks confine them to.        *)
THEOREM TypeCorrect == Spec => []TypeOK
<1>1. IInv => TypeOK
  BY DEF IInv, Control
<1> QED
  BY Inductive, <1>1, PTL

(* uart_read hands out the bytes the hardware accepted, in order, none     *)
(* missing and none twice, for every ring size.                            *)
THEOREM ByteStream == Spec => []InOrder
<1>1. IInv => InOrder
  BY DEF IInv
<1> QED
  BY Inductive, <1>1, PTL

(* The ring holds exactly the unread bytes and never overruns its slots.   *)
THEOREM RingContents == Spec => []RingHolds
<1>1. IInv => RingHolds
  BY DEF IInv
<1> QED
  BY Inductive, <1>1, PTL

(* uart_rx_isr and uart_read never run on an index the other has moved.    *)
THEOREM CriticalSections == Spec => []Captured
<1>1. IInv => Captured
  BY DEF IInv, Control
<1> QED
  BY Inductive, <1>1, PTL

(* The CLI task never waits for cli_rx_evt with unread bytes in the ring   *)
(* or with the handler removed, unless the event is set or will be.        *)
THEOREM WakeupNotLost == Spec => []NoLostWakeup
<1>1. IInv => NoLostWakeup
  BY DEF IInv, Control
<1> QED
  BY Inductive, <1>1, PTL

(* The handler is removed only at a full ring.                             *)
THEOREM FlowControl == Spec => []RemovedOnlyWhenFull
<1>1. IInv => RemovedOnlyWhenFull
  BY DEF IInv, Control
<1> QED
  BY Inductive, <1>1, PTL

-----------------------------------------------------------------------------
(* Refinement of the bounded queue.                                        *)

\* The serial numbers of the unread bytes.
Serials(a, n) == [i \in 1 .. n |-> a + i]

\* Under the invariant the bytes read through the masks are the next
\* popped + 1, ..., taken.
LEMMA UnreadSerials == IInv => Unread = Serials(popped, taken - popped)
<1> SUFFICES ASSUME IInv PROVE Unread = Serials(popped, taken - popped)
  OBVIOUS
<1> USE RingAssumption DEF IInv, Control, TypeOK
<1>1. ASSUME NEW i \in 1 .. taken - popped
      PROVE  data[IdxOf(VWrap(ReadPos + i - 1))] = popped + i
  <2>1. i - 1 \in Slot /\ i - 1 < taken - popped
    BY DEF RingHolds, Slot
  <2>2. data[IdxOf(VWrap(ReadPos + (i - 1)))] = popped + 1 + (i - 1)
    BY <2>1 DEF RingHolds
  <2>3. ReadPos + (i - 1) = ReadPos + i - 1
    BY DEF ReadPos, VIdx
  <2> QED
    BY <2>2, <2>3
<1> QED
  BY <1>1 DEF Unread, Serials

LEMMA SerialsAppend ==
  ASSUME NEW a \in Nat, NEW n \in Nat
  PROVE  /\ Len(Serials(a, n)) = n
         /\ Append(Serials(a, n), a + n + 1) = Serials(a, n + 1)
BY DEF Serials

LEMMA SerialsPop ==
  ASSUME NEW a \in Nat, NEW n \in Nat, n > 0
  PROVE  /\ Serials(a, n) # << >>
         /\ Head(Serials(a, n)) = a + 1
         /\ Tail(Serials(a, n)) = Serials(a + 1, n - 1)
<1>1. Serials(a, n) \in Seq(Nat) /\ Len(Serials(a, n)) = n
  BY DEF Serials
<1>2. Tail(Serials(a, n)) = [i \in 1 .. n - 1 |-> a + (i + 1)]
  BY <1>1 DEF Serials
<1>3. \A i \in 1 .. n - 1 : a + (i + 1) = (a + 1) + i
  OBVIOUS
<1>4. Tail(Serials(a, n)) = Serials(a + 1, n - 1)
  BY <1>2, <1>3 DEF Serials
<1>5. Serials(a, n)[1] = a + 1
  BY DEF Serials
<1>6. Serials(a, n) # << >>
  BY <1>1
<1> QED
  BY <1>1, <1>4, <1>5, <1>6

\* IsrStore puts a byte, ReadPop gets one, every other step leaves the queue.
LEMMA StepRefines ==
  ASSUME IInv, IInv', [Next]_vars
  PROVE  [Queue!Next]_(Queue!qvars)
<1> USE RingAssumption DEF IInv, Control, TypeOK
<1> DEFINE n == taken - popped
<1>1. n \in 0 .. Cap /\ Unread = Serials(popped, n) /\ Unread' = Serials(popped', taken' - popped')
  <2>1. (IInv => Unread = Serials(popped, taken - popped))'
    BY UnreadSerials, PTL
  <2>2. n \in 0 .. Cap
    <3>1. ReadPos \in VIdx /\ WritePos \in VIdx
      BY DEF ReadPos, WritePos
    <3>2. Used(ReadPos, WritePos) >= 0
      BY <3>1 DEF Used, VIdx
    <3> QED
      BY <3>2 DEF RingHolds
  <2> QED
    BY <2>1, <2>2, UnreadSerials DEF Serials
<1>2. CASE IsrStore
  <2>1. taken' = taken + 1 /\ popped' = popped /\ out' = out
    BY <1>2 DEF IsrStore, outVars
  <2>2. taken' - popped' <= Cap
    BY DEF RingHolds
  <2>3. n + 1 = taken' - popped' /\ popped + n + 1 = taken + 1 /\ n < Cap
    BY <1>1, <2>1, <2>2
  <2>4. /\ Len(Serials(popped, n)) = n
        /\ Append(Serials(popped, n), popped + n + 1) = Serials(popped, n + 1)
    <3>1. popped \in Nat /\ n \in Nat
      BY <1>1
    <3> HIDE DEF n
    <3> QED
      BY <3>1, SerialsAppend
  <2>5. Unread' = Append(Unread, taken + 1) /\ Len(Unread) < Cap
    <3>0. Unread' = Serials(popped', taken' - popped')
      BY <1>1
    <3>1. Unread' = Serials(popped, n + 1)
      BY ONLY <3>0, <2>1, <2>3, Zenon
    <3>2. Unread = Serials(popped, n)
      BY <1>1
    <3> HIDE DEF n
    <3> QED
      BY <2>3, <2>4, <3>1, <3>2
  <2> QED
    BY <2>1, <2>5 DEF Queue!Next, Queue!Put
<1>3. CASE ReadPop
  <2>1. taken' = taken /\ popped' = popped + 1 /\ out' = popped'
    BY <1>3 DEF ReadPop, hwVars, InOrder
  <2>2. n > 0
    <3>1. Used(ReadPos, WritePos) > 0
      BY <1>3 DEF ReadPop, Captured, Used, ReadPos, WritePos, VIdx
    <3> QED
      BY <3>1 DEF RingHolds
  <2>3. taken' - popped' = n - 1
    BY <2>1
  <2>4. /\ Serials(popped, n) # << >>
        /\ Head(Serials(popped, n)) = popped + 1
        /\ Tail(Serials(popped, n)) = Serials(popped + 1, n - 1)
    <3>1. popped \in Nat /\ n \in Nat
      BY <1>1
    <3> HIDE DEF n
    <3> QED
      BY <2>2, <3>1, SerialsPop
  <2>5. Unread # << >> /\ out' = Head(Unread) /\ Unread' = Tail(Unread)
    <3>0. Unread' = Serials(popped', taken' - popped')
      BY <1>1
    <3>1. Unread' = Serials(popped + 1, n - 1)
      BY ONLY <3>0, <2>1, <2>3, Zenon
    <3>2. Unread = Serials(popped, n)
      BY <1>1
    <3>3. out' = popped + 1
      BY <2>1
    <3> HIDE DEF n
    <3> QED
      BY <2>4, <3>1, <3>2, <3>3
  <2> QED
    BY <2>1, <2>5 DEF Queue!Next, Queue!Get
<1>4. CASE taken' = taken /\ popped' = popped /\ out' = out
  BY <1>1, <1>4 DEF Queue!qvars
<1>5. ~IsrStore /\ ~ReadPop => taken' = taken /\ popped' = popped /\ out' = out
  BY DEF Next, Isr, CliTask, Arrive, IsrEnter, IsrFull, IsrDrained, IsrExit,
     ReadEnter, ReadExit, EventWait, vars, hwVars, outVars
<1> QED
  BY <1>2, <1>3, <1>4, <1>5

(* The receive path implements the bounded first-in first-out queue: the   *)
(* safety half of the refinement, for every ring size.                     *)
THEOREM Refinement == Spec => Queue!Spec
<1>1. Init => Queue!Init
  BY DEF Init, Queue!Init, Unread
<1> QED
  BY <1>1, Inductive, StepRefines, PTL DEF Spec, Queue!Spec

-----------------------------------------------------------------------------
(* The CLI task on the ring.                                               *)
(*                                                                         *)
(* What a line is: the recursive function of Edited is defined for every   *)
(* sequence of keys, and follows the keys one by one.                      *)

LEMMA Least ==
  ASSUME NEW T, T \subseteq Nat, T # {}
  PROVE  \E n \in T : \A m \in T : n <= m
<1> DEFINE R == OpToRel(<, Nat)
<1>1. IsWellFoundedOn(R, Nat)
  BY NatLessThanWellFounded
<1>2. PICK n \in T : \A m \in T : ~ (<<m, n>> \in R)
  <2> HIDE DEF R
  <2> QED BY <1>1, WFMin
<1>3. \A m \in T : ~ (m < n)
  BY <1>2 DEF OpToRel
<1> QED
  BY <1>3

\* f holds the line after each of the first n keys.
Follows(f, kinds, keys, n) ==
  /\ f \in [0 .. n -> Seq(Nat)]
  /\ f[0] = << >>
  /\ \A i \in 1 .. n : f[i] = EditKey(kinds, f[i - 1], keys[i])

LEMMA EditType ==
  ASSUME NEW kinds, NEW line \in Seq(Nat), NEW k \in Nat
  PROVE  EditKey(kinds, line, k) \in Seq(Nat)
<1>1. line # << >> => Front(line) \in Seq(Nat)
  <2>1. CASE line # << >>
    <3>1. Len(line) \in Nat /\ Len(line) # 0
      BY <2>1, EmptySeq
    <3>2. Len(line) - 1 \in 0 .. Len(line)
      BY <3>1
    <3>3. SubSeq(line, 1, Len(line) - 1) \in Seq(Nat)
      BY <3>1, <3>2, SubSeqProperties
    <3> QED BY <3>3 DEF Front
  <2> QED BY <2>1
<1>2. Append(line, k) \in Seq(Nat)
  OBVIOUS
<1> QED BY <1>1, <1>2 DEF EditKey

LEMMA FollowsUpTo ==
  ASSUME NEW kinds, NEW keys \in Seq(Nat), NEW n \in 0 .. Len(keys)
  PROVE  \E f : Follows(f, kinds, keys, n)
<1> DEFINE T == {m \in 0 .. Len(keys) : ~ \E f : Follows(f, kinds, keys, m)}
<1> SUFFICES ASSUME T # {} PROVE FALSE
  OBVIOUS
<1>1. PICK m \in T : \A k \in T : m <= k
  <2>1. T \subseteq Nat
    OBVIOUS
  <2> HIDE DEF T
  <2> QED BY <2>1, Least
<1>2. m \in 0 .. Len(keys) /\ m \in Nat /\ ~ \E f : Follows(f, kinds, keys, m)
  OBVIOUS
<1>3. CASE m = 0
  <2> DEFINE f == [i \in 0 .. 0 |-> << >>]
  <2>1. << >> \in Seq(Nat)
    OBVIOUS
  <2>2. Follows(f, kinds, keys, 0)
    BY <2>1 DEF Follows
  <2> QED BY <1>2, <1>3, <2>2
<1>4. CASE m > 0
  <2>1. m - 1 \in 0 .. Len(keys) /\ ~ (m <= m - 1)
    BY <1>2, <1>4
  <2>2. PICK f : Follows(f, kinds, keys, m - 1)
    BY <1>1, <2>1
  <2>3. /\ f \in [0 .. m - 1 -> Seq(Nat)] /\ f[0] = << >>
        /\ \A i \in 1 .. m - 1 : f[i] = EditKey(kinds, f[i - 1], keys[i])
    BY <2>2 DEF Follows
  <2> DEFINE e == EditKey(kinds, f[m - 1], keys[m])
  <2> DEFINE g == [i \in 0 .. m |-> IF i = m THEN e ELSE f[i]]
  <2>4. e \in Seq(Nat)
    <3>1. m - 1 \in 0 .. m - 1 /\ m \in 1 .. Len(keys)
      BY <1>2, <1>4
    <3>2. f[m - 1] \in Seq(Nat)
      BY <2>3, <3>1
    <3>3. keys[m] \in Nat
      BY <3>1, ElementOfSeq
    <3> QED BY <3>2, <3>3, EditType
  <2> HIDE DEF e
  <2>5. g \in [0 .. m -> Seq(Nat)] /\ g[0] = << >>
    <3>1. \A i \in 0 .. m : i # m => i \in 0 .. m - 1
      BY <1>2
    <3>2. \A i \in 0 .. m : (IF i = m THEN e ELSE f[i]) \in Seq(Nat)
      BY <2>3, <2>4, <3>1
    <3>3. g \in [0 .. m -> Seq(Nat)]
      BY ONLY <3>2
    <3>4. 0 \in 0 .. m /\ 0 # m
      BY <1>2, <1>4
    <3> QED BY <2>3, <3>3, <3>4
  <2>6. ASSUME NEW i \in 1 .. m PROVE g[i] = EditKey(kinds, g[i - 1], keys[i])
    <3>1. g[i - 1] = f[i - 1]
      BY <1>2, <2>6
    <3>2. CASE i = m
      BY <3>1, <3>2 DEF e
    <3>3. CASE i # m
      <4>1. i \in 1 .. m - 1 /\ g[i] = f[i]
        BY <1>2, <2>6, <3>3
      <4> QED BY <2>3, <3>1, <4>1
    <3> QED BY <3>2, <3>3
  <2> HIDE DEF g
  <2>7. Follows(g, kinds, keys, m)
    BY <2>5, <2>6 DEF Follows
  <2> QED BY <1>2, <2>7
<1> QED BY <1>2, <1>3, <1>4

\* Keys of the same kinds make the same lines, however the two sequences of
\* keys go on.
Alike(kinds, others, keys, more, n) ==
  \A i \in 1 .. n : keys[i] = more[i] /\ kinds[keys[i]] = others[keys[i]]

LEMMA SameLines ==
  ASSUME NEW kinds, NEW others, NEW keys, NEW more, NEW n \in Nat, NEW m \in Nat,
         NEW f, NEW g, Follows(f, kinds, keys, n), Follows(g, others, more, m), n <= m,
         Alike(kinds, others, keys, more, n)
  PROVE  f[n] = g[n]
<1> DEFINE T == {i \in 0 .. n : f[i] # g[i]}
<1> SUFFICES ASSUME T # {} PROVE FALSE
  OBVIOUS
<1>1. PICK i \in T : \A k \in T : i <= k
  <2>1. T \subseteq Nat
    OBVIOUS
  <2> HIDE DEF T
  <2> QED BY <2>1, Least
<1>2. i \in 1 .. n
  BY <1>1 DEF Follows
<1>3. i - 1 \in 0 .. n /\ ~ (i <= i - 1)
  BY <1>2
<1>4. f[i - 1] = g[i - 1]
  BY <1>1, <1>3
<1>5. /\ f[i] = EditKey(kinds, f[i - 1], keys[i])
      /\ g[i] = EditKey(others, g[i - 1], more[i])
  BY <1>2 DEF Follows
<1>6. keys[i] = more[i] /\ kinds[keys[i]] = others[keys[i]]
  BY <1>2 DEF Alike
<1> HIDE DEF T
<1>7. f[i] = g[i]
  BY <1>4, <1>5, <1>6 DEF EditKey
<1> QED BY <1>1, <1>7 DEF T

LEMMA EditedLine ==
  ASSUME NEW kinds, NEW keys \in Seq(Nat)
  PROVE  \E f : Follows(f, kinds, keys, Len(keys)) /\ Edited(kinds, keys) = f[Len(keys)]
<1> DEFINE Body(f) == [n \in 0 .. Len(keys) |->
                         IF n = 0 THEN << >> ELSE EditKey(kinds, f[n - 1], keys[n])]
<1> DEFINE line == CHOOSE f : f = Body(f)
<1>1. Len(keys) \in Nat
  OBVIOUS
<1>2. PICK g : Follows(g, kinds, keys, Len(keys))
  <2>1. Len(keys) \in 0 .. Len(keys)
    BY <1>1
  <2> QED BY <2>1, FollowsUpTo
<1>3. g = Body(g)
  <2>1. \A n \in 0 .. Len(keys) : g[n] = Body(g)[n]
    BY <1>1, <1>2 DEF Follows
  <2>2. g = [n \in 0 .. Len(keys) |-> g[n]]
    BY <1>2 DEF Follows
  <2> QED BY <2>1, <2>2
<1>4. line = Body(line)
  BY <1>3
<1>5. Edited(kinds, keys) = line[Len(keys)]
  BY DEF Edited
<1> HIDE DEF line
<1>6. /\ line[0] = << >>
      /\ \A i \in 1 .. Len(keys) : line[i] = EditKey(kinds, line[i - 1], keys[i])
  <2>1. \A n \in 0 .. Len(keys) : line[n] = IF n = 0 THEN << >> ELSE EditKey(kinds, line[n - 1], keys[n])
    BY <1>4
  <2> QED BY <1>1, <2>1
<1>7. \A n \in 0 .. Len(keys) : line[n] = g[n]
  <2> DEFINE T == {i \in 0 .. Len(keys) : line[i] # g[i]}
  <2> SUFFICES ASSUME T # {} PROVE FALSE
    OBVIOUS
  <2>1. PICK i \in T : \A k \in T : i <= k
    <3>1. T \subseteq Nat
      OBVIOUS
    <3> HIDE DEF T
    <3> QED BY <3>1, Least
  <2>2. i \in 1 .. Len(keys)
    BY <1>2, <1>6, <2>1 DEF Follows
  <2>3. i - 1 \in 0 .. Len(keys) /\ ~ (i <= i - 1)
    BY <1>1, <2>2
  <2>4. line[i - 1] = g[i - 1]
    BY <2>1, <2>3
  <2>5. line[i] = EditKey(kinds, line[i - 1], keys[i]) /\ g[i] = EditKey(kinds, g[i - 1], keys[i])
    BY <1>2, <1>6, <2>2 DEF Follows
  <2> QED BY <2>1, <2>4, <2>5
<1>8. Edited(kinds, keys) = g[Len(keys)]
  BY <1>1, <1>5, <1>7
<1> QED BY <1>2, <1>8

\* Nothing typed makes an empty line, one more key edits the line before it, and
\* the kinds of other keys do not matter.
LEMMA EditedNothing == \A kinds : Edited(kinds, << >>) = << >>
<1> TAKE kinds
<1>1. << >> \in Seq(Nat) /\ Len(<< >>) = 0
  OBVIOUS
<1>2. PICK f : Follows(f, kinds, << >>, 0) /\ Edited(kinds, << >>) = f[0]
  BY <1>1, EditedLine
<1> QED BY <1>2 DEF Follows

LEMMA EditedSame ==
  ASSUME NEW kinds, NEW others, NEW keys \in Seq(Nat),
         \A i \in 1 .. Len(keys) : kinds[keys[i]] = others[keys[i]]
  PROVE  Edited(kinds, keys) = Edited(others, keys)
<1>1. PICK f : Follows(f, kinds, keys, Len(keys)) /\ Edited(kinds, keys) = f[Len(keys)]
  BY EditedLine
<1>2. PICK g : Follows(g, others, keys, Len(keys)) /\ Edited(others, keys) = g[Len(keys)]
  BY EditedLine
<1>3. Len(keys) \in Nat /\ Len(keys) <= Len(keys)
  OBVIOUS
<1>4. Alike(kinds, others, keys, keys, Len(keys))
  BY DEF Alike
<1>5. f[Len(keys)] = g[Len(keys)]
  BY <1>1, <1>2, <1>3, <1>4, SameLines
<1> QED BY <1>1, <1>2, <1>5

LEMMA EditedMore ==
  ASSUME NEW kinds, NEW keys \in Seq(Nat), NEW k \in Nat
  PROVE  Edited(kinds, Append(keys, k)) = EditKey(kinds, Edited(kinds, keys), k)
<1> DEFINE more == Append(keys, k)
<1> DEFINE n == Len(keys)
<1>1. /\ more \in Seq(Nat) /\ Len(more) = n + 1 /\ n \in Nat
      /\ more[n + 1] = k /\ \A i \in 1 .. n : keys[i] = more[i]
  OBVIOUS
<1>2. PICK f : Follows(f, kinds, keys, n) /\ Edited(kinds, keys) = f[n]
  BY EditedLine
<1>3. PICK g : Follows(g, kinds, more, n + 1) /\ Edited(kinds, more) = g[n + 1]
  <2> HIDE DEF more
  <2> QED BY <1>1, EditedLine
<1> HIDE DEF more, n
<1>4. f[n] = g[n]
  <2>1. n \in Nat /\ n + 1 \in Nat /\ n <= n + 1
    BY <1>1
  <2>2. Alike(kinds, kinds, keys, more, n)
    BY <1>1 DEF Alike
  <2> QED BY <1>2, <1>3, <2>1, <2>2, SameLines
<1>5. g[n + 1] = EditKey(kinds, g[n], more[n + 1])
  <2>1. n + 1 \in 1 .. n + 1 /\ (n + 1) - 1 = n
    BY <1>1
  <2>2. \A i \in 1 .. n + 1 : g[i] = EditKey(kinds, g[i - 1], more[i])
    BY <1>3 DEF Follows
  <2>3. g[n + 1] = EditKey(kinds, g[(n + 1) - 1], more[n + 1])
    BY <2>1, <2>2, Zenon
  <2> QED BY <2>1, <2>3
<1> QED BY <1>1, <1>2, <1>3, <1>4, <1>5 DEF more, n

-----------------------------------------------------------------------------
(* The line buffer: pos characters, the serial numbers of bytes read no    *)
(* later than seen and in the order they were read, then a NUL.            *)

Line(buf, pos, seen) ==
  /\ buf \in [0 .. BufferSize -> Nat]
  /\ pos \in 0 .. BufferSize - 1
  /\ buf[pos] = 0
  /\ \A i \in 0 .. pos - 1 : 0 < buf[i] /\ buf[i] <= seen
  /\ \A i, j \in 0 .. pos - 1 : i < j => buf[i] < buf[j]

LEMMA LineIs ==
  ASSUME NEW buf, NEW pos, NEW seen, Line(buf, pos, seen)
  PROVE  /\ pos \in Nat /\ pos < BufferSize /\ buf \in [0 .. BufferSize -> Nat]
         /\ \A i \in 0 .. pos - 1 :
              /\ i \in 0 .. BufferSize /\ i # pos /\ i # pos + 1
              /\ buf[i] \in Nat /\ 0 < buf[i] /\ buf[i] <= seen
<1>1. pos \in Nat /\ pos < BufferSize /\ buf \in [0 .. BufferSize -> Nat]
  BY ConsoleAssumption DEF Line
<1>2. ASSUME NEW i \in 0 .. pos - 1
      PROVE  /\ i \in 0 .. BufferSize /\ i # pos /\ i # pos + 1
             /\ buf[i] \in Nat /\ 0 < buf[i] /\ buf[i] <= seen
  <2>1. i \in 0 .. BufferSize /\ i # pos /\ i # pos + 1
    BY <1>1, ConsoleAssumption
  <2>2. 0 < buf[i] /\ buf[i] <= seen
    BY DEF Line
  <2> QED BY <1>1, <2>1, <2>2
<1> QED BY <1>1, <1>2

LEMMA TextIs ==
  ASSUME NEW buf, NEW pos, NEW seen, Line(buf, pos, seen)
  PROVE  /\ StrLen(buf) = pos
         /\ Text(buf) = [i \in 1 .. pos |-> buf[i - 1]]
         /\ Text(buf) \in Seq(Nat) /\ Len(Text(buf)) = pos
<1>1. /\ pos \in 0 .. BufferSize /\ pos \in Nat /\ buf[pos] = 0
      /\ \A i \in 0 .. pos - 1 : buf[i] # 0
  BY ConsoleAssumption DEF Line
<1>2. ASSUME NEW n \in 0 .. BufferSize, buf[n] = 0, \A i \in 0 .. n - 1 : buf[i] # 0
      PROVE  n = pos
  <2>1. ~ (n < pos)
    BY <1>1, <1>2
  <2>2. ~ (pos < n)
    BY <1>1, <1>2
  <2> QED BY <1>1, <2>1, <2>2
<1>3. StrLen(buf) = pos
  BY <1>1, <1>2 DEF StrLen
<1>4. Text(buf) = [i \in 1 .. pos |-> buf[i - 1]]
  BY <1>3 DEF Text
<1>5. \A i \in 1 .. pos : buf[i - 1] \in Nat
  BY <1>1, ConsoleAssumption DEF Line
<1> QED BY <1>1, <1>3, <1>4, <1>5

\* Time goes on: more has been read.
LEMMA LineLater ==
  ASSUME NEW buf, NEW pos, NEW seen \in Nat, NEW later \in Nat, seen <= later,
         Line(buf, pos, seen)
  PROVE  Line(buf, pos, later)
<1>1. ASSUME NEW i \in 0 .. pos - 1 PROVE buf[i] <= later
  BY ConsoleAssumption DEF Line
<1> QED BY <1>1 DEF Line

\* A newer byte stored behind the last character.
LEMMA LineStored ==
  ASSUME NEW buf, NEW pos, NEW seen \in Nat, NEW k \in Nat, seen < k, pos < BufferSize - 1,
         Line(buf, pos, seen)
  PROVE  /\ Line([buf EXCEPT ![pos] = k, ![pos + 1] = 0], pos + 1, k)
         /\ Text([buf EXCEPT ![pos] = k, ![pos + 1] = 0]) = Append(Text(buf), k)
<1> DEFINE next == [buf EXCEPT ![pos] = k, ![pos + 1] = 0]
<1>1. pos \in Nat /\ pos \in 0 .. BufferSize /\ pos + 1 \in 0 .. BufferSize - 1 /\ pos + 1 \in 0 .. BufferSize
  BY ConsoleAssumption DEF Line
<1>2. /\ next \in [0 .. BufferSize -> Nat] /\ next[pos + 1] = 0 /\ next[pos] = k
      /\ \A i \in 0 .. pos - 1 : next[i] = buf[i]
  <2>1. buf \in [0 .. BufferSize -> Nat]
    BY LineIs
  <2>2. next \in [0 .. BufferSize -> Nat] /\ next[pos + 1] = 0 /\ next[pos] = k
    BY <1>1, <2>1
  <2>3. ASSUME NEW i \in 0 .. pos - 1 PROVE next[i] = buf[i]
    <3>1. i \in 0 .. BufferSize /\ i # pos /\ i # pos + 1
      BY LineIs
    <3> QED BY <2>1, <3>1
  <2> QED BY <2>2, <2>3
<1> HIDE DEF next
<1>3. ASSUME NEW i \in 0 .. (pos + 1) - 1 PROVE 0 < next[i] /\ next[i] <= k
  <2>1. i \in 0 .. pos - 1 \/ i = pos
    BY <1>1
  <2>2. CASE i \in 0 .. pos - 1
    <3>1. buf[i] \in Nat /\ 0 < buf[i] /\ buf[i] <= seen
      BY <2>2, LineIs
    <3> QED BY <1>2, <2>2, <3>1
  <2> QED BY <1>2, <2>1, <2>2
<1>4. ASSUME NEW i \in 0 .. (pos + 1) - 1, NEW j \in 0 .. (pos + 1) - 1, i < j
      PROVE  next[i] < next[j]
  <2>1. i \in 0 .. pos - 1
    BY <1>1, <1>4
  <2>2. next[i] = buf[i] /\ buf[i] \in Nat /\ buf[i] <= seen
    BY <1>2, <2>1, LineIs
  <2>3. CASE j = pos
    BY <1>2, <2>2, <2>3
  <2>4. CASE j # pos
    <3>1. j \in 0 .. pos - 1
      BY <1>1, <2>4
    <3> QED BY <1>2, <1>4, <2>1, <2>2, <3>1 DEF Line
  <2> QED BY <2>3, <2>4
<1>5. Line(next, pos + 1, k)
  BY <1>1, <1>2, <1>3, <1>4 DEF Line
<1>6. /\ Text(next) = [i \in 1 .. pos + 1 |-> next[i - 1]]
      /\ Text(buf) = [i \in 1 .. pos |-> buf[i - 1]] /\ Text(buf) \in Seq(Nat) /\ Len(Text(buf)) = pos
  BY <1>5, TextIs
<1>7. Append(Text(buf), k) = [i \in 1 .. pos + 1 |-> IF i = pos + 1 THEN k ELSE Text(buf)[i]]
  BY <1>1, <1>6
<1>8. ASSUME NEW i \in 1 .. pos + 1
      PROVE  next[i - 1] = IF i = pos + 1 THEN k ELSE Text(buf)[i]
  <2>1. CASE i = pos + 1
    BY <1>1, <1>2, <2>1
  <2>2. CASE i # pos + 1
    <3>1. i \in 1 .. pos /\ i - 1 \in 0 .. pos - 1
      BY <1>1, <2>2
    <3>2. Text(buf)[i] = buf[i - 1] /\ next[i - 1] = buf[i - 1]
      BY <1>2, <1>6, <3>1
    <3> QED BY <2>2, <3>2
  <2> QED BY <2>1, <2>2
<1>9. Text(next) = Append(Text(buf), k)
  <2>1. Text(next) = [i \in 1 .. pos + 1 |-> next[i - 1]]
    BY <1>6
  <2> QED BY ONLY <2>1, <1>7, <1>8, Zenon
<1> QED BY <1>5, <1>9 DEF next

\* The last character erased.
LEMMA LineErased ==
  ASSUME NEW buf, NEW pos, NEW seen, pos > 0, Line(buf, pos, seen)
  PROVE  /\ Line([buf EXCEPT ![pos - 1] = 0], pos - 1, seen)
         /\ Text(buf) # << >>
         /\ Text([buf EXCEPT ![pos - 1] = 0]) = Front(Text(buf))
<1> DEFINE next == [buf EXCEPT ![pos - 1] = 0]
<1>1. pos \in Nat /\ pos - 1 \in 0 .. BufferSize /\ pos - 1 \in 0 .. BufferSize - 1
  BY ConsoleAssumption DEF Line
<1>2. /\ next \in [0 .. BufferSize -> Nat] /\ next[pos - 1] = 0
      /\ \A i \in 0 .. (pos - 1) - 1 : i \in 0 .. pos - 1 /\ next[i] = buf[i]
  BY <1>1 DEF Line
<1> HIDE DEF next
<1>3. Line(next, pos - 1, seen)
  BY <1>1, <1>2 DEF Line
<1>4. /\ Text(next) = [i \in 1 .. pos - 1 |-> next[i - 1]]
      /\ Text(buf) = [i \in 1 .. pos |-> buf[i - 1]] /\ Text(buf) \in Seq(Nat) /\ Len(Text(buf)) = pos
  BY <1>3, TextIs
<1>5. Front(Text(buf)) = [i \in 1 .. pos - 1 |-> Text(buf)[i]]
  <2>1. Front(Text(buf)) = SubSeq(Text(buf), 1, pos - 1)
    BY <1>4 DEF Front
  <2>2. SubSeq(Text(buf), 1, pos - 1) = [i \in 1 .. pos - 1 |-> Text(buf)[i]]
    BY <1>1, <1>4
  <2> QED BY <2>1, <2>2
<1>6. \A i \in 1 .. pos - 1 : next[i - 1] = Text(buf)[i]
  <2> TAKE i \in 1 .. pos - 1
  <2>1. i \in 1 .. pos /\ i - 1 \in 0 .. (pos - 1) - 1
    BY <1>1
  <2> QED BY <1>2, <1>4, <2>1
<1>7. Text(buf) # << >>
  <2>1. Len(Text(buf)) # 0
    BY <1>1, <1>4
  <2> QED BY <2>1
<1>8. Text(next) = Front(Text(buf))
  <2>1. Text(next) = [i \in 1 .. pos - 1 |-> next[i - 1]]
    BY <1>4
  <2> QED BY ONLY <2>1, <1>5, <1>6, Zenon
<1> QED BY <1>3, <1>7, <1>8 DEF next

\* A cleared buffer is the empty line.
LEMMA LineCleared ==
  ASSUME NEW seen
  PROVE  /\ Line([i \in 0 .. BufferSize |-> 0], 0, seen)
         /\ Text([i \in 0 .. BufferSize |-> 0]) = << >>
<1> DEFINE buf == [i \in 0 .. BufferSize |-> 0]
<1>1. buf \in [0 .. BufferSize -> Nat] /\ 0 \in 0 .. BufferSize - 1 /\ buf[0] = 0
  BY ConsoleAssumption
<1> HIDE DEF buf
<1>2. Line(buf, 0, seen)
  BY <1>1 DEF Line
<1>3. Text(buf) \in Seq(Nat) /\ Len(Text(buf)) = 0
  BY <1>2, TextIs
<1>4. Text(buf) = << >>
  BY <1>3, EmptySeq
<1> QED BY <1>2, <1>4 DEF buf

-----------------------------------------------------------------------------
(* The ring under the editor: the bytes in it are newer than the last one  *)
(* read, and each newer than the one before it.                            *)

Held == Used(ReadPos, WritePos)
At(i) == data[IdxOf(VWrap(ReadPos + i))]

\* uart_read has fetched a byte that the editor has not looked at.
ByteRead == rd.pc = "loop" /\ rd.cnt = 1

\* No byte after this one has reached the editor.
Seen == IF ByteRead THEN out - 1 ELSE out

RingSorted ==
  /\ Held <= Cap
  /\ out <= taken /\ taken <= arrived
  /\ ByteRead => out > 0
  /\ \A i \in Slot : i < Held => out < At(i) /\ At(i) <= taken
  /\ \A i, j \in Slot : i < j /\ j < Held => At(i) < At(j)

LEMMA StepIsRing == [ConsoleNext]_consoleVars => [Next]_vars \/ GetChar
BY DEF ConsoleNext, consoleVars, Type, RxIsr, Fetch, FetchNothing, Dispatch, Next, CliTask

\* __get_char takes a byte past the ring while the handler is not running.
LEMMA GetCharControl ==
  ASSUME Control, GetChar
  PROVE  Control'
<1> USE DEF Control
<1>1. /\ taken' = taken + 1
      /\ UNCHANGED <<arrived, data, vidx_w, vidx_r, isrReg, evt, isr, rd, out, popped>>
  BY DEF GetChar, ringVars, outVars
<1>2. TypeOK'
  BY <1>1 DEF TypeOK
<1>3. Captured' /\ LoopRegistered' /\ NoLostWakeup' /\ RemovedOnlyWhenFull'
  BY <1>1 DEF Captured, LoopRegistered, NoLostWakeup, RemovedOnlyWhenFull, WritePos, Used
<1> QED BY <1>2, <1>3

\* The byte the handler stores is newer than every byte in the ring.
LEMMA StoreSorted ==
  ASSUME Control, RingSorted, IsrStore
  PROVE  RingSorted'
<1> USE RingAssumption DEF Control, TypeOK
<1>0. PICK n : n = Held
  OBVIOUS
<1>1. ReadPos = vidx_r /\ ReadPos' = vidx_r /\ WritePos = isr.w /\ WritePos' = VWrap(isr.w + 1)
  BY DEF IsrStore, ReadPos, WritePos, Captured
<1>2. isr.w # VWrap(vidx_r + Cap)
  BY DEF IsrStore, Captured
<1>3. n < Cap /\ Held' = n + 1 /\ isr.w = VWrap(vidx_r + n)
  <2>1. vidx_r \in VIdx /\ isr.w \in VIdx /\ Used(vidx_r, isr.w) = n /\ n <= Cap
    BY <1>0, <1>1 DEF RingSorted, Held
  <2>2. n < Cap /\ Used(vidx_r, VWrap(isr.w + 1)) = n + 1 /\ isr.w = VWrap(vidx_r + n)
    BY <1>2, <2>1, Push
  <2>3. Held' = Used(ReadPos', WritePos')
    BY DEF Held, Used
  <2> QED BY <1>1, <2>2, <2>3
<1>4. n \in Slot /\ n \in Nat
  <2>1. n \in Nat
    BY <1>0, <1>1 DEF Held, Used, VIdx
  <2> QED BY <1>3, <2>1 DEF Slot
<1>5. /\ taken' = taken + 1 /\ taken' <= arrived' /\ out' = out /\ rd' = rd
      /\ data' = [data EXCEPT ![IdxOf(isr.w)] = taken + 1]
  BY DEF IsrStore, outVars, DataReady
<1>6. IdxOf(isr.w) \in Slot
  <2>1. 0 \in 0 .. Cap /\ isr.w \in VIdx
    OBVIOUS
  <2> QED BY <2>1, VWrapType
<1>7. At(n)' = taken + 1
  <2>1. At(n)' = data'[IdxOf(VWrap(ReadPos' + n))]
    BY DEF At, IdxOf, VWrap
  <2> QED BY <1>1, <1>3, <1>5, <1>6, <2>1
<1>8. ASSUME NEW i \in Slot, i < n PROVE At(i)' = At(i) /\ At(i) \in Nat
  <2>1. IdxOf(VWrap(vidx_r + i)) # IdxOf(isr.w)
    BY <1>3, <1>4, <1>8, SlotsDistinct
  <2>2. IdxOf(VWrap(vidx_r + i)) \in Slot
    <3>1. i \in 0 .. Cap
      BY DEF Slot
    <3>2. VWrap(vidx_r + i) \in VIdx
      BY <3>1, VWrapType
    <3> QED BY <3>1, <3>2, VWrapType
  <2>3. At(i) = data[IdxOf(VWrap(vidx_r + i))]
    BY <1>1 DEF At
  <2>4. At(i)' = data'[IdxOf(VWrap(ReadPos' + i))]
    BY DEF At, IdxOf, VWrap
  <2>5. data'[IdxOf(VWrap(vidx_r + i))] = data[IdxOf(VWrap(vidx_r + i))]
    BY <1>5, <1>6, <2>1, <2>2
  <2> QED BY <1>1, <2>2, <2>3, <2>4, <2>5
<1>9. ASSUME NEW i \in Slot, i < n + 1 PROVE out < At(i)' /\ At(i)' <= taken'
  <2>1. CASE i = n
    BY <1>5, <1>7, <2>1 DEF RingSorted
  <2>2. CASE i < n
    BY <1>0, <1>5, <1>8, <2>2 DEF RingSorted
  <2> QED BY <1>4, <1>9, <2>1, <2>2 DEF Slot
<1>10. ASSUME NEW i \in Slot, NEW j \in Slot, i < j, j < n + 1 PROVE At(i)' < At(j)'
  <2>1. i < n
    BY <1>4, <1>10 DEF Slot
  <2>2. At(i)' = At(i) /\ At(i) <= taken /\ At(i) \in Nat
    BY <1>0, <1>8, <2>1 DEF RingSorted
  <2>3. CASE j = n
    BY <1>7, <2>2, <2>3
  <2>4. CASE j < n
    BY <1>0, <1>8, <1>10, <2>2, <2>4 DEF RingSorted
  <2> QED BY <1>4, <1>10, <2>3, <2>4 DEF Slot
<1>11. Held' <= Cap
  BY <1>3, <1>4 DEF Slot
<1>12. out' <= taken' /\ (ByteRead' => out' > 0)
  BY <1>5 DEF RingSorted, ByteRead
<1> QED BY <1>5, <1>9, <1>10, <1>11, <1>12, <1>3 DEF RingSorted

\* The byte uart_read takes is newer than the last one and older than the rest.
LEMMA PopSorted ==
  ASSUME Control, RingSorted, ReadPop
  PROVE  RingSorted' /\ out < out'
<1> USE RingAssumption DEF Control, TypeOK
<1>0. PICK n : n = Held
  OBVIOUS
<1>1. ReadPos = rd.r /\ ReadPos' = VWrap(rd.r + 1) /\ WritePos = vidx_w /\ WritePos' = vidx_w
  BY DEF ReadPop, ringVars, ReadPos, WritePos
<1>2. rd.r # vidx_w
  BY DEF ReadPop, Captured
<1>3. /\ Used(VWrap(rd.r + 1), vidx_w) = n - 1 /\ Used(rd.r, vidx_w) = n
      /\ n > 0 /\ n <= Cap
      /\ \A i \in Slot : i + 1 < Cap => VWrap(VWrap(rd.r + 1) + i) = VWrap(rd.r + (i + 1))
  <2>1. Used(rd.r, vidx_w) = n /\ n <= Cap
    BY <1>0, <1>1 DEF RingSorted, Held
  <2> QED BY <1>2, <2>1, Pop
<1>4. n \in Nat
  BY <1>3 DEF Used, VIdx
<1>5. Held' = n - 1
  <2>1. Held' = Used(ReadPos', WritePos')
    BY DEF Held, Used
  <2> QED BY <1>1, <1>3, <2>1
<1>6. /\ out' = data[IdxOf(rd.r)] /\ taken' = taken /\ arrived' = arrived /\ data' = data
  BY DEF ReadPop, hwVars, ringVars
<1>7. 0 \in Slot /\ out' = At(0)
  <2>1. 0 \in Slot /\ VWrap(rd.r + 0) = rd.r
    BY DEF Slot, VWrap, VIdx
  <2> QED BY <1>1, <1>6, <2>1 DEF At
<1>8. ASSUME NEW i \in Slot, i < n - 1
      PROVE  /\ i + 1 \in Slot /\ i + 1 < n /\ 0 < i + 1
             /\ At(i)' = At(i + 1)
  <2>1. i + 1 \in Slot /\ i + 1 < n /\ 0 < i + 1 /\ i + 1 < Cap
    BY <1>3, <1>4, <1>8 DEF Slot
  <2>2. VWrap(VWrap(rd.r + 1) + i) = VWrap(rd.r + (i + 1))
    BY <1>3, <2>1
  <2>3. At(i)' = data'[IdxOf(VWrap(ReadPos' + i))]
    BY DEF At, IdxOf, VWrap
  <2>4. At(i + 1) = data[IdxOf(VWrap(rd.r + (i + 1)))]
    BY <1>1 DEF At
  <2> QED BY <1>1, <1>6, <2>1, <2>2, <2>3, <2>4
<1>9. out < out' /\ out' <= taken'
  BY <1>0, <1>3, <1>6, <1>7 DEF RingSorted
<1>10. ASSUME NEW i \in Slot, i < n - 1 PROVE out' < At(i)' /\ At(i)' <= taken'
  <2>1. At(0) < At(i + 1) /\ At(i + 1) <= taken
    BY <1>0, <1>7, <1>8, <1>10 DEF RingSorted
  <2> QED BY <1>6, <1>7, <1>8, <1>10, <2>1
<1>11. ASSUME NEW i \in Slot, NEW j \in Slot, i < j, j < n - 1 PROVE At(i)' < At(j)'
  <2>1. i < n - 1 /\ i + 1 < j + 1
    BY <1>4, <1>11 DEF Slot
  <2>2. At(i + 1) < At(j + 1)
    BY <1>0, <1>8, <1>11, <2>1 DEF RingSorted
  <2> QED BY <1>8, <1>11, <2>1, <2>2
<1>12. out' > 0
  <2>1. 0 \in 0 .. Cap /\ rd.r \in VIdx
    OBVIOUS
  <2>2. IdxOf(rd.r) \in Slot
    BY <2>1, VWrapType
  <2>3. out' \in Nat /\ out \in Nat
    BY <1>6, <2>2
  <2> QED BY <1>9, <2>3
<1>13. Held' <= Cap /\ taken' <= arrived'
  BY <1>3, <1>4, <1>5, <1>6 DEF RingSorted
<1> QED BY <1>5, <1>9, <1>10, <1>11, <1>12, <1>13 DEF RingSorted

\* No other step touches the ring or the last byte read.
LEMMA KeepSorted ==
  ASSUME TypeOK, RingSorted, UNCHANGED <<ReadPos, WritePos, data, out>>,
         taken' \in Nat, taken <= taken', taken' <= arrived', ByteRead' => ByteRead
  PROVE  RingSorted'
<1>1. Held' = Held /\ out' = out
  BY DEF Held, Used
<1>2. ASSUME NEW i PROVE At(i)' = At(i)
  BY DEF At, IdxOf, VWrap
<1>3. ASSUME NEW i \in Slot PROVE At(i) \in Nat
  <2>1. ReadPos \in VIdx /\ i \in 0 .. Cap /\ 0 \in 0 .. Cap
    BY RingAssumption DEF TypeOK, ReadPos, Slot
  <2>2. VWrap(ReadPos + i) \in VIdx
    BY <2>1, VWrapType
  <2>3. IdxOf(VWrap(ReadPos + i)) \in Slot
    BY <2>1, <2>2, VWrapType
  <2> QED BY <2>3 DEF TypeOK, At
<1>4. ASSUME NEW i \in Slot, i < Held' PROVE out' < At(i)' /\ At(i)' <= taken'
  <2>1. out < At(i) /\ At(i) <= taken
    BY <1>1, <1>4 DEF RingSorted
  <2> QED BY <1>1, <1>2, <1>3, <2>1 DEF TypeOK
<1>5. ASSUME NEW i \in Slot, NEW j \in Slot, i < j, j < Held' PROVE At(i)' < At(j)'
  <2>1. At(i) < At(j)
    BY <1>1, <1>5 DEF RingSorted
  <2> QED BY <1>2, <2>1
<1>6. Held' <= Cap /\ out' <= taken' /\ taken' <= arrived' /\ (ByteRead' => out' > 0)
  <2>1. Held <= Cap /\ out <= taken /\ (ByteRead => out > 0)
    BY DEF RingSorted
  <2> QED BY <1>1, <2>1 DEF TypeOK
<1> QED BY <1>4, <1>5, <1>6 DEF RingSorted

Onward == \/ out' = out /\ (ByteRead' => ByteRead)
          \/ out < out' /\ ~ByteRead

LEMMA NextSorted ==
  ASSUME Control, RingSorted, ReadSize = 1, [Next]_vars
  PROVE  RingSorted' /\ Onward
<1> USE DEF Control
<1>0. taken <= arrived /\ taken \in Nat /\ arrived \in Nat /\ TypeOK /\ TypeOK'
  BY NextTypeOK DEF RingSorted, TypeOK
<1> DEFINE Same == /\ UNCHANGED <<ReadPos, WritePos, data, out, taken>>
                   /\ arrived <= arrived' /\ (ByteRead' => ByteRead)
<1>1. Same => RingSorted' /\ Onward
  <2> SUFFICES ASSUME Same PROVE RingSorted' /\ Onward
    OBVIOUS
  <2>1. taken' \in Nat /\ taken <= taken' /\ taken' <= arrived'
    BY <1>0 DEF TypeOK
  <2> QED BY <1>0, <2>1, KeepSorted DEF Onward
<1>2. CASE Arrive
  BY <1>0, <1>1, <1>2 DEF Arrive, ringVars, outVars, ReadPos, WritePos, ByteRead
<1>3. CASE IsrEnter
  BY <1>0, <1>1, <1>3 DEF TypeOK, IsrEnter, hwVars, ringVars, outVars, ReadPos, WritePos, ByteRead
<1>4. CASE IsrStore
  <2>1. RingSorted'
    BY <1>4, StoreSorted
  <2> QED BY <1>4, <2>1 DEF IsrStore, outVars, Onward, ByteRead
<1>5. CASE IsrFull \/ IsrDrained
  BY <1>0, <1>1, <1>5 DEF TypeOK, IsrFull, IsrDrained, hwVars, ringVars, outVars, ReadPos, WritePos, ByteRead
<1>6. CASE IsrExit
  BY <1>0, <1>1, <1>6 DEF TypeOK, IsrExit, hwVars, outVars, ReadPos, WritePos, ByteRead
<1>7. CASE ReadEnter
  BY <1>0, <1>1, <1>7 DEF ReadEnter, hwVars, ringVars, outVars, ReadPos, WritePos, ByteRead
<1>8. CASE ReadPop
  <2>1. RingSorted' /\ out < out'
    BY <1>8, PopSorted
  <2>2. ~ByteRead
    BY <1>8 DEF ReadPop, ByteRead
  <2> QED BY <2>1, <2>2 DEF Onward
<1>9. CASE ReadExit
  BY <1>0, <1>1, <1>9 DEF TypeOK, ReadExit, hwVars, outVars, ReadPos, WritePos, ByteRead
<1>10. CASE EventWait
  BY <1>0, <1>1, <1>10 DEF TypeOK, EventWait, hwVars, ringVars, outVars, ReadPos, WritePos, ByteRead
<1>11. CASE UNCHANGED vars
  BY <1>0, <1>1, <1>11 DEF vars, hwVars, ringVars, outVars, ReadPos, WritePos, ByteRead
<1> QED
  BY <1>2, <1>3, <1>4, <1>5, <1>6, <1>7, <1>8, <1>9, <1>10, <1>11
     DEF Next, Isr, CliTask

LEMMA GetCharSorted ==
  ASSUME Control, RingSorted, GetChar
  PROVE  RingSorted' /\ Onward
<1>1. /\ taken' = taken + 1 /\ taken < arrived /\ arrived' = arrived /\ taken \in Nat /\ arrived \in Nat
      /\ UNCHANGED <<data, vidx_w, vidx_r, isr, rd, out>> /\ TypeOK
  BY DEF GetChar, DataReady, ringVars, outVars, Control, TypeOK
<1>2. UNCHANGED <<ReadPos, WritePos, data, out>> /\ (ByteRead' => ByteRead)
  BY <1>1 DEF ReadPos, WritePos, ByteRead
<1>3. taken' \in Nat /\ taken <= taken' /\ taken' <= arrived'
  BY <1>1
<1>4. RingSorted'
  BY <1>1, <1>2, <1>3, KeepSorted
<1> QED BY <1>2, <1>4 DEF Onward

\* What the editor may have looked at only grows.
LEMMA SeenGrows ==
  ASSUME TypeOK, TypeOK', RingSorted, RingSorted', Onward
  PROVE  Seen \in Nat /\ Seen' \in Nat /\ Seen <= Seen' /\ Seen <= out
<1>1. out \in Nat /\ out' \in Nat
  BY DEF TypeOK
<1>2. (ByteRead => out > 0) /\ (ByteRead' => out' > 0)
  BY DEF RingSorted
<1>3. (ByteRead => Seen = out - 1) /\ (~ByteRead => Seen = out)
  BY DEF Seen
<1>4. (ByteRead' => Seen' = out' - 1) /\ (~ByteRead' => Seen' = out')
  BY DEF Seen
<1>5. CASE ByteRead
  <2>1. out' = out /\ Seen = out - 1 /\ out > 0
    BY <1>2, <1>3, <1>5 DEF Onward
  <2>2. CASE ByteRead'
    BY <1>1, <1>4, <2>1, <2>2
  <2>3. CASE ~ByteRead'
    BY <1>1, <1>4, <2>1, <2>3
  <2> QED BY <2>2, <2>3
<1>6. CASE ~ByteRead
  <2>1. Seen = out
    BY <1>3, <1>6
  <2>2. CASE ByteRead'
    <3>1. out < out' /\ Seen' = out' - 1
      BY <1>4, <1>6, <2>2 DEF Onward
    <3>2. \A a, b \in Nat : a < b => b - 1 \in Nat /\ a <= b - 1 /\ a <= a
      OBVIOUS
    <3> QED BY <1>1, <2>1, <3>1, <3>2, Zenon
  <2>3. CASE ~ByteRead'
    <3>1. out <= out' /\ Seen' = out'
      BY <1>1, <1>4, <2>3 DEF Onward
    <3> QED BY <1>1, <2>1, <3>1
  <2> QED BY <2>2, <2>3
<1> QED BY <1>5, <1>6

-----------------------------------------------------------------------------
(* The editor.                                                             *)

KindOK == kind \in Seq(Keys) /\ Len(kind) = arrived

TypedOK == typed \in Seq(Nat) /\ \A i \in 1 .. Len(typed) : typed[i] \in 1 .. arrived

LineOK == Line(sgCmdBuffer, sgCurPos, Seen)

\* k was read before every character of the buffer.
Before(k, buf, pos) == \A i \in 0 .. pos - 1 : k < buf[i]

\* The last byte handed over is older than what the buffer now holds.
ExecutedOK ==
  /\ executed \in Seq(Nat)
  /\ executed # << >> => /\ executed[Len(executed)] \in Nat
                         /\ executed[Len(executed)] <= Seen
                         /\ Before(executed[Len(executed)], sgCmdBuffer, sgCurPos)

Editor == KindOK /\ TypedOK /\ LineOK /\ ExecutedOK /\ LineAsTyped

ConsoleInv == Control /\ RingSorted /\ Editor /\ ReadSize = 1

LEMMA InitConsole == ConsoleInit => ConsoleInv
<1> SUFFICES ASSUME ConsoleInit PROVE ConsoleInv
  OBVIOUS
<1>1. Control
  BY InitIInv DEF ConsoleInit, IInv
<1>2. RingSorted
  <2>1. Held = 0 /\ ~ByteRead
    BY RingAssumption DEF ConsoleInit, Init, Held, Used, ReadPos, WritePos, ByteRead
  <2> QED BY <2>1, RingAssumption DEF ConsoleInit, Init, RingSorted, Slot
<1>3. KindOK /\ TypedOK
  <2>1. kind = << >> /\ typed = << >> /\ arrived = 0
    BY DEF ConsoleInit, Init
  <2>2. << >> \in Seq(Keys) /\ << >> \in Seq(Nat) /\ Len(<< >>) = 0
    OBVIOUS
  <2> QED BY <2>1, <2>2 DEF KindOK, TypedOK
<1>4. LineOK /\ LineAsTyped
  <2>1. sgCmdBuffer = [i \in 0 .. BufferSize |-> 0] /\ sgCurPos = 0 /\ typed = << >>
    BY DEF ConsoleInit
  <2>2. Text(sgCmdBuffer) = << >> /\ LineOK
    BY <2>1, LineCleared DEF LineOK
  <2> QED BY <2>1, <2>2, EditedNothing DEF LineAsTyped
<1>5. ExecutedOK
  BY DEF ConsoleInit, ExecutedOK
<1>6. ReadSize = 1
  BY DEF ConsoleInit
<1> QED BY <1>1, <1>2, <1>3, <1>4, <1>5, <1>6 DEF ConsoleInv, Editor

\* What was handed over stays older than the buffer, if the buffer only gains
\* newer bytes.
LEMMA ExecutedKept ==
  ASSUME ExecutedOK, executed' = executed, Seen \in Nat, Seen' \in Nat, Seen <= Seen',
         \A k \in Nat : k <= Seen /\ Before(k, sgCmdBuffer, sgCurPos)
                         => Before(k, sgCmdBuffer', sgCurPos')
  PROVE  ExecutedOK'
<1> DEFINE last == executed[Len(executed)]
<1>1. executed \in Seq(Nat) /\ last' = last
  BY DEF ExecutedOK
<1>2. ASSUME executed # << >>
      PROVE  last \in Nat /\ last <= Seen' /\ Before(last, sgCmdBuffer', sgCurPos')
  <2>1. last \in Nat /\ last <= Seen /\ Before(last, sgCmdBuffer, sgCurPos)
    BY <1>2 DEF ExecutedOK
  <2> HIDE DEF last
  <2>2. last <= Seen'
    BY <2>1
  <2> QED BY <2>1, <2>2
<1> HIDE DEF last
<1> QED BY <1>1, <1>2 DEF ExecutedOK, last

\* While bytes arrive and move through the ring the line stays what it is.
LEMMA EditorKept ==
  ASSUME Editor, UNCHANGED lineVars, KindOK', TypedOK',
         Edited(kind', typed) = Edited(kind, typed), Seen \in Nat, Seen' \in Nat, Seen <= Seen'
  PROVE  Editor'
<1>1. UNCHANGED <<sgCmdBuffer, sgCurPos, typed, executed>>
  BY DEF lineVars
<1>3. LineOK'
  BY <1>1, LineLater DEF Editor, LineOK
<1>4. ExecutedOK'
  BY <1>1, ExecutedKept DEF Editor, Before
<1>5. Text(sgCmdBuffer') = Text(sgCmdBuffer) /\ Edited(kind', typed') = Edited(kind, typed)
  BY <1>1
<1>6. LineAsTyped'
  BY <1>5 DEF Editor, LineAsTyped
<1> QED BY <1>3, <1>4, <1>6 DEF Editor

\* A key typed ahead changes nothing yet.
LEMMA TypeKeeps ==
  ASSUME Control, Editor, Type, Seen \in Nat, Seen' \in Nat, Seen <= Seen'
  PROVE  Editor'
<1>1. PICK k \in Keys : kind' = Append(kind, k)
  BY DEF Type
<1>2. arrived' = arrived + 1 /\ arrived \in Nat /\ UNCHANGED lineVars /\ typed' = typed
  BY DEF Type, Arrive, Control, TypeOK, lineVars
<1>3. kind \in Seq(Keys) /\ Len(kind) = arrived
  BY DEF Editor, KindOK
<1>4. KindOK'
  BY <1>1, <1>2, <1>3 DEF KindOK
<1>5. TypedOK'
  BY <1>2 DEF Editor, TypedOK
<1>6. \A i \in 1 .. arrived : kind'[i] = kind[i]
  BY <1>1, <1>2, <1>3
<1>7. \A i \in 1 .. Len(typed) : kind'[typed[i]] = kind[typed[i]]
  BY <1>6 DEF Editor, TypedOK
<1>8. Edited(kind', typed) = Edited(kind, typed)
  BY <1>7, EditedSame DEF Editor, TypedOK
<1> QED BY <1>2, <1>4, <1>5, <1>8, EditorKept

\* The byte the switch of Cli_Start works on is the newest the editor has seen.
LEMMA Fetched ==
  ASSUME Control, RingSorted, KindOK, Dispatch
  PROVE  /\ out \in 1 .. arrived /\ kind[out] \in Keys
         /\ Seen \in Nat /\ Seen < out /\ Seen' = out
         /\ arrived' = arrived /\ kind' = kind
<1>1. ByteRead /\ ~ByteRead' /\ out' = out /\ arrived' = arrived /\ kind' = kind
  BY DEF Dispatch, ReadExit, ByteRead, Control, TypeOK, hwVars, outVars
<1>2. out \in Nat /\ arrived \in Nat /\ taken \in Nat /\ out > 0 /\ out <= taken /\ taken <= arrived
  BY <1>1 DEF RingSorted, Control, TypeOK
<1>3. Seen = out - 1 /\ Seen' = out'
  BY <1>1 DEF Seen
<1>4. out \in 1 .. arrived
  BY <1>2
<1>5. kind[out] \in Keys
  BY <1>4 DEF KindOK
<1> QED BY <1>1, <1>2, <1>3, <1>4, <1>5

\* One more key consumed.
LEMMA KeyTyped ==
  ASSUME Editor, out \in 1 .. arrived, arrived' = arrived, kind' = kind,
         typed' = Append(typed, out)
  PROVE  KindOK' /\ TypedOK' /\ Edited(kind', typed') = EditKey(kind, Edited(kind, typed), out)
<1>1. typed \in Seq(Nat) /\ out \in Nat /\ \A i \in 1 .. Len(typed) : typed[i] \in 1 .. arrived
  BY DEF Editor, TypedOK
<1>2. TypedOK'
  BY <1>1 DEF TypedOK
<1>3. Edited(kind, Append(typed, out)) = EditKey(kind, Edited(kind, typed), out)
  BY <1>1, EditedMore
<1> QED BY <1>2, <1>3 DEF Editor, KindOK

LEMMA StoreKeeps ==
  ASSUME Editor, Store, typed' = Append(typed, out), executed' = executed,
         out \in 1 .. arrived, arrived' = arrived, kind' = kind, kind[out] # "bs",
         Seen \in Nat, Seen < out, Seen' = out
  PROVE  Editor'
<1>1. KindOK' /\ TypedOK' /\ Edited(kind', typed') = EditKey(kind, Edited(kind, typed), out)
  BY KeyTyped
<1>2. Line(sgCmdBuffer, sgCurPos, Seen) /\ Text(sgCmdBuffer) = Edited(kind, typed)
  BY DEF Editor, LineOK, LineAsTyped
<1>3. sgCurPos \in Nat /\ sgCurPos < BufferSize /\ Len(Text(sgCmdBuffer)) = sgCurPos
  BY <1>2, LineIs, TextIs
<1>4. out \in Nat /\ Seen <= out
  BY DEF Editor
<1>5. EditKey(kind, Edited(kind, typed), out)
        = IF sgCurPos < BufferSize - 1 THEN Append(Text(sgCmdBuffer), out) ELSE Text(sgCmdBuffer)
  BY <1>2, <1>3 DEF EditKey
<1>6. CASE sgCurPos < BufferSize - 1
  <2>1. /\ sgCmdBuffer' = [sgCmdBuffer EXCEPT ![sgCurPos] = out, ![sgCurPos + 1] = 0]
        /\ sgCurPos' = sgCurPos + 1
    BY <1>3, <1>6, ConsoleAssumption DEF Store
  <2>2. /\ Line(sgCmdBuffer', sgCurPos', out)
        /\ Text(sgCmdBuffer') = Append(Text(sgCmdBuffer), out)
    BY <1>2, <1>4, <1>6, <2>1, LineStored
  <2>3. LineOK' /\ LineAsTyped'
    BY <1>1, <1>5, <1>6, <2>2 DEF LineOK, LineAsTyped
  <2>4. ASSUME NEW k \in Nat, k <= Seen, Before(k, sgCmdBuffer, sgCurPos)
        PROVE  Before(k, sgCmdBuffer', sgCurPos')
    <3>1. ASSUME NEW i \in 0 .. sgCurPos' - 1 PROVE k < sgCmdBuffer'[i]
      <4>1. CASE i = sgCurPos
        <5>1. sgCmdBuffer'[i] = out
          <6>1. sgCurPos \in 0 .. BufferSize /\ sgCurPos # sgCurPos + 1
            BY <1>3, ConsoleAssumption
          <6>2. sgCmdBuffer \in [0 .. BufferSize -> Nat]
            BY <1>2 DEF Line
          <6> QED BY <2>1, <4>1, <6>1, <6>2
        <5> QED BY <1>4, <2>4, <5>1
      <4>2. CASE i # sgCurPos
        <5>1. i \in 0 .. sgCurPos - 1
          BY <1>3, <2>1, <4>2
        <5>2. /\ i \in 0 .. BufferSize /\ i # sgCurPos /\ i # sgCurPos + 1
              /\ sgCmdBuffer \in [0 .. BufferSize -> Nat]
          BY <1>2, <5>1, LineIs
        <5>3. sgCmdBuffer'[i] = sgCmdBuffer[i]
          BY <2>1, <5>2
        <5> QED BY <2>4, <5>1, <5>3 DEF Before
      <4> QED BY <4>1, <4>2
    <3> QED BY <3>1 DEF Before
  <2>5. ExecutedOK'
    BY <1>4, <2>4, ExecutedKept DEF Editor
  <2> QED BY <1>1, <2>3, <2>5 DEF Editor
<1>7. CASE ~ (sgCurPos < BufferSize - 1)
  <2>1. UNCHANGED <<sgCmdBuffer, sgCurPos>>
    BY <1>3, <1>7, ConsoleAssumption DEF Store
  <2>2. LineOK'
    BY <1>2, <1>4, <2>1, LineLater DEF LineOK
  <2>3. LineAsTyped'
    BY <1>1, <1>5, <1>7, <2>1 DEF LineAsTyped
  <2>4. ExecutedOK'
    BY <1>4, <2>1, ExecutedKept DEF Editor, Before
  <2> QED BY <1>1, <2>2, <2>3, <2>4 DEF Editor
<1> QED BY <1>6, <1>7

LEMMA BackspaceKeeps ==
  ASSUME Editor, Backspace, out \in 1 .. arrived, arrived' = arrived, kind' = kind,
         Seen \in Nat, Seen < out, Seen' = out
  PROVE  Editor'
<1>1. KindOK' /\ TypedOK' /\ Edited(kind', typed') = EditKey(kind, Edited(kind, typed), out)
  BY KeyTyped DEF Backspace
<1>2. Line(sgCmdBuffer, sgCurPos, Seen) /\ Text(sgCmdBuffer) = Edited(kind, typed)
  BY DEF Editor, LineOK, LineAsTyped
<1>3. /\ sgCurPos \in Nat /\ sgCmdBuffer \in [0 .. BufferSize -> Nat]
      /\ Text(sgCmdBuffer) \in Seq(Nat) /\ Len(Text(sgCmdBuffer)) = sgCurPos
  BY <1>2, LineIs, TextIs
<1>4. out \in Nat /\ Seen <= out /\ executed' = executed
  BY DEF Backspace
<1>5. EditKey(kind, Edited(kind, typed), out)
        = IF Text(sgCmdBuffer) = << >> THEN Text(sgCmdBuffer) ELSE Front(Text(sgCmdBuffer))
  BY <1>2 DEF EditKey, Backspace
<1>6. CASE sgCurPos > 0
  <2>1. sgCurPos' = sgCurPos - 1 /\ sgCmdBuffer' = [sgCmdBuffer EXCEPT ![sgCurPos - 1] = 0]
    BY <1>6 DEF Backspace
  <2>2. /\ Line(sgCmdBuffer', sgCurPos', Seen) /\ Text(sgCmdBuffer) # << >>
        /\ Text(sgCmdBuffer') = Front(Text(sgCmdBuffer))
    BY <1>2, <1>6, <2>1, LineErased
  <2>3. LineOK'
    BY <1>4, <2>2, LineLater DEF LineOK
  <2>4. LineAsTyped'
    BY <1>1, <1>5, <2>2 DEF LineAsTyped
  <2>5. ASSUME NEW k \in Nat, Before(k, sgCmdBuffer, sgCurPos)
        PROVE  Before(k, sgCmdBuffer', sgCurPos')
    <3>1. ASSUME NEW i \in 0 .. sgCurPos' - 1 PROVE k < sgCmdBuffer'[i]
      <4>1. i \in 0 .. sgCurPos - 1 /\ i # sgCurPos - 1
        BY <1>3, <2>1
      <4>2. i \in 0 .. BufferSize
        BY <1>2, <4>1, LineIs
      <4>3. sgCmdBuffer'[i] = sgCmdBuffer[i]
        BY <1>3, <2>1, <4>1, <4>2
      <4> QED BY <2>5, <4>1, <4>3 DEF Before
    <3> QED BY <3>1 DEF Before
  <2>6. ExecutedOK'
    BY <1>4, <2>5, ExecutedKept DEF Editor
  <2> QED BY <1>1, <2>3, <2>4, <2>6 DEF Editor
<1>7. CASE sgCurPos = 0
  <2>1. UNCHANGED <<sgCmdBuffer, sgCurPos>>
    BY <1>7 DEF Backspace
  <2>2. Text(sgCmdBuffer) = << >>
    BY <1>3, <1>7, EmptySeq
  <2>3. LineOK'
    BY <1>2, <1>4, <2>1, LineLater DEF LineOK
  <2>4. LineAsTyped'
    BY <1>1, <1>5, <2>1, <2>2 DEF LineAsTyped
  <2>5. ExecutedOK'
    BY <1>4, <2>1, ExecutedKept DEF Editor, Before
  <2> QED BY <1>1, <2>3, <2>4, <2>5 DEF Editor
<1> QED BY <1>3, <1>6, <1>7

\* A line that is not empty is handed over as the buffer holds it: newer bytes
\* than the line before it, in order.
LEMMA HandedOver ==
  ASSUME Editor, Enter
  PROVE  \/ executed' = executed
         \/ /\ sgCurPos \in Nat /\ sgCurPos > 0
            /\ executed' = [i \in 1 .. sgCurPos |-> sgCmdBuffer[i - 1]]
            /\ executed' \in Seq(Nat) /\ Len(executed') = sgCurPos
            /\ \A i \in 0 .. sgCurPos - 1 : sgCmdBuffer[i] \in Nat /\ sgCmdBuffer[i] <= Seen
<1>1. Line(sgCmdBuffer, sgCurPos, Seen)
  BY DEF Editor, LineOK
<1>2. sgCurPos \in Nat /\ StrLen(sgCmdBuffer) = sgCurPos
  BY <1>1, LineIs, TextIs
<1>3. CASE sgCurPos > 0
  <2>1. executed' = Text(sgCmdBuffer)
    BY <1>2, <1>3 DEF Enter
  <2> QED BY <1>1, <1>2, <1>3, <2>1, LineIs, TextIs
<1>4. CASE ~ (sgCurPos > 0)
  BY <1>2, <1>4 DEF Enter
<1> QED BY <1>3, <1>4

LEMMA EnterKeeps ==
  ASSUME Editor, Enter, arrived' = arrived, kind' = kind,
         Seen \in Nat, Seen' \in Nat, Seen <= Seen'
  PROVE  Editor'
<1>1. sgCmdBuffer' = [i \in 0 .. BufferSize |-> 0] /\ sgCurPos' = 0 /\ typed' = << >>
  BY DEF Enter
<1>2. KindOK' /\ TypedOK'
  <2>1. << >> \in Seq(Nat) /\ Len(<< >>) = 0
    OBVIOUS
  <2> QED BY <1>1, <2>1 DEF Editor, KindOK, TypedOK
<1>3. Text(sgCmdBuffer') = << >> /\ LineOK'
  BY <1>1, LineCleared DEF LineOK
<1>4. LineAsTyped'
  BY <1>1, <1>3, EditedNothing DEF LineAsTyped
<1>5. \A k \in Nat : Before(k, sgCmdBuffer', sgCurPos')
  BY <1>1 DEF Before
<1>6. CASE executed' = executed
  <2>1. ExecutedOK'
    BY <1>5, <1>6, ExecutedKept DEF Editor
  <2> QED BY <1>2, <1>3, <1>4, <2>1 DEF Editor
<1>7. CASE executed' # executed
  <2>1. /\ sgCurPos \in Nat /\ sgCurPos > 0
        /\ executed' = [i \in 1 .. sgCurPos |-> sgCmdBuffer[i - 1]]
        /\ executed' \in Seq(Nat) /\ Len(executed') = sgCurPos
        /\ \A i \in 0 .. sgCurPos - 1 : sgCmdBuffer[i] \in Nat /\ sgCmdBuffer[i] <= Seen
    BY <1>7, HandedOver
  <2>2. sgCurPos \in 1 .. sgCurPos /\ sgCurPos - 1 \in 0 .. sgCurPos - 1
    BY <2>1
  <2>3. executed'[Len(executed')] = sgCmdBuffer[sgCurPos - 1]
    BY <2>1, <2>2
  <2>4. /\ executed'[Len(executed')] \in Nat
        /\ executed'[Len(executed')] <= Seen'
    BY <2>1, <2>2, <2>3
  <2>5. ExecutedOK'
    BY <1>5, <2>1, <2>4 DEF ExecutedOK
  <2> QED BY <1>2, <1>3, <1>4, <2>5 DEF Editor
<1> QED BY <1>6, <1>7

LEMMA DispatchKeeps ==
  ASSUME Control, RingSorted, Editor, Dispatch
  PROVE  Editor'
<1>1. /\ out \in 1 .. arrived /\ kind[out] \in Keys
      /\ Seen \in Nat /\ Seen < out /\ Seen' = out
      /\ arrived' = arrived /\ kind' = kind
  BY Fetched DEF Editor
<1>2. Seen' \in Nat /\ Seen <= Seen'
  BY <1>1
<1>3. ASSUME UNCHANGED lineVars PROVE Editor'
  <2>1. KindOK' /\ TypedOK'
    BY <1>1, <1>3 DEF Editor, KindOK, TypedOK, lineVars
  <2> QED BY <1>1, <1>2, <1>3, <2>1, EditorKept
<1>4. CASE Character
  <2>1. Store /\ typed' = Append(typed, out) /\ executed' = executed /\ kind[out] # "bs"
    BY <1>4 DEF Character
  <2> QED BY <1>1, <2>1, StoreKeeps
<1>5. CASE QuestionMark
  <2>1. CASE sgCurPos = 0
    BY <1>3, <1>5, <2>1 DEF QuestionMark, lineVars
  <2>2. CASE sgCurPos # 0
    <3>1. Store /\ typed' = Append(typed, out) /\ executed' = executed /\ kind[out] # "bs"
      BY <1>5, <2>2 DEF QuestionMark
    <3> QED BY <1>1, <3>1, StoreKeeps
  <2> QED BY <2>1, <2>2
<1>6. CASE Backspace
  BY <1>1, <1>6, BackspaceKeeps
<1>7. CASE Enter
  BY <1>1, <1>2, <1>7, EnterKeeps
<1>8. CASE Escape
  BY <1>3, <1>8 DEF Escape
<1> QED BY <1>4, <1>5, <1>6, <1>7, <1>8 DEF Dispatch

LEMMA NextConsole ==
  ASSUME ConsoleInv, [ConsoleNext]_consoleVars
  PROVE  ConsoleInv'
<1>1. Control /\ RingSorted /\ Editor /\ ReadSize = 1
  BY DEF ConsoleInv
<1>2. Control' /\ RingSorted' /\ Onward
  <2>1. CASE [Next]_vars
    BY <1>1, <2>1, NextControl, NextSorted
  <2>2. CASE GetChar
    BY <1>1, <2>2, GetCharControl, GetCharSorted
  <2> QED BY <2>1, <2>2, StepIsRing
<1>3. Seen \in Nat /\ Seen' \in Nat /\ Seen <= Seen'
  BY <1>1, <1>2, SeenGrows DEF Control
<1>4. ASSUME UNCHANGED <<lineVars, kind, arrived>> PROVE Editor'
  <2>1. UNCHANGED lineVars /\ typed' = typed /\ kind' = kind /\ arrived' = arrived
    BY <1>4 DEF lineVars
  <2>2. KindOK' /\ TypedOK'
    BY <1>1, <2>1 DEF Editor, KindOK, TypedOK
  <2> QED BY <1>1, <1>3, <2>1, <2>2, EditorKept
<1>5. Editor'
  <2>1. CASE Type
    BY <1>1, <1>3, <2>1, TypeKeeps
  <2>2. CASE RxIsr
    BY <1>4, <2>2 DEF RxIsr, Isr, IsrEnter, IsrStore, IsrFull, IsrDrained, IsrExit, hwVars
  <2>3. CASE Fetch
    BY <1>4, <2>3 DEF Fetch, ReadEnter, ReadPop, EventWait, hwVars
  <2>4. CASE FetchNothing
    BY <1>4, <2>4 DEF FetchNothing, ReadExit, hwVars
  <2>5. CASE Dispatch
    BY <1>1, <2>5, DispatchKeeps
  <2>6. CASE GetChar
    BY <1>4, <2>6 DEF GetChar
  <2>7. CASE UNCHANGED consoleVars
    BY <1>4, <2>7 DEF consoleVars, vars, hwVars
  <2> QED BY <2>1, <2>2, <2>3, <2>4, <2>5, <2>6, <2>7 DEF ConsoleNext
<1> QED BY <1>1, <1>2, <1>5 DEF ConsoleInv

-----------------------------------------------------------------------------
(* The inductive invariant of the CLI task on its ring.                    *)
THEOREM ConsoleInductive == ConsoleSpec => []ConsoleInv
BY InitConsole, NextConsole, PTL DEF ConsoleSpec

(* Whatever the interrupt handler and the task interleave to, and whatever *)
(* is typed, the buffer of Cli_Start holds what the keys consumed since    *)
(* the last line end make of an empty line, for every buffer size.         *)
THEOREM LineIsAsTyped == ConsoleSpec => []LineAsTyped
<1>1. ConsoleInv => LineAsTyped
  BY DEF ConsoleInv, Editor
<1> QED BY ConsoleInductive, <1>1, PTL

(* A line handed to At_Parser is made of bytes in the order they were      *)
(* typed, and none of it was in a line handed over before.                 *)
THEOREM LinesExecutedOnce == ConsoleSpec => ExecutedOnce
<1> DEFINE Ordered ==
      executed' # executed =>
        /\ \A i \in 1 .. Len(executed') - 1 : executed'[i] < executed'[i + 1]
        /\ executed # << >> => executed[Len(executed)] < executed'[1]
<1>1. ASSUME ConsoleInv, [ConsoleNext]_consoleVars, executed' # executed
      PROVE  /\ \A i \in 1 .. Len(executed') - 1 : executed'[i] < executed'[i + 1]
             /\ executed # << >> => executed[Len(executed)] < executed'[1]
  <2>1. Enter
    BY <1>1 DEF ConsoleNext, consoleVars, lineVars, Type, RxIsr, Fetch, FetchNothing, GetChar,
       Dispatch, Character, QuestionMark, Backspace, Escape
  <2>2. Editor /\ Line(sgCmdBuffer, sgCurPos, Seen) /\ ExecutedOK
    BY <1>1 DEF ConsoleInv, Editor, LineOK
  <2>3. /\ sgCurPos \in Nat /\ sgCurPos > 0
        /\ executed' = [i \in 1 .. sgCurPos |-> sgCmdBuffer[i - 1]]
        /\ Len(executed') = sgCurPos
    BY <1>1, <2>1, <2>2, HandedOver
  <2>4. ASSUME NEW i \in 1 .. Len(executed') - 1 PROVE executed'[i] < executed'[i + 1]
    <3>1. /\ i \in 1 .. sgCurPos /\ i + 1 \in 1 .. sgCurPos /\ (i + 1) - 1 = i
          /\ i - 1 \in 0 .. sgCurPos - 1 /\ i \in 0 .. sgCurPos - 1 /\ i - 1 < i
      BY <2>3
    <3>2. sgCmdBuffer[i - 1] < sgCmdBuffer[i]
      BY <2>2, <3>1 DEF Line
    <3> QED BY <2>3, <3>1, <3>2
  <2>5. ASSUME executed # << >> PROVE executed[Len(executed)] < executed'[1]
    <3>1. 1 \in 1 .. sgCurPos /\ 0 \in 0 .. sgCurPos - 1 /\ 1 - 1 = 0
      BY <2>3
    <3>2. executed'[1] = sgCmdBuffer[0]
      BY <2>3, <3>1
    <3>3. executed[Len(executed)] < sgCmdBuffer[0]
      BY <2>2, <2>5, <3>1 DEF ExecutedOK, Before
    <3> QED BY <3>2, <3>3
  <2> QED BY <2>4, <2>5
<1>2. ConsoleInv /\ [ConsoleNext]_consoleVars => [Ordered]_consoleVars
  BY <1>1
<1> QED BY <1>2, ConsoleInductive, PTL DEF ConsoleSpec, ExecutedOnce

(* The escape key takes a byte past the ring, yet the CLI task is never    *)
(* left waiting with bytes in the ring or with the handler removed.        *)
THEOREM EscapeWakes == ConsoleSpec => []NoLostWakeup
<1>1. ConsoleInv => NoLostWakeup
  BY DEF ConsoleInv, Control
<1> QED BY ConsoleInductive, <1>1, PTL

\* Every place of the buffer holds a NUL or a byte that arrived.
Places == sgCmdBuffer \in [0 .. BufferSize -> 0 .. arrived] /\ escWait \in BOOLEAN

LEMMA NextPlaces ==
  ASSUME ConsoleInv, Places, [ConsoleNext]_consoleVars
  PROVE  Places'
<1>1. Control /\ RingSorted /\ Editor /\ arrived \in Nat /\ arrived' \in Nat
  BY NextConsole DEF ConsoleInv, Control, TypeOK
<1>2. ASSUME sgCmdBuffer' = sgCmdBuffer, arrived <= arrived', escWait' \in BOOLEAN PROVE Places'
  BY <1>1, <1>2 DEF Places
<1>3. CASE Type \/ RxIsr \/ Fetch \/ FetchNothing \/ GetChar \/ UNCHANGED consoleVars
  <2>1. sgCmdBuffer' = sgCmdBuffer /\ (escWait' = escWait \/ escWait' = FALSE)
    BY <1>3 DEF Type, RxIsr, Fetch, FetchNothing, GetChar, consoleVars, lineVars
  <2>2. arrived' = arrived \/ arrived' = arrived + 1
    BY <1>3 DEF Type, Arrive, RxIsr, Isr, IsrEnter, IsrStore, IsrFull, IsrDrained, IsrExit,
       Fetch, ReadEnter, ReadPop, EventWait, FetchNothing, ReadExit, GetChar, consoleVars, vars, hwVars
  <2>3. arrived <= arrived'
    BY <1>1, <2>2
  <2>4. escWait' \in BOOLEAN
    BY <2>1 DEF Places
  <2> QED BY <1>2, <2>1, <2>3, <2>4
<1>4. CASE Dispatch
  <2>1. out \in 1 .. arrived /\ arrived' = arrived
    BY <1>1, <1>4, Fetched DEF Editor
  <2>2. sgCurPos \in Nat /\ sgCurPos < BufferSize
    BY <1>1, LineIs DEF Editor, LineOK
  <2>3. Store => sgCmdBuffer' \in [0 .. BufferSize -> 0 .. arrived]
    BY <1>1, <2>1, <2>2 DEF Store, Places
  <2>4. CASE Character \/ QuestionMark
    BY <2>1, <2>3, <2>4 DEF Character, QuestionMark, Places
  <2>5. CASE Backspace
    <3>1. /\ escWait' = escWait
          /\ \/ sgCmdBuffer' = sgCmdBuffer
             \/ sgCurPos > 0 /\ sgCmdBuffer' = [sgCmdBuffer EXCEPT ![sgCurPos - 1] = 0]
      BY <2>5 DEF Backspace
    <3>2. 0 \in 0 .. arrived
      BY <1>1
    <3>3. sgCmdBuffer' \in [0 .. BufferSize -> 0 .. arrived]
      BY <3>1, <3>2 DEF Places
    <3> QED BY <2>1, <3>1, <3>3 DEF Places
  <2>6. CASE Enter
    <3>1. sgCmdBuffer' = [i \in 0 .. BufferSize |-> 0] /\ escWait' = escWait
      BY <2>6 DEF Enter
    <3>2. sgCmdBuffer' \in [0 .. BufferSize -> 0 .. arrived']
      BY <1>1, <3>1
    <3> QED BY <3>1, <3>2 DEF Places
  <2>7. CASE Escape
    <3>1. sgCmdBuffer' = sgCmdBuffer /\ escWait' = TRUE
      BY <2>7 DEF Escape, lineVars
    <3> QED BY <2>1, <3>1 DEF Places
  <2> QED BY <1>4, <2>4, <2>5, <2>6, <2>7 DEF Dispatch
<1> QED BY <1>3, <1>4 DEF ConsoleNext

(* The position never reaches the end of the line buffer, and its places   *)
(* hold NULs and bytes that arrived.                                       *)
THEOREM ConsoleTypes == ConsoleSpec => []ConsoleTypeOK
<1>1. ConsoleInit => Places
  <2> SUFFICES ASSUME ConsoleInit PROVE Places
    OBVIOUS
  <2>1. sgCmdBuffer = [i \in 0 .. BufferSize |-> 0] /\ arrived = 0 /\ escWait = FALSE
    BY DEF ConsoleInit, Init
  <2>2. sgCmdBuffer \in [0 .. BufferSize -> 0 .. arrived]
    BY <2>1
  <2> QED BY <2>1, <2>2 DEF Places
<1>2. ConsoleSpec => []Places
  BY <1>1, NextPlaces, ConsoleInductive, PTL DEF ConsoleSpec
<1>3. ASSUME ConsoleInv, Places PROVE ConsoleTypeOK
  <2>1. kind \in Seq(Keys) /\ sgCurPos \in 0 .. BufferSize - 1
    BY <1>3 DEF ConsoleInv, Editor, KindOK, LineOK, Line
  <2>2. typed \in Seq(1 .. arrived)
    <3>1. typed \in Seq(Nat) /\ \A i \in 1 .. Len(typed) : typed[i] \in 1 .. arrived
      BY <1>3 DEF ConsoleInv, Editor, TypedOK
    <3> DEFINE n == Len(typed)
    <3>2. n \in Nat /\ typed = [i \in 1 .. n |-> typed[i]] /\ \A i \in 1 .. n : typed[i] \in 1 .. arrived
      BY <3>1
    <3> HIDE DEF n
    <3>3. n \in Nat /\ \A i \in 1 .. n : typed[i] \in 1 .. arrived
      BY <3>2
    <3>4. [i \in 1 .. n |-> typed[i]] \in Seq(1 .. arrived)
      BY ONLY <3>3
    <3> QED BY ONLY <3>2, <3>4, Zenon
  <2> QED BY <1>3, <2>1, <2>2 DEF Places, ConsoleTypeOK
<1> QED BY <1>2, <1>3, ConsoleInductive, PTL

=============================================================================
