---------------------------- MODULE TcpLinkProofs ---------------------------
(***************************************************************************)
(* Proofs about TcpLink, for any descriptors and any number of connection  *)
(* tasks: with a host that opens a link only when the last one has gone    *)
(* entirely, the two closers and the exit of the task, in any interleaving,*)
(* never close under a set magic number, leave no socket open, and delete  *)
(* the task that is meant.                                                 *)
(***************************************************************************)
EXTENDS TcpLink, SequenceTheorems, WellFoundedInduction, TLAPS

Opening   == {"socket", "connect", "announce"}
Opened    == {"connect", "announce"}
Receiving == {"check", "recv", "fail"}
Holding   == Opened \union Receiving \union {"close"}

\* The last connection task lives and is in one of some places.
TaskIn(S) == handle \in Live /\ conn[handle] \in S

\* The handle names the one task that lives.
Sole == \A t \in Live : t = handle

\* Nobody closes a link that is not announced, and it has a socket then.
OpenAlone ==
  /\ TaskIn(Opening) => ~magic /\ \A w \in Closers : closer[w] = "idle"
  /\ TaskIn(Opened) => id \in Fds /\ owner[id] = "link"

\* The socket of the link is the one of the record, its task has not closed
\* it, and no closer has.
LinkHeld ==
  \A f \in Fds : owner[f] = "link" =>
    f = id /\ TaskIn(Holding) /\ \A w \in Closers : closer[w] # "delete"

\* The magic number of a link is cleared for good before a closer closes.
ClearedFirst == \A w \in Closers : closer[w] \in {"close", "delete"} => ~magic

\* MagicMeansOpen, with the task in the terms used here.
Announced == magic => id \in Fds /\ owner[id] = "link" /\ TaskIn(Receiving)

OneLink == Sole /\ OpenAlone /\ LinkHeld /\ ClearedFirst /\ Announced /\ ~runaway

IInv == Ranges /\ (Patient => OneLink)

-----------------------------------------------------------------------------
(* The sequence of tasks, and the free descriptors.                        *)

\* A function on the indices is a sequence.
LEMMA IndexedSeq ==
  ASSUME NEW S, NEW n \in Nat, NEW s \in [1 .. n -> S]
  PROVE  s \in Seq(S) /\ Len(s) = n
OBVIOUS

\* A step of one task moves that task.
LEMMA Moved ==
  ASSUME Ranges, NEW t \in Tasks, NEW x \in TaskPcs, GoTo(t, x)
  PROVE  /\ conn' \in Seq(TaskPcs) /\ Len(conn') = Len(conn) /\ Tasks' = Tasks
         /\ conn'[t] = x /\ \A u \in Tasks \ {t} : conn'[u] = conn[u]
<1>1. conn \in Seq(TaskPcs)
  BY DEF Ranges
<1>2. \A s \in Seq(TaskPcs) : DOMAIN s = 1 .. Len(s)
  OBVIOUS
<1>3. conn' = [conn EXCEPT ![t] = x]
  BY DEF GoTo
<1>4. /\ conn' \in Seq(TaskPcs) /\ Len(conn') = Len(conn)
  BY <1>1, <1>3, ExceptSeq DEF Tasks
<1> QED
  BY <1>1, <1>2, <1>3, <1>4 DEF Tasks

\* Deleting the task of the handle.
LEMMA DeletedTask ==
  ASSUME Ranges, conn' = Deleted
  PROVE  /\ conn' \in Seq(TaskPcs) /\ Len(conn') = Len(conn) /\ Tasks' = Tasks
         /\ \A u \in Tasks : conn'[u] = IF u = handle THEN "gone" ELSE conn[u]
<1>1. conn \in Seq(TaskPcs) /\ "gone" \in TaskPcs
  BY DEF Ranges, TaskPcs
<1>2. Tasks = 1 .. Len(conn) /\ Len(conn) \in Nat
  BY <1>1 DEF Tasks
<1>3. \A u \in Tasks : conn[u] \in TaskPcs
  BY <1>1 DEF Tasks
<1>4. conn' \in [1 .. Len(conn) -> TaskPcs]
  BY <1>1, <1>2, <1>3 DEF Deleted
<1>5. conn' \in Seq(TaskPcs) /\ Len(conn') = Len(conn)
  BY <1>2, <1>4, IndexedSeq
<1> QED
  BY <1>1, <1>2, <1>5 DEF Deleted, Tasks

\* The exit of a task.
LEMMA ExitedTask ==
  ASSUME Ranges, NEW t \in Tasks, conn' = [Deleted EXCEPT ![t] = "gone"]
  PROVE  /\ conn' \in Seq(TaskPcs) /\ Len(conn') = Len(conn) /\ Tasks' = Tasks
         /\ \A u \in Tasks : conn'[u] = IF u \in {handle, t} THEN "gone" ELSE conn[u]
<1>1. conn \in Seq(TaskPcs) /\ "gone" \in TaskPcs
  BY DEF Ranges, TaskPcs
<1> HIDE DEF TaskPcs
<1>2. Tasks = 1 .. Len(conn) /\ Len(conn) \in Nat
  BY <1>1 DEF Tasks
<1>3. \A u \in Tasks : conn[u] \in TaskPcs
  BY <1>1 DEF Tasks
<1>4. conn' \in [1 .. Len(conn) -> TaskPcs]
  BY <1>1, <1>2, <1>3 DEF Deleted
<1>5. conn' \in Seq(TaskPcs) /\ Len(conn') = Len(conn)
  BY <1>2, <1>4, IndexedSeq
<1> QED
  BY <1>1, <1>2, <1>5 DEF Deleted, Tasks

\* A task more.
LEMMA AddedTask ==
  ASSUME Ranges, conn' = Append(conn, "socket")
  PROVE  /\ conn' \in Seq(TaskPcs) /\ Len(conn') = Len(conn) + 1
         /\ Len(conn) + 1 \notin Tasks /\ Tasks' = Tasks \union {Len(conn) + 1}
         /\ conn'[Len(conn) + 1] = "socket" /\ \A u \in Tasks : conn'[u] = conn[u]
<1>1. conn \in Seq(TaskPcs) /\ "socket" \in TaskPcs
  BY DEF Ranges, TaskPcs
<1> HIDE DEF TaskPcs
<1>2. conn' \in Seq(TaskPcs) /\ Len(conn') = Len(conn) + 1
  BY <1>1
<1>3. Tasks = 1 .. Len(conn) /\ Tasks' = 1 .. Len(conn) + 1 /\ Len(conn) \in Nat
  BY <1>1, <1>2 DEF Tasks
<1>4. conn'[Len(conn) + 1] = "socket" /\ \A u \in 1 .. Len(conn) : conn'[u] = conn[u]
  BY <1>1
<1> QED
  BY <1>2, <1>3, <1>4

\* A set of naturals has a least element, so the stack finds a free
\* descriptor if there is one.
LEMMA LowestFree ==
  ASSUME Free # {}
  PROVE  Lowest \in Free
<1> DEFINE R == OpToRel(<, Nat)
<1>1. IsWellFoundedOn(R, Nat)
  BY NatLessThanWellFounded
<1>2. Free \subseteq Nat
  BY TcpLinkAssumption DEF Free
<1>3. PICK n \in Free : \A m \in Free : ~ (<<m, n>> \in R)
  <2> HIDE DEF R
  <2> QED BY <1>1, <1>2, WFMin
<1>4. \A m \in Free : ~ (m < n)
  BY <1>2, <1>3 DEF OpToRel
<1>5. \E f \in Free : \A g \in Free : f <= g
  BY <1>2, <1>4
<1> HIDE DEF R
<1> QED
  BY <1>5 DEF Lowest

-----------------------------------------------------------------------------
(* The invariant.                                                          *)

LEMMA InitIInv == Init => IInv
<1> SUFFICES ASSUME Init PROVE IInv
  OBVIOUS
<1>1. Tasks = {} /\ Live = {}
  BY DEF Init, Tasks, Live
<1>2. Ranges
  BY TcpLinkAssumption, <1>1 DEF Init, Ranges, Closers
<1>3. OneLink
  BY <1>1 DEF Init, OneLink, Sole, OpenAlone, LinkHeld, ClearedFirst, Announced, TaskIn
<1> QED
  BY <1>2, <1>3 DEF IInv

\* Every action keeps the values in their ranges.
LEMMA NextRanges ==
  ASSUME Ranges, Next
  PROVE  Ranges'
<1> USE DEF Ranges
<1>p. Receiving \union Opening \union {"fail", "close", "delete", "gone"} \subseteq TaskPcs
  BY DEF TaskPcs, Receiving, Opening
<1>l. Len(conn) \in Nat /\ Tasks = 1 .. Len(conn)
  BY DEF Tasks
<1>0. \A t \in Tasks, x \in TaskPcs :
        GoTo(t, x) => conn' \in Seq(TaskPcs) /\ Len(conn') = Len(conn) /\ Tasks' = Tasks
  BY Moved
<1>d. conn' = Deleted => conn' \in Seq(TaskPcs) /\ Len(conn') = Len(conn) /\ Tasks' = Tasks
  BY DeletedTask
<1>s. UNCHANGED conn => Tasks' = Tasks
  BY DEF Tasks
<1>c. CloseId => owner' \in [Fds -> {"free", "link", "other"}]
  BY DEF CloseId
<1>1. CASE Start
  <2>1. CASE Create
    <3>1. /\ conn' \in Seq(TaskPcs) /\ Len(conn') = Len(conn) + 1
          /\ Tasks' = Tasks \union {Len(conn) + 1}
      BY <2>1, AddedTask DEF Create
    <3>2. Len(conn') <= MaxTasks
      BY <1>1, <1>l, <3>1, TcpLinkAssumption DEF Start
    <3> QED
      BY <1>1, <2>1, <3>1, <3>2, TcpLinkAssumption DEF Start, Create
  <2>2. CASE UNCHANGED <<conn, handle>>
    BY <1>1, <1>s, <2>2, TcpLinkAssumption DEF Start
  <2> QED
    BY <1>1, <2>1, <2>2 DEF Start
<1>2. CASE PeerCloses \/ ForeignSocket
  BY <1>2, <1>s DEF PeerCloses, ForeignSocket
<1>3. ASSUME NEW t \in Tasks, TcpTask(t) PROVE Ranges'
  <2>1. CASE Socket(t)
    <3>1. conn' \in Seq(TaskPcs) /\ Len(conn') = Len(conn) /\ Tasks' = Tasks
      BY <1>0, <1>p, <2>1 DEF Socket, Receiving, Opening
    <3>2. /\ id' \in Fds \union {-1}
          /\ owner' \in [Fds -> {"free", "link", "other"}]
      BY <2>1, LowestFree DEF Socket, Free
    <3> QED
      BY <2>1, <3>1, <3>2 DEF Socket
  <2>2. CASE Connect(t) \/ Announce(t) \/ Check(t) \/ Recv(t) \/ Fail(t)
    <3>1. conn' \in Seq(TaskPcs) /\ Len(conn') = Len(conn) /\ Tasks' = Tasks
      BY <1>0, <1>p, <2>2
         DEF Connect, Announce, Check, Recv, Fail, Receiving, Opening
    <3> QED
      BY <2>2, <3>1 DEF Connect, Announce, Check, Recv, Fail
  <2>3. CASE Close(t)
    <3>1. conn' \in Seq(TaskPcs) /\ Len(conn') = Len(conn) /\ Tasks' = Tasks
      BY <1>0, <1>p, <2>3 DEF Close
    <3> QED
      BY <1>c, <2>3, <3>1 DEF Close
  <2>4. CASE Delete(t)
    <3>1. /\ conn' \in Seq(TaskPcs) /\ Len(conn') = Len(conn) /\ Tasks' = Tasks
      BY <2>4, ExitedTask DEF Delete
    <3> QED
      BY <2>4, <3>1 DEF Delete
  <2> QED
    BY <1>3, <2>1, <2>2, <2>3, <2>4 DEF TcpTask
<1>4. ASSUME NEW w \in Closers, CloseBegins(w) \/ TcpClose(w) PROVE Ranges'
  <2>1. CASE CloseBegins(w) \/ Clears(w)
    BY <1>s, <2>1 DEF CloseBegins, Clears, Goes
  <2>2. CASE Closes(w)
    BY <1>s, <1>c, <2>2 DEF Closes, Goes
  <2>3. CASE Deletes(w)
    BY <1>d, <2>3 DEF Deletes, Goes
  <2> QED
    BY <1>4, <2>1, <2>2, <2>3 DEF TcpClose
<1> QED
  BY <1>1, <1>2, <1>3, <1>4 DEF Next

-----------------------------------------------------------------------------
(* A patient host: one action of the link at a time.                       *)

\* The task that takes a step is the one of the handle, and stays it.
LEMMA TaskMoves ==
  ASSUME Ranges, Sole, NEW t \in Tasks, conn[t] # "gone",
         NEW x \in TaskPcs, x # "gone", GoTo(t, x), handle' = handle
  PROVE  /\ t = handle /\ Sole' /\ conn'[handle] = x
         /\ \A S : (TaskIn(S) <=> conn[t] \in S) /\ (TaskIn(S)' <=> x \in S)
<1>1. t = handle /\ handle \in Live
  BY DEF Sole, Live
<1>2. Tasks' = Tasks /\ conn'[t] = x /\ \A u \in Tasks \ {t} : conn'[u] = conn[u]
  BY Moved
<1>3. Live' \subseteq Tasks /\ handle \in Live'
  BY <1>1, <1>2 DEF Live
<1>4. Sole'
  BY <1>1, <1>2, <1>3 DEF Sole, Live
<1> QED
  BY <1>1, <1>2, <1>3, <1>4 DEF TaskIn

\* Where the tasks and the handle stay, the phase of the link does.
LEMMA TaskStays ==
  ASSUME UNCHANGED <<conn, handle>>
  PROVE  /\ Sole => Sole'
         /\ \A S : TaskIn(S)' <=> TaskIn(S)
BY DEF Sole, TaskIn, Live, Tasks

\* AT+CIPSTART, with and without the memory for a task.
LEMMA StartOneLink ==
  ASSUME Ranges, Patient, OneLink, Start
  PROVE  OneLink'
<1>1. Live = {} /\ ~magic /\ \A w \in Closers : closer[w] = "idle"
  BY DEF Start, Quiet
<1>2. /\ \A f \in Fds : owner[f] # "link"
  BY <1>1 DEF OneLink, LinkHeld, TaskIn
<1>3. Sole'
  <2>1. CASE Create
    <3>1. /\ Tasks' = Tasks \union {Len(conn) + 1}
          /\ conn'[Len(conn) + 1] = "socket" /\ \A u \in Tasks : conn'[u] = conn[u]
      BY <2>1, AddedTask DEF Create
    <3> QED
      BY <1>1, <2>1, <3>1 DEF Create, Sole, Live
  <2>2. CASE UNCHANGED <<conn, handle>>
    BY <2>2, TaskStays DEF OneLink
  <2> QED
    BY <2>1, <2>2 DEF Start
<1>4. ~ TaskIn(Opened)'
  <2>1. CASE Create
    BY <2>1, AddedTask DEF Create, TaskIn, Opened
  <2>2. CASE UNCHANGED <<conn, handle>>
    BY <1>1, <2>2, TaskStays DEF TaskIn
  <2> QED
    BY <2>1, <2>2 DEF Start
<1> QED
  BY <1>1, <1>2, <1>3, <1>4
     DEF Start, OneLink, OpenAlone, LinkHeld, ClearedFirst, Announced

\* The peer, and sockets of other parts of the firmware.
LEMMA WorldOneLink ==
  ASSUME Ranges, OneLink, PeerCloses \/ ForeignSocket
  PROVE  OneLink'
<1>1. UNCHANGED <<magic, id, handle, conn, closer, runaway>>
  BY DEF PeerCloses, ForeignSocket
<1>2. Sole' /\ \A S : TaskIn(S)' <=> TaskIn(S)
  BY <1>1, TaskStays DEF OneLink
<1>3. \A f \in Fds : owner'[f] = "link" <=> owner[f] = "link"
  BY DEF PeerCloses, ForeignSocket, Ranges, Free
<1> QED
  BY <1>1, <1>2, <1>3 DEF OneLink, OpenAlone, LinkHeld, ClearedFirst, Announced

\* The task opens its socket: nobody else holds one for this link.
LEMMA SocketOneLink ==
  ASSUME Ranges, OneLink, NEW t \in Tasks, Socket(t)
  PROVE  OneLink'
<1> USE DEF OneLink
<1>1. PICK x \in {"fail", "connect"} : GoTo(t, x) /\ (x = "connect" <=> Free # {})
  BY DEF Socket
<1>2. /\ Sole' /\ \A S : (TaskIn(S) <=> "socket" \in S) /\ (TaskIn(S)' <=> x \in S)
  BY <1>1, TaskMoves DEF Socket, At, TaskPcs
<1>3. ~magic /\ \A w \in Closers : closer[w] = "idle"
  BY <1>2 DEF OpenAlone, Opening
<1>4. \A f \in Fds : owner[f] # "link"
  BY <1>2 DEF LinkHeld, Holding, Opened, Receiving
<1>5. CASE Free = {}
  BY <1>1, <1>2, <1>3, <1>4, <1>5
     DEF Socket, OpenAlone, LinkHeld, ClearedFirst, Announced, Opened, Opening
<1>6. CASE Free # {}
  <2>1. /\ Lowest \in Fds /\ id' = Lowest
        /\ \A f \in Fds : owner'[f] = IF f = Lowest THEN "link" ELSE owner[f]
    BY <1>6, LowestFree DEF Socket, Free, Ranges
  <2>2. x \in Opened /\ x \in Holding
    BY <1>1, <1>6 DEF Opened, Holding
  <2>3. LinkHeld'
    BY <1>2, <1>3, <1>4, <2>1, <2>2 DEF LinkHeld, Socket
  <2> QED
    BY <1>2, <1>3, <2>1, <2>3 DEF Socket, OpenAlone, ClearedFirst, Announced
<1> QED
  BY <1>5, <1>6

\* The steps of the task with its socket open.
LEMMA TaskOneLink ==
  ASSUME Ranges, OneLink, NEW t \in Tasks,
         Connect(t) \/ Announce(t) \/ Check(t) \/ Recv(t) \/ Fail(t)
  PROVE  OneLink'
<1> USE DEF OneLink
<1> DEFINE Step(x) ==
      /\ Sole'
      /\ \A S : (TaskIn(S) <=> conn[t] \in S) /\ (TaskIn(S)' <=> x \in S)
<1>0. ASSUME NEW x \in Opened \union Receiving \union {"close"}, GoTo(t, x),
             conn[t] # "gone", handle' = handle
      PROVE  Step(x)
  <2>1. x \in TaskPcs /\ x # "gone"
    BY DEF Opened, Receiving, TaskPcs
  <2> QED
    BY <1>0, <2>1, TaskMoves
<1> HIDE DEF Step
<1>1. CASE Connect(t)
  <2>1. PICK x \in {"announce", "fail"} : GoTo(t, x)
    BY <1>1 DEF Connect
  <2>2. Step(x) /\ conn[t] = "connect"
    BY <1>0, <1>1, <2>1 DEF Connect, At, Opened, Receiving
  <2> QED
    BY <1>1, <2>1, <2>2 DEF Step, Connect, OpenAlone, LinkHeld, ClearedFirst,
       Announced, Opening, Opened, Receiving, Holding
<1>2. CASE Announce(t)
  <2>1. Step("check") /\ conn[t] = "announce"
    BY <1>0, <1>2 DEF Announce, At, Receiving
  <2>2. id \in Fds /\ owner[id] = "link" /\ \A w \in Closers : closer[w] = "idle"
    BY <2>1 DEF Step, OpenAlone, Opening, Opened
  <2> QED
    BY <1>2, <2>1, <2>2 DEF Step, Announce, OpenAlone, LinkHeld, ClearedFirst,
       Announced, Opening, Opened, Receiving, Holding
<1>3. CASE Check(t)
  <2>1. PICK x \in {"recv", "fail"} : GoTo(t, x)
    BY <1>3 DEF Check
  <2>2. Step(x) /\ conn[t] = "check"
    BY <1>0, <1>3, <2>1 DEF Check, At, Receiving
  <2> QED
    BY <1>3, <2>1, <2>2 DEF Step, Check, OpenAlone, LinkHeld, ClearedFirst,
       Announced, Opening, Opened, Receiving, Holding
<1>4. CASE Recv(t)
  <2>1. PICK x \in {"check", "fail"} : GoTo(t, x)
    BY <1>4 DEF Recv
  <2>2. Step(x) /\ conn[t] = "recv"
    BY <1>0, <1>4, <2>1 DEF Recv, At, Receiving
  <2>3. UNCHANGED <<magic, id, owner, closer, runaway>>
    BY <1>4 DEF Recv
  <2> QED
    BY <2>1, <2>2, <2>3 DEF Step, OpenAlone, LinkHeld, ClearedFirst,
       Announced, Opening, Opened, Receiving, Holding
<1>5. CASE Fail(t)
  <2>1. Step("close") /\ conn[t] = "fail"
    BY <1>0, <1>5 DEF Fail, At
  <2> QED
    BY <1>5, <2>1 DEF Step, Fail, OpenAlone, LinkHeld, ClearedFirst,
       Announced, Opening, Opened, Receiving, Holding
<1> QED
  BY <1>1, <1>2, <1>3, <1>4, <1>5

\* The exit of the task closes the socket, and deletes the task itself.
LEMMA ExitOneLink ==
  ASSUME Ranges, OneLink, NEW t \in Tasks, Close(t) \/ Delete(t)
  PROVE  OneLink'
<1> USE DEF OneLink
<1>1. CASE Close(t)
  <2>1. /\ Sole'
        /\ \A S : (TaskIn(S) <=> "close" \in S) /\ (TaskIn(S)' <=> "delete" \in S)
    BY <1>1, TaskMoves DEF Close, At, TaskPcs
  <2>2. ~magic
    BY <2>1 DEF Announced, Receiving
  <2>3. \A f \in Fds : owner'[f] # "link"
    BY <1>1 DEF Close, CloseId, LinkHeld
  <2>4. OpenAlone'
    BY <2>1 DEF OpenAlone, Opening, Opened
  <2>5. LinkHeld'
    BY <2>3 DEF LinkHeld
  <2>6. magic' = magic /\ closer' = closer /\ runaway' = runaway
    BY <1>1 DEF Close
  <2>7. ClearedFirst' /\ Announced'
    BY ONLY <2>2, <2>6 DEF ClearedFirst, Announced
  <2>8. ~runaway
    OBVIOUS
  <2> QED
    BY ONLY <2>1, <2>4, <2>5, <2>6, <2>7, <2>8
<1>2. CASE Delete(t)
  <2>1. conn[t] = "delete" /\ t = handle /\ t \in Live
    BY <1>2 DEF Delete, At, Sole, Live
  <2>2. ~magic /\ \A f \in Fds : owner[f] # "link"
    BY <2>1 DEF Announced, LinkHeld, TaskIn, Receiving, Holding, Opened
  <2>3. /\ Tasks' = Tasks
        /\ \A u \in Tasks : conn'[u] = IF u = handle THEN "gone" ELSE conn[u]
    BY <1>2, <2>1, ExitedTask DEF Delete
  <2>4. Live' = {}
    BY <2>1, <2>3 DEF Live, Sole
  <2> QED
    BY <1>2, <2>1, <2>2, <2>4 DEF Delete, Sole, OpenAlone, LinkHeld, ClearedFirst,
       Announced, TaskIn
<1> QED
  BY <1>1, <1>2

\* The closers clear, close and delete, each at its own pace.
LEMMA CloserOneLink ==
  ASSUME Ranges, OneLink, NEW w \in Closers, CloseBegins(w) \/ TcpClose(w)
  PROVE  OneLink'
<1> USE DEF OneLink
<1>0. UNCHANGED conn /\ handle' = handle => Sole' /\ \A S : TaskIn(S)' <=> TaskIn(S)
  BY TaskStays
<1>c. \A v \in Closers, pc \in {"idle", "clear", "close", "delete"} :
        Goes(w, pc) => closer'[v] = IF v = w THEN pc ELSE closer[v]
  BY DEF Goes, Ranges
<1>o. closer[w] # "idle" => ~ TaskIn(Opening)
  BY DEF OpenAlone
<1>h. Opened \subseteq Opening
  BY DEF Opened, Opening
<1>1. CASE CloseBegins(w)
  <2>1. /\ Sole' /\ \A S : TaskIn(S)' <=> TaskIn(S)
        /\ \A v \in Closers : closer'[v] = IF v = w THEN "clear" ELSE closer[v]
    BY <1>0, <1>c, <1>1 DEF CloseBegins
  <2>2. ~ TaskIn(Opening) /\ ~ TaskIn(Opened)
    BY <1>1, <1>h DEF OpenAlone, CloseBegins, TaskIn
  <2> QED
    BY <1>1, <2>1, <2>2
       DEF CloseBegins, OpenAlone, LinkHeld, ClearedFirst, Announced
<1>2. CASE Clears(w)
  <2>1. /\ Sole' /\ \A S : TaskIn(S)' <=> TaskIn(S)
        /\ \A v \in Closers : closer'[v] = IF v = w THEN "close" ELSE closer[v]
    BY <1>0, <1>c, <1>2 DEF Clears
  <2>2. ~ TaskIn(Opening) /\ ~ TaskIn(Opened)
    BY <1>2, <1>o, <1>h DEF Clears, In, TaskIn
  <2> QED
    BY <1>2, <2>1, <2>2 DEF Clears, OpenAlone, LinkHeld, ClearedFirst, Announced
<1>3. CASE Closes(w)
  <2>1. /\ Sole' /\ \A S : TaskIn(S)' <=> TaskIn(S)
        /\ \A v \in Closers : closer'[v] = IF v = w THEN "delete" ELSE closer[v]
    BY <1>0, <1>c, <1>3 DEF Closes
  <2>2. ~ TaskIn(Opening) /\ ~ TaskIn(Opened) /\ ~magic
    BY <1>3, <1>o, <1>h DEF Closes, In, TaskIn, ClearedFirst
  <2>3. \A f \in Fds : owner'[f] # "link"
    BY <1>3 DEF Closes, CloseId, LinkHeld
  <2> QED
    BY <1>3, <2>1, <2>2, <2>3
       DEF Closes, OpenAlone, LinkHeld, ClearedFirst, Announced
<1>4. CASE Deletes(w)
  <2>1. \A v \in Closers : closer'[v] = IF v = w THEN "idle" ELSE closer[v]
    BY <1>c, <1>4 DEF Deletes
  <2>2. ~magic /\ \A f \in Fds : owner[f] # "link"
    BY <1>4 DEF Deletes, In, ClearedFirst, LinkHeld
  <2>3. Tasks' = Tasks /\ \A u \in Tasks : conn'[u] = IF u = handle THEN "gone" ELSE conn[u]
    BY <1>4, DeletedTask DEF Deletes
  <2>4. Live' = {}
    BY <2>3 DEF Live, Sole
  <2> QED
    BY <1>4, <2>1, <2>2, <2>4
       DEF Deletes, Sole, OpenAlone, LinkHeld, ClearedFirst, Announced, TaskIn
<1> QED
  BY <1>1, <1>2, <1>3, <1>4 DEF TcpClose

LEMMA NextIInv ==
  ASSUME IInv, [Next]_vars
  PROVE  IInv'
<1>1. CASE UNCHANGED vars
  <2>1. Ranges'
    BY <1>1 DEF vars, IInv, Ranges, Tasks
  <2>2. OneLink => OneLink'
    BY <1>1, TaskStays
       DEF vars, OneLink, OpenAlone, LinkHeld, ClearedFirst, Announced
  <2> QED
    BY <2>1, <2>2 DEF IInv
<1>2. CASE Next
  <2>1. Ranges'
    BY <1>2, NextRanges DEF IInv
  <2>2. Patient => OneLink'
    BY <1>2, StartOneLink, WorldOneLink, SocketOneLink, TaskOneLink, ExitOneLink,
       CloserOneLink DEF IInv, Next, TcpTask
  <2> QED
    BY <2>1, <2>2 DEF IInv
<1> QED
  BY <1>1, <1>2

\* The inductive invariant, with either kind of host.
THEOREM TcpInductive == Spec => []IInv
<1> QED
  BY InitIInv, NextIInv, PTL DEF Spec

-----------------------------------------------------------------------------
(* What follows.                                                           *)

\* Every value in its range, and with a patient host never two connection
\* tasks: CIPSTART has one handle for all of them.
THEOREM TypeCorrect == Spec => []TypeOK
<1>1. IInv => TypeOK
  BY DEF IInv, OneLink, Sole, TypeOK
<1> QED
  BY <1>1, TcpInductive, PTL

\* While the magic number is set, the descriptor of the record is open and
\* this link's, and the task of the handle lives and receives on it.
THEOREM SendersSafe ==
  ASSUME Patient
  PROVE  Spec => []MagicMeansOpen
<1>1. IInv => MagicMeansOpen
  BY DEF IInv, OneLink, Announced, TaskIn, Receiving, MagicMeansOpen
<1> QED
  BY <1>1, TcpInductive, PTL

\* A link that has gone leaves no open socket, however the two closers and
\* the task overlapped.
THEOREM LinkCloses ==
  ASSUME Patient
  PROVE  Spec => []NothingLeaks
<1>1. IInv => NothingLeaks
  BY DEF IInv, OneLink, LinkHeld, TaskIn, NothingLeaks, Quiet
<1> QED
  BY <1>1, TcpInductive, PTL

\* vTaskDelete of the shared handle, called by the exit of a task, deletes
\* that task.
THEOREM ExitDeletesItself ==
  ASSUME Patient
  PROVE  Spec => []NoRunaway
<1>1. IInv => NoRunaway
  BY DEF IInv, OneLink, NoRunaway
<1> QED
  BY <1>1, TcpInductive, PTL

-----------------------------------------------------------------------------
(* The contract of the link, with either kind of host.  While a connection *)
(* is being made it allows any step, so that only the others count.        *)

LEMMA NoTaskDials ==
  ASSUME Ranges, ~ Dialing, NEW t \in Tasks, TcpTask(t)
  PROVE  ~ Dialing' /\ (magic' => magic)
<1>1. \A u \in Tasks : conn[u] \notin Opening
  BY DEF Dialing, Opening
<1>2. ~ Socket(t) /\ ~ Connect(t) /\ ~ Announce(t)
  BY <1>1 DEF Socket, Connect, Announce, At, Opening
<1>3. CASE Delete(t)
  <2>1. Tasks' = Tasks /\ \A u \in Tasks : conn'[u] \in {"gone", conn[u]}
    BY <1>3, ExitedTask DEF Delete
  <2> QED BY <1>1, <1>3, <2>1 DEF Dialing, Delete, Opening
<1>4. CASE Check(t) \/ Recv(t) \/ Fail(t) \/ Close(t)
  <2>1. (magic' => magic) /\ \E x \in {"check", "recv", "fail", "close", "delete"} : GoTo(t, x)
    BY <1>4 DEF Check, Recv, Fail, Close
  <2>2. PICK x \in {"check", "recv", "fail", "close", "delete"} : GoTo(t, x)
    BY <2>1
  <2>3. Tasks' = Tasks /\ conn'[t] = x /\ \A u \in Tasks \ {t} : conn'[u] = conn[u]
    BY <2>2, Moved DEF TaskPcs
  <2>4. x \notin Opening
    BY <2>2 DEF Opening
  <2>5. \A u \in Tasks : conn'[u] \notin Opening
    BY <1>1, <2>3, <2>4
  <2> QED BY <2>1, <2>3, <2>5 DEF Dialing, Opening
<1> QED BY <1>2, <1>3, <1>4 DEF TcpTask

LEMMA NoCloserDials ==
  ASSUME Ranges, ~ Dialing, NEW w \in Closers, CloseBegins(w) \/ TcpClose(w)
  PROVE  ~ Dialing' /\ (magic' => magic)
<1>1. CASE Deletes(w)
  <2>1. Tasks' = Tasks /\ \A u \in Tasks : conn'[u] \in {"gone", conn[u]}
    BY <1>1, DeletedTask DEF Deletes
  <2> QED BY <1>1, <2>1 DEF Dialing, Deletes
<1>2. CASE CloseBegins(w) \/ Clears(w) \/ Closes(w)
  BY <1>2 DEF CloseBegins, Clears, Closes, Dialing, Tasks
<1> QED BY <1>1, <1>2 DEF TcpClose

LEMMA StatusStep ==
  ASSUME Ranges, [Next]_vars PROVE [Status!Next]_(Status!statusVars)
<1>1. magic \in BOOLEAN /\ magic' \in BOOLEAN
  BY NextRanges DEF Ranges, vars
<1>2. Dialing \in BOOLEAN /\ Dialing' \in BOOLEAN
  BY DEF Dialing
<1>3. CASE Dialing
  BY <1>1, <1>2, <1>3 DEF Status!Next, Status!Verdict
<1>4. CASE ~ Dialing /\ ~ Dialing' /\ (magic' => magic)
  <2>1. CASE magic' = magic
    BY <1>2, <1>4, <2>1 DEF Status!statusVars
  <2>2. CASE magic' # magic
    BY <1>1, <1>2, <1>4, <2>2 DEF Status!Next, Status!Drop
  <2> QED BY <2>1, <2>2
<1>5. ASSUME Start PROVE magic' = magic /\ ~ magic /\ (Dialing' \/ conn' = conn)
  <2>1. CASE Create
    <3>1. conn'[Len(conn) + 1] = "socket" /\ Len(conn) + 1 \in Tasks'
      BY <2>1, AddedTask DEF Create
    <3> QED BY <1>5, <3>1 DEF Start, Dialing
  <2>2. CASE UNCHANGED <<conn, handle>>
    BY <1>5, <2>2 DEF Start
  <2> QED BY <1>5, <2>1, <2>2 DEF Start
<1>6. CASE ~ Dialing /\ Start
  <2>1. CASE Dialing'
    BY <1>2, <1>5, <1>6, <2>1 DEF Status!Next, Status!Dial
  <2>2. CASE ~ Dialing'
    BY <1>4, <1>5, <1>6, <2>2
  <2> QED BY <2>1, <2>2
<1>7. CASE ~ Dialing /\ (PeerCloses \/ ForeignSocket \/ UNCHANGED vars)
  <2>1. conn' = conn /\ magic' = magic
    BY <1>7 DEF PeerCloses, ForeignSocket, vars
  <2>2. ~ Dialing'
    BY <1>7, <2>1 DEF Dialing, Tasks
  <2> QED BY <1>4, <1>7, <2>1, <2>2
<1> QED BY <1>3, <1>4, <1>6, <1>7, NoTaskDials, NoCloserDials DEF Next

\* All tasks of the link together, whatever the host does, keep to the contract
\* on which AppUart is built.
THEOREM StatusImplemented == Spec => ImplementsStatus
<1>1. Init => Status!Init
  BY DEF Init, Status!Init, Dialing, Tasks
<1>2. IInv => Ranges
  BY DEF IInv
<1>3. Ranges /\ [Next]_vars => [Status!Next]_(Status!statusVars)
  BY StatusStep
<1> QED
  BY <1>1, <1>2, <1>3, TcpInductive, PTL DEF Spec, ImplementsStatus, Status!Spec
=============================================================================
