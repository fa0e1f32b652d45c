------------------------------- MODULE TcpLink ------------------------------
(***************************************************************************)
(* The TCP link of the AT interface: AT+CIPSTART creates app_tcp_task,     *)
(* which connects and receives; AT+CIPCLOSE and the Wi-Fi callback         *)
(* atwificbfunc close the link under it.  The three share                  *)
(* deviceCommMsg.commTcp and tcpTaskHandle without a lock: the magic       *)
(* number alone tells who closes the socket and deletes the task.          *)
(***************************************************************************)
EXTENDS Integers, Sequences

CONSTANTS
  Fds,       \* socket descriptors of the TCP/IP stack
  MaxTasks,  \* bound on the connection tasks created, for model checking
  Foreign,   \* another part of the firmware opens sockets too
  Patient    \* the host opens a link only when the last one has gone entirely

ASSUME TcpLinkAssumption ==
  /\ Fds \subseteq Nat /\ 0 \in Fds
  /\ MaxTasks \in Nat
  /\ Foreign \in BOOLEAN /\ Patient \in BOOLEAN

VARIABLES
  magic,   \* commTcp.magic = DEV_MAGIC
  id,      \* commTcp.id
  handle,  \* tcpTaskHandle, 0 before the first task
  conn,    \* program counter of each app_tcp_task created
  owner,   \* who holds a descriptor: this link, another part, nobody
  peer,    \* the peer has closed the connection
  closer,  \* program counter of app_tcp_close in each task that calls it
  runaway  \* vTaskDelete returned to a connection task

vars == <<magic, id, handle, conn, owner, peer, closer, runaway>>

\* app_uart_rx_task runs AT+CIPCLOSE, the Wi-Fi task runs atwificbfunc.
Closers == {"rx", "wifi"}

Tasks == DOMAIN conn
Live  == {t \in Tasks : conn[t] # "gone"}

Init ==
  /\ magic = FALSE /\ id = 0 /\ handle = 0 /\ conn = << >>
  /\ owner = [f \in Fds |-> "free"]
  /\ peer = FALSE
  /\ closer = [w \in Closers |-> "idle"]
  /\ runaway = FALSE

\* close(comm_tcp->id): the descriptor is free again, whoever holds it now.
CloseId == owner' = [f \in Fds |-> IF f = id THEN "free" ELSE owner[f]]

\* vTaskDelete(tcpTaskHandle), for every task but the caller; a handle whose
\* task has gone deletes nothing.
Deleted == [t \in Tasks |-> IF t = handle THEN "gone" ELSE conn[t]]

-----------------------------------------------------------------------------
(* AT+CIPSTART in app_uart_rx_task.                                        *)

\* Nothing of a link is left: no task, and nobody in app_tcp_close.
Quiet == Live = {} /\ \A w \in Closers : closer[w] = "idle"

\* The code asks for the magic number alone, which says nothing of a task that
\* is still connecting or of a closer that is not through.  A patient host
\* waits for them.

\* Faulty: the handle of the new task is not stored.
CreateUnstored ==
  /\ conn' = Append(conn, "socket")
  /\ UNCHANGED handle
\* OS_TaskCreate stores the handle of the new task over the last one.
Create ==
  /\ conn' = Append(conn, "socket")
  /\ handle' = Len(conn) + 1

\* memset of commTcp, then the task; without memory there is no task.
Start ==
  /\ closer["rx"] = "idle" /\ ~magic /\ (Patient => Quiet)
  /\ Len(conn) < MaxTasks
  /\ id' = 0
  /\ Create \/ UNCHANGED <<conn, handle>>
  /\ UNCHANGED <<magic, owner, peer, closer, runaway>>

-----------------------------------------------------------------------------
(* app_tcp_task.                                                           *)

At(t, pc)   == conn[t] = pc
GoTo(t, pc) == conn' = [conn EXCEPT ![t] = pc]

Free == {f \in Fds : owner[f] = "free"}
Lowest == CHOOSE f \in Free : \A g \in Free : f <= g

Socket(t) ==
  /\ At(t, "socket")
  /\ IF Free = {}
     THEN id' = -1 /\ GoTo(t, "fail") /\ UNCHANGED owner
     ELSE id' = Lowest /\ GoTo(t, "connect") /\ owner' = [owner EXCEPT ![Lowest] = "link"]
  /\ UNCHANGED <<magic, handle, peer, closer, runaway>>

Connect(t) ==
  /\ At(t, "connect")
  /\ GoTo(t, "announce") \/ GoTo(t, "fail")
  /\ peer' = FALSE
  /\ UNCHANGED <<magic, id, handle, owner, closer, runaway>>

\* magic = DEV_MAGIC and "OK" to the host.
Announce(t) ==
  /\ At(t, "announce")
  /\ magic' = TRUE
  /\ GoTo(t, "check")
  /\ UNCHANGED <<id, handle, owner, peer, closer, runaway>>

\* The top of the receive loop.
Check(t) ==
  /\ At(t, "check")
  /\ GoTo(t, IF magic THEN "recv" ELSE "fail")
  /\ UNCHANGED <<magic, id, handle, owner, peer, closer, runaway>>

\* Faulty: the end of the connection is taken for a timeout.
RecvIgnoresZero(t) ==
  /\ At(t, "recv")
  /\ GoTo(t, "check")
  /\ UNCHANGED <<magic, id, handle, owner, peer, closer, runaway>>

\* Faulty: the task connects again when the peer has closed.
RecvReconnects(t) ==
  /\ At(t, "recv")
  /\ GoTo(t, IF peer /\ id \in Fds /\ owner[id] = "link" THEN "connect" ELSE "check")
  /\ UNCHANGED <<magic, id, handle, owner, peer, closer, runaway>>

\* recv returns 0 when the peer has closed; data, a timeout or an error go
\* round the loop again.
Recv(t) ==
  /\ At(t, "recv")
  /\ GoTo(t, IF peer /\ id \in Fds /\ owner[id] = "link" THEN "fail" ELSE "check")
  /\ UNCHANGED <<magic, id, handle, owner, peer, closer, runaway>>

\* exit: magic = 0; close(id); vTaskDelete(tcpTaskHandle).
Fail(t) ==
  /\ At(t, "fail")
  /\ magic' = FALSE
  /\ GoTo(t, "close")
  /\ UNCHANGED <<id, handle, owner, peer, closer, runaway>>

\* Faulty: the task ends without closing its socket.
CloseNot(t) ==
  /\ At(t, "close")
  /\ GoTo(t, "delete")
  /\ UNCHANGED <<magic, id, handle, owner, peer, closer, runaway>>

Close(t) ==
  /\ At(t, "close")
  /\ CloseId
  /\ GoTo(t, "delete")
  /\ UNCHANGED <<magic, id, handle, peer, closer, runaway>>

Delete(t) ==
  /\ At(t, "delete")
  /\ conn' = [Deleted EXCEPT ![t] = "gone"]
  /\ runaway' = (runaway \/ handle # t)
  /\ UNCHANGED <<magic, id, handle, owner, peer, closer>>

TcpTask(t) ==
  \/ Socket(t) \/ Connect(t) \/ Announce(t) \/ Check(t) \/ Recv(t)
  \/ Fail(t) \/ Close(t) \/ Delete(t)

-----------------------------------------------------------------------------
(* app_tcp_close, called by AT+CIPCLOSE and, when the Wi-Fi link is lost,  *)
(* by atwificbfunc.  Both may pass the test of the magic number before     *)
(* either clears it.                                                       *)

In(w, pc) == closer[w] = pc
Goes(w, pc) == closer' = [closer EXCEPT ![w] = pc]

CloseBegins(w) ==
  /\ In(w, "idle") /\ magic
  /\ Goes(w, "clear")
  /\ UNCHANGED <<magic, id, handle, conn, owner, peer, runaway>>

\* Faulty: the socket is closed before the magic number is cleared.
ClearsLate(w) ==
  /\ In(w, "clear")
  /\ Goes(w, "close")
  /\ UNCHANGED <<magic, id, handle, conn, owner, peer, runaway>>

Clears(w) ==
  /\ In(w, "clear")
  /\ magic' = FALSE
  /\ Goes(w, "close")
  /\ UNCHANGED <<id, handle, conn, owner, peer, runaway>>

Closes(w) ==
  /\ In(w, "close")
  /\ CloseId
  /\ Goes(w, "delete")
  /\ UNCHANGED <<magic, id, handle, conn, peer, runaway>>

\* AT+CIPCLOSE clears the magic number once more when app_tcp_close returns.
Deletes(w) ==
  /\ In(w, "delete")
  /\ conn' = Deleted
  /\ magic' = IF w = "rx" THEN FALSE ELSE magic
  /\ Goes(w, "idle")
  /\ UNCHANGED <<id, handle, owner, peer, runaway>>

TcpClose(w) == Clears(w) \/ Closes(w) \/ Deletes(w)

-----------------------------------------------------------------------------
(* The network and the rest of the firmware.                               *)

PeerCloses ==
  /\ magic /\ ~peer
  /\ peer' = TRUE
  /\ UNCHANGED <<magic, id, handle, conn, owner, closer, runaway>>

ForeignSocket ==
  /\ Foreign
  /\ \E f \in Fds :
       \/ /\ f \in Free /\ \A g \in Free : f <= g
          /\ owner' = [owner EXCEPT ![f] = "other"]
       \/ /\ owner[f] = "other"
          /\ owner' = [owner EXCEPT ![f] = "free"]
  /\ UNCHANGED <<magic, id, handle, conn, peer, closer, runaway>>

Next ==
  \/ Start \/ PeerCloses \/ ForeignSocket
  \/ \E t \in Tasks : TcpTask(t)
  \/ \E w \in Closers : CloseBegins(w) \/ TcpClose(w)

Spec == Init /\ [][Next]_vars

\* Every task runs on once it has something to do; connect returns and recv
\* times out (SO_RCVTIMEO).  Nobody has to open or close a link.
FairSpec ==
  /\ Spec
  /\ \A t \in 1 .. MaxTasks : WF_vars(t \in Tasks /\ TcpTask(t))
  /\ \A w \in Closers : WF_vars(TcpClose(w))

-----------------------------------------------------------------------------
(* Properties.                                                             *)

TaskPcs == {"socket", "connect", "announce", "check", "recv", "fail", "close",
            "delete", "gone"}

Ranges ==
  /\ magic \in BOOLEAN /\ peer \in BOOLEAN /\ runaway \in BOOLEAN
  /\ id \in Fds \union {-1}
  /\ conn \in Seq(TaskPcs) /\ Len(conn) <= MaxTasks
  /\ handle \in Tasks \union {0}
  /\ owner \in [Fds -> {"free", "link", "other"}]
  /\ closer \in [Closers -> {"idle", "clear", "close", "delete"}]

\* Every value in its range; a patient host never meets two connection tasks.
TypeOK ==
  /\ Ranges
  /\ Patient => \A t, u \in Live : t = u

\* What a sender may rely on: while the magic number is set, the descriptor
\* is open and this link's own, and the task that receives on it lives and
\* is the one the handle names.  app_tcp_close and the exit of the task clear
\* the number before they close, in all their interleavings.
MagicMeansOpen ==
  magic => /\ id \in Fds /\ owner[id] = "link"
           /\ handle \in Live /\ conn[handle] \in {"check", "recv", "fail"}

\* However the two closers and the task overlap, a link that has gone leaves
\* no open socket behind.
NothingLeaks == Quiet => \A f \in Fds : owner[f] # "link"

\* The exit of a task deletes that task: vTaskDelete of the shared handle
\* never returns to it.
NoRunaway == ~runaway

\* A link that is being closed, by the module or by the peer, goes: the
\* magic number is cleared and the task, the socket and the closers finish,
\* so that the host can open the next one.
CloseCompletes == ((\E w \in Closers : closer[w] # "idle") \/ (peer /\ magic)) ~> Quiet

\* The three tasks together keep to LinkStatus, on which AppUart is built: the
\* magic number is set only for a connection that was being made, and none is
\* being made while it is set, with whatever closers and other connections.
Dialing == \E t \in Tasks : conn[t] \in {"socket", "connect", "announce"}

Status == INSTANCE LinkStatus WITH up <- magic, dialing <- Dialing

ImplementsStatus == Status!Spec
=============================================================================
