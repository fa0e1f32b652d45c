------------------------------ MODULE SockMgr -------------------------------
(***************************************************************************)
(* The sockets of the console commands, atcmd_tcpip.c.  The CLI task opens *)
(* sockets, enters them into one of two lists sorted by descriptor and     *)
(* into the set g_r_set, and marks those to be closed in g_clr_set.        *)
(* recv_task selects on g_r_set, accepts, receives, and closes what is     *)
(* marked; it alone takes sockets off the lists.  When nothing is left to  *)
(* watch the CLI task stops it and waits for its end.                      *)
(*                                                                         *)
(* The CLI task has the higher priority, so what it does between two       *)
(* blocking calls is one step.  A step of recv_task ends where it looks at *)
(* shared data next.  The single list operation and the single FD_SET are  *)
(* taken as indivisible.                                                   *)
(***************************************************************************)
EXTENDS Integers, Sequences

CONSTANTS
  Fds,          \* descriptors of the TCP/IP stack
  Ports,        \* local ports to listen on
  HeadAbove,    \* what the build has behind the list heads, read as a
                \* descriptor, is above every descriptor
  Overlap,      \* a command may touch the lists within a round of recv_task
  Faults        \* memory may run out in recv_task

ASSUME SockMgrAssumption ==
  /\ Fds \subseteq Nat
  /\ Ports \subseteq Nat \ {0}
  /\ {HeadAbove, Overlap, Faults} \subseteq BOOLEAN

VARIABLES
  open,      \* descriptors in use
  listens,   \* g_listen_socket
  normals,   \* g_normal_socket
  port,      \* the port field of a listening item
  watched,   \* g_r_set
  marked,    \* g_clr_set
  max_sd,
  st,        \* recv_task_st
  inst,      \* recv_task_inst # NULL
  pc,        \* where recv_task is
  r_set,     \* its copy of g_r_set, then what select made of it
  item,      \* the loop variable of its walks
  closeitem, \* the item it closes at the next step of a walk
  cli,       \* the CLI task: what it waits for, with which new socket
  net,       \* what lies ready at a socket
  asked      \* ghost: a command has asked to close this socket

lists == <<listens, normals, port>>
sets  == <<watched, marked, max_sd>>
task  == <<st, inst>>
round == <<pc, r_set, item, closeitem>>
world == <<open, net, asked>>
vars  == <<lists, sets, task, round, world, cli>>

\* The list head, and no item at all.
End == -1

Members(list) == {list[i] : i \in DOMAIN list}
Listed == Members(listens) \union Members(normals)
First(list) == IF list = << >> THEN End ELSE list[1]
After(list, f) ==
  LET i == CHOOSE i \in DOMAIN list : list[i] = f
  IN  IF i = Len(list) THEN End ELSE list[i + 1]
\* list_q_remove; nothing happens to a list that does not hold f.
Without(list, f) ==
  IF f \notin Members(list) THEN list
  ELSE LET i == CHOOSE i \in DOMAIN list : list[i] = f
       IN  SubSeq(list, 1, i - 1) \o SubSeq(list, i + 1, Len(list))

\* The walk of an insertion ends at the first item not below f, or behind the
\* last.
Stop(list, f) ==
  CHOOSE i \in 1 .. Len(list) + 1 : /\ i <= Len(list) => list[i] >= f
                                    /\ \A j \in 1 .. i - 1 : list[j] < f
PutAt(list, f, at) == SubSeq(list, 1, at - 1) \o <<f>> \o SubSeq(list, at, Len(list))
\* Faulty: without the step back.
InsertBehind(list, f) ==
  PutAt(list, f, IF Stop(list, f) > Len(list) THEN Len(list) + 1 ELSE Stop(list, f) + 1)
\* update_new_sd, update_new_listen_sd: if the item where the walk ends is
\* above f, or is the list head and happens to look so, step back; then insert
\* behind.
Insert(list, f) ==
  LET stop == Stop(list, f)
  IN  IF stop > Len(list)
      THEN PutAt(list, f, IF HeadAbove THEN stop ELSE 1)
      ELSE PutAt(list, f, IF list[stop] = f THEN stop + 1 ELSE stop)

\* The last item of a list, taken for its maximum.
Last(list) == IF list = << >> THEN End ELSE list[Len(list)]
Larger(a, b) == IF a < b THEN b ELSE a
\* Faulty: the listening sockets are forgotten.
NormalMax == Larger(max_sd, Last(normals))
\* update_max_sd.
UpdatedMax == Larger(Larger(max_sd, Last(normals)), Last(listens))

\* The stack gives out the lowest free descriptor.
Lowest(S) == CHOOSE f \in S : \A g \in S : f <= g
Quiet(S) == [f \in Fds |-> IF f \in S THEN "quiet" ELSE net[f]]
\* What closing leaves of the port fields.
Unbound(S) == [f \in Fds |-> IF f \in S THEN 0 ELSE port[f]]
\* What select reports: a reader would not block.
Readable(S) == {f \in S \intersect open : f <= max_sd /\ net[f] # "quiet"}

Init ==
  /\ open = {} /\ net = [f \in Fds |-> "quiet"] /\ asked = {}
  /\ listens = << >> /\ normals = << >> /\ port = [f \in Fds |-> 0]
  /\ watched = {} /\ marked = {} /\ max_sd = -1
  /\ st = "stop" /\ inst = FALSE
  /\ pc = "off" /\ r_set = {} /\ item = End /\ closeitem = End
  /\ cli = [at |-> "prompt", fd |-> End]

-----------------------------------------------------------------------------
(* The CLI task.                                                           *)

\* recv_task is between two rounds.
Asleep == pc \in {"off", "select"}
MayCommand == Overlap \/ Asleep

Goes(at, f) == cli' = [at |-> at, fd |-> f]

\* socket(): AT+TCPCONNECT and UDPCREATE want a client, TCPLISTEN a server.
Socket ==
  /\ cli.at = "prompt" /\ MayCommand
  /\ open # Fds
  /\ LET f == Lowest(Fds \ open) IN
       /\ open' = open \union {f} /\ net' = Quiet({f})
       /\ \E at \in {"client", "server"} : Goes(at, f)
  /\ UNCHANGED <<lists, sets, task, round, asked>>

\* connect, bind, listen, malloc or the creation of recv_task fails: the
\* socket is closed and, if it has been entered, taken out again.
OpenFails ==
  /\ cli.at \in {"client", "server"}
  /\ open' = open \ {cli.fd}
  /\ Goes("prompt", End)
  /\ UNCHANGED <<lists, sets, task, round, net, asked>>

\* Faulty: recv_task is never created again once it has run.
WatchOnce ==
  /\ watched' = watched \union {cli.fd}
  /\ inst' = TRUE
  /\ pc' = IF inst \/ max_sd # -1 THEN pc ELSE "start"
  /\ Goes("prompt", End)
  /\ UNCHANGED <<marked, max_sd, st, r_set, item, closeitem, world>>
\* FD_SET, and recv_task is created if there is none.
Watch ==
  /\ watched' = watched \union {cli.fd}
  /\ inst' = TRUE
  /\ pc' = IF inst THEN pc ELSE "start"
  /\ Goes("prompt", End)
  /\ UNCHANGED <<marked, max_sd, st, r_set, item, closeitem, world>>
AddClient ==
  /\ cli.at = "client" /\ MayCommand
  /\ normals' = Insert(normals, cli.fd)
  /\ Watch
  /\ UNCHANGED <<listens, port>>

\* bind refuses a port that a socket listens on.
AddServer ==
  /\ cli.at = "server" /\ MayCommand
  /\ \E p \in Ports \ {port[f] : f \in Members(listens)} :
       port' = [port EXCEPT ![cli.fd] = p]
  /\ listens' = Insert(listens, cli.fd)
  /\ Watch
  /\ UNCHANGED normals

\* Faulty: the socket is still watched.
DisconnectWatched(f) ==
  /\ cli.at = "prompt" /\ MayCommand
  /\ f \in watched
  /\ LET found == {f} \intersect Members(normals) IN
       /\ marked' = marked \union found
       /\ asked' = asked \union found
  /\ Goes("delay", End)
  /\ UNCHANGED <<lists, watched, max_sd, task, round, open, net>>
\* AT+TCPDISCONNECT, UDPCLOSE.  mark_rm_sd knows the sockets that do not
\* listen; of the others only the bit in g_r_set goes.
Disconnect(f) ==
  /\ cli.at = "prompt" /\ MayCommand
  /\ f \in watched
  /\ watched' = watched \ {f}
  /\ LET found == {f} \intersect Members(normals) IN
       /\ marked' = marked \union found
       /\ asked' = asked \union found
  /\ Goes("delay", End)
  /\ UNCHANGED <<lists, max_sd, task, round, open, net>>
\* AT+TCPUNLISTEN.  The search by port stops at the first match.
Unlisten(p) ==
  /\ cli.at = "prompt" /\ MayCommand
  /\ \E f \in Members(listens) :
       /\ port[f] = p
       /\ marked' = marked \union {f}
       /\ asked' = asked \union {f}
       /\ watched' = watched \ {f}
  /\ Goes("delay", End)
  /\ UNCHANGED <<lists, max_sd, task, round, open, net>>

\* Faulty: it tells a recv_task to stop that has ended.
CheckStops ==
  /\ cli.at = "delay" /\ pc # "start"
  /\ IF watched = {}
     THEN st' = "stop" /\ Goes("wait", End)
     ELSE UNCHANGED st /\ Goes("prompt", End)
  /\ UNCHANGED <<lists, sets, inst, round, world>>

\* chk_socket_task, two seconds later: a recv_task created by the command
\* before has started by now.
CheckTask ==
  /\ cli.at = "delay" /\ pc # "start"
  /\ IF watched = {}
     THEN /\ st' = IF st = "running" THEN "stop" ELSE st
          /\ Goes("wait", End)
     ELSE UNCHANGED st /\ Goes("prompt", End)
  /\ UNCHANGED <<lists, sets, inst, round, world>>
TaskEnded ==
  /\ cli.at = "wait" /\ st = "term"
  /\ st' = "stop"
  /\ Goes("prompt", End)
  /\ UNCHANGED <<lists, sets, inst, round, world>>

-----------------------------------------------------------------------------
(* recv_task.                                                              *)

At(l) == pc = l
GoTo(l) == pc' = l

Begin ==
  /\ At("start") /\ GoTo("top")
  /\ st' = "running"
  /\ UNCHANGED <<lists, sets, inst, r_set, item, closeitem, world, cli>>

\* Faulty: the marks stay.
TopKeepsMarks ==
  /\ At("top")
  /\ IF st = "running"
     THEN GoTo("copy") /\ max_sd' = UpdatedMax
     ELSE GoTo("term") /\ UNCHANGED max_sd
  /\ UNCHANGED <<lists, watched, marked, task, r_set, item, closeitem, world, cli>>
\* The condition of the loop, FD_ZERO of the marks, update_max_sd.
Top ==
  /\ At("top")
  /\ IF st = "running"
     THEN /\ GoTo("copy")
          /\ marked' = {} /\ max_sd' = UpdatedMax
     ELSE GoTo("term") /\ UNCHANGED <<marked, max_sd>>
  /\ UNCHANGED <<lists, watched, task, r_set, item, closeitem, world, cli>>
Walk(ready) ==
  /\ r_set' = ready
  /\ GoTo("listen") /\ item' = First(listens) /\ closeitem' = End

\* memcpy of g_r_set; select returns at once if something is ready, -1 if its
\* semaphore cannot be had, and sleeps otherwise.
Select ==
  /\ At("copy")
  /\ \/ Readable(watched) # {} /\ Walk(Readable(watched))
     \/ /\ Readable(watched) = {}
        /\ r_set' = watched /\ GoTo("select") /\ UNCHANGED <<item, closeitem>>
     \/ Faults /\ GoTo("term") /\ UNCHANGED <<r_set, item, closeitem>>
  /\ UNCHANGED <<lists, sets, task, world, cli>>

Wake ==
  /\ At("select")
  /\ Readable(r_set) # {} /\ Walk(Readable(r_set))
  /\ UNCHANGED <<lists, sets, task, world, cli>>

Timeout ==
  /\ At("select") /\ GoTo("expire listens")
  /\ item' = First(listens) /\ r_set' = {}
  /\ UNCHANGED <<lists, sets, task, closeitem, world, cli>>

\* close of some sockets; the list items are the caller's business.
Closes(S) ==
  /\ open' = open \ S /\ asked' = asked \ S
  /\ net' = Quiet(S) /\ port' = Unbound(S)

\* select has timed out: what is marked is closed, in one list, then in the
\* other.
ExpireListen ==
  /\ At("expire listens") /\ item # End
  /\ IF item \in marked
     THEN listens' = Without(listens, item) /\ Closes({item})
     ELSE UNCHANGED <<listens, port, world>>
  /\ item' = After(listens, item)
  /\ UNCHANGED <<normals, sets, task, pc, r_set, closeitem, cli>>
ExpireListensEnd ==
  /\ At("expire listens") /\ item = End
  /\ GoTo("expire normals") /\ item' = First(normals)
  /\ UNCHANGED <<lists, sets, task, r_set, closeitem, world, cli>>
\* Faulty: the other list is not looked at.
ExpireOnlyListens ==
  /\ At("expire normals") /\ item # End
  /\ item' = After(normals, item)
  /\ UNCHANGED <<lists, sets, task, pc, r_set, closeitem, world, cli>>
ExpireNormal ==
  /\ At("expire normals") /\ item # End
  /\ IF item \in marked
     THEN normals' = Without(normals, item) /\ Closes({item})
     ELSE UNCHANGED <<normals, port, world>>
  /\ item' = After(normals, item)
  /\ UNCHANGED <<listens, sets, task, pc, r_set, closeitem, cli>>
ExpireEnd ==
  /\ At("expire normals") /\ item = End
  /\ GoTo("top")
  /\ UNCHANGED <<lists, sets, task, r_set, item, closeitem, world, cli>>

\* Both walks close an item one step late, when they have left it.
StillOpen == open \ {closeitem}

\* One step of the walk over the listening sockets.  An accepted connection
\* is entered into the other list; without memory for its item it stays open
\* and unknown.
ListenClose ==
  /\ item \in marked
  /\ closeitem' = item /\ open' = StillOpen /\ net' = Quiet({closeitem})
  /\ UNCHANGED <<normals, watched>>
ListenAccept ==
  /\ item \in r_set \ marked
  /\ closeitem' = End
  /\ IF StillOpen = Fds
     THEN /\ open' = StillOpen /\ net' = Quiet({item, closeitem})
          /\ UNCHANGED <<normals, watched>>
     ELSE LET fork == Lowest(Fds \ StillOpen) IN
          /\ open' = StillOpen \union {fork} /\ net' = Quiet({item, fork, closeitem})
          /\ \/ normals' = Insert(normals, fork) /\ watched' = watched \union {fork}
             \/ Faults /\ UNCHANGED <<normals, watched>>
ListenSkip ==
  /\ item \notin r_set \union marked
  /\ closeitem' = End /\ open' = StillOpen /\ net' = Quiet({closeitem})
  /\ UNCHANGED <<normals, watched>>

ListenItem ==
  /\ At("listen") /\ item # End
  /\ ListenClose \/ ListenAccept \/ ListenSkip
  /\ listens' = Without(listens, closeitem) /\ item' = After(listens, item)
  /\ asked' = asked \ {closeitem} /\ port' = Unbound({closeitem})
  /\ UNCHANGED <<marked, max_sd, task, pc, r_set, cli>>

ListenEnd ==
  /\ At("listen") /\ item = End
  /\ listens' = Without(listens, closeitem) /\ Closes({closeitem})
  /\ closeitem' = End
  /\ GoTo("normal") /\ item' = First(normals)
  /\ UNCHANGED <<normals, sets, task, r_set, cli>>

\* One step of the walk over the other sockets.
NormalItem ==
  /\ At("normal") /\ item # End
  /\ \/ item \in marked /\ closeitem' = item /\ item' = After(normals, item) /\ UNCHANGED pc
     \/ item \in r_set \ marked /\ GoTo("recv") /\ closeitem' = End /\ UNCHANGED item
     \/ /\ item \notin r_set \union marked
        /\ closeitem' = End /\ item' = After(normals, item) /\ UNCHANGED pc
  /\ normals' = Without(normals, closeitem) /\ Closes({closeitem})
  /\ UNCHANGED <<listens, sets, task, r_set, cli>>

\* recv returns less than a buffer, or fills it and is called again, or returns
\* 0 at the end of the connection.  It blocks while nothing lies ready.
RecvData ==
  /\ net[item] = "data"
  /\ GoTo("normal") /\ item' = After(normals, item)
  /\ net' = Quiet({item})
  /\ UNCHANGED <<watched, closeitem>>
RecvWhole ==
  /\ net[item] = "data"
  /\ net' = Quiet({item})
  /\ UNCHANGED <<watched, pc, item, closeitem>>
\* Faulty: the closed socket stays in g_r_set.
RecvEndWatched ==
  /\ net[item] = "gone"
  /\ closeitem' = item
  /\ GoTo("normal") /\ item' = After(normals, item)
  /\ UNCHANGED <<watched, net>>
RecvEnd ==
  /\ net[item] = "gone"
  /\ watched' = watched \ {item} /\ closeitem' = item
  /\ GoTo("normal") /\ item' = After(normals, item)
  /\ UNCHANGED net
Recv ==
  /\ At("recv")
  /\ RecvData \/ RecvWhole \/ RecvEnd
  /\ UNCHANGED <<lists, marked, max_sd, task, r_set, open, asked, cli>>

NormalEnd ==
  /\ At("normal") /\ item = End
  /\ normals' = Without(normals, closeitem) /\ Closes({closeitem})
  /\ closeitem' = End
  /\ GoTo("top") /\ r_set' = {}
  /\ UNCHANGED <<listens, sets, task, item, cli>>

\* TERMINATE: everything on the lists is closed.
Terminate ==
  /\ At("term") /\ GoTo("ending")
  /\ listens' = << >> /\ normals' = << >>
  /\ Closes(Listed)
  /\ watched' = {}
  /\ UNCHANGED <<marked, max_sd, task, r_set, item, closeitem, cli>>
Ended ==
  /\ At("ending") /\ GoTo("last")
  /\ st' = "term"
  /\ UNCHANGED <<lists, sets, inst, r_set, item, closeitem, world, cli>>
Forget ==
  /\ At("last") /\ GoTo("off")
  /\ inst' = FALSE
  /\ UNCHANGED <<lists, sets, st, r_set, item, closeitem, world, cli>>

RecvTask ==
  \/ Begin \/ Top \/ Select \/ Wake \/ Timeout
  \/ ExpireListen \/ ExpireListensEnd \/ ExpireNormal \/ ExpireEnd
  \/ ListenItem \/ ListenEnd \/ NormalItem \/ Recv \/ NormalEnd
  \/ Terminate \/ Ended \/ Forget

-----------------------------------------------------------------------------
(* The network: a connection request at a listening socket, data or the    *)
(* end of the connection at another.                                       *)
Arrives(f, what) ==
  /\ net[f] = "quiet"
  /\ net' = [net EXCEPT ![f] = what]
  /\ UNCHANGED <<lists, sets, task, round, open, asked, cli>>
Network ==
  \/ \E f \in Members(listens) : Arrives(f, "data")
  \/ \E f \in Members(normals), what \in {"data", "gone"} : Arrives(f, what)

\* A peer that recv_task is reading from sends on, and what it sends does not
\* fill the buffer.
SendsOn == At("recv") /\ \E what \in {"data", "gone"} : Arrives(item, what)
MessageEnds == Recv /\ pc' = "normal"

OpenReturns == OpenFails \/ AddClient \/ AddServer
CliWaits == CheckTask \/ TaskEnded

Next ==
  \/ Socket \/ OpenReturns \/ CliWaits
  \/ \E f \in Fds : Disconnect(f)
  \/ \E p \in Ports : Unlisten(p)
  \/ RecvTask \/ Network

Spec == Init /\ [][Next]_vars

\* recv_task runs when the CLI task sleeps, and select times out after ten
\* seconds; connect returns; OS_MsDelay ends.  No user has to type and no peer
\* to send, but a message that has filled a buffer has an end: recv_task waits
\* for it in recv, without a timeout, and does nothing else meanwhile.
FairSpec ==
  /\ Spec
  /\ WF_vars(RecvTask) /\ WF_vars(OpenReturns) /\ WF_vars(CliWaits)
  /\ SF_vars(SendsOn) /\ SF_vars(MessageEnds)

-----------------------------------------------------------------------------
(* Properties.                                                             *)

TaskPcs == {"off", "start", "top", "copy", "select", "expire listens",
            "expire normals", "listen", "normal", "recv", "term", "ending", "last"}
CliPcs == {"prompt", "client", "server", "delay", "wait"}

TypeOK ==
  /\ open \subseteq Fds /\ asked \subseteq Fds
  /\ net \in [Fds -> {"quiet", "data", "gone"}]
  /\ listens \in Seq(Fds) /\ normals \in Seq(Fds)
  /\ port \in [Fds -> Ports \union {0}]
  /\ watched \subseteq Fds /\ marked \subseteq Fds /\ r_set \subseteq Fds
  /\ {max_sd, item, closeitem} \subseteq Fds \union {End}
  /\ st \in {"term", "stop", "running"} /\ inst \in BOOLEAN
  /\ pc \in TaskPcs
  /\ cli \in [at : CliPcs, fd : Fds \union {End}]

Increasing(list) == \A i, j \in DOMAIN list : i < j => list[i] < list[j]

\* The lists are sorted by descriptor, without a doubled entry and without a
\* descriptor in both, across insertions by two tasks and removals in a walk.
Sorted ==
  /\ Increasing(listens) /\ Increasing(normals)
  /\ Members(listens) \intersect Members(normals) = {}

\* While recv_task sleeps in select, the stack was told of every descriptor
\* of its set: none lies above the maximum taken from the ends of the lists.
MaxCovers == At("select") => \A f \in r_set : f <= max_sd

\* select never sleeps on a descriptor that has been closed, whoever closed
\* it and whatever socket has the number now.
WatchedOpen == At("select") => r_set \subseteq open

\* What AT+TCPSEND and UDPSEND test before they send says what they want to
\* know: a descriptor in g_r_set is on a list, and so open and of this module.
WatchedListed == watched \subseteq Listed

\* A watched socket has a task that serves it: recv_task exists, and it has
\* not passed the point from where it goes to its end without another look.
Served ==
  watched # {} => inst /\ pc \notin {"off", "ending", "last"}

\* A round of recv_task closes a socket only if a command has asked for it
\* since it was opened or its peer has gone; only the end of the task takes
\* the rest.
OnlyAsked ==
  [][\A f \in Listed \ Listed' : f \in asked \/ net[f] = "gone" \/ At("term")]_vars

\* A socket that a command has marked goes.
CloseCompletes == \A f \in Fds : f \in asked ~> f \notin asked

\* Data or a connection request at a watched socket is taken, or the socket
\* goes.
DataTaken ==
  \A f \in Fds : (f \in watched /\ net[f] = "data") ~> (f \notin watched \/ net[f] # "data")

\* Every command comes back to the prompt, also one that waits for the end of
\* recv_task.
CommandReturns == cli.at # "prompt" ~> cli.at = "prompt"
=============================================================================
