------------------------------ MODULE WifiConn ------------------------------
(***************************************************************************)
(* The supervision of AT+CWJAP: app_uart_rx_task starts the timer          *)
(* cntTimeOut and asks the Wi-Fi library for a connection; the host gets   *)
(* its answer from whoever comes first, the callback atwificbfunc (OK) or  *)
(* connect_timeout_handler in the timer task of the kernel (FAIL).  The    *)
(* timer is stopped and started by messages to that task.                  *)
(*                                                                         *)
(* Time is left out: a timer that runs may run out at any moment.          *)
(***************************************************************************)
EXTENDS Integers, Sequences

CONSTANTS
  Limits,      \* time limits a host may ask for
  QueueLength  \* configTIMER_QUEUE_LENGTH

\* Two commands of AT+CWJAP and two of the callback may be in the queue at a time.
ASSUME WifiConnAssumption == Limits # {} /\ QueueLength \in Nat /\ QueueLength >= 4

VARIABLES
  (* app_uart_rx_task, and the host that waits for it. *)
  rx,      \* program counter of AT_ConnectApProcessing
  want,    \* timeOutNum of the last AT+CWJAP
  open,    \* the host waits for the answer to AT+CWJAP
  (* The timer. *)
  active,  \* cntTimeOut is in the list of active timers
  period,  \* xTimerPeriodInTicks
  queue,   \* xTimerQueue
  daemon,  \* program counter of the timer task
  (* The Wi-Fi library. *)
  link,    \* connection of the station
  cb       \* program counter of atwificbfunc in its task

vars == <<rx, want, open, active, period, queue, daemon, link, cb>>
rxVars == <<rx, want>>
timerVars == <<active, period>>

Init ==
  /\ rx = "idle" /\ want \in Limits /\ open = FALSE
  /\ active = FALSE /\ period \in Limits /\ queue = << >> /\ daemon = "wait"
  /\ link = "down" /\ cb = "none"

\* xTimerGenericCommand: a command that finds no room is lost, and nobody looks
\* at the result.
Post(command) ==
  queue' = IF Len(queue) < QueueLength THEN Append(queue, command) ELSE queue

-----------------------------------------------------------------------------
(* app_uart_rx_task has a lower priority than the timer task: it runs only *)
(* while that one waits, for a command or inside the handler of the timer. *)

\* Faulty: the timer task has the lower priority.
RxRunsAlways == TRUE

RxRuns == daemon # "wait" \/ queue = << >>

RxStep(from, to) == RxRuns /\ rx = from /\ rx' = to

\* AT+CWJAP of a host that waits for the answer to its last one.
ConnectAp ==
  /\ ~ open
  /\ RxStep("idle", "stop")
  /\ want' \in Limits
  /\ open' = TRUE
  /\ UNCHANGED <<timerVars, queue, daemon, link, cb>>

\* OS_TimerStop
TimerStop ==
  /\ RxStep("stop", "set")
  /\ Post("stop")
  /\ UNCHANGED <<want, open, timerVars, daemon, link, cb>>

\* OS_TimerSet, which changes a dormant timer only (xTimerChangeSetting).
TimerSet ==
  /\ RxStep("set", "start")
  /\ period' = IF active THEN period ELSE want
  /\ UNCHANGED <<want, open, active, queue, daemon, link, cb>>

\* Faulty: the timer is stopped once it has been started.
TimerStartStop ==
  /\ RxStep("start", "leave")
  /\ queue' = queue \o <<"start", "stop">>
  /\ UNCHANGED <<want, open, timerVars, daemon, link, cb>>

\* OS_TimerStart
TimerStart ==
  /\ RxStep("start", "leave")
  /\ Post("start")
  /\ UNCHANGED <<want, open, timerVars, daemon, link, cb>>

\* wifi_disconnect(NULL), before the delay of 200 ticks.
LeaveAp ==
  /\ RxStep("leave", "connect")
  /\ link' = "down"
  /\ UNCHANGED <<want, open, timerVars, queue, daemon, cb>>

\* wifi_connect_active.  The delay outlasts a handler of the timer that was
\* running when the command began.  A connection that is refused is answered
\* with ERROR, and the timer runs on.
Connect ==
  /\ RxStep("connect", "idle")
  /\ daemon = "wait"
  /\ \/ link' = "trying" /\ UNCHANGED open
     \/ open' = FALSE /\ UNCHANGED link
  /\ UNCHANGED <<want, timerVars, queue, daemon, cb>>

\* AT+CWQAP and, in station mode, AT+CWMODE, which connects without a timer.
Other ==
  /\ ~ open /\ RxRuns /\ rx = "idle"
  /\ link' \in {"down", "trying"}
  /\ UNCHANGED <<rxVars, open, timerVars, queue, daemon, cb>>

AtCommand ==
  \/ TimerStop \/ TimerSet \/ TimerStart \/ LeaveAp \/ Connect

-----------------------------------------------------------------------------
(* prvTimerTask.                                                           *)

\* prvProcessReceivedCommands: every command takes the timer from its list,
\* "start" puts it back.
Command ==
  /\ daemon = "wait" /\ queue # << >>
  /\ active' = (Head(queue) = "start")
  /\ queue' = Tail(queue)
  /\ UNCHANGED <<rxVars, open, period, daemon, link, cb>>

\* prvProcessExpiredTimer takes the timer from the list before its handler runs.
Expire ==
  /\ daemon = "wait" /\ active
  /\ active' = FALSE
  /\ daemon' = "fail"
  /\ UNCHANGED <<rxVars, open, period, queue, link, cb>>

\* connect_timeout_handler: FAIL to the host, then wifi_disconnect.
Fail ==
  /\ daemon = "fail" /\ daemon' = "disconnect"
  /\ open' = FALSE
  /\ UNCHANGED <<rxVars, timerVars, queue, link, cb>>

Disconnect ==
  /\ daemon = "disconnect" /\ daemon' = "wait"
  /\ link' = "down"
  /\ UNCHANGED <<rxVars, open, timerVars, queue, cb>>

Daemon == Command \/ Expire \/ Fail \/ Disconnect

-----------------------------------------------------------------------------
(* The Wi-Fi library, and atwificbfunc in its task.                        *)

\* The station is connected: the callback is under way.
Connected ==
  /\ link = "trying" /\ cb = "none"
  /\ link' = "up" /\ cb' = "active"
  /\ UNCHANGED <<rxVars, open, timerVars, queue, daemon>>

\* The access point refuses or goes away; no callback touches the timer.
Lost ==
  /\ link # "down"
  /\ link' = "down"
  /\ UNCHANGED <<rxVars, open, timerVars, queue, daemon, cb>>

CbStep(from, to) == cb = from /\ cb' = to

\* OS_TimerIsActive
CbIsActive ==
  /\ CbStep("active", IF active THEN "stop" ELSE "none")
  /\ UNCHANGED <<rxVars, open, timerVars, queue, daemon, link>>

\* OS_TimerStop
CbStop ==
  /\ CbStep("stop", "ok")
  /\ Post("stop")
  /\ UNCHANGED <<rxVars, open, timerVars, daemon, link>>

\* Faulty: the timer is stopped, but the host is not told.
CbOkSilent ==
  /\ CbStep("ok", "none")
  /\ UNCHANGED <<rxVars, open, timerVars, queue, daemon, link>>

\* OK to the host.
CbOk ==
  /\ CbStep("ok", "none")
  /\ open' = FALSE
  /\ UNCHANGED <<rxVars, timerVars, queue, daemon, link>>

Callback == CbIsActive \/ CbStop \/ CbOk

Next ==
  \/ ConnectAp \/ AtCommand \/ Other \/ Daemon \/ Connected \/ Lost \/ Callback

Spec == Init /\ [][Next]_vars

\* The tasks run on, and a timer that stays active runs out.  The library need
\* never answer.
FairSpec ==
  /\ Spec
  /\ WF_vars(AtCommand) /\ WF_vars(Daemon) /\ WF_vars(Expire) /\ WF_vars(Callback)

-----------------------------------------------------------------------------
(* Properties.                                                             *)

\* Every value in its range.
TypeOK ==
  /\ rx \in {"idle", "stop", "set", "start", "leave", "connect"}
  /\ want \in Limits /\ open \in BOOLEAN
  /\ active \in BOOLEAN /\ period \in Limits
  /\ queue \in Seq({"stop", "start"}) /\ Len(queue) <= QueueLength
  /\ daemon \in {"wait", "fail", "disconnect"}
  /\ link \in {"down", "trying", "up"}
  /\ cb \in {"none", "active", "stop", "ok"}

\* The timer a host waits for has the limit it asked for, although OS_TimerSet
\* leaves an active timer alone and OS_TimerStop before it is only a message to
\* the timer task.
LimitTaken ==
  rx \in {"idle", "leave", "connect"} /\ (active \/ queue # << >>) => period = want

\* While the host waits, somebody is going to answer: the command is still on
\* its way to the timer, the timer runs or is about to be started, or its
\* handler or the callback is about to answer.
Supervised ==
  open => \/ rx \in {"stop", "set", "start"}
          \/ active /\ queue = << >>
          \/ queue # << >> /\ queue[Len(queue)] = "start"
          \/ daemon = "fail"
          \/ cb \in {"stop", "ok"}

\* Every AT+CWJAP is answered, whatever the access point does and however the
\* timer, the callback and the next command meet.
Answered == open ~> ~ open
=============================================================================
