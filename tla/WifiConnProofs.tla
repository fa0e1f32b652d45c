--------------------------- MODULE WifiConnProofs ---------------------------
(***************************************************************************)
(* Proofs about the supervision of AT+CWJAP, for all limits and for every  *)
(* queue of the timer task that holds four commands or more.               *)
(***************************************************************************)
EXTENDS WifiConn, SequenceTheorems, TLAPS

\* The command is on its way to the timer, or the last one has been answered.
Before == {"idle", "stop", "set", "start"}

\* The timer leaves the list of active timers before its handler runs.
HandlerDormant == daemon # "wait" => ~ active

\* Until the timer is started again only commands to stop it are under way.
OnlyStops == rx \in Before => \A i \in 1 .. Len(queue) : queue[i] = "stop"

\* Once OS_TimerStop has been called the timer is dormant, or a command is
\* still to make it so.
Stopping == rx \in {"set", "start"} /\ active => queue # << >>

\* OS_TimerSet has taken the limit, or the timer was never started.
LimitSet ==
  /\ rx \in {"start", "leave", "connect"} => period = want
  /\ rx = "idle" => \/ period = want
                    \/ ~ active /\ queue = << >> /\ cb # "stop"

\* Commands in the queue and those the callback may still send.
CallbackMayStop == IF cb = "stop" \/ (cb = "active" /\ active) THEN 1 ELSE 0
NextMayStop == IF link = "trying" /\ active THEN 1 ELSE 0
Load == Len(queue) + CallbackMayStop + NextMayStop

\* There is room for the command that starts the timer.
RoomToStart ==
  /\ rx \in {"idle", "stop"} => Load <= 2
  /\ rx \in {"set", "start"} => Load <= 3

IInv ==
  /\ TypeOK
  /\ HandlerDormant /\ OnlyStops /\ Stopping /\ LimitSet /\ RoomToStart
  /\ Supervised

-----------------------------------------------------------------------------
(* What a queue holds after a command has been sent or taken.              *)

LEMMA PostQueue ==
  ASSUME TypeOK, NEW command \in {"stop", "start"}, Post(command)
  PROVE  /\ queue' \in Seq({"stop", "start"}) /\ Len(queue') <= QueueLength
         /\ queue' # << >>
         /\ Len(queue') \in {Len(queue), Len(queue) + 1}
         /\ Len(queue) < QueueLength =>
              Len(queue') = Len(queue) + 1 /\ queue'[Len(queue')] = command
         /\ (command = "stop" /\ \A i \in 1 .. Len(queue) : queue[i] = "stop") =>
              \A i \in 1 .. Len(queue') : queue'[i] = "stop"
<1>1. /\ QueueLength \in Nat /\ QueueLength >= 4
      /\ queue \in Seq({"stop", "start"}) /\ Len(queue) \in Nat
      /\ Len(queue) <= QueueLength
  BY WifiConnAssumption DEF TypeOK
<1>2. CASE Len(queue) < QueueLength
  <2>1. queue' = Append(queue, command)
    BY <1>2 DEF Post
  <2>2. /\ queue' \in Seq({"stop", "start"}) /\ queue' # << >>
        /\ Len(queue') = Len(queue) + 1
        /\ \A i \in 1 .. Len(queue) : queue'[i] = queue[i]
        /\ queue'[Len(queue) + 1] = command
    BY <1>1, <2>1, AppendProperties
  <2>3. \A i \in 1 .. Len(queue') : i \in 1 .. Len(queue) \/ i = Len(queue) + 1
    BY <1>1, <2>2
  <2> QED BY <1>1, <1>2, <2>2, <2>3
<1>3. CASE ~ (Len(queue) < QueueLength)
  <2>1. queue' = queue
    BY <1>3 DEF Post
  <2>2. queue # << >>
    BY <1>1, <1>3
  <2> QED BY <1>1, <1>3, <2>1, <2>2
<1> QED BY <1>2, <1>3

LEMMA TakenQueue ==
  ASSUME TypeOK, queue # << >>, queue' = Tail(queue)
  PROVE  /\ queue' \in Seq({"stop", "start"})
         /\ Len(queue) \in Nat \ {0}
         /\ Len(queue') = Len(queue) - 1 /\ Len(queue') <= QueueLength
         /\ Head(queue) = queue[1] /\ Head(queue) \in {"stop", "start"}
         /\ \A i \in 1 .. Len(queue') : queue'[i] = queue[i + 1]
         /\ queue' # << >> => queue'[Len(queue')] = queue[Len(queue)]
         /\ queue' = << >> => Head(queue) = queue[Len(queue)]
<1>1. QueueLength \in Nat /\ queue \in Seq({"stop", "start"}) /\ Len(queue) <= QueueLength
  BY WifiConnAssumption DEF TypeOK
<1>2. Len(queue) \in Nat \ {0}
  BY <1>1, EmptySeq
<1>3. /\ queue' \in Seq({"stop", "start"}) /\ Len(queue') = Len(queue) - 1
      /\ Head(queue) \in {"stop", "start"}
      /\ \A i \in 1 .. Len(queue') : queue'[i] = queue[i + 1]
  BY <1>1, HeadTailProperties
<1>4. Head(queue) = queue[1]
  BY <1>1
<1>5. queue' # << >> => Len(queue') \in 1 .. Len(queue') /\ Len(queue') + 1 = Len(queue)
  BY <1>2, <1>3, EmptySeq
<1>6. queue' = << >> => Len(queue) = 1
  <2>1. Len(<< >>) = 0
    BY EmptySeq
  <2> QED BY <1>2, <1>3, <2>1
<1> QED BY <1>1, <1>2, <1>3, <1>4, <1>5, <1>6

-----------------------------------------------------------------------------
(* The invariant holds at first, and is kept by every step.                *)

LEMMA InitIInv == Init => IInv
<1> SUFFICES ASSUME Init PROVE IInv
  OBVIOUS
<1>1. TypeOK
  <2>1. << >> \in Seq({"stop", "start"}) /\ Len(<< >>) = 0
    BY EmptySeq
  <2>2. queue \in Seq({"stop", "start"}) /\ Len(queue) <= QueueLength
    BY <2>1, WifiConnAssumption DEF Init
  <2> QED BY <2>2 DEF Init, TypeOK
<1>2. HandlerDormant /\ OnlyStops /\ Stopping /\ LimitSet /\ Supervised
  BY DEF Init, HandlerDormant, OnlyStops, Stopping, LimitSet, Supervised
<1>3. RoomToStart
  BY DEF Init, RoomToStart, Load, CallbackMayStop, NextMayStop
<1> QED BY <1>1, <1>2, <1>3 DEF IInv

LEMMA NextTypeOK ==
  ASSUME IInv, [Next]_vars
  PROVE  TypeOK'
<1> USE DEF IInv
<1>1. CASE ConnectAp
  BY <1>1 DEF ConnectAp, RxStep, timerVars, TypeOK
<1>2. CASE TimerStop
  BY <1>2, PostQueue DEF TimerStop, RxStep, timerVars, TypeOK
<1>3. CASE TimerSet
  BY <1>3 DEF TimerSet, RxStep, TypeOK
<1>4. CASE TimerStart
  BY <1>4, PostQueue DEF TimerStart, RxStep, timerVars, TypeOK
<1>5. CASE LeaveAp
  BY <1>5 DEF LeaveAp, RxStep, timerVars, TypeOK
<1>6. CASE Connect
  BY <1>6 DEF Connect, RxStep, timerVars, TypeOK
<1>7. CASE Other
  BY <1>7 DEF Other, rxVars, timerVars, TypeOK
<1>8. CASE Command
  BY <1>8, TakenQueue DEF Command, rxVars, TypeOK
<1>9. CASE Expire
  BY <1>9 DEF Expire, rxVars, TypeOK
<1>10. CASE Fail
  BY <1>10 DEF Fail, rxVars, timerVars, TypeOK
<1>11. CASE Disconnect
  BY <1>11 DEF Disconnect, rxVars, timerVars, TypeOK
<1>12. CASE Connected
  BY <1>12 DEF Connected, rxVars, timerVars, TypeOK
<1>13. CASE Lost
  BY <1>13 DEF Lost, rxVars, timerVars, TypeOK
<1>14. CASE CbIsActive
  BY <1>14 DEF CbIsActive, CbStep, rxVars, timerVars, TypeOK
<1>15. CASE CbStop
  BY <1>15, PostQueue DEF CbStop, CbStep, rxVars, timerVars, TypeOK
<1>16. CASE CbOk
  BY <1>16 DEF CbOk, CbStep, rxVars, timerVars, TypeOK
<1>17. CASE UNCHANGED vars
  BY <1>17 DEF vars, TypeOK
<1> QED
  BY <1>1, <1>2, <1>3, <1>4, <1>5, <1>6, <1>7, <1>8, <1>9, <1>10, <1>11, <1>12,
     <1>13, <1>14, <1>15, <1>16, <1>17
  DEF Next, AtCommand, Daemon, Callback

\* Only a command makes the timer active, and its task takes none in the handler.
LEMMA NextDormant ==
  ASSUME IInv, TypeOK', [Next]_vars
  PROVE  HandlerDormant'
<1> USE DEF IInv, TypeOK, HandlerDormant
<1>1. CASE ConnectAp
  BY <1>1 DEF ConnectAp, RxStep, timerVars
<1>2. CASE TimerStop
  BY <1>2 DEF TimerStop, RxStep, timerVars
<1>3. CASE TimerSet
  BY <1>3 DEF TimerSet, RxStep
<1>4. CASE TimerStart
  BY <1>4 DEF TimerStart, RxStep, timerVars
<1>5. CASE LeaveAp
  BY <1>5 DEF LeaveAp, RxStep, timerVars
<1>6. CASE Connect
  BY <1>6 DEF Connect, RxStep, timerVars
<1>7. CASE Other
  BY <1>7 DEF Other, rxVars, timerVars
<1>8. CASE Command
  BY <1>8 DEF Command, rxVars
<1>9. CASE Expire
  BY <1>9 DEF Expire, rxVars
<1>10. CASE Fail
  BY <1>10 DEF Fail, rxVars, timerVars
<1>11. CASE Disconnect
  BY <1>11 DEF Disconnect, rxVars, timerVars
<1>12. CASE Connected
  BY <1>12 DEF Connected, rxVars, timerVars
<1>13. CASE Lost
  BY <1>13 DEF Lost, rxVars, timerVars
<1>14. CASE CbIsActive
  BY <1>14 DEF CbIsActive, CbStep, rxVars, timerVars
<1>15. CASE CbStop
  BY <1>15 DEF CbStop, CbStep, rxVars, timerVars
<1>16. CASE CbOk
  BY <1>16 DEF CbOk, CbStep, rxVars, timerVars
<1>17. CASE UNCHANGED vars
  BY <1>17 DEF vars
<1> QED
  BY <1>1, <1>2, <1>3, <1>4, <1>5, <1>6, <1>7, <1>8, <1>9, <1>10, <1>11, <1>12,
     <1>13, <1>14, <1>15, <1>16, <1>17
  DEF Next, AtCommand, Daemon, Callback

\* AT+CWJAP waits for the queue to be empty before it returns.
LEMMA NextStops ==
  ASSUME IInv, TypeOK', [Next]_vars
  PROVE  OnlyStops'
<1> USE DEF IInv, TypeOK, OnlyStops, Before
<1>1. CASE ConnectAp
  BY <1>1 DEF ConnectAp, RxStep, timerVars
<1>2. CASE TimerStop
  BY <1>2, PostQueue DEF TimerStop, RxStep, timerVars
<1>3. CASE TimerSet
  BY <1>3 DEF TimerSet, RxStep
<1>4. CASE TimerStart
  BY <1>4 DEF TimerStart, RxStep, timerVars
<1>5. CASE LeaveAp
  BY <1>5 DEF LeaveAp, RxStep, timerVars
<1>6. CASE Connect
  BY <1>6 DEF Connect, RxStep, timerVars, RxRuns
<1>7. CASE Other
  BY <1>7 DEF Other, rxVars, timerVars
<1>8. CASE Command
  BY <1>8, TakenQueue DEF Command, rxVars
<1>9. CASE Expire
  BY <1>9 DEF Expire, rxVars
<1>10. CASE Fail
  BY <1>10 DEF Fail, rxVars, timerVars
<1>11. CASE Disconnect
  BY <1>11 DEF Disconnect, rxVars, timerVars
<1>12. CASE Connected
  BY <1>12 DEF Connected, rxVars, timerVars
<1>13. CASE Lost
  BY <1>13 DEF Lost, rxVars, timerVars
<1>14. CASE CbIsActive
  BY <1>14 DEF CbIsActive, CbStep, rxVars, timerVars
<1>15. CASE CbStop
  BY <1>15, PostQueue DEF CbStop, CbStep, rxVars, timerVars
<1>16. CASE CbOk
  BY <1>16 DEF CbOk, CbStep, rxVars, timerVars
<1>17. CASE UNCHANGED vars
  BY <1>17 DEF vars
<1> QED
  BY <1>1, <1>2, <1>3, <1>4, <1>5, <1>6, <1>7, <1>8, <1>9, <1>10, <1>11, <1>12,
     <1>13, <1>14, <1>15, <1>16, <1>17
  DEF Next, AtCommand, Daemon, Callback

\* OS_TimerStop finds the queue empty or the timer dormant.
LEMMA NextStopping ==
  ASSUME IInv, TypeOK', [Next]_vars
  PROVE  Stopping'
<1> USE DEF IInv, TypeOK, Stopping
<1>1. CASE ConnectAp
  BY <1>1 DEF ConnectAp, RxStep, timerVars
<1>2. CASE TimerStop
  BY <1>2, PostQueue DEF TimerStop, RxStep, timerVars, RxRuns, HandlerDormant
<1>3. CASE TimerSet
  BY <1>3 DEF TimerSet, RxStep
<1>4. CASE TimerStart
  BY <1>4 DEF TimerStart, RxStep, timerVars
<1>5. CASE LeaveAp
  BY <1>5 DEF LeaveAp, RxStep, timerVars
<1>6. CASE Connect
  BY <1>6 DEF Connect, RxStep, timerVars
<1>7. CASE Other
  BY <1>7 DEF Other, rxVars, timerVars
<1>8. CASE Command
  <2>1. SUFFICES ASSUME rx \in {"set", "start"} PROVE ~ active'
    BY <1>8 DEF Command, rxVars
  <2>2. queue # << >> /\ queue' = Tail(queue) /\ active' = (Head(queue) = "start")
    BY <1>8 DEF Command
  <2>3. Head(queue) = queue[1] /\ Len(queue) \in Nat \ {0}
    BY <2>2, TakenQueue
  <2>4. queue[1] = "stop"
    BY <2>1, <2>3 DEF OnlyStops, Before
  <2> QED BY <2>2, <2>3, <2>4
<1>9. CASE Expire
  BY <1>9 DEF Expire, rxVars
<1>10. CASE Fail
  BY <1>10 DEF Fail, rxVars, timerVars
<1>11. CASE Disconnect
  BY <1>11 DEF Disconnect, rxVars, timerVars
<1>12. CASE Connected
  BY <1>12 DEF Connected, rxVars, timerVars
<1>13. CASE Lost
  BY <1>13 DEF Lost, rxVars, timerVars
<1>14. CASE CbIsActive
  BY <1>14 DEF CbIsActive, CbStep, rxVars, timerVars
<1>15. CASE CbStop
  BY <1>15, PostQueue DEF CbStop, CbStep, rxVars, timerVars
<1>16. CASE CbOk
  BY <1>16 DEF CbOk, CbStep, rxVars, timerVars
<1>17. CASE UNCHANGED vars
  BY <1>17 DEF vars
<1> QED
  BY <1>1, <1>2, <1>3, <1>4, <1>5, <1>6, <1>7, <1>8, <1>9, <1>10, <1>11, <1>12,
     <1>13, <1>14, <1>15, <1>16, <1>17
  DEF Next, AtCommand, Daemon, Callback

\* OS_TimerSet finds the timer dormant.
LEMMA NextLimit ==
  ASSUME IInv, TypeOK', [Next]_vars
  PROVE  LimitSet'
<1> USE DEF IInv, TypeOK, LimitSet
<1>1. CASE ConnectAp
  BY <1>1 DEF ConnectAp, RxStep, timerVars
<1>2. CASE TimerStop
  BY <1>2 DEF TimerStop, RxStep, timerVars
<1>3. CASE TimerSet
  BY <1>3 DEF TimerSet, RxStep, RxRuns, Stopping, HandlerDormant
<1>4. CASE TimerStart
  BY <1>4 DEF TimerStart, RxStep, timerVars
<1>5. CASE LeaveAp
  BY <1>5 DEF LeaveAp, RxStep, timerVars
<1>6. CASE Connect
  BY <1>6 DEF Connect, RxStep, timerVars
<1>7. CASE Other
  BY <1>7 DEF Other, rxVars, timerVars
<1>8. CASE Command
  BY <1>8 DEF Command, rxVars
<1>9. CASE Expire
  BY <1>9 DEF Expire, rxVars
<1>10. CASE Fail
  BY <1>10 DEF Fail, rxVars, timerVars
<1>11. CASE Disconnect
  BY <1>11 DEF Disconnect, rxVars, timerVars
<1>12. CASE Connected
  BY <1>12 DEF Connected, rxVars, timerVars
<1>13. CASE Lost
  BY <1>13 DEF Lost, rxVars, timerVars
<1>14. CASE CbIsActive
  BY <1>14 DEF CbIsActive, CbStep, rxVars, timerVars
<1>15. CASE CbStop
  BY <1>15, PostQueue DEF CbStop, CbStep, rxVars, timerVars
<1>16. CASE CbOk
  BY <1>16 DEF CbOk, CbStep, rxVars, timerVars
<1>17. CASE UNCHANGED vars
  BY <1>17 DEF vars
<1> QED
  BY <1>1, <1>2, <1>3, <1>4, <1>5, <1>6, <1>7, <1>8, <1>9, <1>10, <1>11, <1>12,
     <1>13, <1>14, <1>15, <1>16, <1>17
  DEF Next, AtCommand, Daemon, Callback

\* A command of the callback takes the place the timer gave it when it became
\* active, and AT+CWJAP sends two.
LEMMA LoadType ==
  ASSUME TypeOK
  PROVE  /\ Len(queue) \in Nat
         /\ CallbackMayStop \in {0, 1} /\ NextMayStop \in {0, 1}
         /\ Load = Len(queue) + (CallbackMayStop + NextMayStop)
<1>1. Len(queue) \in Nat
  BY DEF TypeOK
<1>2. CallbackMayStop \in {0, 1} /\ NextMayStop \in {0, 1}
  BY DEF CallbackMayStop, NextMayStop
<1> QED BY <1>1, <1>2 DEF Load

LEMMA LoadTypeNext ==
  ASSUME TypeOK'
  PROVE  /\ Len(queue') \in Nat
         /\ CallbackMayStop' \in {0, 1} /\ NextMayStop' \in {0, 1}
         /\ Load' = Len(queue') + (CallbackMayStop' + NextMayStop')
<1>1. Len(queue') \in Nat
  BY DEF TypeOK
<1>2. CallbackMayStop' \in {0, 1} /\ NextMayStop' \in {0, 1}
  BY DEF CallbackMayStop, NextMayStop
<1> QED BY <1>1, <1>2 DEF Load

LEMMA NextRoom ==
  ASSUME IInv, TypeOK', [Next]_vars
  PROVE  RoomToStart'
<1> USE DEF IInv
<1> DEFINE May == CallbackMayStop + NextMayStop
<1>0. /\ Len(queue) \in Nat /\ Len(queue') \in Nat /\ May \in 0 .. 2 /\ May' \in 0 .. 2
      /\ Load = Len(queue) + May /\ Load' = Len(queue') + May'
  BY LoadType, LoadTypeNext
<1>a. ASSUME rx' = rx, Load' <= Load PROVE RoomToStart'
  BY <1>0, <1>a DEF RoomToStart
<1>1. CASE ConnectAp
  <2>1. Load' = Load
    BY <1>1 DEF Load, CallbackMayStop, NextMayStop, ConnectAp, RxStep, timerVars
  <2> QED BY <1>0, <1>1, <2>1 DEF RoomToStart, ConnectAp, RxStep, timerVars
<1>2. CASE TimerStop
  <2>1. CallbackMayStop' = CallbackMayStop /\ NextMayStop' = NextMayStop
    BY <1>2 DEF CallbackMayStop, NextMayStop, TimerStop, RxStep, timerVars
  <2>2. Len(queue') \in {Len(queue), Len(queue) + 1}
    BY <1>2, PostQueue DEF TimerStop
  <2> QED BY <1>0, <1>2, <2>1, <2>2 DEF RoomToStart, TimerStop, RxStep, timerVars
<1>3. CASE TimerSet
  <2>1. Load' = Load
    BY <1>3 DEF Load, CallbackMayStop, NextMayStop, TimerSet, RxStep
  <2> QED BY <1>0, <1>3, <2>1 DEF RoomToStart, TimerSet, RxStep
<1>4. CASE TimerStart
  BY <1>4 DEF RoomToStart, TimerStart, RxStep, timerVars
<1>5. CASE LeaveAp
  BY <1>5 DEF RoomToStart, LeaveAp, RxStep, timerVars
<1>6. CASE Connect
  <2>1. Len(queue') = 0
    BY <1>6, EmptySeq DEF RxRuns, Connect, RxStep, timerVars
  <2> QED BY <1>0, <1>6, <2>1 DEF RoomToStart, Connect, RxStep, timerVars
<1>7. CASE Other
  <2>1. CASE queue = << >>
    <3>1. Len(queue') = 0
      BY <1>7, <2>1, EmptySeq DEF Other, rxVars, timerVars
    <3> QED BY <1>0, <1>7, <3>1 DEF RoomToStart, Other, rxVars, timerVars
  <2>2. CASE daemon # "wait"
    <3>1. CallbackMayStop' = CallbackMayStop /\ NextMayStop' = 0
      BY <1>7, <2>2 DEF CallbackMayStop, NextMayStop, HandlerDormant, Other, rxVars, timerVars
    <3>2. Len(queue') = Len(queue) /\ rx' = rx
      BY <1>7 DEF Other, rxVars, timerVars
    <3> QED BY <1>0, <1>a, <3>1, <3>2, LoadType
  <2> QED BY <1>7, <2>1, <2>2 DEF Other, RxRuns
<1>8. CASE Command
  <2>1. CASE rx \notin Before
    BY <1>8, <2>1 DEF RoomToStart, Before, Command, rxVars
  <2>2. CASE rx \in Before
    <3>1. queue # << >> /\ queue' = Tail(queue) /\ active' = (Head(queue) = "start")
      BY <1>8 DEF Command
    <3>2. Head(queue) = queue[1] /\ Len(queue) \in Nat \ {0} /\ Len(queue') = Len(queue) - 1
      BY <3>1, TakenQueue
    <3>3. queue[1] = "stop"
      BY <2>2, <3>2 DEF OnlyStops
    <3>4. ~ active'
      BY <3>1, <3>2, <3>3
    <3>5. CallbackMayStop' <= CallbackMayStop /\ NextMayStop' <= NextMayStop
      BY <1>8, <3>4 DEF CallbackMayStop, NextMayStop, Command
    <3>6. rx' = rx
      BY <1>8 DEF Command, rxVars
    <3> QED BY <1>0, <1>a, <3>2, <3>5, <3>6, LoadType, LoadTypeNext
  <2> QED BY <2>1, <2>2
<1>9. CASE Expire
  <2>1. CallbackMayStop' <= CallbackMayStop /\ NextMayStop' <= NextMayStop
    BY <1>9 DEF CallbackMayStop, NextMayStop, Expire, rxVars
  <2>2. Len(queue') = Len(queue) /\ rx' = rx
    BY <1>9 DEF Expire, rxVars
  <2> QED BY <1>0, <1>a, <2>1, <2>2, LoadType, LoadTypeNext
<1>10. CASE Fail
  <2>1. CallbackMayStop' <= CallbackMayStop /\ NextMayStop' <= NextMayStop
    BY <1>10 DEF CallbackMayStop, NextMayStop, Fail, rxVars, timerVars
  <2>2. Len(queue') = Len(queue) /\ rx' = rx
    BY <1>10 DEF Fail, rxVars, timerVars
  <2> QED BY <1>0, <1>a, <2>1, <2>2, LoadType, LoadTypeNext
<1>11. CASE Disconnect
  <2>1. CallbackMayStop' <= CallbackMayStop /\ NextMayStop' <= NextMayStop
    BY <1>11 DEF CallbackMayStop, NextMayStop, Disconnect, rxVars, timerVars
  <2>2. Len(queue') = Len(queue) /\ rx' = rx
    BY <1>11 DEF Disconnect, rxVars, timerVars
  <2> QED BY <1>0, <1>a, <2>1, <2>2, LoadType, LoadTypeNext
<1>12. CASE Connected
  <2>1. CallbackMayStop' = NextMayStop /\ CallbackMayStop = 0 /\ NextMayStop' = 0
    BY <1>12 DEF CallbackMayStop, NextMayStop, Connected, rxVars, timerVars
  <2>2. Len(queue') = Len(queue) /\ rx' = rx
    BY <1>12 DEF Connected, rxVars, timerVars
  <2> QED BY <1>0, <1>a, <2>1, <2>2, LoadType
<1>13. CASE Lost
  <2>1. CallbackMayStop' <= CallbackMayStop /\ NextMayStop' <= NextMayStop
    BY <1>13 DEF CallbackMayStop, NextMayStop, Lost, rxVars, timerVars
  <2>2. Len(queue') = Len(queue) /\ rx' = rx
    BY <1>13 DEF Lost, rxVars, timerVars
  <2> QED BY <1>0, <1>a, <2>1, <2>2, LoadType, LoadTypeNext
<1>14. CASE CbIsActive
  <2>1. CallbackMayStop' <= CallbackMayStop /\ NextMayStop' <= NextMayStop
    BY <1>14 DEF CallbackMayStop, NextMayStop, CbIsActive, CbStep, rxVars, timerVars
  <2>2. Len(queue') = Len(queue) /\ rx' = rx
    BY <1>14 DEF CbIsActive, CbStep, rxVars, timerVars
  <2> QED BY <1>0, <1>a, <2>1, <2>2, LoadType, LoadTypeNext
<1>15. CASE CbStop
  <2>1. CallbackMayStop = 1 /\ CallbackMayStop' = 0 /\ NextMayStop' = NextMayStop
    BY <1>15 DEF CallbackMayStop, NextMayStop, CbStop, CbStep, rxVars, timerVars
  <2>2. Len(queue') \in {Len(queue), Len(queue) + 1}
    BY <1>15, PostQueue DEF CbStop
  <2>3. rx' = rx
    BY <1>15 DEF CbStop, rxVars
  <2> QED BY <1>0, <1>a, <2>1, <2>2, <2>3, LoadType
<1>16. CASE CbOk
  <2>1. CallbackMayStop' <= CallbackMayStop /\ NextMayStop' <= NextMayStop
    BY <1>16 DEF CallbackMayStop, NextMayStop, CbOk, CbStep, rxVars, timerVars
  <2>2. Len(queue') = Len(queue) /\ rx' = rx
    BY <1>16 DEF CbOk, CbStep, rxVars, timerVars
  <2> QED BY <1>0, <1>a, <2>1, <2>2, LoadType, LoadTypeNext
<1>17. CASE UNCHANGED vars
  BY <1>17 DEF vars, RoomToStart, Load, CallbackMayStop, NextMayStop
<1> QED
  BY <1>1, <1>2, <1>3, <1>4, <1>5, <1>6, <1>7, <1>8, <1>9, <1>10, <1>11, <1>12,
     <1>13, <1>14, <1>15, <1>16, <1>17
  DEF Next, AtCommand, Daemon, Callback

\* The duty to answer goes from AT+CWJAP to the command in the queue, to the
\* timer, and to its handler or the callback.
LEMMA NextSupervised ==
  ASSUME IInv, TypeOK', [Next]_vars
  PROVE  Supervised'
<1> USE DEF IInv, TypeOK, Supervised
<1>1. CASE ConnectAp
  BY <1>1 DEF ConnectAp, RxStep, timerVars
<1>2. CASE TimerStop
  BY <1>2 DEF TimerStop, RxStep, timerVars
<1>3. CASE TimerSet
  BY <1>3 DEF TimerSet, RxStep
<1>4. CASE TimerStart
  <2>1. Len(queue) \in Nat /\ Len(queue) <= 3
    BY <1>4, LoadType DEF TimerStart, RxStep, RoomToStart
  <2>2. Post("start") /\ Len(queue) < QueueLength
    BY <1>4, <2>1, WifiConnAssumption DEF TimerStart
  <2>3. queue' # << >> /\ queue'[Len(queue')] = "start"
    BY <2>2, PostQueue
  <2> QED BY <2>3
<1>5. CASE LeaveAp
  BY <1>5 DEF LeaveAp, RxStep, timerVars
<1>6. CASE Connect
  BY <1>6 DEF Connect, RxStep, timerVars
<1>7. CASE Other
  BY <1>7 DEF Other, rxVars, timerVars
<1>8. CASE Command
  BY <1>8, TakenQueue DEF Command, rxVars
<1>9. CASE Expire
  BY <1>9 DEF Expire, rxVars
<1>10. CASE Fail
  BY <1>10 DEF Fail, rxVars, timerVars
<1>11. CASE Disconnect
  BY <1>11 DEF Disconnect, rxVars, timerVars
<1>12. CASE Connected
  BY <1>12 DEF Connected, rxVars, timerVars
<1>13. CASE Lost
  BY <1>13 DEF Lost, rxVars, timerVars
<1>14. CASE CbIsActive
  BY <1>14 DEF CbIsActive, CbStep, rxVars, timerVars
<1>15. CASE CbStop
  BY <1>15 DEF CbStop, CbStep, rxVars, timerVars
<1>16. CASE CbOk
  BY <1>16 DEF CbOk, CbStep, rxVars, timerVars
<1>17. CASE UNCHANGED vars
  BY <1>17 DEF vars
<1> QED
  BY <1>1, <1>2, <1>3, <1>4, <1>5, <1>6, <1>7, <1>8, <1>9, <1>10, <1>11, <1>12,
     <1>13, <1>14, <1>15, <1>16, <1>17
  DEF Next, AtCommand, Daemon, Callback

LEMMA NextIInv == IInv /\ [Next]_vars => IInv'
<1> SUFFICES ASSUME IInv, [Next]_vars PROVE IInv'
  OBVIOUS
<1>1. TypeOK'
  BY NextTypeOK
<1> QED
  BY <1>1, NextDormant, NextStops, NextStopping, NextLimit, NextRoom, NextSupervised DEF IInv

-----------------------------------------------------------------------------
\* The inductive invariant: the supervision of AT+CWJAP step by step, with the
\* commands under way to the timer task and the room in its queue.
THEOREM WifiInductive == Spec => []IInv
BY InitIInv, NextIInv, PTL DEF Spec

\* Every variable keeps its type; the queue of the timer task never overflows.
THEOREM WifiTypes == Spec => []TypeOK
<1>1. IInv => TypeOK
  BY DEF IInv
<1> QED BY <1>1, WifiInductive, PTL

\* The timer a host waits for has the limit it asked for (OS_TimerStop,
\* OS_TimerSet, OS_TimerStart), although the first is only a message to the timer
\* task and the second leaves an active timer alone.
THEOREM LimitIsTaken == Spec => []LimitTaken
<1>1. IInv => LimitTaken
  BY DEF IInv, LimitSet, LimitTaken
<1> QED BY <1>1, WifiInductive, PTL

\* Somebody is going to answer an AT+CWJAP that is not answered yet: no overlap of
\* command, timer and callback leaves the host without an answer to come.
THEOREM HostSupervised == Spec => []Supervised
<1>1. IInv => Supervised
  BY DEF IInv
<1> QED BY <1>1, WifiInductive, PTL

\* The command that starts the timer is never lost in a full queue.
THEOREM StartNotLost == Spec => [](rx = "start" => Len(queue) < QueueLength)
<1>1. IInv => (rx = "start" => Len(queue) < QueueLength)
  BY LoadType, WifiConnAssumption DEF IInv, TypeOK, RoomToStart
<1> QED BY <1>1, WifiInductive, PTL
=============================================================================
