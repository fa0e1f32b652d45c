---------------------------- MODULE AppUartProofs ---------------------------
(***************************************************************************)
(* Proofs about AppUart, for every buffer size, FIFO depth, set of links   *)
(* and of lengths, and any number of lines.  IInv is the inductive         *)
(* invariant: the types, what is zero in the buffer while the memset runs, *)
(* the order of the bytes on their way from the wire to the send buffer,   *)
(* and the answers still owed.                                             *)
(***************************************************************************)
EXTENDS AppUart, SequenceTheorems, FiniteSetTheorems, TLAPS

\* While the task waits or has a payload in hand, the buffer is zero from
\* recv_len on; while it clears, the part it has passed is.
Cleared ==
  /\ task.pc \in {"wait", "payload"} =>
       \A i \in Slots : i >= recv_len => buf[i] = Zero
  /\ task.pc = "clear" =>
       \A i \in Slots : i < task.at /\ i >= recv_len => buf[i] = Zero

Increasing(s) == \A i, j \in 1 .. Len(s) : i < j => s[i].s < s[j].s

\* Where the bytes are, seen from the wire: it is in order, and all that has
\* been read lies before it.
WireAhead ==
  /\ Increasing(wire)
  /\ \A i \in 1 .. Len(wire) : wire[i].s <= typed
  /\ \A i \in Slots : buf[i].s <= typed
  /\ \A k \in 1 .. Len(sendBuf) : sendBuf[k].s <= typed
  /\ \A i \in Slots, j \in 1 .. Len(wire) : buf[i].s < wire[j].s
  /\ \A k \in 1 .. Len(sendBuf), j \in 1 .. Len(wire) : sendBuf[k].s < wire[j].s

\* What the handler has stored since the last reset is in order, and unless
\* the task has just sent it, lies behind all that was sent.
BufferAhead ==
  /\ \A i, j \in Slots : i < j /\ j < recv_len /\ NonZero(i) /\ NonZero(j)
                           => buf[i].s < buf[j].s
  /\ task.pc \in {"wait", "payload", "clear"} =>
       \A i \in Slots, k \in 1 .. Len(sendBuf) :
         i < recv_len /\ NonZero(i) => sendBuf[k].s < buf[i].s

\* A task about to decide on a payload has the link it is for.
Deciding == task.pc = "decide" => PayloadLink \in {"ssl", "tcp"}

IInv ==
  /\ TypeOK
  /\ Cleared
  /\ WireAhead /\ BufferAhead /\ ByteOrder
  /\ Deciding /\ AnswersOwed

-----------------------------------------------------------------------------
(* The sequences of the model.                                             *)

\* A line of the host becomes one or two tokens, numbered behind all others.
LEMMA LineTokens ==
  ASSUME TypeOK, NEW line \in Lines
  PROVE  /\ Numbered(line) \in Seq(Token)
         /\ Len(line) \in Nat /\ Len(Numbered(line)) = Len(line)
         /\ \A i \in 1 .. Len(line) : Numbered(line)[i].s = typed + i
<1>1. Len(line) \in {1, 2} /\ DOMAIN line = 1 .. Len(line)
  BY DEF Lines, Command, Say
<1>2. \A i \in 1 .. Len(line) :
        /\ line[i].k \in Kinds
        /\ line[i].link \in Links \union {"-"}
        /\ line[i].n \in Lengths \union {0}
  BY DEF Lines, Command, Say, Kinds
<1>3. \A i \in 1 .. Len(line) : Numbered(line)[i] \in Token /\ Numbered(line)[i].s = typed + i
  BY <1>1, <1>2 DEF Numbered, Token, TypeOK
<1>4. DOMAIN Numbered(line) = 1 .. Len(line)
  BY <1>1 DEF Numbered
<1>5. Numbered(line) = [i \in 1 .. Len(line) |-> Numbered(line)[i]]
  BY <1>1, <1>4 DEF Numbered
<1>6. Numbered(line) \in [1 .. Len(line) -> Token]
  BY <1>3, <1>5
<1>7. Numbered(line) \in Seq(Token) /\ Len(Numbered(line)) = Len(line)
  BY <1>1, <1>6
<1> QED
  BY <1>1, <1>3, <1>7

\* What app_uart_isr moves from the wire into the buffer.
LEMMA Taken ==
  ASSUME TypeOK, NEW n \in 1 .. FifoDepth, n <= Len(wire), recv_len + n <= Size,
         IsrTakes(n)
  PROVE  /\ wire' \in Seq(Token) /\ Len(wire') = Len(wire) - n
         /\ \A i \in 1 .. Len(wire') : wire'[i] = wire[i + n]
         /\ buf' \in [Slots -> Token \union {Zero}]
         /\ \A i \in Slots :
              buf'[i] = IF i \in recv_len .. recv_len + n - 1
                        THEN wire[i - recv_len + 1] ELSE buf[i]
<1> USE AppUartAssumption DEF TypeOK, IsrTakes
<1>1. Len(wire) \in Nat /\ \A i \in 1 .. Len(wire) : wire[i] \in Token
  BY LenProperties, ElementOfSeq
<1>2. /\ SubSeq(wire, n + 1, Len(wire)) \in Seq(Token)
      /\ Len(SubSeq(wire, n + 1, Len(wire))) = IF n + 1 <= Len(wire) THEN Len(wire) - (n + 1) + 1 ELSE 0
      /\ \A i \in 1 .. Len(wire) - (n + 1) + 1 :
           SubSeq(wire, n + 1, Len(wire))[i] = wire[(n + 1) + i - 1]
  <2>1. \A i \in n + 1 .. Len(wire) : wire[i] \in Token
    BY <1>1
  <2>2. n + 1 \in Int /\ Len(wire) \in Int
    BY <1>1
  <2> QED
    BY <2>1, <2>2, SubSeqProperties
<1>3. \A i \in recv_len .. recv_len + n - 1 : wire[i - recv_len + 1] \in Token
  BY <1>1
<1>4. /\ wire' = SubSeq(wire, n + 1, Len(wire))
      /\ buf' = [i \in Slots |-> IF i \in recv_len .. recv_len + n - 1
                                 THEN wire[i - recv_len + 1] ELSE buf[i]]
      /\ buf \in [Slots -> Token \union {Zero}] /\ n \in Nat
  OBVIOUS
<1>5. wire' \in Seq(Token) /\ Len(wire') = Len(wire) - n
  BY ONLY <1>1, <1>2, <1>4, n <= Len(wire)
<1>6. \A i \in 1 .. Len(wire') : wire'[i] = wire[i + n]
  <2>1. ASSUME NEW i \in 1 .. Len(wire') PROVE wire'[i] = wire[i + n]
    <3>1. i \in 1 .. Len(wire) - (n + 1) + 1 /\ (n + 1) + i - 1 = i + n
      BY ONLY <1>1, <1>4, <1>5, i \in 1 .. Len(wire')
    <3> QED
      BY ONLY <1>2, <1>4, <3>1
  <2> QED
    BY ONLY <2>1
<1>7. buf' \in [Slots -> Token \union {Zero}]
  BY ONLY <1>3, <1>4
<1>8. \A i \in Slots :
        buf'[i] = IF i \in recv_len .. recv_len + n - 1
                  THEN wire[i - recv_len + 1] ELSE buf[i]
  BY ONLY <1>4
<1> QED
  BY ONLY <1>5, <1>6, <1>7, <1>8

\* What strcat appends to the send buffer.
LEMMA Appended ==
  ASSUME TypeOK, NEW n \in 0 .. Size, IsLength(n)
  PROVE  /\ Text(n) \in Seq(Token) /\ Len(Text(n)) = n
         /\ \A i \in 1 .. n : Text(n)[i] = buf[i - 1] /\ i - 1 \in Slots /\ NonZero(i - 1)
         /\ sendBuf \o Text(n) \in Seq(Token)
         /\ Len(sendBuf) \in Nat
         /\ Len(sendBuf \o Text(n)) = Len(sendBuf) + n
         /\ \A i \in 1 .. Len(sendBuf) + n :
              (sendBuf \o Text(n))[i] = IF i <= Len(sendBuf) THEN sendBuf[i]
                                        ELSE buf[i - Len(sendBuf) - 1]
<1> USE AppUartAssumption
<1>1. \A i \in 1 .. n : i - 1 \in Slots /\ NonZero(i - 1)
  BY DEF IsLength, Slots
<1>2. \A i \in 1 .. n : buf[i - 1] \in Token
  BY <1>1 DEF TypeOK, NonZero
<1>3. Text(n) \in [1 .. n -> Token]
  BY <1>2 DEF Text
<1>4. Text(n) \in Seq(Token) /\ Len(Text(n)) = n /\ \A i \in 1 .. n : Text(n)[i] = buf[i - 1]
  BY <1>3 DEF Text
<1>5. sendBuf \in Seq(Token) /\ Len(sendBuf) \in Nat
  BY LenProperties DEF TypeOK
<1>6. /\ sendBuf \o Text(n) \in Seq(Token)
      /\ Len(sendBuf \o Text(n)) = Len(sendBuf) + Len(Text(n))
      /\ \A i \in 1 .. Len(sendBuf) + Len(Text(n)) :
           (sendBuf \o Text(n))[i] = IF i <= Len(sendBuf) THEN sendBuf[i] ELSE Text(n)[i - Len(sendBuf)]
  BY <1>4, <1>5, ConcatProperties
<1>7. \A i \in 1 .. Len(sendBuf) + n :
        (sendBuf \o Text(n))[i] = IF i <= Len(sendBuf) THEN sendBuf[i]
                                  ELSE buf[i - Len(sendBuf) - 1]
  <2> SUFFICES ASSUME NEW i \in 1 .. Len(sendBuf) + n, i > Len(sendBuf)
               PROVE  Text(n)[i - Len(sendBuf)] = buf[i - Len(sendBuf) - 1]
    BY <1>4, <1>5, <1>6
  <2>1. i - Len(sendBuf) \in 1 .. n
    BY <1>5
  <2> QED
    BY <2>1, <1>4
<1> QED
  BY <1>1, <1>4, <1>5, <1>6, <1>7

-----------------------------------------------------------------------------
(* Every step keeps the types.                                             *)

LEMMA NextType ==
  ASSUME TypeOK, [Next]_vars
  PROVE  TypeOK'
<1> USE AppUartAssumption
<1> USE DEF hostVars, rxVars, linkVars, sendVars, talkVars
<1> DEFINE TaskStates == [pc : {"wait", "command", "wipe", "payload", "decide",
                                "reset", "clear"},
                          len : 0 .. Size, at : Slots]
<1>1. CASE HostSends
  <2>1. PICK line \in Lines : wire' = wire \o Numbered(line) /\ typed' = typed + Len(line)
    BY <1>1 DEF HostSends
  <2>2. wire' \in Seq(Token) /\ typed' \in Nat
    BY <2>1, LineTokens, ConcatProperties DEF TypeOK
  <2>3. lines' \in 0 .. MaxLines
    BY <1>1 DEF HostSends, TypeOK
  <2> QED
    BY <1>1, <2>2, <2>3 DEF HostSends, TypeOK
<1>2. CASE LinkChanges
  <2>1. magic \in [Links -> BOOLEAN] /\ dialing \in [Links -> BOOLEAN]
    BY DEF TypeOK
  <2>2. magic' \in [Links -> BOOLEAN] /\ dialing' \in [Links -> BOOLEAN]
    <3>1. PICK c \in Links :
            \/ /\ \E more \in BOOLEAN : dialing' = [dialing EXCEPT ![c] = more]
               /\ \E ok \in BOOLEAN : magic' = [magic EXCEPT ![c] = ok]
            \/ magic' = [magic EXCEPT ![c] = FALSE] /\ dialing' = dialing
      BY <1>2 DEF LinkChanges
    <3> QED
      BY <2>1, <3>1
  <2>3. UNCHANGED <<hostVars, rxVars, task, sendBufLen, sendVars, talkVars>>
    BY <1>2 DEF LinkChanges
  <2> QED
    BY <2>2, <2>3 DEF TypeOK
<1>3. CASE Isr
  <2>1. PICK n \in 1 .. FifoDepth : n <= Len(wire) /\ recv_len + n <= Size /\ IsrTakes(n)
    BY <1>3 DEF Isr
  <2>2. wire' \in Seq(Token) /\ buf' \in [Slots -> Token \union {Zero}]
    BY <2>1, Taken
  <2>3. recv_len' \in 0 .. Size /\ sem' \in BOOLEAN
    BY <2>1 DEF IsrTakes, TypeOK
  <2> QED
    BY <2>1, <2>2, <2>3 DEF IsrTakes, TypeOK
<1>4. CASE Signalled
  BY <1>4 DEF Signalled, TypeOK
<1>5. CASE TimedOut
  <2>1. recv_len \in 0 .. Size /\ task \in TaskStates
    BY DEF TypeOK
  <2>2. task' \in TaskStates
    BY <1>5, <2>1 DEF TimedOut, Slots
  <2> QED
    BY <1>5, <2>2 DEF TimedOut, TypeOK
<1>6. CASE RunCommand
  <2>1. /\ magic' \in [Links -> BOOLEAN] /\ dialing' \in [Links -> BOOLEAN]
        /\ sendBufLen' \in [Links -> Lengths \union {0}] /\ prompts' \in Nat
    <3> DEFINE cmd == IF Size > 1 THEN buf[1] ELSE Zero
    <3>1. cmd \in Token \union {Zero}
      BY DEF TypeOK, Slots
    <3>2. cmd.n \in Lengths \union {0}
      <4>1. \A x \in Token \union {Zero} : x.n \in Lengths \union {0}
        BY ONLY DEF Token, Zero
      <4> QED
        BY ONLY <3>1, <4>1, Zenon
    <3>3. CASE CipStart(cmd.link)
      <4>1. ASSUME NEW c, CipStart(c)
            PROVE  /\ magic' \in [Links -> BOOLEAN] /\ dialing' \in [Links -> BOOLEAN]
                   /\ sendBufLen' \in [Links -> Lengths \union {0}] /\ prompts' = prompts
        <5>1. /\ magic \in [Links -> BOOLEAN] /\ dialing \in [Links -> BOOLEAN]
              /\ sendBufLen \in [Links -> Lengths \union {0}]
          BY DEF TypeOK
        <5>2. CASE magic[c]
          BY ONLY <4>1, <5>1, <5>2 DEF CipStart, linkVars
        <5>3. CASE ~magic[c]
          BY ONLY <4>1, <5>1, <5>3 DEF CipStart
        <5> QED
          BY ONLY <5>2, <5>3
      <4> HIDE DEF cmd
      <4> QED
        BY <3>3, <4>1 DEF TypeOK
    <3>4. CASE CipSend(cmd.n)
      <4>1. sendBufLen \in [Links -> Lengths \union {0}] /\ prompts \in Nat
        BY DEF TypeOK
      <4>2. /\ UNCHANGED <<magic, dialing>>
            /\ \/ UNCHANGED <<sendBufLen, prompts>>
               \/ /\ sendBufLen' = [sendBufLen EXCEPT ![SendLink] = cmd.n]
                  /\ prompts' = prompts + 1
        BY <3>4 DEF CipSend
      <4>3. sendBufLen' \in [Links -> Lengths \union {0}] /\ prompts' \in Nat
        BY <3>2, <4>1, <4>2
      <4> QED
        BY <4>2, <4>3 DEF TypeOK
    <3>5. CASE CipClose
      BY <3>5 DEF CipClose, TypeOK
    <3>6. CASE UNCHANGED <<linkVars, prompts>>
      BY <3>6 DEF TypeOK
    <3> HIDE DEF cmd
    <3> QED
      BY <1>6, <3>3, <3>4, <3>5, <3>6 DEF RunCommand, CommandRuns, cmd
  <2>2. mode' \in {"TRANSMIT_MODE", "ATCMD_MODE"}
    BY <1>6 DEF RunCommand, CommandRuns, ModeAfter, TypeOK
  <2>3. task' \in TaskStates
    BY <1>6 DEF RunCommand, GoTo, TypeOK
  <2> QED
    BY <1>6, <2>1, <2>2, <2>3 DEF RunCommand, TypeOK
<1>7. CASE Wipe
  BY <1>7 DEF Wipe, GoTo, TypeOK
<1>8. CASE AppendText
  <2>1. PICK n \in 0 .. Size : IsLength(n) /\ sendBuf' = sendBuf \o Text(n)
    BY <1>8 DEF AppendText
  <2>2. sendBuf' \in Seq(Token)
    BY <2>1, Appended
  <2>3. totalLen' \in Nat
    BY <1>8 DEF AppendText, TypeOK
  <2> QED
    BY <1>8, <2>2, <2>3 DEF AppendText, GoTo, TypeOK
<1>9. CASE Decide
  <2>1. results' \in Nat /\ totalLen' \in Nat /\ sendBufLen' \in [Links -> Lengths \union {0}]
    BY <1>9 DEF Decide, TypeOK
  <2> QED
    BY <1>9, <2>1 DEF Decide, GoTo, TypeOK
<1>10. CASE Refuse
  <2>1. results' \in Nat
    BY <1>10 DEF Refuse, TypeOK
  <2>2. sendBufLen' \in [Links -> Lengths \union {0}]
    BY <1>10 DEF Refuse, TypeOK
  <2> QED
    BY <1>10, <2>1, <2>2 DEF Refuse, GoTo, TypeOK
<1>11. CASE Discard
  <2>1. sendBuf' \in Seq(Token) /\ totalLen' \in Nat /\ sendBufLen' \in [Links -> Lengths \union {0}]
    BY <1>11, EmptySeq DEF Discard, TypeOK
  <2> QED
    BY <1>11, <2>1 DEF Discard, GoTo, TypeOK
<1>12. CASE Reset
  <2>1. 0 \in Slots /\ 0 \in 0 .. Size
    BY DEF Slots
  <2>2. task' \in TaskStates
    BY <1>12, <2>1 DEF Reset, TypeOK
  <2> QED
    BY <1>12, <2>1, <2>2 DEF Reset, TypeOK
<1>13. CASE Clear
  <2>1. buf' \in [Slots -> Token \union {Zero}]
    BY <1>13 DEF Clear, TypeOK
  <2>2. task' \in TaskStates
    <3>1. task \in TaskStates
      BY DEF TypeOK
    <3>2. task.at # Size - 1 => task.at + 1 \in Slots
      BY <3>1 DEF Slots
    <3> QED
      BY <1>13, <3>1, <3>2 DEF Clear
  <2> QED
    BY <1>13, <2>1, <2>2 DEF Clear, TypeOK
<1>14. CASE UNCHANGED vars
  BY <1>14 DEF vars, TypeOK
<1> QED
  BY <1>1, <1>2, <1>3, <1>4, <1>5, <1>6, <1>7, <1>8, <1>9, <1>10, <1>11, <1>12,
     <1>13, <1>14 DEF Next, Task

-----------------------------------------------------------------------------
(* The memset of the task against the handler.                             *)

LEMMA NextCleared ==
  ASSUME IInv, [Next]_vars
  PROVE  Cleared'
<1> USE AppUartAssumption DEF IInv, Cleared
<1> USE DEF hostVars, rxVars, linkVars, sendVars, talkVars
<1>1. CASE HostSends \/ LinkChanges
  BY <1>1 DEF HostSends, LinkChanges
<1>2. CASE Isr
  <2>1. PICK n \in 1 .. FifoDepth : n <= Len(wire) /\ recv_len + n <= Size /\ IsrTakes(n)
    BY <1>2 DEF Isr
  <2>2. /\ task' = task /\ recv_len' = recv_len + n
        /\ \A i \in Slots : i >= recv_len + n => buf'[i] = buf[i]
    BY <2>1, Taken DEF IsrTakes, TypeOK, Slots
  <2> QED
    BY <2>2 DEF TypeOK, Slots
<1>3. CASE Signalled \/ TimedOut
  BY <1>3 DEF Signalled, TimedOut, At
<1>4. CASE RunCommand \/ Wipe \/ AppendText \/ Decide \/ Refuse \/ Discard
  BY <1>4 DEF RunCommand, Wipe, AppendText, Decide, Refuse, Discard, GoTo, TypeOK
<1>5. CASE Reset
  BY <1>5 DEF Reset, TypeOK, Slots
<1>6. CASE Clear
  <2>1. buf' = [buf EXCEPT ![task.at] = Zero] /\ recv_len' = recv_len /\ task.pc = "clear"
    BY <1>6 DEF Clear, At
  <2>2. CASE task.at = Size - 1
    <3>1. \A i \in Slots : i = task.at \/ i < task.at
      BY <2>2 DEF Slots
    <3> QED
      BY <1>6, <2>1, <2>2, <3>1 DEF Clear, TypeOK
  <2>3. CASE task.at # Size - 1
    <3>1. task' = [task EXCEPT !.at = task.at + 1]
      BY <1>6, <2>3 DEF Clear
    <3>2. task'.pc = "clear" /\ task'.at = task.at + 1
      BY <2>1, <3>1 DEF TypeOK
    <3> QED
      BY <2>1, <3>2 DEF TypeOK, Slots
  <2> QED
    BY <2>2, <2>3
<1>7. CASE UNCHANGED vars
  BY <1>7 DEF vars
<1> QED
  BY <1>1, <1>2, <1>3, <1>4, <1>5, <1>6, <1>7 DEF Next, Task

-----------------------------------------------------------------------------
(* The order of the bytes.                                                 *)

\* A place in the stream is a number, and so is every length.
LEMMA Places ==
  ASSUME TypeOK
  PROVE  /\ Len(wire) \in Nat /\ \A i \in 1 .. Len(wire) : wire[i].s \in Nat \ {0}
         /\ Len(sendBuf) \in Nat /\ \A k \in 1 .. Len(sendBuf) : sendBuf[k].s \in Nat
         /\ \A i \in Slots : buf[i].s \in Nat
         /\ typed \in Nat /\ recv_len \in 0 .. Size
<1>1. \A t \in Token \union {Zero} : t.s \in Nat
  BY DEF Token, Zero
<1>2. wire \in Seq(Token) /\ sendBuf \in Seq(Token)
  BY DEF TypeOK
<1>3. Len(wire) \in Nat /\ \A i \in 1 .. Len(wire) : wire[i].s \in Nat \ {0}
  <2>1. \A t \in Token : t.s \in Nat \ {0}
    BY DEF Token
  <2>2. Len(wire) \in Nat /\ \A i \in 1 .. Len(wire) : wire[i] \in Token
    BY <1>2, LenProperties, ElementOfSeq
  <2> QED
    BY <2>1, <2>2
<1>4. Len(sendBuf) \in Nat /\ \A k \in 1 .. Len(sendBuf) : sendBuf[k] \in Token
  BY <1>2, LenProperties, ElementOfSeq
<1>5. \A i \in Slots : buf[i] \in Token \union {Zero}
  BY DEF TypeOK
<1>6. typed \in Nat /\ recv_len \in 0 .. Size
  BY DEF TypeOK
<1> QED
  BY <1>1, <1>3, <1>4, <1>5, <1>6

\* Steps that store nothing: they may clear slots, reset recv_len or drop the
\* text of sendBuf, and stay behind the payload or ahead of it.
LEMMA QuietOrder ==
  ASSUME IInv, UNCHANGED <<wire, typed>>,
         \A i \in Slots : buf'[i] = buf[i] \/ buf'[i] = Zero,
         recv_len' = recv_len \/ recv_len' = 0,
         sendBuf' = sendBuf \/ sendBuf' = << >>,
         task'.pc \in {"wait", "payload", "clear"} =>
           recv_len' = 0 \/ task.pc \in {"wait", "payload", "clear"}
  PROVE  WireAhead' /\ BufferAhead' /\ ByteOrder'
<1>0. TypeOK /\ WireAhead /\ BufferAhead /\ ByteOrder
  BY DEF IInv
<1>1. /\ Len(wire) \in Nat /\ \A i \in 1 .. Len(wire) : wire[i].s \in Nat \ {0}
      /\ typed \in Nat /\ recv_len \in 0 .. Size
  BY <1>0, Places
<1>2. Zero.s = 0
  BY DEF Zero
<1>3. \A k \in 1 .. Len(sendBuf') : sendBuf' = sendBuf /\ k \in 1 .. Len(sendBuf)
  <2>1. Len(<< >>) = 0
    BY EmptySeq
  <2> QED
    BY <2>1
<1>4. \A i \in Slots : buf'[i] # Zero => buf'[i] = buf[i] /\ NonZero(i)
  BY DEF NonZero
<1>5. \A i \in Slots : buf'[i].s <= typed
  BY <1>0, <1>1, <1>2 DEF WireAhead
<1>6. \A i \in Slots, j \in 1 .. Len(wire) : buf'[i].s < wire[j].s
  BY <1>0, <1>1, <1>2 DEF WireAhead
<1>7. WireAhead'
  BY <1>0, <1>3, <1>5, <1>6 DEF WireAhead, Increasing
<1>8. ASSUME NEW i \in Slots, NEW j \in Slots, i < j, j < recv_len', buf'[i] # Zero, buf'[j] # Zero
      PROVE  buf'[i].s < buf'[j].s
  <2>1. j < recv_len
    BY <1>8 DEF Slots
  <2> QED
    BY <1>0, <1>4, <1>8, <2>1 DEF BufferAhead
<1>9. ASSUME task'.pc \in {"wait", "payload", "clear"},
             NEW i \in Slots, NEW k \in 1 .. Len(sendBuf'), i < recv_len', buf'[i] # Zero
      PROVE  sendBuf'[k].s < buf'[i].s
  <2>1. recv_len' # 0
    BY <1>9 DEF Slots
  <2>2. task.pc \in {"wait", "payload", "clear"} /\ i < recv_len
    BY <1>9, <2>1
  <2> QED
    BY <1>0, <1>3, <1>4, <1>9, <2>2 DEF BufferAhead
<1>10. BufferAhead'
  BY <1>8, <1>9 DEF BufferAhead, NonZero
<1>11. ByteOrder'
  BY <1>0, <1>3 DEF ByteOrder
<1> QED
  BY <1>7, <1>10, <1>11

\* What the host sends lies behind everything sent before.
LEMMA SendOrder ==
  ASSUME IInv, HostSends
  PROVE  WireAhead' /\ BufferAhead' /\ ByteOrder'
<1>0. TypeOK /\ WireAhead /\ BufferAhead /\ ByteOrder
  BY DEF IInv
<1>1. PICK line \in Lines : wire' = wire \o Numbered(line) /\ typed' = typed + Len(line)
  BY DEF HostSends
<1>2. UNCHANGED <<buf, recv_len, sendBuf, task>>
  BY DEF HostSends, rxVars, sendVars
<1> DEFINE new == Numbered(line)
<1>3. /\ new \in Seq(Token) /\ Len(line) \in Nat /\ Len(new) = Len(line)
      /\ \A i \in 1 .. Len(line) : new[i].s = typed + i
  BY <1>0, LineTokens
<1>4. wire \in Seq(Token) /\ wire' = wire \o new
  BY <1>0, <1>1 DEF TypeOK
<1> HIDE DEF new
<1>5. /\ Len(wire') = Len(wire) + Len(line)
      /\ \A i \in 1 .. Len(wire) + Len(line) :
           wire'[i] = IF i <= Len(wire) THEN wire[i] ELSE new[i - Len(wire)]
  <2>1. /\ Len(wire \o new) = Len(wire) + Len(new)
        /\ \A i \in 1 .. Len(wire) + Len(new) :
             (wire \o new)[i] = IF i <= Len(wire) THEN wire[i] ELSE new[i - Len(wire)]
    BY <1>3, <1>4, ConcatProperties
  <2> QED
    BY <1>3, <1>4, <2>1
<1>6. /\ Len(wire) \in Nat /\ \A i \in 1 .. Len(wire) : wire[i].s \in Nat
      /\ \A k \in 1 .. Len(sendBuf) : sendBuf[k].s \in Nat
      /\ \A i \in Slots : buf[i].s \in Nat
      /\ typed \in Nat
  BY <1>0, Places
<1>7. ASSUME NEW i \in 1 .. Len(wire'), i > Len(wire)
      PROVE  wire'[i].s = typed + (i - Len(wire)) /\ i - Len(wire) \in 1 .. Len(line)
  <2>1. i - Len(wire) \in 1 .. Len(line) /\ i \in 1 .. Len(wire) + Len(line)
    BY <1>3, <1>5, <1>6, <1>7
  <2>2. wire'[i] = new[i - Len(wire)]
    BY <1>5, <1>6, <1>7, <2>1
  <2> QED
    BY <1>3, <2>1, <2>2
<1>8. ASSUME NEW i \in 1 .. Len(wire'), i <= Len(wire)
      PROVE  wire'[i] = wire[i] /\ i \in 1 .. Len(wire)
  BY <1>3, <1>5, <1>6, <1>8
<1>9. ASSUME NEW x \in Nat, x <= typed, NEW i \in 1 .. Len(wire'), i > Len(wire)
      PROVE  x < wire'[i].s
  BY <1>3, <1>6, <1>7, <1>9
<1>10. Increasing(wire')
  <2> SUFFICES ASSUME NEW i \in 1 .. Len(wire'), NEW j \in 1 .. Len(wire'), i < j
               PROVE  wire'[i].s < wire'[j].s
    BY DEF Increasing
  <2>0. i \in Nat /\ j \in Nat
    OBVIOUS
  <2>1. CASE j <= Len(wire)
    <3>1. i <= Len(wire)
      BY <1>6, <2>0, <2>1
    <3>2. wire'[i] = wire[i] /\ i \in 1 .. Len(wire) /\ wire'[j] = wire[j] /\ j \in 1 .. Len(wire)
      BY <1>8, <2>1, <3>1
    <3> QED
      BY <1>0, <3>2 DEF WireAhead, Increasing
  <2>2. CASE i <= Len(wire) /\ j > Len(wire)
    <3>1. wire'[i] = wire[i] /\ i \in 1 .. Len(wire)
      BY <1>8, <2>2
    <3>2. wire[i].s \in Nat /\ wire[i].s <= typed
      BY <1>0, <1>6, <3>1 DEF WireAhead
    <3> QED
      BY <1>9, <2>2, <3>1, <3>2
  <2>3. CASE i > Len(wire)
    <3>1. j > Len(wire)
      BY <1>6, <2>0, <2>3
    <3>2. wire'[i].s = typed + (i - Len(wire)) /\ wire'[j].s = typed + (j - Len(wire))
      BY <1>7, <2>3, <3>1
    <3> QED
      BY <1>6, <2>0, <3>2
  <2> QED
    BY <1>6, <2>0, <2>1, <2>2, <2>3
<1>11. \A i \in 1 .. Len(wire') : wire'[i].s <= typed'
  <2> SUFFICES ASSUME NEW i \in 1 .. Len(wire')
               PROVE  wire'[i].s <= typed + Len(line)
    BY <1>1
  <2>1. CASE i <= Len(wire)
    <3>1. wire'[i] = wire[i] /\ wire[i].s \in Nat /\ wire[i].s <= typed
      BY <1>0, <1>6, <1>8, <2>1 DEF WireAhead
    <3> QED
      BY <1>3, <1>6, <3>1
  <2>2. CASE i > Len(wire)
    BY <1>3, <1>6, <1>7, <2>2
  <2> QED
    BY <1>6, <2>1, <2>2
<1>12. /\ \A i \in Slots : buf[i].s <= typed'
       /\ \A k \in 1 .. Len(sendBuf) : sendBuf[k].s <= typed'
  BY <1>0, <1>1, <1>3, <1>6 DEF WireAhead
<1>13. ASSUME NEW x \in Nat, x <= typed, \A j \in 1 .. Len(wire) : x < wire[j].s,
              NEW j \in 1 .. Len(wire')
       PROVE  x < wire'[j].s
  <2>1. CASE j <= Len(wire)
    BY <1>8, <1>13, <2>1
  <2>2. CASE j > Len(wire)
    BY <1>9, <1>13, <2>2
  <2> QED
    BY <1>6, <2>1, <2>2
<1>14. /\ \A i \in Slots, j \in 1 .. Len(wire') : buf[i].s < wire'[j].s
       /\ \A k \in 1 .. Len(sendBuf), j \in 1 .. Len(wire') : sendBuf[k].s < wire'[j].s
  BY <1>0, <1>6, <1>13 DEF WireAhead
<1>15. WireAhead'
  BY <1>2, <1>10, <1>11, <1>12, <1>14 DEF WireAhead
<1>16. BufferAhead' /\ ByteOrder'
  BY <1>0, <1>2 DEF BufferAhead, ByteOrder, NonZero
<1> QED
  BY <1>15, <1>16

\* The handler moves the oldest bytes of the wire behind those it has stored.
LEMMA StoreOrder ==
  ASSUME IInv, Isr
  PROVE  WireAhead' /\ BufferAhead' /\ ByteOrder'
<1> USE AppUartAssumption DEF IInv
<1>1. PICK n \in 1 .. FifoDepth : n <= Len(wire) /\ recv_len + n <= Size /\ IsrTakes(n)
  BY DEF Isr
<1>2. UNCHANGED <<typed, sendBuf, task>> /\ recv_len' = recv_len + n
  BY <1>1 DEF IsrTakes, sendVars
<1>3. /\ Len(wire) \in Nat /\ recv_len \in 0 .. Size
      /\ \A i \in Slots : buf[i].s \in Nat
      /\ \A k \in 1 .. Len(sendBuf) : sendBuf[k].s \in Nat
      /\ \A i \in 1 .. Len(wire) : wire[i].s \in Nat
  BY Places
<1>4. /\ Len(wire') = Len(wire) - n
      /\ \A i \in 1 .. Len(wire') : wire'[i] = wire[i + n] /\ i + n \in 1 .. Len(wire)
  BY <1>1, <1>3, Taken
<1>5. ASSUME NEW i \in Slots, i \in recv_len .. recv_len + n - 1
      PROVE  buf'[i] = wire[i - recv_len + 1] /\ i - recv_len + 1 \in 1 .. n
  BY <1>1, <1>3, <1>5, Taken
<1>6. ASSUME NEW i \in Slots, i \notin recv_len .. recv_len + n - 1
      PROVE  buf'[i] = buf[i]
  BY <1>1, <1>6, Taken
<1>7. Increasing(wire') /\ \A i \in 1 .. Len(wire') : wire'[i].s <= typed'
  <2>1. ASSUME NEW i \in 1 .. Len(wire'), NEW j \in 1 .. Len(wire'), i < j
        PROVE  wire'[i].s < wire'[j].s
    <3>1. /\ wire'[i] = wire[i + n] /\ i + n \in 1 .. Len(wire)
          /\ wire'[j] = wire[j + n] /\ j + n \in 1 .. Len(wire)
      BY <1>4
    <3>2. i + n < j + n
      BY <2>1
    <3> QED
      BY <3>1, <3>2 DEF WireAhead, Increasing
  <2>2. \A i \in 1 .. Len(wire') : wire'[i].s <= typed'
    BY <1>2, <1>4 DEF WireAhead
  <2> QED
    BY <2>1, <2>2 DEF Increasing
<1>8. \A i \in Slots : buf'[i].s <= typed'
  <2> SUFFICES ASSUME NEW i \in Slots PROVE buf'[i].s <= typed'
    OBVIOUS
  <2>1. CASE i \in recv_len .. recv_len + n - 1
    <3>1. buf'[i] = wire[i - recv_len + 1] /\ i - recv_len + 1 \in 1 .. Len(wire)
      BY <1>1, <1>3, <1>5, <2>1
    <3> QED
      BY <1>2, <3>1 DEF WireAhead
  <2>2. CASE i \notin recv_len .. recv_len + n - 1
    BY <1>2, <1>6, <2>2 DEF WireAhead
  <2> QED
    BY <2>1, <2>2
<1>9. \A i \in Slots, j \in 1 .. Len(wire') : buf'[i].s < wire'[j].s
  <2> SUFFICES ASSUME NEW i \in Slots, NEW j \in 1 .. Len(wire')
               PROVE  buf'[i].s < wire'[j].s
    OBVIOUS
  <2>1. wire'[j] = wire[j + n] /\ j + n \in 1 .. Len(wire)
    BY <1>4
  <2>2. CASE i \in recv_len .. recv_len + n - 1
    BY <1>1, <1>3, <1>5, <2>1, <2>2 DEF WireAhead, Increasing
  <2>3. CASE i \notin recv_len .. recv_len + n - 1
    BY <1>6, <2>1, <2>3 DEF WireAhead
  <2> QED
    BY <2>2, <2>3
<1>10. /\ \A k \in 1 .. Len(sendBuf) : sendBuf[k].s <= typed'
       /\ \A k \in 1 .. Len(sendBuf), j \in 1 .. Len(wire') : sendBuf[k].s < wire'[j].s
  BY <1>2, <1>4 DEF WireAhead
<1>11. ASSUME NEW i \in Slots, NEW j \in Slots, i < j, j < recv_len + n,
              buf'[i] # Zero, buf'[j] # Zero
       PROVE  buf'[i].s < buf'[j].s
  <2>1. CASE j < recv_len
    <3>1. buf'[i] = buf[i] /\ buf'[j] = buf[j]
      BY <1>3, <1>6, <1>11, <2>1 DEF Slots
    <3> QED
      BY <1>11, <2>1, <3>1 DEF BufferAhead, NonZero
  <2>2. CASE i < recv_len /\ j >= recv_len
    <3>1. buf'[i] = buf[i]
      BY <1>3, <1>6, <2>2 DEF Slots
    <3>2. buf'[j] = wire[j - recv_len + 1] /\ j - recv_len + 1 \in 1 .. Len(wire)
      BY <1>1, <1>3, <1>5, <1>11, <2>2 DEF Slots
    <3> QED
      BY <3>1, <3>2 DEF WireAhead
  <2>3. CASE i >= recv_len
    <3>1. buf'[i] = wire[i - recv_len + 1] /\ i - recv_len + 1 \in 1 .. Len(wire)
      BY <1>1, <1>3, <1>5, <1>11, <2>3 DEF Slots
    <3>2. buf'[j] = wire[j - recv_len + 1] /\ j - recv_len + 1 \in 1 .. Len(wire)
      BY <1>1, <1>3, <1>5, <1>11, <2>3 DEF Slots
    <3>3. i - recv_len + 1 < j - recv_len + 1
      BY <1>3, <1>11 DEF Slots
    <3> QED
      BY <3>1, <3>2, <3>3 DEF WireAhead, Increasing
  <2> QED
    BY <1>3, <2>1, <2>2, <2>3 DEF Slots
<1>12. ASSUME task.pc \in {"wait", "payload", "clear"},
              NEW i \in Slots, NEW k \in 1 .. Len(sendBuf), i < recv_len + n, buf'[i] # Zero
       PROVE  sendBuf[k].s < buf'[i].s
  <2>1. CASE i < recv_len
    BY <1>3, <1>6, <1>12, <2>1 DEF BufferAhead, NonZero, Slots
  <2>2. CASE i >= recv_len
    <3>1. buf'[i] = wire[i - recv_len + 1] /\ i - recv_len + 1 \in 1 .. Len(wire)
      BY <1>1, <1>3, <1>5, <1>12, <2>2 DEF Slots
    <3> QED
      BY <3>1 DEF WireAhead
  <2> QED
    BY <1>3, <2>1, <2>2 DEF Slots
<1>13. WireAhead'
  BY <1>2, <1>7, <1>8, <1>9, <1>10 DEF WireAhead
<1>14. BufferAhead'
  BY <1>2, <1>11, <1>12 DEF BufferAhead, NonZero
<1> QED
  BY <1>2, <1>13, <1>14 DEF ByteOrder

\* strcat appends what lies behind the text of the payloads before it.
LEMMA AppendOrder ==
  ASSUME IInv, AppendText
  PROVE  WireAhead' /\ BufferAhead' /\ ByteOrder'
<1>0. TypeOK /\ Cleared /\ WireAhead /\ BufferAhead /\ ByteOrder
  BY DEF IInv
<1>1. PICK n \in 0 .. Size : IsLength(n) /\ sendBuf' = sendBuf \o Text(n)
  BY DEF AppendText
<1>2. /\ UNCHANGED <<wire, typed, buf, recv_len>>
      /\ task.pc = "payload" /\ task'.pc = "decide"
  BY <1>0 DEF AppendText, At, GoTo, hostVars, rxVars, TypeOK
<1>3. /\ Len(sendBuf) \in Nat /\ Len(sendBuf') = Len(sendBuf) + n
      /\ \A i \in 1 .. Len(sendBuf) + n :
           sendBuf'[i] = IF i <= Len(sendBuf) THEN sendBuf[i] ELSE buf[i - Len(sendBuf) - 1]
      /\ \A i \in 1 .. n : i - 1 \in Slots /\ NonZero(i - 1)
  BY <1>0, <1>1, Appended
<1>4. \A i \in Slots : i >= recv_len => ~NonZero(i)
  BY <1>0, <1>2 DEF Cleared, NonZero
<1>5. /\ \A i \in 1 .. Len(wire) : wire[i].s \in Nat
      /\ \A k \in 1 .. Len(sendBuf) : sendBuf[k].s \in Nat
      /\ \A i \in Slots : buf[i].s \in Nat
      /\ recv_len \in 0 .. Size
  BY <1>0, Places
<1>6. ASSUME NEW k \in 1 .. Len(sendBuf'), k <= Len(sendBuf)
      PROVE  sendBuf'[k] = sendBuf[k] /\ k \in 1 .. Len(sendBuf)
  BY <1>3, <1>6
<1>7. ASSUME NEW k \in 1 .. Len(sendBuf'), k > Len(sendBuf)
      PROVE  /\ sendBuf'[k] = buf[k - Len(sendBuf) - 1]
             /\ k - Len(sendBuf) - 1 \in Slots
             /\ NonZero(k - Len(sendBuf) - 1)
             /\ k - Len(sendBuf) - 1 < recv_len
  <2>1. k - Len(sendBuf) \in 1 .. n /\ k \in 1 .. Len(sendBuf) + n /\ ~(k <= Len(sendBuf))
    BY <1>3, <1>7
  <2>2. sendBuf'[k] = buf[k - Len(sendBuf) - 1]
    BY <1>3, <2>1
  <2>3. k - Len(sendBuf) - 1 \in Slots /\ NonZero(k - Len(sendBuf) - 1)
    BY <1>3, <2>1
  <2>4. k - Len(sendBuf) - 1 < recv_len
    BY <1>4, <1>5, <2>3 DEF Slots
  <2> QED
    BY <2>2, <2>3, <2>4
<1>8. ASSUME NEW k \in 1 .. Len(sendBuf')
      PROVE  sendBuf'[k].s <= typed /\ \A j \in 1 .. Len(wire) : sendBuf'[k].s < wire[j].s
  <2>1. CASE k <= Len(sendBuf)
    BY <1>0, <1>6, <2>1 DEF WireAhead
  <2>2. CASE k > Len(sendBuf)
    BY <1>0, <1>7, <2>2 DEF WireAhead
  <2> QED
    BY <1>3, <2>1, <2>2
<1>9. WireAhead'
  BY <1>0, <1>2, <1>8 DEF WireAhead
<1>10. BufferAhead'
  BY <1>0, <1>2 DEF BufferAhead, NonZero
<1>11. ASSUME NEW i \in 1 .. Len(sendBuf'), NEW j \in 1 .. Len(sendBuf'), i < j
       PROVE  sendBuf'[i].s < sendBuf'[j].s
  <2>0. i \in Nat /\ j \in Nat
    OBVIOUS
  <2>1. CASE j <= Len(sendBuf)
    <3>1. i <= Len(sendBuf)
      BY <1>3, <1>11, <2>0, <2>1
    <3> QED
      BY <1>0, <1>6, <1>11, <2>1, <3>1 DEF ByteOrder
  <2>2. CASE i <= Len(sendBuf) /\ j > Len(sendBuf)
    <3>1. sendBuf'[i] = sendBuf[i] /\ i \in 1 .. Len(sendBuf)
      BY <1>6, <2>2
    <3> QED
      BY <1>0, <1>2, <1>7, <2>2, <3>1 DEF BufferAhead
  <2>3. CASE i > Len(sendBuf)
    <3>1. j > Len(sendBuf)
      BY <1>3, <1>11, <2>0, <2>3
    <3>2. i - Len(sendBuf) - 1 < j - Len(sendBuf) - 1
      BY <1>3, <1>11, <2>0
    <3> QED
      BY <1>0, <1>7, <2>3, <3>1, <3>2 DEF BufferAhead
  <2> QED
    BY <1>3, <2>0, <2>1, <2>2, <2>3
<1> QED
  BY <1>9, <1>10, <1>11 DEF ByteOrder

LEMMA NextOrder ==
  ASSUME IInv, [Next]_vars
  PROVE  WireAhead' /\ BufferAhead' /\ ByteOrder'
<1> USE DEF hostVars, rxVars, linkVars, sendVars, talkVars, At, GoTo
<1>0. TypeOK
  BY DEF IInv
<1>1. CASE HostSends
  BY <1>1, SendOrder
<1>2. CASE Isr
  BY <1>2, StoreOrder
<1>3. CASE AppendText
  BY <1>3, AppendOrder
<1>4. CASE LinkChanges \/ Signalled \/ UNCHANGED vars
  BY <1>4, QuietOrder DEF LinkChanges, Signalled, vars
<1>5. CASE TimedOut
  BY <1>5, QuietOrder DEF TimedOut
<1>6. CASE RunCommand \/ Decide \/ Refuse
  BY <1>0, <1>6, QuietOrder DEF RunCommand, Decide, Refuse, TypeOK
<1>7. CASE Discard
  BY <1>0, <1>7, QuietOrder DEF Discard, TypeOK
<1>8. CASE Wipe
  BY <1>0, <1>8, QuietOrder DEF Wipe, TypeOK
<1>9. CASE Reset
  BY <1>9, QuietOrder DEF Reset
<1>10. CASE Clear
  <2>1. \A i \in Slots : buf'[i] = buf[i] \/ buf'[i] = Zero
    BY <1>0, <1>10 DEF Clear, TypeOK
  <2> QED
    BY <1>10, <2>1, QuietOrder DEF Clear
<1> QED
  BY <1>1, <1>2, <1>3, <1>4, <1>5, <1>6, <1>7, <1>8, <1>9, <1>10 DEF Next, Task

-----------------------------------------------------------------------------
(* The answers.                                                            *)

\* A decision is only reached with a link whose length is set.
LEMMA NextDeciding ==
  ASSUME IInv, [Next]_vars
  PROVE  Deciding'
<1> USE DEF Deciding, hostVars, rxVars, linkVars, sendVars, talkVars, At, GoTo
<1>0. TypeOK /\ Deciding
  BY DEF IInv
<1>1. sendBufLen' = sendBufLen => PayloadLink' = PayloadLink
  BY DEF PayloadLink
<1>2. CASE HostSends \/ LinkChanges \/ Isr \/ Signalled \/ UNCHANGED vars
  BY <1>0, <1>1, <1>2 DEF HostSends, LinkChanges, Isr, IsrTakes, Signalled, vars
<1>3. CASE AppendText
  BY <1>0, <1>1, <1>3 DEF AppendText
<1>4. CASE TimedOut
  <2>1. task'.pc # "decide"
    BY <1>4 DEF TimedOut
  <2> QED
    BY <2>1
<1>5. CASE RunCommand \/ Wipe \/ Decide \/ Refuse \/ Discard \/ Reset \/ Clear
  <2>1. task'.pc # "decide"
    BY <1>0, <1>5 DEF RunCommand, Wipe, Decide, Refuse, Discard, Reset, Clear, TypeOK
  <2> QED
    BY <2>1
<1> QED
  BY <1>2, <1>3, <1>4, <1>5 DEF Next, Task

OpenOf(f) == {c \in Links : f[c] # 0}

LEMMA LinksFinite == IsFiniteSet(Links)
<1>1. IsFiniteSet({"tcp", "udp", "ssl"})
  <2>1. IsFiniteSet({} \union {"tcp"})
    BY FS_EmptySet, FS_AddElement
  <2>2. IsFiniteSet(({} \union {"tcp"}) \union {"udp"})
    BY <2>1, FS_AddElement
  <2>3. IsFiniteSet((({} \union {"tcp"}) \union {"udp"}) \union {"ssl"})
    BY <2>2, FS_AddElement
  <2>4. (({} \union {"tcp"}) \union {"udp"}) \union {"ssl"} = {"tcp", "udp", "ssl"}
    OBVIOUS
  <2> QED
    BY <2>3, <2>4
<1> QED
  BY <1>1, FS_Subset, AppUartAssumption

\* How many links have a length set: it falls when one is forgotten and
\* grows by one at most when one is set.
LEMMA OpenCount ==
  ASSUME NEW f
  PROVE  /\ IsFiniteSet(OpenOf(f)) /\ Cardinality(OpenOf(f)) \in Nat
         /\ \A c : OpenOf(f) \union {c} = OpenOf(f)
                   \/ Cardinality(OpenOf(f) \union {c}) = Cardinality(OpenOf(f)) + 1
         /\ \A c \in OpenOf(f) : Cardinality(OpenOf(f) \ {c}) = Cardinality(OpenOf(f)) - 1
<1>1. IsFiniteSet(OpenOf(f)) /\ Cardinality(OpenOf(f)) \in Nat
  BY LinksFinite, FS_Subset, FS_CardinalityType DEF OpenOf
<1>2. \A c : OpenOf(f) \union {c} = OpenOf(f)
             \/ Cardinality(OpenOf(f) \union {c}) = Cardinality(OpenOf(f)) + 1
  BY <1>1, FS_AddElement
<1>3. \A c \in OpenOf(f) : Cardinality(OpenOf(f) \ {c}) = Cardinality(OpenOf(f)) - 1
  BY <1>1, FS_RemoveElement
<1> QED
  BY <1>1, <1>2, <1>3

LEMMA FewerOpen ==
  ASSUME NEW f, NEW g, OpenOf(g) \subseteq OpenOf(f)
  PROVE  Cardinality(OpenOf(g)) <= Cardinality(OpenOf(f))
BY OpenCount, FS_Subset

LEMMA NextAnswers ==
  ASSUME IInv, [Next]_vars
  PROVE  AnswersOwed'
<1> DEFINE open == Cardinality(OpenOf(sendBufLen))
<1> DEFINE next == Cardinality(OpenOf(sendBufLen'))
<1>0. /\ TypeOK /\ Deciding
      /\ results + open <= prompts
      /\ AnswersOwed' <=> results' + next <= prompts'
  BY DEF IInv, AnswersOwed, OpenPrompts, OpenOf
<1>1. open \in Nat /\ next \in Nat /\ results \in Nat /\ prompts \in Nat
  BY <1>0, OpenCount DEF TypeOK
<1>2. OpenOf(sendBufLen') \subseteq OpenOf(sendBufLen) => next <= open
  BY FewerOpen
<1>3. ASSUME PayloadLink \in {"ssl", "tcp"}, results' = results + 1, prompts' = prompts,
             sendBufLen' = [sendBufLen EXCEPT ![PayloadLink] = 0]
      PROVE  results' + next <= prompts'
  <2>1. PayloadLink \in OpenOf(sendBufLen)
    BY <1>3 DEF PayloadLink, OpenOf
  <2>2. OpenOf(sendBufLen') = OpenOf(sendBufLen) \ {PayloadLink}
    BY <1>0, <1>3 DEF OpenOf, TypeOK
  <2>3. next = open - 1
    BY <2>1, <2>2, OpenCount
  <2> HIDE DEF open, next
  <2> QED
    BY <1>0, <1>1, <1>3, <2>3
<1>4. CASE UNCHANGED <<sendBufLen, prompts, results>>
  BY <1>0, <1>4
<1>5. CASE RunCommand
  <2>1. PICK c : c = (IF Size > 1 THEN buf[1] ELSE Zero)
    OBVIOUS
  <2>2. results' = results
    BY <1>5 DEF RunCommand
  <2>3. CASE CipStart(c.link)
    <3>1. OpenOf(sendBufLen') \subseteq OpenOf(sendBufLen)
      BY <1>0, <2>3 DEF CipStart, linkVars, OpenOf, TypeOK
    <3>2. prompts' = prompts /\ next <= open
      BY <1>2, <2>3, <3>1 DEF CipStart
    <3> HIDE DEF open, next
    <3> QED
      BY <1>0, <1>1, <2>2, <3>2
  <2>4. CASE CipSend(c.n)
    <3>1. CASE prompts' = prompts + 1 /\ sendBufLen' = [sendBufLen EXCEPT ![SendLink] = c.n]
      <4>1. OpenOf(sendBufLen') \subseteq OpenOf(sendBufLen) \union {SendLink}
        BY <1>0, <3>1 DEF OpenOf, TypeOK
      <4>2. next <= open + 1
        <5>1. /\ IsFiniteSet(OpenOf(sendBufLen) \union {SendLink})
              /\ \/ Cardinality(OpenOf(sendBufLen) \union {SendLink}) = open
                 \/ Cardinality(OpenOf(sendBufLen) \union {SendLink}) = open + 1
          BY OpenCount, FS_AddElement
        <5>2. next <= Cardinality(OpenOf(sendBufLen) \union {SendLink})
          BY <4>1, <5>1, FS_Subset
        <5> QED
          BY <1>1, <5>1, <5>2
      <4> HIDE DEF open, next
      <4> QED
        BY <1>0, <1>1, <2>2, <3>1, <4>2
    <3>2. CASE UNCHANGED <<sendBufLen, prompts>>
      BY <1>4, <2>2, <3>2
    <3> QED
      BY <2>4, <3>1, <3>2 DEF CipSend
  <2>5. CASE CipClose \/ UNCHANGED <<linkVars, prompts>>
    BY <1>4, <2>2, <2>5 DEF CipClose, linkVars
  <2> HIDE DEF open, next
  <2> QED
    BY <1>0, <1>5, <2>1, <2>3, <2>4, <2>5 DEF RunCommand, CommandRuns
<1>6. CASE Decide
  <2>1. PayloadLink \in {"ssl", "tcp"} /\ prompts' = prompts
    BY <1>0, <1>6 DEF Decide, Deciding, At
  <2>2. CASE Complete
    BY <1>0, <1>3, <1>6, <2>1, <2>2 DEF Decide
  <2>3. CASE ~Complete
    BY <1>4, <1>6, <2>1, <2>3 DEF Decide
  <2> QED
    BY <2>2, <2>3
<1>7. CASE Refuse
  BY <1>0, <1>3, <1>7 DEF Refuse
<1>8. CASE Discard
  <2>1. OpenOf(sendBufLen') \subseteq OpenOf(sendBufLen)
    BY <1>8 DEF Discard, OpenOf
  <2>2. UNCHANGED <<prompts, results>> /\ next <= open
    BY <1>2, <1>8, <2>1 DEF Discard, talkVars
  <2> HIDE DEF open, next
  <2> QED
    BY <1>0, <1>1, <2>2
<1>9. CASE \/ HostSends \/ LinkChanges \/ Isr \/ Signalled \/ TimedOut \/ Wipe
           \/ AppendText \/ Reset \/ Clear \/ UNCHANGED vars
  <2>1. UNCHANGED <<sendBufLen, prompts, results>>
    BY <1>9 DEF HostSends, LinkChanges, Isr, IsrTakes, Signalled, TimedOut, Wipe,
       AppendText, Reset, Clear, vars, linkVars, talkVars
  <2> QED
    BY <1>4, <2>1
<1> HIDE DEF open, next
<1> QED
  BY <1>5, <1>6, <1>7, <1>8, <1>9 DEF Next, Task

-----------------------------------------------------------------------------
(* The theorems.                                                           *)

LEMMA InitIInv == Init => IInv
<1> SUFFICES ASSUME Init PROVE IInv
  OBVIOUS
<1> USE AppUartAssumption DEF Init
<1>1. << >> \in Seq(Token) /\ Len(<< >>) = 0 /\ 0 \in Slots
  BY EmptySeq DEF Slots
<1>2. Zero.s = 0
  BY DEF Zero
<1>3. TypeOK
  BY <1>1 DEF TypeOK
<1>4. Cleared /\ Deciding
  BY DEF Cleared, Deciding
<1>5. WireAhead /\ BufferAhead /\ ByteOrder
  BY <1>1, <1>2 DEF WireAhead, Increasing, BufferAhead, ByteOrder, NonZero, Slots
<1>6. AnswersOwed
  <2>1. {c \in Links : sendBufLen[c] # 0} = {}
    OBVIOUS
  <2>2. OpenPrompts = 0
    BY <2>1, FS_EmptySet DEF OpenPrompts
  <2> QED
    BY <2>2 DEF AnswersOwed
<1> QED
  BY <1>3, <1>4, <1>5, <1>6 DEF IInv

LEMMA NextIInv == IInv /\ [Next]_vars => IInv'
<1> SUFFICES ASSUME IInv, [Next]_vars PROVE IInv'
  OBVIOUS
<1>1. TypeOK'
  BY NextType DEF IInv
<1> QED
  BY <1>1, NextCleared, NextOrder, NextDeciding, NextAnswers DEF IInv

\* The types, the zeros, the order of the bytes and the answers owed hold
\* together in every reachable state of app_uart_isr and app_uart_rx_task.
THEOREM AppUartInductive == Spec => []IInv
<1> QED
  BY InitIInv, NextIInv, PTL DEF Spec

\* Every variable keeps its type: app_uart_isr stores inside the buffer and
\* recv_len never passes APP_UART_BUF_MAX.
THEOREM AppUartTypes == Spec => []TypeOK
<1>1. IInv => TypeOK
  BY DEF IInv
<1> QED
  BY AppUartInductive, <1>1, PTL

\* When app_uart_rx_task looks at the buffer, all of it behind recv_len is
\* zero, whatever the handler stored while the memset ran.
THEOREM BufferTerminated == Spec => []Terminated
<1>1. IInv => Terminated
  BY DEF IInv, Cleared, Terminated, At
<1> QED
  BY AppUartInductive, <1>1, PTL

\* Text reaches sendBuf in the order the host sent it, no byte twice.
THEOREM BytesInOrder == Spec => []ByteOrder
<1>1. IInv => ByteOrder
  BY DEF IInv
<1> QED
  BY AppUartInductive, <1>1, PTL

\* SEND OK, SEND FAIL and ERROR for a payload never outnumber the prompts of
\* CIPSEND, the ones still open counted.
THEOREM AnswersAreOwed == Spec => []AnswersOwed
<1>1. IInv => AnswersOwed
  BY DEF IInv
<1> QED
  BY AppUartInductive, <1>1, PTL

-----------------------------------------------------------------------------
(* The contract of the connections.                                        *)

\* A step of one link, and of nothing else.
OnLink(c) ==
  /\ UNCHANGED <<hostVars, rxVars, task, sendBufLen, sendVars, talkVars>>
  /\ magic' \in [Links -> BOOLEAN] /\ dialing' \in [Links -> BOOLEAN]
  /\ \A d \in Links \ {c} : magic'[d] = magic[d] /\ dialing'[d] = dialing[d]

\* The model leaves nothing out that the connection tasks of TcpLink may do:
\* every verdict and every end of a link that their contract allows is a step
\* of it.
THEOREM TasksAreAllowed ==
  ASSUME TypeOK, NEW c \in Links \ {"udp"}, OnLink(c), Link(c)!Verdict \/ Link(c)!Drop
  PROVE  LinkChanges
<1>1. /\ magic \in [Links -> BOOLEAN] /\ dialing \in [Links -> BOOLEAN]
      /\ magic' = [magic EXCEPT ![c] = magic'[c]]
      /\ dialing' = [dialing EXCEPT ![c] = dialing'[c]]
  BY DEF TypeOK, OnLink
<1>2. CASE Link(c)!Verdict
  <2>1. dialing[c] /\ magic'[c] \in BOOLEAN /\ dialing'[c] \in BOOLEAN
    BY <1>2 DEF Link!Verdict
  <2> QED BY <1>1, <2>1 DEF OnLink, LinkChanges
<1>3. CASE Link(c)!Drop
  <2>1. magic[c] /\ magic'[c] = FALSE /\ dialing'[c] = dialing[c]
    BY <1>3 DEF Link!Drop
  <2>2. dialing' = dialing /\ magic' = [magic EXCEPT ![c] = FALSE]
    BY <1>1, <2>1
  <2> QED BY <2>1, <2>2 DEF OnLink, LinkChanges
<1> QED BY <1>2, <1>3

LEMMA LinkStays ==
  ASSUME NEW c \in Links, magic' = magic, dialing' = dialing
  PROVE  UNCHANGED Link(c)!statusVars
BY DEF Link!statusVars

\* AT+CIPSTART, AT+CIPSEND and AT+CIPCLOSE.
LEMMA CommandKeepsContract ==
  ASSUME TypeOK, NEW c \in Links \ {"udp"}, RunCommand
  PROVE  [Link(c)!Next]_(Link(c)!statusVars)
<1> DEFINE cmd == IF Size > 1 THEN buf[1] ELSE Zero
<1>1. magic \in [Links -> BOOLEAN] /\ dialing \in [Links -> BOOLEAN]
  BY DEF TypeOK
<1>2. \/ CipStart(cmd.link) \/ CipSend(cmd.n) \/ CipClose
      \/ magic' = magic /\ dialing' = dialing
  BY DEF RunCommand, CommandRuns, linkVars
<1> HIDE DEF cmd
<1>3. ASSUME NEW d, CipStart(d)
      PROVE  \/ magic' = magic /\ dialing' = dialing
             \/ Link(c)!Dial \/ UNCHANGED Link(c)!statusVars
  <2>1. CASE magic[d]
    BY <1>3, <2>1 DEF CipStart, linkVars
  <2>2. CASE ~ magic[d]
    <3>1. /\ magic' = [magic EXCEPT ![d] = (d = "udp")]
          /\ dialing' = [dialing EXCEPT ![d] = (d # "udp")]
      BY <1>3, <2>2 DEF CipStart
    <3>2. CASE d = c
      <4>1. ~ magic[c] /\ magic'[c] = FALSE /\ dialing'[c] = TRUE
        BY <1>1, <2>2, <3>1, <3>2
      <4>2. magic'[c] = magic[c]
        BY <1>1, <4>1
      <4> QED BY <4>1, <4>2 DEF Link!Dial
    <3>3. CASE d # c
      <4>1. magic'[c] = magic[c] /\ dialing'[c] = dialing[c]
        BY <1>1, <3>1, <3>3
      <4> QED BY <4>1 DEF Link!statusVars
    <3> QED BY <3>2, <3>3
  <2> QED BY <2>1, <2>2
<1>4. CASE CipClose
  <2>1. dialing' = dialing /\ magic'[c] = (magic[c] /\ c # CloseLink)
    BY <1>1, <1>4 DEF CipClose
  <2>2. CASE magic'[c] = magic[c]
    BY <2>1, <2>2 DEF Link!statusVars
  <2>3. CASE magic'[c] # magic[c]
    <3>1. magic[c] /\ magic'[c] = FALSE
      BY <1>1, <2>1, <2>3
    <3> QED BY <2>1, <3>1 DEF Link!Next, Link!Drop
  <2> QED BY <2>2, <2>3
<1>5. CipSend(cmd.n) => magic' = magic /\ dialing' = dialing
  BY DEF CipSend
<1> QED BY <1>2, <1>3, <1>4, <1>5, LinkStays DEF Link!Next

LEMMA StepKeepsContract ==
  ASSUME TypeOK, [Next]_vars, NEW c \in Links \ {"udp"}
  PROVE  [Link(c)!Next]_(Link(c)!statusVars)
<1>1. magic \in [Links -> BOOLEAN] /\ dialing \in [Links -> BOOLEAN]
  BY DEF TypeOK
<1>2. CASE RunCommand
  BY <1>2, CommandKeepsContract
<1>3. CASE LinkChanges
  <2>1. PICK d \in Links :
          \/ /\ dialing[d]
             /\ \E more \in BOOLEAN : dialing' = [dialing EXCEPT ![d] = more]
             /\ \E ok \in BOOLEAN : magic' = [magic EXCEPT ![d] = ok]
          \/ magic[d] /\ magic' = [magic EXCEPT ![d] = FALSE] /\ dialing' = dialing
    BY <1>3 DEF LinkChanges
  <2>2. CASE d = c
    <3>1. \/ dialing[c] /\ magic'[c] \in BOOLEAN /\ dialing'[c] \in BOOLEAN
          \/ magic[c] /\ magic'[c] = FALSE /\ dialing'[c] = dialing[c]
      BY <1>1, <2>1, <2>2
    <3> QED BY <3>1 DEF Link!Next, Link!Verdict, Link!Drop
  <2>3. CASE d # c
    <3>1. magic'[c] = magic[c] /\ dialing'[c] = dialing[c]
      BY <1>1, <2>1, <2>3
    <3> QED BY <3>1 DEF Link!statusVars
  <2> QED BY <2>2, <2>3
<1>4. CASE ~ RunCommand /\ ~ LinkChanges
  <2>1. magic' = magic /\ dialing' = dialing
    BY <1>4 DEF Next, Task, vars, linkVars, HostSends, Isr, IsrTakes, Signalled, TimedOut,
                Wipe, AppendText, Decide, Refuse, Discard, Reset, Clear
  <2> QED BY <2>1, LinkStays
<1> QED BY <1>2, <1>3, <1>4

\* AppUart with its environment keeps the contract too: it begins a connection
\* while the link is down only, and never sets the magic number itself.
THEOREM ContractKept ==
  ASSUME NEW c \in Links \ {"udp"}
  PROVE  Spec => Link(c)!Spec
<1>1. Init => Link(c)!Init
  BY DEF Init, Link!Init
<1>2. TypeOK /\ [Next]_vars => [Link(c)!Next]_(Link(c)!statusVars)
  BY StepKeepsContract
<1> QED BY <1>1, <1>2, AppUartTypes, PTL DEF Spec, Link!Spec
=============================================================================
