------------------------------- MODULE AppUart ------------------------------
(***************************************************************************)
(* The AT interface of the firmware (projects/mac_atcmd/src/app/           *)
(* app_uart.c): app_uart_isr fills one flat buffer, app_uart_rx_task wakes *)
(* every 50 ms, takes the buffer for an AT command or for the payload of a *)
(* CIPSEND, and then clears it while the handler goes on storing.          *)
(*                                                                         *)
(* A token stands for a piece of the byte stream that arrives at once: the *)
(* prefix "AT+", the rest of a command line, the escape "+++", one byte of *)
(* payload.  Its field s is its place in the stream of the host.           *)
(***************************************************************************)
EXTENDS Integers, Sequences, FiniteSets

CONSTANTS
  Size,        \* APP_UART_BUF_MAX
  FifoDepth,   \* tokens one handler run finds in the hardware FIFO at most
  Lengths,     \* lengths a CIPSEND asks for
  Links,       \* links the host opens, a subset of {"tcp", "udp", "ssl"}
  MaxLines     \* bound on what the host sends, for model checking

ASSUME AppUartAssumption ==
  /\ Size \in Nat \ {0}
  /\ FifoDepth \in Nat \ {0}
  /\ Lengths \subseteq Nat
  /\ Links \subseteq {"tcp", "udp", "ssl"}
  /\ MaxLines \in Nat

VARIABLES
  wire,        \* tokens the host has sent and no handler has read
  typed,       \* tokens the host has sent
  lines,       \* command lines and payloads the host has sent
  buf,         \* AppUartRx->buf
  recv_len,    \* AppUartRx->recv_len
  sem,         \* AppUartRxSem is signalled
  task,        \* app_uart_rx_task: program counter, the len it passes on,
               \* and the next slot its memset clears
  sendBuf,     \* sendBuf up to its first zero byte
  totalLen,    \* totalLen of app_tranmission_mode
  magic,       \* deviceCommMsg.comm*.magic = DEV_MAGIC
  sendBufLen,  \* deviceCommMsg.comm*.sendBufLen
  dialing,     \* a connection task is between its creation and its verdict
  mode,        \* AtCmdMode
  prompts,     \* "\r\n>" written to the host so far
  results      \* SEND OK, SEND FAIL and ERROR that answer a payload so far

hostVars == <<wire, typed, lines>>
rxVars   == <<buf, recv_len, sem>>
linkVars == <<magic, sendBufLen, dialing>>
sendVars == <<sendBuf, totalLen>>
talkVars == <<mode, prompts, results>>
vars     == <<hostVars, rxVars, task, linkVars, sendVars, talkVars>>

Kinds == {"AT+", "start", "close", "send", "exit", "+++", "data"}
Token == [k : Kinds, link : Links \union {"-"}, n : Lengths \union {0}, s : Nat \ {0}]
Zero  == [k |-> "zero", link |-> "-", n |-> 0, s |-> 0]
Slots == 0 .. Size - 1

Init ==
  /\ wire = << >> /\ typed = 0 /\ lines = 0
  /\ buf = [i \in Slots |-> Zero] /\ recv_len = 0 /\ sem = FALSE
  /\ task = [pc |-> "wait", len |-> 0, at |-> 0]
  /\ sendBuf = << >> /\ totalLen = 0
  /\ magic = [c \in Links |-> FALSE]
  /\ sendBufLen = [c \in Links |-> 0]
  /\ dialing = [c \in Links |-> FALSE]
  /\ mode = "TRANSMIT_MODE"
  /\ prompts = 0 /\ results = 0

-----------------------------------------------------------------------------
(* The host and the network.                                               *)

Say(k, link, n) == [k |-> k, link |-> link, n |-> n]
Command(k, link, n) == <<Say("AT+", "-", 0), Say(k, link, n)>>

Lines == {Command("start", c, 0) : c \in Links}
           \union {Command("send", "-", n) : n \in Lengths}
           \union {Command("close", "-", 0), Command("exit", "-", 0),
                   <<Say("+++", "-", 0)>>, <<Say("data", "-", 0)>>}

Numbered(line) ==
  [i \in DOMAIN line |-> [k |-> line[i].k, link |-> line[i].link,
                          n |-> line[i].n, s |-> typed + i]]

\* Hardware flow control holds back what the FIFO cannot take.
HostSends ==
  /\ lines < MaxLines
  /\ \E line \in Lines :
       /\ wire' = wire \o Numbered(line)
       /\ typed' = typed + Len(line)
  /\ lines' = lines + 1
  /\ UNCHANGED <<rxVars, task, linkVars, sendVars, talkVars>>

\* The connection tasks (module TcpLink) open a link or give up, and a lost
\* connection clears the magic number; what a CIPSEND asked for stays.  A host
\* that does not wait for the verdict may have several of them under way.
LinkChanges ==
  /\ \E c \in Links :
       \/ /\ dialing[c]
          /\ \E more \in BOOLEAN : dialing' = [dialing EXCEPT ![c] = more]
          /\ \E ok \in BOOLEAN : magic' = [magic EXCEPT ![c] = ok]
       \/ /\ magic[c] /\ c # "udp"
          /\ magic' = [magic EXCEPT ![c] = FALSE]
          /\ UNCHANGED dialing
  /\ UNCHANGED <<hostVars, rxVars, task, sendBufLen, sendVars, talkVars>>

-----------------------------------------------------------------------------
(* app_uart_isr: as many bytes as the FIFO and the rest of the buffer      *)
(* allow; the semaphore is signalled when the buffer is full.              *)

IsrTakes(n) ==
  /\ buf' = [i \in Slots |-> IF i \in recv_len .. recv_len + n - 1
                             THEN wire[i - recv_len + 1] ELSE buf[i]]
  /\ recv_len' = recv_len + n
  /\ sem' = (sem \/ recv_len' = Size)
  /\ wire' = SubSeq(wire, n + 1, Len(wire))
  /\ UNCHANGED <<typed, lines, task, linkVars, sendVars, talkVars>>

\* Faulty: the room left in the buffer is not looked at.
IsrOverrun ==
  \E n \in 1 .. FifoDepth : n <= Len(wire) /\ recv_len < Size /\ IsrTakes(n)

Isr ==
  \E n \in 1 .. FifoDepth : n <= Len(wire) /\ recv_len + n <= Size /\ IsrTakes(n)

-----------------------------------------------------------------------------
(* app_uart_rx_task.                                                       *)

At(pc) == task.pc = pc
GoTo(pc) == task' = [task EXCEPT !.pc = pc]

\* The signal of a full buffer: "else if(ret = OS_SUCCESS)" assigns 0, so
\* the branch behind it never runs and the task waits again.
Signalled ==
  /\ At("wait") /\ sem
  /\ sem' = FALSE
  /\ UNCHANGED <<hostVars, buf, recv_len, task, linkVars, sendVars, talkVars>>

IsCommand == buf[0].k = "AT+"
IsEscape  == buf[0].k = "+++"

\* OS_TIMEOUT with bytes in the buffer: which of the three cases it is.
TimedOut ==
  /\ At("wait") /\ ~sem /\ recv_len > 0
  /\ task' = [pc  |-> CASE IsCommand -> "command" [] IsEscape -> "reset"
                        [] OTHER -> "payload",
              len |-> recv_len, at |-> 0]
  /\ mode' = IF IsCommand THEN "ATCMD_MODE" ELSE mode
  /\ UNCHANGED <<hostVars, rxVars, linkVars, sendVars, prompts, results>>

\* AT+CIPSTART: the record of the link is cleared, a UDP link is up at once,
\* for the others a task is created.
CipStart(c) ==
  /\ IF magic[c] THEN UNCHANGED linkVars
     ELSE /\ sendBufLen' = [sendBufLen EXCEPT ![c] = 0]
          /\ magic' = [magic EXCEPT ![c] = (c = "udp")]
          /\ dialing' = [dialing EXCEPT ![c] = (c # "udp")]
  /\ UNCHANGED prompts

Up(c) == c \in Links /\ magic[c]

\* AT+CIPSEND: the first open link of TCP, SSL, UDP takes the length.
SendLink ==
  CASE Up("tcp") -> "tcp" [] Up("ssl") -> "ssl" [] Up("udp") -> "udp" [] OTHER -> "-"
CipSend(n) ==
  /\ IF n > 0 /\ SendLink # "-"
     THEN sendBufLen' = [sendBufLen EXCEPT ![SendLink] = n] /\ prompts' = prompts + 1
     ELSE UNCHANGED <<sendBufLen, prompts>>
  /\ UNCHANGED <<magic, dialing>>

\* AT+CIPCLOSE: the first open link of TCP, UDP, SSL.
CloseLink ==
  CASE Up("tcp") -> "tcp" [] Up("udp") -> "udp" [] Up("ssl") -> "ssl" [] OTHER -> "-"
CipClose ==
  /\ magic' = [c \in Links |-> magic[c] /\ c # CloseLink]
  /\ UNCHANGED <<sendBufLen, dialing, prompts>>

\* AT+EXIT: len is the length of the whole line, so the mode stays.
ModeAfter(cmd) ==
  IF cmd.k = "exit" /\ task.len = 0 THEN "TRANSMIT_MODE" ELSE mode

\* ATCmdProcessing; a line that is no command is answered with ERROR.
CommandRuns ==
  LET cmd == IF Size > 1 THEN buf[1] ELSE Zero
  IN  /\ \/ cmd.k = "start" /\ CipStart(cmd.link)
         \/ cmd.k = "send" /\ CipSend(cmd.n)
         \/ cmd.k = "close" /\ CipClose
         \/ cmd.k \notin {"start", "send", "close"} /\ UNCHANGED <<linkVars, prompts>>
      /\ mode' = ModeAfter(cmd)

\* AppUartProcessing; it answers the host before the buffer is cleared.
RunCommand ==
  /\ At("command")
  /\ CommandRuns
  /\ GoTo("wipe")
  /\ UNCHANGED <<hostVars, rxVars, sendVars, results>>

\* The memset at the end of AppUartProcessing.  The task reads nothing of the
\* buffer before it clears it again, so it is one step.
Wipe ==
  /\ At("wipe")
  /\ buf' = [i \in Slots |-> Zero]
  /\ GoTo("reset")
  /\ UNCHANGED <<hostVars, recv_len, sem, linkVars, sendVars, talkVars>>

\* app_tranmission_mode: the link whose length is set takes the payload, SSL
\* before TCP before UDP.
PayloadLink ==
  CASE "ssl" \in Links /\ sendBufLen["ssl"] # 0 -> "ssl"
    [] "tcp" \in Links /\ sendBufLen["tcp"] # 0 -> "tcp"
    [] "udp" \in Links /\ sendBufLen["udp"] # 0 -> "udp"
    [] OTHER -> "-"

\* strcat takes the buffer up to its first zero byte.
NonZero(i) == buf[i] # Zero
IsLength(n) == (\A i \in 0 .. n - 1 : NonZero(i)) /\ (n < Size => ~NonZero(n))
Text(n) == [i \in 1 .. n |-> buf[i - 1]]

\* An open SSL or TCP link: the text is appended to what sendBuf holds.
AppendText ==
  /\ At("payload") /\ PayloadLink \in {"ssl", "tcp"} /\ magic[PayloadLink]
  /\ totalLen' = totalLen + task.len
  /\ \E n \in 0 .. Size : IsLength(n) /\ sendBuf' = sendBuf \o Text(n)
  /\ GoTo("decide")
  /\ UNCHANGED <<hostVars, rxVars, linkVars, talkVars>>

\* All that was asked for is there, or no byte came behind the ones passed on
\* (the byte behind a full buffer is padding, and zero).
Complete ==
  \/ totalLen >= sendBufLen[PayloadLink]
  \/ task.len = Size
  \/ ~NonZero(task.len)

\* Faulty: the length stays set after the payload was sent.
DecideKeepsLength ==
  /\ At("decide")
  /\ IF Complete
     THEN results' = results + 1 /\ totalLen' = 0 /\ UNCHANGED sendBufLen
     ELSE UNCHANGED <<results, totalLen, sendBufLen>>
  /\ GoTo("reset")
  /\ UNCHANGED <<hostVars, rxVars, magic, dialing, sendBuf, mode, prompts>>

\* Send, answer and forget the length.  sendBuf keeps its text.
Decide ==
  /\ At("decide")
  /\ IF Complete
     THEN /\ results' = results + 1
          /\ totalLen' = 0
          /\ sendBufLen' = [sendBufLen EXCEPT ![PayloadLink] = 0]
     ELSE UNCHANGED <<results, totalLen, sendBufLen>>
  /\ GoTo("reset")
  /\ UNCHANGED <<hostVars, rxVars, magic, dialing, sendBuf, mode, prompts>>

\* The link has gone since the prompt: ERROR.
Refuse ==
  /\ At("payload") /\ PayloadLink \in {"ssl", "tcp"} /\ ~magic[PayloadLink]
  /\ sendBufLen' = [sendBufLen EXCEPT ![PayloadLink] = 0]
  /\ results' = results + 1
  /\ GoTo("reset")
  /\ UNCHANGED <<hostVars, rxVars, magic, dialing, sendVars, mode, prompts>>

\* UDP sends nothing and says nothing; without a length the payload is
\* dropped.  Both clear sendBuf.
Discard ==
  /\ At("payload") /\ PayloadLink \in {"udp", "-"}
  /\ totalLen' = IF PayloadLink = "udp" \/ sendBuf # << >> THEN 0 ELSE totalLen
  /\ sendBuf' = << >>
  /\ sendBufLen' = [c \in Links |-> IF c = PayloadLink THEN 0 ELSE sendBufLen[c]]
  /\ GoTo("reset")
  /\ UNCHANGED <<hostVars, rxVars, magic, dialing, talkVars>>

\* Faulty: recv_len is not reset.
ResetNoLength ==
  /\ At("reset")
  /\ task' = [task EXCEPT !.pc = "clear", !.at = 0]
  /\ UNCHANGED <<hostVars, rxVars, linkVars, sendVars, talkVars>>

\* recv_len = 0, then the memset; the handler may store between the two, so
\* the memset goes slot by slot.
Reset ==
  /\ At("reset")
  /\ recv_len' = 0
  /\ task' = [task EXCEPT !.pc = "clear", !.at = 0]
  /\ UNCHANGED <<hostVars, buf, sem, linkVars, sendVars, talkVars>>

\* Faulty: no memset.
ClearNothing ==
  /\ At("clear")
  /\ task' = [task EXCEPT !.pc = "wait"]
  /\ UNCHANGED <<hostVars, rxVars, linkVars, sendVars, talkVars>>

Clear ==
  /\ At("clear")
  /\ buf' = [buf EXCEPT ![task.at] = Zero]
  /\ task' = IF task.at = Size - 1 THEN [task EXCEPT !.pc = "wait"]
                                   ELSE [task EXCEPT !.at = task.at + 1]
  /\ UNCHANGED <<hostVars, recv_len, sem, linkVars, sendVars, talkVars>>

Task ==
  \/ Signalled \/ TimedOut \/ RunCommand \/ Wipe \/ AppendText \/ Decide
  \/ Refuse \/ Discard \/ Reset \/ Clear

Next == HostSends \/ LinkChanges \/ Isr \/ Task

Spec == Init /\ [][Next]_vars

\* The task runs when it is ready and the interrupt handler when bytes are
\* there and the buffer has room; the host and the network owe nothing.
FairSpec == Spec /\ WF_vars(Task) /\ WF_vars(Isr)

\* The connection of a TCP or SSL link, as its tasks and this one see it.
Link(c) == INSTANCE LinkStatus WITH up <- magic[c], dialing <- dialing[c]

-----------------------------------------------------------------------------
(* Properties.                                                             *)

\* Every value in its range: the handler never stores beyond the buffer,
\* though the task resets recv_len under it.
TypeOK ==
  /\ wire \in Seq(Token) /\ typed \in Nat /\ lines \in 0 .. MaxLines
  /\ buf \in [Slots -> Token \union {Zero}]
  /\ recv_len \in 0 .. Size /\ sem \in BOOLEAN
  /\ task \in [pc : {"wait", "command", "wipe", "payload", "decide", "reset", "clear"},
               len : 0 .. Size, at : Slots]
  /\ sendBuf \in Seq(Token) /\ totalLen \in Nat
  /\ magic \in [Links -> BOOLEAN] /\ dialing \in [Links -> BOOLEAN]
  /\ sendBufLen \in [Links -> Lengths \union {0}]
  /\ mode \in {"TRANSMIT_MODE", "ATCMD_MODE"}
  /\ prompts \in Nat /\ results \in Nat

\* Whenever the task looks at the buffer, all of it behind recv_len is zero:
\* memcmp and strcat never see a byte of an earlier line, although the handler
\* stores between "recv_len = 0" and the end of the memset.
Terminated ==
  At("wait") => \A i \in Slots : i >= recv_len => buf[i] = Zero

\* No byte of the stream reaches the send buffer twice or before an earlier
\* one, however handler, task and links interleave: sendBuf is text of the
\* host in the order it was sent.
ByteOrder ==
  \A i, j \in 1 .. Len(sendBuf) : i < j => sendBuf[i].s < sendBuf[j].s

\* A payload is answered only by a prompt of its own: SEND OK, SEND FAIL and
\* ERROR never outnumber the prompts, and a prompt still open has its answer
\* in reserve, also when a link goes down or opens again in between.
OpenPrompts == Cardinality({c \in Links : sendBufLen[c] # 0})
AnswersOwed == results + OpenPrompts <= prompts

\* The buffer never stays full or forgotten: bytes in it are handled and the
\* buffer is emptied, even when the semaphore of the full buffer is consumed
\* by the branch that does nothing.
Handled == (recv_len > 0) ~> (recv_len = 0)
=============================================================================
