----------------------------- MODULE CliConsole -----------------------------
(***************************************************************************)
(* The CLI task of the AT firmware (Cli_Task, Cli_Start in                 *)
(* projects/mac_atcmd/src/cli/cli.c) on top of its receive ring: the line  *)
(* editor and the dispatch of a finished line to At_Parser.                *)
(*                                                                         *)
(* The editor touches only the task's own buffer, so the switch of         *)
(* Cli_Start is one step with the end of the uart_read that fetched the    *)
(* byte.  The escape key is different: __get_char then reads the next byte *)
(* straight from the hardware FIFO, which the interrupt handler empties    *)
(* too.  Command history is not compiled in (CLI_HISTORY_ENABLE is not     *)
(* defined for this file).                                                 *)
(***************************************************************************)
EXTENDS UartRing, SequencesExt

CONSTANTS
  BufferSize,  \* CLI_BUFFER_SIZE
  Keys         \* the kinds of key the user types

ASSUME ConsoleAssumption ==
  /\ BufferSize \in Nat \ {0}
  /\ Keys \subseteq {"char", "bs", "cr", "esc", "?"}

VARIABLES
  kind,         \* the kind of each byte the hardware accepted
  sgCmdBuffer,  \* the serial number of the byte in each place, 0 for NUL
  sgCurPos,
  escWait,      \* the task is inside __get_char
  typed,        \* bytes the editor consumed since the last line ended
  executed      \* the line last handed to At_Parser, <<>> before the first

lineVars    == <<sgCmdBuffer, sgCurPos, typed, executed>>
consoleVars == <<vars, kind, lineVars, escWait>>

\* Cli_Start reads one byte at a time.
ConsoleInit ==
  /\ Init /\ ReadSize = 1
  /\ kind = << >>
  /\ sgCmdBuffer = [i \in 0 .. BufferSize |-> 0]
  /\ sgCurPos = 0
  /\ escWait = FALSE
  /\ typed = << >> /\ executed = << >>

\* The text of the buffer, up to its NUL.
StrLen(buf) == CHOOSE n \in 0 .. BufferSize :
                 buf[n] = 0 /\ \A i \in 0 .. n - 1 : buf[i] # 0
Text(buf) == [i \in 1 .. StrLen(buf) |-> buf[i - 1]]

-----------------------------------------------------------------------------
Type ==
  /\ Arrive
  /\ \E k \in Keys : kind' = Append(kind, k)
  /\ UNCHANGED <<lineVars, escWait>>

RxIsr == Isr /\ UNCHANGED <<kind, lineVars, escWait>>

\* uart_read up to its last pop, and the wait for the event.
Fetch ==
  /\ ~escWait
  /\ ReadEnter \/ ReadPop \/ EventWait
  /\ UNCHANGED <<kind, lineVars, escWait>>

FetchNothing ==
  /\ rd.cnt = 0
  /\ ReadExit
  /\ UNCHANGED <<kind, lineVars, escWait>>

-----------------------------------------------------------------------------
(* The switch of Cli_Start on the byte just read, out.                     *)

\* A character is dropped when the buffer is full.
Store ==
  IF BufferSize - 1 > sgCurPos
  THEN /\ sgCmdBuffer' = [sgCmdBuffer EXCEPT ![sgCurPos] = out, ![sgCurPos + 1] = 0]
       /\ sgCurPos' = sgCurPos + 1
  ELSE UNCHANGED <<sgCmdBuffer, sgCurPos>>

Character ==
  /\ kind[out] = "char"
  /\ Store
  /\ typed' = Append(typed, out)
  /\ UNCHANGED <<executed, escWait>>

\* At the start of a line '?' prints the usage; elsewhere it is a character.
QuestionMark ==
  /\ kind[out] = "?"
  /\ IF sgCurPos = 0
     THEN UNCHANGED <<sgCmdBuffer, sgCurPos, typed>>
     ELSE Store /\ typed' = Append(typed, out)
  /\ UNCHANGED <<executed, escWait>>

Backspace ==
  /\ kind[out] = "bs"
  /\ IF sgCurPos > 0
     THEN /\ sgCurPos' = sgCurPos - 1
          /\ sgCmdBuffer' = [sgCmdBuffer EXCEPT ![sgCurPos - 1] = 0]
     ELSE UNCHANGED <<sgCmdBuffer, sgCurPos>>
  /\ typed' = Append(typed, out)
  /\ UNCHANGED <<executed, escWait>>

\* Faulty: the position is reset but the buffer is not cleared.
EnterKeepsBuffer ==
  /\ kind[out] = "cr"
  /\ executed' = IF StrLen(sgCmdBuffer) > 0 THEN Text(sgCmdBuffer) ELSE executed
  /\ sgCurPos' = 0
  /\ typed' = << >>
  /\ UNCHANGED <<sgCmdBuffer, escWait>>

\* Faulty: neither the buffer nor the position is reset.
EnterKeepsAll ==
  /\ kind[out] = "cr"
  /\ executed' = IF StrLen(sgCmdBuffer) > 0 THEN Text(sgCmdBuffer) ELSE executed
  /\ typed' = << >>
  /\ UNCHANGED <<sgCmdBuffer, sgCurPos, escWait>>

\* A line that is not empty goes to At_Parser; the buffer is cleared.
Enter ==
  /\ kind[out] = "cr"
  /\ executed' = IF StrLen(sgCmdBuffer) > 0 THEN Text(sgCmdBuffer) ELSE executed
  /\ sgCmdBuffer' = [i \in 0 .. BufferSize |-> 0]
  /\ sgCurPos' = 0
  /\ typed' = << >>
  /\ UNCHANGED escWait

Escape ==
  /\ kind[out] = "esc"
  /\ escWait' = TRUE
  /\ UNCHANGED lineVars

Dispatch ==
  /\ rd.cnt = 1
  /\ ReadExit
  /\ Character \/ QuestionMark \/ Backspace \/ Enter \/ Escape
  /\ UNCHANGED kind

\* __get_char: drv_uart_read_fifo(.., UART_BLOCKING) polls the hardware FIFO
\* with interrupts enabled.
GetChar ==
  /\ escWait
  /\ isr.pc = "idle"
  /\ DataReady
  /\ taken' = taken + 1
  /\ escWait' = FALSE
  /\ UNCHANGED <<arrived, ringVars, isrReg, evt, isr, rd, outVars, kind, lineVars>>

ConsoleNext == Type \/ RxIsr \/ Fetch \/ FetchNothing \/ Dispatch \/ GetChar

ConsoleSpec == ConsoleInit /\ [][ConsoleNext]_consoleVars

-----------------------------------------------------------------------------
ConsoleTypeOK ==
  /\ kind \in Seq(Keys)
  /\ sgCmdBuffer \in [0 .. BufferSize -> 0 .. arrived]
  /\ sgCurPos \in 0 .. BufferSize - 1
  /\ escWait \in BOOLEAN
  /\ typed \in Seq(1 .. arrived)

\* Reference: what a line is, given the keys typed and the kind of each.
EditKey(kinds, line, k) ==
  CASE kinds[k] = "bs" -> IF line = << >> THEN line ELSE Front(line)
    [] OTHER           -> IF Len(line) < BufferSize - 1 THEN Append(line, k) ELSE line
Edited(kinds, keys) ==
  LET line[n \in 0 .. Len(keys)] ==
        IF n = 0 THEN << >> ELSE EditKey(kinds, line[n - 1], keys[n])
  IN  line[Len(keys)]

(***************************************************************************)
(* Line editing: the buffer holds what the keys typed since the last line  *)
(* end make of an empty line.                                              *)
(***************************************************************************)
LineAsTyped == Text(sgCmdBuffer) = Edited(kind, typed)

(***************************************************************************)
(* A line handed to At_Parser is made of bytes in the order they were      *)
(* typed, and none of it is handed over twice.                             *)
(***************************************************************************)
ExecutedOnce ==
  [][executed' # executed =>
       /\ \A i \in 1 .. Len(executed') - 1 : executed'[i] < executed'[i + 1]
       /\ executed # << >> => executed[Len(executed)] < executed'[1]]_consoleVars
=============================================================================
