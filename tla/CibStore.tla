------------------------------ MODULE CibStore ------------------------------
(***************************************************************************)
(* The configuration block CIB and its file.  app_uart_rx_task (commands   *)
(* of the host) and the task of the Wi-Fi callback each change a part of   *)
(* the block in memory and then save all of it, without a lock between     *)
(* them; at start-up CIBRead takes the block from the file.                *)
(*                                                                         *)
(* The file system is a library (SPIFFS): one call excludes the others,    *)
(* and a write replaces one page after another.                            *)
(***************************************************************************)
EXTENDS Integers

CONSTANTS
  Settings,  \* what a part of the configuration may be set to
  Default,   \* what CIBInit sets it to
  MaxFds     \* files that can be open at a time

\* The two parts, by the task that changes them, each in a page of its own; the
\* magic number and stainfo are in the first one.
Writers == {"rx", "wifi"}
First   == "wifi"
Absent  == "absent"   \* no such page in the file
Foreign == "foreign"  \* a page without DEV_MAGIC
Zero    == "zero"     \* memory that was never set
Unsaved == "unsaved"

\* A block that was set has the magic number.
ASSUME CibAssumption ==
  MaxFds \in Nat \ {0} /\ {Absent, Foreign} \cap (Settings \cup {Default}) = {}

VARIABLES
  cib,   \* the block in memory, by part
  file,  \* the pages of the file
  pc,    \* program counter of each task in CIBWrite, of "rx" in CIBRead
  fds,   \* files that are open
  (* History, which the code does not look at. *)
  kept   \* the part as its task saved it last, until it changes it again

cibVars == <<cib, file, pc, fds, kept>>

CibInit ==
  /\ cib = [p \in Writers |-> Zero]
  /\ file \in {[p \in Writers |-> Absent], [p \in Writers |-> Foreign]}
  /\ pc = [w \in Writers |-> IF w = "rx" THEN "boot" ELSE "off"]
  /\ fds = 0
  /\ kept = [p \in Writers |-> Unsaved]

Defaults == [p \in Writers |-> Default]

At(w, from, to) == pc[w] = from /\ pc' = [pc EXCEPT ![w] = to]

-----------------------------------------------------------------------------
(* CIBRead, before the other tasks run.                                    *)

Started == [w \in Writers |-> "idle"]

\* A part the file does not have stays as it is in memory.
FromFile == [p \in Writers |-> IF file[p] = Absent THEN cib[p] ELSE file[p]]

\* Faulty: the magic number is not looked at.
HasMagicNever == FALSE

HasMagic == file[First] \notin {Absent, Foreign}

\* Without the magic number the block gets its defaults, and they are written
\* where the read has stopped: behind a foreign block, whose pages stay.
BootRead ==
  /\ pc["rx"] = "boot"
  /\ IF HasMagic
     THEN cib' = FromFile /\ pc' = Started
     ELSE /\ cib' = Defaults
          /\ pc' = IF file[First] = Foreign THEN Started
                   ELSE [pc EXCEPT !["rx"] = "boot first"]
  /\ UNCHANGED <<file, fds, kept>>

BootFirst ==
  /\ At("rx", "boot first", "boot second")
  /\ file' = [file EXCEPT ![First] = cib[First]]
  /\ UNCHANGED <<cib, fds, kept>>

BootSecond ==
  /\ pc["rx"] = "boot second" /\ pc' = Started
  /\ file' = [p \in Writers |-> IF p = First THEN file[p] ELSE cib[p]]
  /\ UNCHANGED <<cib, fds, kept>>

\* The first write fails, and its file stays open.
BootFails ==
  /\ pc["rx"] = "boot first" /\ pc' = Started
  /\ fds' = 1
  /\ UNCHANGED <<cib, file, kept>>

Boot == BootRead \/ BootFirst \/ BootSecond \/ BootFails

-----------------------------------------------------------------------------
(* A change of the configuration, and CIBWrite.                            *)

Change(w, v) ==
  /\ At(w, "idle", "open")
  /\ cib' = [cib EXCEPT ![w] = v]
  /\ kept' = [kept EXCEPT ![w] = Unsaved]
  /\ UNCHANGED <<file, fds>>

\* FS_open finds no file, or no room to open one more.
OpenFails(w) ==
  /\ At(w, "open", "idle")
  /\ fds = MaxFds \/ file[First] = Absent
  /\ UNCHANGED <<cib, file, fds, kept>>

Open(w) ==
  /\ At(w, "open", "write")
  /\ fds < MaxFds
  /\ fds' = fds + 1
  /\ UNCHANGED <<cib, file, kept>>

\* FS_write, from the start of the file.
WriteFirst(w) ==
  /\ At(w, "write", "second")
  /\ \A o \in Writers : pc[o] # "second"
  /\ file' = [file EXCEPT ![First] = cib[First]]
  /\ UNCHANGED <<cib, fds, kept>>

WriteSecond(w) ==
  /\ At(w, "second", "close")
  /\ file' = [p \in Writers |-> IF p = First THEN file[p] ELSE cib[p]]
  /\ UNCHANGED <<cib, fds, kept>>

\* A write that fails leaves the file open.
WriteFails(w) ==
  /\ At(w, "write", "idle")
  /\ UNCHANGED <<cib, file, fds, kept>>

\* FS_close, and the configuration is saved.
Close(w) ==
  /\ At(w, "close", "idle")
  /\ fds' = fds - 1
  /\ kept' = [kept EXCEPT ![w] = cib[w]]
  /\ UNCHANGED <<cib, file>>

CibWrite(w) ==
  Open(w) \/ OpenFails(w) \/ WriteFirst(w) \/ WriteSecond(w) \/ WriteFails(w) \/ Close(w)

CibNext ==
  \/ Boot
  \/ \E w \in Writers : CibWrite(w) \/ \E v \in Settings : Change(w, v)

CibPowerCut ==
  /\ cib' = [p \in Writers |-> Zero]
  /\ pc' = [w \in Writers |-> IF w = "rx" THEN "boot" ELSE "off"]
  /\ fds' = 0
  /\ UNCHANGED <<file, kept>>

-----------------------------------------------------------------------------

\* What a task has saved is in the file, and after any number of restarts in
\* the block again, until that task changes it: whatever the other task saves
\* meanwhile, and wherever the power fails in its write.
Survives ==
  \A p \in Writers : kept[p] # Unsaved =>
    /\ file[p] = kept[p]
    /\ pc["rx"] # "boot" => cib[p] = kept[p]
=============================================================================
