------------------------------- MODULE UserCfg ------------------------------
(***************************************************************************)
(* The user configuration in flash: the command "user_flash w" hands over  *)
(* one block after another; when all blocks are there, do_At_User_Flsh has *)
(* them written and compares what the flash holds then.  The write erases  *)
(* one sector and programs two, and the power may fail between any two     *)
(* steps of it.                                                            *)
(***************************************************************************)
EXTENDS Integers

CONSTANTS
  Values,   \* contents of a block
  NBlocks   \* blocks of the user configuration, four in user_cfg.h

ASSUME UserCfgAssumption == NBlocks \in Nat \ {0}

\* g_user_cfg: the blocks and the rest of the sector behind them, which is
\* erased with them, and the second sector, which is not.
Blocks == 0 .. NBlocks - 1
Rest   == NBlocks
Second == NBlocks + 1
Cells  == 0 .. NBlocks + 1

\* Contents of a cell, and of memory, that are no block.
Erased   == "erased"
Mixed    == "mixed"     \* programmed without an erase
Original == "original"  \* what the firmware image has there
Junk     == "junk"      \* memory that was never set
Nothing  == "nothing"   \* no block was sent

VARIABLES
  flash,    \* contents of g_user_cfg
  flag,     \* user_cfg_flag
  buf,      \* user_cfg_buf
  image,    \* buf of cfg_user_write_cfg
  step,     \* what comes next of a write: a cell to program, or one of those below
  (* History, which the code does not look at. *)
  sent,     \* the block last sent for each place since the last result
  stored,   \* the blocks the last result "OK" was for, until the next erase
  failed,   \* the flash has failed since the device was switched on
  damaged   \* a write was broken off or the flash has failed, at any time

history  == <<sent, stored, failed, damaged>>
userVars == <<flash, flag, buf, image, step, history>>

Idle    == -2
ToErase == -1
ToCheck == NBlocks + 2

Fresh == [b \in Blocks |-> Junk]    \* memory as OS_MemAlloc leaves it
Unset == [c \in Cells |-> Junk]
None  == [b \in Blocks |-> Nothing]

UserInit ==
  /\ flash = [c \in Cells |-> Original]
  /\ flag = {} /\ buf = Fresh /\ step = Idle
  /\ image = Unset
  /\ sent = None /\ stored = None /\ failed = FALSE /\ damaged = FALSE

\* Programming only clears bits: a cell takes its value when it is erased.
Programmed(old, new) == IF old \in {Erased, new} THEN new ELSE Mixed

-----------------------------------------------------------------------------

\* Faulty: only the sector that is erased is copied.
ImageOfSector(new) ==
  [c \in Cells |-> IF c \in Blocks THEN new[c] ELSE IF c = Rest THEN flash[c] ELSE Junk]

\* The copy to be programmed: the new blocks, then what the flash holds.
ImageOf(new) == [c \in Cells |-> IF c \in Blocks THEN new[c] ELSE flash[c]]

\* Faulty: the block with the last number is taken for the last block.
IsCompleteLast(set) == NBlocks - 1 \in set

\* CHECK_CFG_OK
IsComplete(set) == set = Blocks

\* do_At_User_Flsh(1, b, v).  The first block finds fresh memory, or none, and
\* then nothing happens; a block that is sent again replaces itself.
UserWrite(b, v) ==
  /\ step = Idle
  /\ flag' = flag \union {b}
  /\ buf' = [(IF flag = {} THEN Fresh ELSE buf) EXCEPT ![b] = v]
  /\ sent' = [sent EXCEPT ![b] = v]
  /\ step' = IF IsComplete(flag') THEN ToErase ELSE Idle
  /\ image' = IF IsComplete(flag') THEN ImageOf(buf') ELSE image
  /\ UNCHANGED <<flash, stored, failed, damaged>>

\* An operation of the flash may come to nothing.
Fails == UNCHANGED flash /\ failed' = TRUE /\ damaged' = TRUE

\* cfg_user_write_cfg: the erase of the first sector ...
Erase ==
  /\ step = ToErase /\ step' = 0
  /\ \/ /\ flash' = [c \in Cells |-> IF c = Second THEN flash[c] ELSE Erased]
        /\ UNCHANGED <<failed, damaged>>
     \/ Fails
  /\ stored' = None
  /\ UNCHANGED <<flag, buf, image, sent>>

\* ... and the pages of both.
Program ==
  /\ step \in Cells /\ step' = step + 1
  /\ \/ /\ flash' = [flash EXCEPT ![step] = Programmed(@, image[step])]
        /\ UNCHANGED <<failed, damaged>>
     \/ Fails
  /\ UNCHANGED <<flag, buf, image, sent, stored>>

\* The blocks are read back into user_cfg_buf and their checksums compared.  If
\* they differ, the flags and the buffer stay as they are.
Check ==
  /\ step = ToCheck /\ step' = Idle
  /\ buf' = [b \in Blocks |-> flash[b]]
  /\ IF buf' = [b \in Blocks |-> image[b]]
     THEN /\ flag' = {} /\ sent' = None
          /\ stored' = IF failed THEN None ELSE sent
     ELSE UNCHANGED <<flag, sent, stored>>
  /\ image' = Unset
  /\ UNCHANGED <<flash, failed, damaged>>

UserNext ==
  \/ \E b \in Blocks, v \in Values : UserWrite(b, v)
  \/ Erase \/ Program \/ Check

\* The memory is lost; the flash is as it was.
UserPowerCut ==
  /\ flag' = {} /\ buf' = Fresh /\ step' = Idle
  /\ image' = Unset
  /\ sent' = None /\ failed' = FALSE
  /\ damaged' = (damaged \/ step \in Cells)
  /\ UNCHANGED <<flash, stored>>

-----------------------------------------------------------------------------

\* "OK" means that every block sent since the last result is in the flash, in
\* its place, and stays there until the next write: blocks in any order, sent
\* again, a write broken off by a power cut before.  (As long as the flash has
\* not failed: after a failed check the flags are not cleared, and the next
\* block alone starts a write.)
Stored == stored # None => \A b \in Blocks : flash[b] = stored[b]

\* A write of the blocks leaves the rest of the user data alone: the rest of
\* their sector, which it erases, unless a write is broken off, and the second
\* sector, which it programs without an erase, whatever happens.
OthersKept ==
  /\ step = Idle /\ ~ damaged => flash[Rest] = Original
  /\ flash[Second] = Original
=============================================================================
