---------------------------- MODULE StoresProofs ----------------------------
(***************************************************************************)
(* Proofs about what the AT interface keeps when the power fails, for any  *)
(* number of blocks and settings.  The configuration block and the user    *)
(* configuration share no state, so that each has an invariant of its own; *)
(* PowerCut is the step both must keep theirs over.                        *)
(***************************************************************************)
EXTENDS Stores, TLAPS

(* The user configuration.                                                 *)

Contents == Values \cup {Erased, Mixed, Original, Junk, Nothing}

UserTypeOK ==
  /\ flash \in [Cells -> Contents] /\ image \in [Cells -> Contents]
  /\ flag \subseteq Blocks
  /\ buf \in [Blocks -> Contents]
  /\ step \in {Idle, ToErase, ToCheck} \cup Cells
  /\ sent \in [Blocks -> Contents] /\ stored \in [Blocks -> Contents]
  /\ failed \in BOOLEAN /\ damaged \in BOOLEAN

\* The cells behind the blocks, and the copy a write has of them.
RestKept ==
  /\ flash[Second] = Original
  /\ step \in {ToErase} \cup Cells => image[Second] = Original
  /\ ~ damaged =>
       /\ step \notin Cells \/ step > Rest => flash[Rest] = Original
       /\ step \in {ToErase} \cup Cells => image[Rest] = Original
       /\ step \in Cells /\ step <= Rest => flash[Rest] = Erased

\* The blocks a write has programmed so far, and those it is made of.
BlocksWritten ==
  /\ step # Idle => flag = Blocks /\ \A b \in Blocks : image[b] = buf[b]
  /\ ~ failed =>
       /\ \A b \in flag : buf[b] = sent[b]
       /\ step \in Cells =>
            \A b \in Blocks : flash[b] = IF b < step THEN image[b] ELSE Erased
       /\ step = ToCheck => \A b \in Blocks : flash[b] = image[b]
  /\ step \in Cells \cup {ToCheck} => stored = None

UserInv == UserTypeOK /\ RestKept /\ BlocksWritten /\ Stored

-----------------------------------------------------------------------------
(* The configuration block.                                                *)

Pages == Settings \cup {Default, Zero, Foreign}
Pcs   == {"off", "boot", "boot first", "boot second", "idle", "open", "write",
          "second", "close"}

CibTypeOK ==
  /\ cib \in [Writers -> Pages]
  /\ file \in [Writers -> Pages \cup {Absent}]
  /\ kept \in [Writers -> Pages \cup {Unsaved}]
  /\ pc \in [Writers -> Pcs]

\* CIBRead is through before a task writes.
BootFirstOfAll ==
  /\ pc["rx"] \in {"boot", "boot first", "boot second"} => pc["wifi"] = "off"
  /\ \A w \in Writers : pc[w] \in {"idle", "open", "write", "second", "close"} =>
       pc["rx"] # "boot"

\* A block a task has saved, or is about to, has its magic number in the file.
MagicSaved ==
  /\ pc["rx"] # "boot" => cib[First] # Foreign
  /\ \A w \in Writers : kept[w] # Unsaved \/ pc[w] \in {"second", "close"} => HasMagic

\* A task that is through with a page finds its own part in it.
PageWritten ==
  /\ pc[First] \in {"second", "close"} => file[First] = cib[First]
  /\ pc["rx"] = "close" => file["rx"] = cib["rx"]

CibInv == CibTypeOK /\ BootFirstOfAll /\ MagicSaved /\ PageWritten /\ Survives

IInv == UserInv /\ CibInv
-----------------------------------------------------------------------------
(* Steps of the user configuration.                                        *)

LEMMA CellFacts ==
  /\ NBlocks \in Nat \ {0}
  /\ Blocks \subseteq Cells /\ Rest \in Cells /\ Second \in Cells
  /\ Rest \notin Blocks /\ Second \notin Blocks /\ Rest # Second
  /\ Idle \notin Cells /\ ToErase \notin Cells /\ ToCheck \notin Cells
  /\ Idle # ToErase /\ Idle # ToCheck /\ ToErase # ToCheck
BY UserCfgAssumption DEF Blocks, Cells, Rest, Second, Idle, ToErase, ToCheck

LEMMA UserInitInv == UserInit => UserInv
<1> SUFFICES ASSUME UserInit PROVE UserInv
  OBVIOUS
<1>1. UserTypeOK
  BY CellFacts DEF UserInit, UserTypeOK, Contents, Fresh, Unset, None
<1>2. RestKept /\ BlocksWritten /\ Stored
  BY CellFacts DEF UserInit, RestKept, BlocksWritten, Stored
<1> QED BY <1>1, <1>2 DEF UserInv

LEMMA UserWriteInv ==
  ASSUME UserInv, NEW b \in Blocks, NEW v \in Values, UserWrite(b, v)
  PROVE  UserInv'
<1> USE DEF UserInv
<1>1. UserTypeOK'
  <2>1. buf' \in [Blocks -> Contents] /\ sent' \in [Blocks -> Contents]
    BY DEF UserWrite, UserTypeOK, Contents, Fresh
  <2>2. image' \in [Cells -> Contents]
    BY <2>1, CellFacts DEF UserWrite, UserTypeOK, ImageOf
  <2> QED BY <2>1, <2>2 DEF UserWrite, UserTypeOK
<1>2. RestKept'
  <2>1. step' = ToErase => image'[Second] = flash[Second] /\ image'[Rest] = flash[Rest]
    BY CellFacts DEF UserWrite, ImageOf
  <2>2. step = Idle /\ step' \in {Idle, ToErase}
    BY DEF UserWrite
  <2>3. step' \notin Cells
    BY <2>2, CellFacts
  <2>4. flash' = flash /\ damaged' = damaged
    BY DEF UserWrite
  <2> QED BY <2>1, <2>2, <2>3, <2>4, CellFacts DEF RestKept
<1>3. BlocksWritten'
  <2>1. step' # Idle => flag' = Blocks /\ \A c \in Blocks : image'[c] = buf'[c]
    BY CellFacts DEF UserWrite, IsComplete, ImageOf
  <2>2. ~ failed' => \A c \in flag' : buf'[c] = sent'[c]
    BY DEF UserWrite, BlocksWritten, UserTypeOK, Fresh
  <2>3. step' \notin Cells \cup {ToCheck}
    BY CellFacts DEF UserWrite
  <2> QED BY <2>1, <2>2, <2>3 DEF BlocksWritten
<1>4. Stored'
  BY DEF UserWrite, Stored
<1> QED BY <1>1, <1>2, <1>3, <1>4

LEMMA EraseInv ==
  ASSUME UserInv, Erase
  PROVE  UserInv'
<1> USE DEF UserInv
<1>1. UserTypeOK'
  <2>1. step' \in Cells
    BY CellFacts DEF Erase, Cells
  <2>2. flash' \in [Cells -> Contents] /\ failed' \in BOOLEAN /\ damaged' \in BOOLEAN
    BY DEF Erase, Fails, UserTypeOK, Contents
  <2>3. stored' \in [Blocks -> Contents]
    BY DEF Erase, None, Contents
  <2> QED BY <2>1, <2>2, <2>3 DEF Erase, UserTypeOK
<1>2. 0 \in Cells /\ 0 <= Rest /\ ~ (0 > Rest)
  BY CellFacts DEF Cells, Rest
<1>3. RestKept'
  <2>1. flash'[Second] = Original
    BY CellFacts DEF Erase, Fails, RestKept
  <2>2. ~ damaged' => ~ damaged /\ flash'[Rest] = Erased
    BY CellFacts DEF Erase, Fails
  <2>3. step = ToErase /\ step' = 0 /\ image' = image
    BY DEF Erase
  <2> QED BY <1>2, <2>1, <2>2, <2>3 DEF RestKept
<1>4. BlocksWritten'
  <2>1. ~ failed' => \A b \in Blocks : flash'[b] = Erased /\ ~ (b < 0)
    BY CellFacts DEF Erase, Fails, UserTypeOK, Blocks
  <2>2. /\ step' = 0 /\ stored' = None /\ flag' = flag /\ image' = image /\ buf' = buf
        /\ sent' = sent /\ step # Idle /\ (~ failed' => ~ failed)
    BY CellFacts DEF Erase, Fails
  <2> QED BY <1>2, <2>1, <2>2, CellFacts DEF BlocksWritten
<1>5. Stored'
  BY DEF Erase, Stored
<1> QED BY <1>1, <1>3, <1>4, <1>5

LEMMA ProgramInv ==
  ASSUME UserInv, Program
  PROVE  UserInv'
<1> USE DEF UserInv
<1>1. /\ step \in Cells /\ step' = step + 1 /\ step' \in Cells \cup {ToCheck}
      /\ step' # Idle /\ step' # ToErase
      /\ UNCHANGED <<flag, buf, image, sent, stored>>
  BY CellFacts DEF Program, Cells, ToCheck, Idle, ToErase
<1>2. \/ /\ flash' = [flash EXCEPT ![step] = Programmed(flash[step], image[step])]
         /\ UNCHANGED <<failed, damaged>>
      \/ flash' = flash /\ failed' = TRUE /\ damaged' = TRUE
  BY DEF Program, Fails
<1>3. UserTypeOK'
  BY <1>1, <1>2 DEF UserTypeOK, Programmed, Contents
<1>4. RestKept'
  <2>1. flash'[Second] = Original
    BY <1>1, <1>2, CellFacts DEF RestKept, UserTypeOK, Programmed
  <2>2. ~ damaged' => flash'[Rest] = IF step < Rest THEN Erased ELSE Original
    <3>1. CASE step = Rest
      BY <1>1, <1>2, <3>1, CellFacts DEF RestKept, UserTypeOK, Programmed, Rest
    <3>2. CASE step # Rest
      BY <1>1, <1>2, <3>2, CellFacts DEF RestKept, UserTypeOK, Cells, Rest
    <3> QED BY <3>1, <3>2
  <2>3. ~ damaged' => ~ damaged
    BY <1>2
  <2>4. step' > Rest <=> ~ (step < Rest)
    BY <1>1, CellFacts DEF Cells, Rest
  <2>5. step' <= Rest <=> step < Rest
    BY <1>1, CellFacts DEF Cells, Rest
  <2>6. step' \notin Cells => ~ (step < Rest)
    BY <1>1, CellFacts DEF Cells, Rest
  <2> QED BY <1>1, <2>1, <2>2, <2>3, <2>4, <2>5, <2>6, CellFacts DEF RestKept
<1>5. BlocksWritten'
  <2>1. ~ failed' => \A b \in Blocks : flash'[b] = IF b < step' THEN image'[b] ELSE Erased
    <3> SUFFICES ASSUME ~ failed', NEW b \in Blocks
                 PROVE  flash'[b] = IF b < step' THEN image'[b] ELSE Erased
      OBVIOUS
    <3>1. ~ failed /\ flash' = [flash EXCEPT ![step] = Programmed(flash[step], image[step])]
      BY <1>2
    <3>2. flash[b] = IF b < step THEN image[b] ELSE Erased
      BY <1>1, <3>1 DEF BlocksWritten
    <3>3. CASE b = step
      BY <1>1, <3>1, <3>2, <3>3, CellFacts DEF UserTypeOK, Programmed, Blocks
    <3>4. CASE b # step
      <4>1. flash'[b] = flash[b]
        BY <1>1, <3>1, <3>4, CellFacts DEF UserTypeOK
      <4>2. b < step' <=> b < step
        BY <1>1, <3>4, CellFacts DEF Blocks, Cells
      <4> QED BY <1>1, <3>2, <4>1, <4>2
    <3> QED BY <3>3, <3>4
  <2>2. step' = ToCheck => \A b \in Blocks : b < step'
    BY CellFacts DEF ToCheck, Blocks
  <2>3. step # Idle
    BY <1>1, CellFacts
  <2> QED BY <1>1, <1>2, <2>1, <2>2, <2>3 DEF BlocksWritten
<1>6. Stored'
  BY <1>1 DEF BlocksWritten, Stored
<1> QED BY <1>3, <1>4, <1>5, <1>6

LEMMA CheckInv ==
  ASSUME UserInv, Check
  PROVE  UserInv'
<1> USE DEF UserInv
<1>1. UserTypeOK'
  BY CellFacts DEF Check, UserTypeOK, Contents, None, Unset
<1>2. RestKept'
  BY CellFacts DEF Check, UserTypeOK, RestKept
<1>3. step # Idle /\ step' = Idle /\ flash' = flash /\ failed' = failed
  BY CellFacts DEF Check
<1>4. ~ failed => /\ flag' = {}
                  /\ \A b \in Blocks : flash[b] = sent[b]
  BY <1>3 DEF Check, UserTypeOK, BlocksWritten
<1>5. BlocksWritten'
  BY <1>3, <1>4, CellFacts DEF BlocksWritten
<1>6. Stored'
  <2>1. stored = None
    BY DEF Check, BlocksWritten
  <2>2. stored' = None \/ (~ failed /\ stored' = sent)
    BY <2>1 DEF Check
  <2> QED BY <1>3, <1>4, <2>2 DEF Stored
<1> QED BY <1>1, <1>2, <1>5, <1>6

LEMMA UserPowerCutInv ==
  ASSUME UserInv, UserPowerCut
  PROVE  UserInv'
<1> USE DEF UserInv
<1>1. UserTypeOK'
  BY CellFacts DEF UserPowerCut, UserTypeOK, Contents, None, Fresh, Unset
<1>2. RestKept'
  BY CellFacts DEF UserPowerCut, UserTypeOK, RestKept
<1>3. BlocksWritten'
  BY CellFacts DEF UserPowerCut, BlocksWritten
<1>4. Stored'
  BY DEF UserPowerCut, Stored
<1> QED BY <1>1, <1>2, <1>3, <1>4

LEMMA UserNextInv ==
  ASSUME UserInv, UserNext
  PROVE  UserInv'
BY UserWriteInv, EraseInv, ProgramInv, CheckInv DEF UserNext

LEMMA UserSameInv ==
  ASSUME UserInv, UNCHANGED userVars
  PROVE  UserInv'
BY DEF UserInv, userVars, history, UserTypeOK, RestKept, BlocksWritten, Stored

-----------------------------------------------------------------------------
(* Steps of the configuration block.                                       *)

LEMMA WriterFacts ==
  Writers = {"rx", "wifi"} /\ First = "wifi" /\ First \in Writers /\ "rx" \in Writers
BY DEF Writers, First

LEMMA CibInitInv == CibInit => CibInv
<1> SUFFICES ASSUME CibInit PROVE CibInv
  OBVIOUS
<1>1. pc["rx"] = "boot" /\ pc["wifi"] = "off" /\ \A w \in Writers : kept[w] = Unsaved
  BY WriterFacts DEF CibInit
<1>2. CibTypeOK
  <2>1. cib \in [Writers -> Pages] /\ kept \in [Writers -> Pages \cup {Unsaved}]
    BY DEF CibInit, Pages
  <2>2. file \in [Writers -> Pages \cup {Absent}]
    BY DEF CibInit, Pages
  <2>3. pc \in [Writers -> Pcs]
    BY DEF CibInit, Pcs
  <2> QED BY <2>1, <2>2, <2>3 DEF CibTypeOK
<1>3. BootFirstOfAll /\ MagicSaved /\ PageWritten /\ Survives
  BY <1>1, WriterFacts DEF BootFirstOfAll, MagicSaved, PageWritten, Survives
<1> QED BY <1>2, <1>3 DEF CibInv

\* Where a step of one task leads, by task.
LEMMA PcMoves ==
  ASSUME CibTypeOK, NEW w \in Writers, NEW from, NEW to, At(w, from, to)
  PROVE  pc[w] = from /\ \A o \in Writers : pc'[o] = IF o = w THEN to ELSE pc[o]
BY DEF At, CibTypeOK

LEMMA PcType ==
  ASSUME CibTypeOK, NEW w \in Writers, NEW from, NEW to \in Pcs, At(w, from, to)
  PROVE  pc' \in [Writers -> Pcs]
BY DEF At, CibTypeOK, Pcs

\* One page is written from the block.
LEMMA FirstWritten ==
  ASSUME CibTypeOK, file' = [file EXCEPT ![First] = cib[First]]
  PROVE  /\ file' \in [Writers -> Pages \cup {Absent}]
         /\ file'[First] = cib[First] /\ file'["rx"] = file["rx"]
BY WriterFacts DEF CibTypeOK

LEMMA SecondWritten ==
  ASSUME CibTypeOK, file' = [p \in Writers |-> IF p = First THEN file[p] ELSE cib[p]]
  PROVE  /\ file' \in [Writers -> Pages \cup {Absent}]
         /\ file'[First] = file[First] /\ file'["rx"] = cib["rx"]
BY WriterFacts DEF CibTypeOK

\* The first page of a block is never the sign of an absent one.
LEMMA FirstHasMagic ==
  ASSUME CibTypeOK, cib[First] # Foreign
  PROVE  cib[First] \notin {Absent, Foreign}
BY CibAssumption, WriterFacts DEF CibTypeOK, Pages, Absent, Foreign, Zero

LEMMA BootReadInv ==
  ASSUME CibInv, BootRead
  PROVE  CibInv'
<1> USE DEF CibInv
<1>1. pc["rx"] = "boot" /\ file' = file /\ kept' = kept
  BY DEF BootRead
<1>2. pc["wifi"] = "off"
  BY <1>1 DEF BootFirstOfAll
<1>3. CASE HasMagic
  <2>1. cib' = FromFile /\ pc' = Started
    BY <1>3 DEF BootRead
  <2>2. \A w \in Writers : pc'[w] = "idle"
    BY <2>1 DEF Started
  <2>3. CibTypeOK'
    <3>1. cib' \in [Writers -> Pages]
      BY <2>1 DEF CibTypeOK, FromFile
    <3>2. pc' \in [Writers -> Pcs]
      BY <2>1 DEF Started, Pcs
    <3> QED BY <1>1, <3>1, <3>2 DEF CibTypeOK, Pcs
  <2>4. BootFirstOfAll' /\ PageWritten'
    BY <2>2, WriterFacts DEF BootFirstOfAll, PageWritten
  <2>5. MagicSaved'
    <3>1. cib'[First] = file[First]
      BY <1>3, <2>1, WriterFacts DEF FromFile, HasMagic
    <3> QED BY <1>1, <1>3, <3>1 DEF MagicSaved, HasMagic
  <2>6. Survives'
    <3> SUFFICES ASSUME NEW p \in Writers, kept[p] # Unsaved
                 PROVE  file[p] = kept[p] /\ cib'[p] = kept[p]
      BY <1>1 DEF Survives
    <3>1. file[p] = kept[p]
      BY DEF Survives
    <3>2. file[p] # Absent
      BY <3>1, CibAssumption DEF CibTypeOK, Pages, Absent, Foreign, Zero, Unsaved
    <3> QED BY <2>1, <3>1, <3>2 DEF FromFile
  <2> QED BY <2>3, <2>4, <2>5, <2>6
<1>4. CASE ~ HasMagic
  <2>1. /\ cib' = Defaults
        /\ pc' = Started \/ pc' = [pc EXCEPT !["rx"] = "boot first"]
    BY <1>4 DEF BootRead
  <2>2. \/ \A w \in Writers : pc'[w] = "idle"
        \/ pc'["rx"] = "boot first" /\ pc'["wifi"] = "off"
    BY <1>2, <2>1, WriterFacts DEF Started, CibTypeOK
  <2>3. \A w \in Writers : kept[w] = Unsaved
    BY <1>4 DEF MagicSaved
  <2>4. CibTypeOK'
    <3>1. cib' \in [Writers -> Pages]
      BY <2>1 DEF Defaults, Pages
    <3>2. pc' \in [Writers -> Pcs]
      BY <2>1 DEF Started, CibTypeOK, Pcs
    <3> QED BY <1>1, <3>1, <3>2 DEF CibTypeOK, Pcs
  <2>5. BootFirstOfAll' /\ PageWritten'
    BY <2>2, WriterFacts DEF BootFirstOfAll, PageWritten
  <2>6. MagicSaved'
    <3>1. cib'[First] = Default /\ Default # Foreign
      BY <2>1, WriterFacts, CibAssumption DEF Defaults
    <3>2. \A w \in Writers : pc'[w] \notin {"second", "close"}
      BY <2>2, WriterFacts
    <3> QED BY <1>1, <2>3, <3>1, <3>2 DEF MagicSaved
  <2>7. Survives'
    BY <1>1, <2>3 DEF Survives
  <2> QED BY <2>4, <2>5, <2>6, <2>7
<1> QED BY <1>3, <1>4

LEMMA BootFirstInv ==
  ASSUME CibInv, BootFirst
  PROVE  CibInv'
<1> USE DEF CibInv
<1>1. /\ At("rx", "boot first", "boot second") /\ cib' = cib /\ kept' = kept
      /\ file' = [file EXCEPT ![First] = cib[First]]
  BY DEF BootFirst
<1>2. /\ pc["rx"] = "boot first" /\ pc["wifi"] = "off"
      /\ pc'["rx"] = "boot second" /\ pc'["wifi"] = "off"
  BY <1>1, PcMoves, WriterFacts DEF BootFirstOfAll
<1>3. CibTypeOK'
  BY <1>1, PcType, FirstWritten, WriterFacts DEF CibTypeOK, Pcs
<1>4. cib[First] \notin {Absent, Foreign}
  BY <1>2, FirstHasMagic DEF MagicSaved
<1>5. BootFirstOfAll' /\ PageWritten'
  BY <1>2, WriterFacts DEF BootFirstOfAll, PageWritten
<1>6. MagicSaved'
  BY <1>1, <1>4, FirstWritten DEF MagicSaved, HasMagic
<1>7. Survives'
  BY <1>1, <1>2, FirstWritten, WriterFacts DEF Survives
<1> QED BY <1>3, <1>5, <1>6, <1>7

LEMMA BootSecondInv ==
  ASSUME CibInv, BootSecond
  PROVE  CibInv'
<1> USE DEF CibInv
<1>1. /\ pc["rx"] = "boot second" /\ pc' = Started /\ cib' = cib /\ kept' = kept
      /\ file' = [p \in Writers |-> IF p = First THEN file[p] ELSE cib[p]]
  BY DEF BootSecond
<1>2. \A w \in Writers : pc'[w] = "idle"
  BY <1>1 DEF Started
<1>3. CibTypeOK'
  <2>1. pc' \in [Writers -> Pcs]
    BY <1>1 DEF Started, Pcs
  <2> QED BY <1>1, <2>1, SecondWritten DEF CibTypeOK, Pcs
<1>4. BootFirstOfAll' /\ PageWritten'
  BY <1>2, WriterFacts DEF BootFirstOfAll, PageWritten
<1>5. MagicSaved'
  BY <1>1, <1>2, SecondWritten DEF MagicSaved, HasMagic
<1>6. Survives'
  BY <1>1, SecondWritten, WriterFacts DEF Survives
<1> QED BY <1>3, <1>4, <1>5, <1>6

LEMMA BootFailsInv ==
  ASSUME CibInv, BootFails
  PROVE  CibInv'
<1> USE DEF CibInv
<1>1. pc["rx"] = "boot first" /\ pc' = Started /\ UNCHANGED <<cib, file, kept>>
  BY DEF BootFails
<1>2. \A w \in Writers : pc'[w] = "idle"
  BY <1>1 DEF Started
<1>3. CibTypeOK'
  <2>1. pc' \in [Writers -> Pcs]
    BY <1>1 DEF Started, Pcs
  <2> QED BY <1>1, <2>1 DEF CibTypeOK, Pcs
<1>4. BootFirstOfAll' /\ PageWritten'
  BY <1>2, WriterFacts DEF BootFirstOfAll, PageWritten
<1>5. MagicSaved'
  BY <1>1, <1>2 DEF MagicSaved, HasMagic
<1>6. Survives'
  BY <1>1 DEF Survives
<1> QED BY <1>3, <1>4, <1>5, <1>6

LEMMA ChangeInv ==
  ASSUME CibInv, NEW w \in Writers, NEW v \in Settings, Change(w, v)
  PROVE  CibInv'
<1> USE DEF CibInv
<1>1. /\ At(w, "idle", "open") /\ file' = file
      /\ cib' = [cib EXCEPT ![w] = v] /\ kept' = [kept EXCEPT ![w] = Unsaved]
  BY DEF Change
<1>2. pc[w] = "idle" /\ \A o \in Writers : pc'[o] = IF o = w THEN "open" ELSE pc[o]
  BY <1>1, PcMoves
<1>3. /\ \A o \in Writers : cib'[o] = IF o = w THEN v ELSE cib[o]
      /\ \A o \in Writers : kept'[o] = IF o = w THEN Unsaved ELSE kept[o]
  BY <1>1 DEF CibTypeOK
<1>4. CibTypeOK'
  <2>1. pc' \in [Writers -> Pcs]
    BY <1>1, PcType DEF Pcs
  <2>2. cib' \in [Writers -> Pages] /\ kept' \in [Writers -> Pages \cup {Unsaved}]
    BY <1>1 DEF CibTypeOK, Pages
  <2> QED BY <1>1, <2>1, <2>2 DEF CibTypeOK, Pcs
<1>5. BootFirstOfAll'
  BY <1>2, WriterFacts DEF BootFirstOfAll
<1>6. MagicSaved'
  <2>1. v # Foreign
    BY CibAssumption
  <2>2. pc'["rx"] # "boot" => cib'[First] # Foreign
    BY <1>2, <1>3, <2>1, WriterFacts DEF MagicSaved
  <2> QED BY <1>1, <1>2, <1>3, <2>2 DEF MagicSaved, HasMagic
<1>7. PageWritten'
  <2>1. pc'[First] \in {"second", "close"} => file'[First] = cib'[First]
    BY <1>1, <1>2, <1>3, WriterFacts DEF PageWritten
  <2>2. pc'["rx"] = "close" => file'["rx"] = cib'["rx"]
    BY <1>1, <1>2, <1>3, WriterFacts DEF PageWritten
  <2> QED BY <2>1, <2>2 DEF PageWritten
<1>8. Survives'
  <2>1. pc'["rx"] # "boot" => pc["rx"] # "boot"
    BY <1>2, WriterFacts
  <2> QED BY <1>1, <1>3, <2>1 DEF Survives
<1> QED BY <1>4, <1>5, <1>6, <1>7, <1>8

LEMMA OpenInv ==
  ASSUME CibInv, NEW w \in Writers, Open(w)
  PROVE  CibInv'
<1> USE DEF CibInv
<1>1. At(w, "open", "write") /\ UNCHANGED <<cib, file, kept>>
  BY DEF Open
<1>2. pc[w] = "open" /\ \A o \in Writers : pc'[o] = IF o = w THEN "write" ELSE pc[o]
  BY <1>1, PcMoves
<1>3. CibTypeOK'
  BY <1>1, PcType DEF CibTypeOK, Pcs
<1>4. BootFirstOfAll'
  BY <1>2, WriterFacts DEF BootFirstOfAll
<1>5. MagicSaved'
  BY <1>1, <1>2, WriterFacts DEF MagicSaved, HasMagic
<1>6. PageWritten'
  BY <1>1, <1>2, WriterFacts DEF PageWritten
<1>7. Survives'
  BY <1>1, <1>2, WriterFacts DEF Survives
<1> QED BY <1>3, <1>4, <1>5, <1>6, <1>7

LEMMA OpenFailsInv ==
  ASSUME CibInv, NEW w \in Writers, OpenFails(w)
  PROVE  CibInv'
<1> USE DEF CibInv
<1>1. At(w, "open", "idle") /\ UNCHANGED <<cib, file, kept>>
  BY DEF OpenFails
<1>2. pc[w] = "open" /\ \A o \in Writers : pc'[o] = IF o = w THEN "idle" ELSE pc[o]
  BY <1>1, PcMoves
<1>3. CibTypeOK'
  BY <1>1, PcType DEF CibTypeOK, Pcs
<1>4. BootFirstOfAll'
  BY <1>2, WriterFacts DEF BootFirstOfAll
<1>5. MagicSaved'
  BY <1>1, <1>2, WriterFacts DEF MagicSaved, HasMagic
<1>6. PageWritten'
  BY <1>1, <1>2, WriterFacts DEF PageWritten
<1>7. Survives'
  BY <1>1, <1>2, WriterFacts DEF Survives
<1> QED BY <1>3, <1>4, <1>5, <1>6, <1>7

LEMMA WriteFirstInv ==
  ASSUME CibInv, NEW w \in Writers, WriteFirst(w)
  PROVE  CibInv'
<1> USE DEF CibInv
<1>1. /\ At(w, "write", "second") /\ cib' = cib /\ kept' = kept
      /\ file' = [file EXCEPT ![First] = cib[First]]
  BY DEF WriteFirst
<1>2. pc[w] = "write" /\ \A o \in Writers : pc'[o] = IF o = w THEN "second" ELSE pc[o]
  BY <1>1, PcMoves
<1>3. CibTypeOK'
  BY <1>1, PcType, FirstWritten DEF CibTypeOK, Pcs
<1>4. pc["rx"] # "boot"
  BY <1>2 DEF BootFirstOfAll
<1>5. cib[First] \notin {Absent, Foreign}
  BY <1>4, FirstHasMagic DEF MagicSaved
<1>6. BootFirstOfAll'
  BY <1>2, <1>4, WriterFacts DEF BootFirstOfAll
<1>7. MagicSaved'
  BY <1>1, <1>5, FirstWritten DEF MagicSaved, HasMagic
<1>8. PageWritten'
  <2>1. pc'["rx"] = "close" => pc["rx"] = "close"
    BY <1>2, WriterFacts
  <2> QED BY <1>1, <2>1, FirstWritten DEF PageWritten
<1>9. Survives'
  BY <1>1, <1>4, FirstWritten, WriterFacts DEF Survives
<1> QED BY <1>3, <1>6, <1>7, <1>8, <1>9

LEMMA WriteSecondInv ==
  ASSUME CibInv, NEW w \in Writers, WriteSecond(w)
  PROVE  CibInv'
<1> USE DEF CibInv
<1>1. /\ At(w, "second", "close") /\ cib' = cib /\ kept' = kept
      /\ file' = [p \in Writers |-> IF p = First THEN file[p] ELSE cib[p]]
  BY DEF WriteSecond
<1>2. pc[w] = "second" /\ \A o \in Writers : pc'[o] = IF o = w THEN "close" ELSE pc[o]
  BY <1>1, PcMoves
<1>3. CibTypeOK'
  BY <1>1, PcType, SecondWritten DEF CibTypeOK, Pcs
<1>4. pc["rx"] # "boot"
  BY <1>2 DEF BootFirstOfAll
<1>5. BootFirstOfAll'
  BY <1>2, <1>4, WriterFacts DEF BootFirstOfAll
<1>6. MagicSaved'
  <2>1. HasMagic
    BY <1>2 DEF MagicSaved
  <2> QED BY <1>1, <1>4, <2>1, SecondWritten DEF MagicSaved, HasMagic
<1>7. PageWritten'
  <2>1. pc'[First] \in {"second", "close"} => pc[First] \in {"second", "close"}
    BY <1>2, WriterFacts
  <2> QED BY <1>1, <2>1, SecondWritten DEF PageWritten
<1>8. Survives'
  BY <1>1, <1>4, SecondWritten, WriterFacts DEF Survives
<1> QED BY <1>3, <1>5, <1>6, <1>7, <1>8

LEMMA WriteFailsInv ==
  ASSUME CibInv, NEW w \in Writers, WriteFails(w)
  PROVE  CibInv'
<1> USE DEF CibInv
<1>1. At(w, "write", "idle") /\ UNCHANGED <<cib, file, kept>>
  BY DEF WriteFails
<1>2. pc[w] = "write" /\ \A o \in Writers : pc'[o] = IF o = w THEN "idle" ELSE pc[o]
  BY <1>1, PcMoves
<1>3. CibTypeOK'
  BY <1>1, PcType DEF CibTypeOK, Pcs
<1>4. BootFirstOfAll'
  BY <1>2, WriterFacts DEF BootFirstOfAll
<1>5. MagicSaved'
  BY <1>1, <1>2, WriterFacts DEF MagicSaved, HasMagic
<1>6. PageWritten'
  BY <1>1, <1>2, WriterFacts DEF PageWritten
<1>7. Survives'
  BY <1>1, <1>2, WriterFacts DEF Survives
<1> QED BY <1>3, <1>4, <1>5, <1>6, <1>7

LEMMA CloseInv ==
  ASSUME CibInv, NEW w \in Writers, Close(w)
  PROVE  CibInv'
<1> USE DEF CibInv
<1>1. /\ At(w, "close", "idle") /\ cib' = cib /\ file' = file
      /\ kept' = [kept EXCEPT ![w] = cib[w]]
  BY DEF Close
<1>2. pc[w] = "close" /\ \A o \in Writers : pc'[o] = IF o = w THEN "idle" ELSE pc[o]
  BY <1>1, PcMoves
<1>3. \A o \in Writers : kept'[o] = IF o = w THEN cib[o] ELSE kept[o]
  BY <1>1 DEF CibTypeOK
<1>4. CibTypeOK'
  <2>1. kept' \in [Writers -> Pages \cup {Unsaved}]
    BY <1>1 DEF CibTypeOK
  <2> QED BY <1>1, <2>1, PcType DEF CibTypeOK, Pcs
<1>5. pc["rx"] # "boot"
  BY <1>2 DEF BootFirstOfAll
<1>6. BootFirstOfAll'
  BY <1>2, <1>5, WriterFacts DEF BootFirstOfAll
<1>7. MagicSaved'
  <2>1. HasMagic
    BY <1>2 DEF MagicSaved
  <2> QED BY <1>1, <1>5, <2>1 DEF MagicSaved, HasMagic
<1>8. PageWritten'
  BY <1>1, <1>2, WriterFacts DEF PageWritten
<1>9. Survives'
  <2>1. file[w] = cib[w]
    BY <1>2, WriterFacts DEF PageWritten
  <2> QED BY <1>1, <1>3, <1>5, <2>1 DEF Survives
<1> QED BY <1>4, <1>6, <1>7, <1>8, <1>9

LEMMA CibPowerCutInv ==
  ASSUME CibInv, CibPowerCut
  PROVE  CibInv'
<1> USE DEF CibInv
<1>1. /\ file' = file /\ kept' = kept
      /\ cib' = [p \in Writers |-> Zero]
      /\ pc' = [w \in Writers |-> IF w = "rx" THEN "boot" ELSE "off"]
  BY DEF CibPowerCut
<1>2. pc'["rx"] = "boot" /\ pc'["wifi"] = "off"
  BY <1>1, WriterFacts
<1>3. CibTypeOK'
  <2>1. pc' \in [Writers -> Pcs]
    BY <1>1 DEF Pcs
  <2>2. cib' \in [Writers -> Pages]
    BY <1>1 DEF Pages
  <2> QED BY <1>1, <2>1, <2>2 DEF CibTypeOK, Pcs
<1>4. BootFirstOfAll' /\ PageWritten'
  BY <1>2, WriterFacts DEF BootFirstOfAll, PageWritten
<1>5. MagicSaved'
  BY <1>1, <1>2, WriterFacts DEF MagicSaved, HasMagic
<1>6. Survives'
  BY <1>1, <1>2 DEF Survives
<1> QED BY <1>3, <1>4, <1>5, <1>6

LEMMA CibNextInv ==
  ASSUME CibInv, CibNext
  PROVE  CibInv'
BY BootReadInv, BootFirstInv, BootSecondInv, BootFailsInv, ChangeInv, OpenInv, OpenFailsInv, WriteFirstInv,
   WriteSecondInv, WriteFailsInv, CloseInv
DEF CibNext, Boot, CibWrite

LEMMA CibSameInv ==
  ASSUME CibInv, UNCHANGED cibVars
  PROVE  CibInv'
BY DEF CibInv, cibVars, CibTypeOK, BootFirstOfAll, MagicSaved, HasMagic, PageWritten, Survives

-----------------------------------------------------------------------------
\* The inductive invariant of both stores, over every step and every power cut.
THEOREM StoresInductive == Spec => []IInv
<1>1. Init => IInv
  BY UserInitInv, CibInitInv DEF Init, IInv
<1>2. IInv /\ [Next]_vars => IInv'
  <2> SUFFICES ASSUME IInv, [Next]_vars PROVE IInv'
    OBVIOUS
  <2> USE DEF IInv
  <2>1. CASE UserNext /\ UNCHANGED cibVars
    BY <2>1, UserNextInv, CibSameInv
  <2>2. CASE CibNext /\ UNCHANGED userVars
    BY <2>2, CibNextInv, UserSameInv
  <2>3. CASE PowerCut
    BY <2>3, UserPowerCutInv, CibPowerCutInv DEF PowerCut
  <2>4. CASE UNCHANGED vars
    BY <2>4, UserSameInv, CibSameInv DEF vars
  <2> QED BY <2>1, <2>2, <2>3, <2>4 DEF Next
<1> QED BY <1>1, <1>2, PTL DEF Spec

\* What do_At_User_Flsh has answered "OK" for is in the flash and stays there:
\* blocks in any order, sent again, with power cuts anywhere.
THEOREM OkMeansStored == Spec => []Stored
<1>1. IInv => Stored
  BY DEF IInv, UserInv
<1> QED BY <1>1, StoresInductive, PTL

\* cfg_user_write_cfg leaves the user data behind its blocks alone.
THEOREM RestOfUserData == Spec => []OthersKept
<1>1. IInv => OthersKept
  BY CellFacts DEF IInv, UserInv, RestKept, OthersKept
<1> QED BY <1>1, StoresInductive, PTL

\* What a task has saved with CIBWrite is in the file, and in the block again after
\* any number of restarts, whatever the other task saves without a lock.
THEOREM SettingsSurvive == Spec => []Survives
<1>1. IInv => Survives
  BY DEF IInv, CibInv
<1> QED BY <1>1, StoresInductive, PTL
=============================================================================
