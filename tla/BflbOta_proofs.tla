--------------------------- MODULE BflbOta_proofs ---------------------------
(* What BflbOta guarantees for every number of blocks, every set of images *)
(* and every behaviour of the flash.                                       *)
EXTENDS BflbOta, FirmwareSlots_proofs

USE DEF Copies, Index
-----------------------------------------------------------------------------
(* What holds whatever the caller of bflb_ota does: a table always has an  *)
(* entry for the firmware, and a call in progress a session to work on.    *)
CallInv ==
    /\ HasEntry(boot2.table, FW)
    /\ \A c \in Copies : pt_table_valid(tables[c]) => HasEntry(tables[c], FW)
    /\ pc # "idle" => ota_parm # NULL
    /\ pc \in {"erase", "write"} => xfer # NULL
    /\ pc \in {"pterase", "ptwrite"} => upd # NULL /\ HasEntry(upd.stuff, FW)

Inv == TypeOK /\ CallInv

(* What needs a caller who reboots after a finished update and passes      *)
(* offsets in the file: the session writes where the processor does not    *)
(* run and no further, and an update of the table aims at the copy that is *)
(* not the boot copy.                                                      *)
SlotInv ==
    /\ boot2.table.entries[FW] = running
    /\ pt_table_get_active_partition(tables) # INVALID
    /\ ~rebootDue => BootSlot(tables) = running
    /\ rebootDue => ota_parm = NULL
    /\ ota_parm # NULL => /\ ota_parm.slot = OtherIndex(running)
                          /\ ota_parm.slot = ota_parm.ota_addr
                          /\ ota_parm.file_size <= SlotLen[ota_parm.slot]
    /\ pc \in {"erase", "write"} =>
          xfer.block <= xfer.end /\ xfer.end < ota_parm.file_size
    /\ pc \in {"pterase", "ptwrite"} =>
          /\ upd.target = OtherCopy(pt_table_get_active_partition(tables))
          /\ upd.stuff.entries[FW] = ota_parm.slot

(* What needs, besides, a caller who applies only what was verified.       *)
ImageInv ==
    /\ Complete(BootSlot(tables))
    /\ verified => /\ ota_parm # NULL
                   /\ HashMatches(ota_parm.slot, ota_parm.file_size)
    /\ pc \in {"erase", "write"} => ~verified
    /\ pc \in {"pterase", "ptwrite"} =>
          /\ upd.stuff.age = tables[OtherCopy(upd.target)].age + 1
          /\ Complete(ota_parm.slot)

IInv == Inv /\ SlotInv /\ ImageInv
-----------------------------------------------------------------------------
LEMMA SectorFacts == \A b \in Nat : SectorOf(b) \in Nat
  BY OtaAssumption, SlotsAssumption DEF SectorOf

LEMMA SectorStart ==
    ASSUME NEW s \in Nat, NEW e \in Nat, s <= SectorOf(e)
    PROVE  s * BlocksPerSector <= e
<1> DEFINE B == BlocksPerSector
           q == e \div B
           k == q - s
<1>1. B \in Nat /\ B > 0
  BY OtaAssumption
<1>2. q \in Nat /\ B * q <= e
  BY <1>1
<1>3. s <= q
  BY DEF SectorOf
<1> HIDE DEF q, B
<1>4. k \in Nat /\ B * q = B * s + B * k /\ B * k \in Nat /\ B * s \in Nat
  BY <1>1, <1>2, <1>3
<1>5. s * B = B * s
  BY <1>1
<1> QED
  BY <1>2, <1>4, <1>5 DEF B

(* Sums that are taken modulo the word, and those that do not wrap. *)
LEMMA PlusFacts ==
    ASSUME NEW a \in Nat, NEW b \in Nat
    PROVE  Plus(a, b) \in Nat /\ (a + b < Word => Plus(a, b) = a + b)
<1>1. Word \in Nat /\ Word > 0
  BY OtaAssumption, SlotsAssumption DEF MaxLen
<1>2. a + b \in Nat
  OBVIOUS
<1>3. \A x \in Nat : (x % Word) \in Nat /\ (x < Word => (x % Word) = x)
  BY <1>1
<1> QED
  BY <1>2, <1>3 DEF Plus

LEMMA InitInv == Init => Inv /\ SlotInv
<1> SUFFICES ASSUME Init PROVE Inv /\ SlotInv
  OBVIOUS
<1>1. PICK T \in SUBSET EntryTypes :
         /\ FW \in T
         /\ tables = [c \in Copies |->
                IF c = 0 THEN [age |-> 0, entries |-> [t \in T |-> 0]] ELSE Torn]
         /\ boot2 = [idx |-> 0, table |-> [age |-> 0, entries |-> [t \in T |-> 0]]]
  BY DEF Init, FactoryFlash
<1> DEFINE t0 == [age |-> 0, entries |-> [t \in T |-> 0]]
<1>2. t0 \in Table
  <2>1. [t \in T |-> 0] \in [T -> Index]
    OBVIOUS
  <2> QED
    BY <2>1 DEF Table
<1>3. t0 # Torn
  BY <1>2, PartitionAssumption
<1>4. slots \in [Index -> [Blocks -> Cell]]
  BY DEF Init, FactoryFlash, Cell
<1>5. TypeOK
  <2>1. tables \in [Copies -> Table \cup {Torn}]
    BY <1>1, <1>2
  <2>2. boot2 \in [idx : Copies, table : Table]
    BY <1>1, <1>2
  <2>3. /\ running = 0 /\ pc = "idle" /\ verified = FALSE /\ rebootDue = FALSE
        /\ ota_parm = NULL /\ xfer = NULL /\ upd = NULL
    BY DEF Init, FactoryFlash
  <2>4. verified \in BOOLEAN /\ rebootDue \in BOOLEAN
    BY <2>3, Zenon
  <2>5. running \in Index /\ pc \in Points
    BY <2>3 DEF Points
  <2>6. /\ ota_parm \in Session \cup {NULL} /\ xfer \in Transfer \cup {NULL}
        /\ upd \in TableUpdate \cup {NULL}
    BY <2>3
  <2> QED
    BY <1>4, <2>1, <2>2, <2>4, <2>5, <2>6 DEF TypeOK, FlashTypeOK
<1>6. HasEntry(t0, FW) /\ t0.entries[FW] = 0
  BY <1>1 DEF HasEntry
<1>7. tables[0] = t0 /\ tables[1] = Torn
  BY <1>1
<1>8. pt_table_get_active_partition(tables) = 0
  BY <1>3, <1>7 DEF pt_table_get_active_partition, pt_table_valid
<1>9. CallInv
  BY <1>1, <1>3, <1>6, <1>7 DEF Init, FactoryFlash, CallInv, pt_table_valid
<1>10. SlotInv
  BY <1>1, <1>6, <1>7, <1>8 DEF Init, FactoryFlash, SlotInv, INVALID, BootSlot
<1> QED
  BY <1>5, <1>9, <1>10 DEF Inv

(* Every step preserves what holds for any caller.                         *)
LEMMA NextInv == Inv /\ [Next]_vars => Inv'
<1> SUFFICES ASSUME Inv, [Next]_vars PROVE Inv'
  OBVIOUS
<1> USE DEF Inv
<1> DEFINE id == pt_table_get_active_partition(tables)
<1>a. ASSUME id # INVALID
      PROVE  /\ id \in Copies /\ tables[id] \in Table /\ tables[id] # Torn
             /\ HasEntry(tables[id], FW) /\ tables[id].entries[FW] \in Index
  <2>1. id \in Copies /\ tables[id] \in Table /\ tables[id] # Torn
    BY <1>a, ActiveCopy DEF TypeOK, FlashTypeOK
  <2>2. HasEntry(tables[id], FW)
    BY <2>1 DEF CallInv, pt_table_valid
  <2> QED
    BY <2>1, <2>2, EntryIndex
<1>b. boot2.table.entries[FW] \in Index
  BY EntryIndex DEF TypeOK, FlashTypeOK, CallInv
<1>s. ASSUME Stray
      PROVE  /\ tables' \in [Copies -> Table \cup {Torn}]
             /\ slots' \in [Index -> [Blocks -> Cell]]
             /\ \A c \in Copies : pt_table_valid(tables'[c]) => HasEntry(tables'[c], FW)
  BY <1>s DEF Stray, TypeOK, FlashTypeOK, CallInv, pt_table_valid, flash
<1>1. CASE Reset
  <2>0. id # INVALID
    BY <1>1 DEF Reset, Boot
  <2>1. TypeOK'
    BY <1>1, <2>0, <1>a DEF Reset, Boot, TypeOK, FlashTypeOK, Points, flash
  <2>2. CallInv'
    BY <1>1, <2>0, <1>a DEF Reset, Boot, CallInv, flash, TypeOK, FlashTypeOK
  <2> QED
    BY <2>1, <2>2
<1>2. ASSUME NEW size \in 0..MaxLen, bflb_ota_start(size) PROVE Inv'
  <2>0. id # INVALID
    BY <1>2 DEF bflb_ota_start
  <2>1. ota_parm' \in Session
    BY <1>2, <2>0, <1>a, <1>b, FlipFacts DEF bflb_ota_start, Session, MtdBackupSlot, MaxLen
  <2>2. TypeOK'
    BY <1>2, <2>1 DEF bflb_ota_start, TypeOK, FlashTypeOK, flash, caller
  <2>3. CallInv'
    BY <1>2, <2>1, OtaAssumption DEF bflb_ota_start, CallInv, flash, caller
  <2> QED
    BY <2>2, <2>3
<1>3. ASSUME NEW offset \in 0..(Word - 1), NEW len \in 1..ChunkMax, NEW data \in Cell \ {Blank},
             bflb_ota_update(offset, len, data)
      PROVE  Inv'
  <2>1. offset \in Nat /\ len \in Nat /\ len > 0
    BY OtaAssumption
  <2>2. xfer' \in Transfer
    BY <1>3, <2>1, SectorFacts, PlusFacts DEF bflb_ota_update, Transfer
  <2>3. TypeOK'
    BY <1>3, <2>2 DEF bflb_ota_update, TypeOK, FlashTypeOK, flash, Points
  <2>4. xfer' # NULL
    BY <2>2, OtaAssumption, SlotsAssumption
  <2>5. CallInv'
    BY <1>3, <2>4 DEF bflb_ota_update, CallInv, flash
  <2> QED
    BY <2>3, <2>5
<1>4. CASE OtaEraseSector
  <2>1. ota_parm \in Session /\ xfer \in Transfer
    BY <1>4 DEF OtaEraseSector, TypeOK, FlashTypeOK, CallInv
  <2>2. /\ tables' \in [Copies -> Table \cup {Torn}]
        /\ slots' \in [Index -> [Blocks -> Cell]]
        /\ \A c \in Copies : pt_table_valid(tables'[c]) => HasEntry(tables'[c], FW)
    <3>1. CASE Stray
      BY <3>1, <1>s
    <3>2. CASE ~Stray
      <4>1. /\ UNCHANGED tables
            /\ \/ slots' = [slots EXCEPT ![ota_parm.slot] =
                    [b \in Blocks |-> IF SectorOf(b) = xfer.sector THEN Blank ELSE @[b]]]
               \/ UNCHANGED slots
        BY <1>4, <3>2 DEF OtaEraseSector
      <4> QED
        BY <2>1, <4>1 DEF TypeOK, FlashTypeOK, CallInv, Session, Cell
    <3> QED
      BY <3>1, <3>2
  <2>3. ota_parm' \in Session /\ ota_parm'.slot = ota_parm.slot /\ xfer' \in Transfer
    BY <1>4, <2>1 DEF OtaEraseSector, Session, Transfer
  <2>4. TypeOK'
    BY <1>4, <2>2, <2>3 DEF OtaEraseSector, TypeOK, FlashTypeOK, caller
  <2>5. CallInv'
    BY <1>4, <2>2, <2>3, OtaAssumption DEF OtaEraseSector, CallInv, caller
  <2> QED
    BY <2>4, <2>5
<1>5. CASE OtaSkipSector
  <2>1. xfer' \in Transfer
    BY <1>5 DEF OtaSkipSector, TypeOK, FlashTypeOK, CallInv, Transfer
  <2> QED
    BY <1>5, <2>1, OtaAssumption, SlotsAssumption DEF OtaSkipSector, TypeOK, FlashTypeOK, CallInv, flash, caller
<1>6. CASE OtaEraseDone
  BY <1>6 DEF OtaEraseDone, TypeOK, FlashTypeOK, CallInv, Points, flash, caller
<1>7. CASE OtaWriteBlock
  <2>1. ota_parm \in Session /\ xfer \in Transfer
    BY <1>7 DEF OtaWriteBlock, TypeOK, FlashTypeOK, CallInv
  <2>2. /\ tables' \in [Copies -> Table \cup {Torn}]
        /\ slots' \in [Index -> [Blocks -> Cell]]
        /\ \A c \in Copies : pt_table_valid(tables'[c]) => HasEntry(tables'[c], FW)
    <3>1. CASE Stray
      BY <3>1, <1>s
    <3>2. CASE ~Stray
      <4>1. /\ UNCHANGED tables
            /\ \/ slots' = [slots EXCEPT ![ota_parm.slot] =
                    [b \in Blocks |-> IF b = xfer.block THEN Programmed(@[b], xfer.data)
                                                        ELSE @[b]]]
               \/ UNCHANGED slots
        BY <1>7, <3>2 DEF OtaWriteBlock
      <4> QED
        BY <2>1, <4>1 DEF TypeOK, FlashTypeOK, CallInv, Session, Transfer, Cell, Programmed
    <3> QED
      BY <3>1, <3>2
  <2>3. xfer' \in Transfer \cup {NULL} /\ (pc' # "idle" => xfer' \in Transfer)
    <3>1. Plus(xfer.block, 1) \in Nat
      BY <2>1, PlusFacts DEF Transfer
    <3> QED
      BY <1>7, <2>1, <3>1 DEF OtaWriteBlock, Transfer
  <2>4. TypeOK'
    BY <1>7, <2>2, <2>3 DEF OtaWriteBlock, TypeOK, FlashTypeOK, caller, Points
  <2>5. CallInv'
    BY <1>7, <2>2, <2>3, OtaAssumption DEF OtaWriteBlock, CallInv, caller
  <2> QED
    BY <2>4, <2>5
<1>8. ASSUME NEW check \in BOOLEAN, SessionRefused(check) PROVE Inv'
  BY <1>8 DEF SessionRefused, CloseSession, TypeOK, FlashTypeOK, CallInv, Points, flash
<1>9. ASSUME NEW check \in BOOLEAN, bflb_ota_finish(check) PROVE Inv'
  <2>0. id # INVALID
    BY <1>9 DEF bflb_ota_finish, PrepareUpdate
  <2>1. OtherCopy(id) \in Copies
    BY <1>a, <2>0 DEF OtherCopy
  <2>2. UpdatedTable(tables[id], FW, OtherIndex(tables[id].entries[FW])) \in Table
    BY <1>a, <2>0, FlipFacts, UpdatedTableFacts, PartitionAssumption
  <2>3. HasEntry(UpdatedTable(tables[id], FW, OtherIndex(tables[id].entries[FW])), FW)
    BY <1>a, <2>0, FlipFacts, UpdatedTableFacts, PartitionAssumption
  <2>4. /\ upd' = [target |-> OtherCopy(id),
                   stuff  |-> UpdatedTable(tables[id], FW,
                                           OtherIndex(tables[id].entries[FW]))]
        /\ pc' = "pterase"
        /\ UNCHANGED <<flash, boot2, running, ota_parm, xfer, caller>>
        /\ ota_parm # NULL
    BY <1>9 DEF bflb_ota_finish, PrepareUpdate
  <2>5. upd' \in TableUpdate /\ upd' # NULL
    BY <2>1, <2>2, <2>4, OtaAssumption, SlotsAssumption DEF TableUpdate
  <2>6. TypeOK'
    BY <2>4, <2>5 DEF TypeOK, FlashTypeOK, Points, flash, caller
  <2>7. CallInv'
    BY <2>3, <2>4, <2>5 DEF CallInv, flash, caller
  <2> QED
    BY <2>6, <2>7
<1>10. CASE bflb_ota_check
  BY <1>10 DEF bflb_ota_check, TypeOK, FlashTypeOK, CallInv, flash
<1>11. CASE bflb_ota_abort
  BY <1>11 DEF bflb_ota_abort, CloseSession, TypeOK, FlashTypeOK, CallInv, Points, flash
<1>c. ASSUME pc \in {"pterase", "ptwrite"}
      PROVE  upd.target \in Copies /\ upd.stuff \in Table /\ HasEntry(upd.stuff, FW)
  BY <1>c DEF TypeOK, FlashTypeOK, CallInv, TableUpdate
<1>12. ASSUME PtErase \/ PtEraseFails PROVE Inv'
  <2>1. pc = "pterase"
    BY <1>12 DEF PtErase, PtEraseFails
  <2>2. \/ tables' = [tables EXCEPT ![upd.target] = Torn]
        \/ tables' = tables
    BY <1>12 DEF PtErase, PtEraseFails
  <2>3. tables' \in [Copies -> Table \cup {Torn}]
    BY <1>c, <2>1, <2>2 DEF TypeOK, FlashTypeOK
  <2>4. \A c \in Copies : pt_table_valid(tables'[c]) => HasEntry(tables'[c], FW)
    BY <1>c, <2>1, <2>2 DEF TypeOK, FlashTypeOK, CallInv, pt_table_valid
  <2>5. TypeOK'
    BY <1>12, <2>3 DEF PtErase, PtEraseFails, CloseSession, TypeOK, FlashTypeOK, Points, caller
  <2>6. CallInv'
    BY <1>12, <2>1, <2>3, <2>4
    DEF PtErase, PtEraseFails, CloseSession, CallInv, caller
  <2> QED
    BY <2>5, <2>6
<1>13. CASE PtWrite
  <2>1. pc = "ptwrite"
    BY <1>13 DEF PtWrite
  <2>2. \/ tables' = [tables EXCEPT ![upd.target] = upd.stuff]
        \/ tables' = tables
    BY <1>13 DEF PtWrite
  <2>3. tables' \in [Copies -> Table \cup {Torn}]
    BY <1>c, <2>1, <2>2 DEF TypeOK, FlashTypeOK
  <2>4. \A c \in Copies : pt_table_valid(tables'[c]) => HasEntry(tables'[c], FW)
    BY <1>c, <2>1, <2>2 DEF TypeOK, FlashTypeOK, CallInv, pt_table_valid
  <2>5. TypeOK'
    BY <1>13, <2>3 DEF PtWrite, CloseSession, TypeOK, FlashTypeOK, Points
  <2>6. CallInv'
    BY <1>13, <2>3, <2>4 DEF PtWrite, CloseSession, CallInv
  <2> QED
    BY <2>5, <2>6
<1>14. CASE UNCHANGED vars
  BY <1>14 DEF vars, TypeOK, FlashTypeOK, CallInv
<1> QED
  BY <1>1, <1>2, <1>3, <1>4, <1>5, <1>6, <1>7, <1>8, <1>9, <1>10, <1>11,
     <1>12, <1>13, <1>14
  DEF Next, bflb_ota_apply

LEMMA InvHolds == Spec => []Inv
  BY InitInv, NextInv, PTL DEF Spec

(* Every variable of the update keeps its type.                            *)
THEOREM TypeCorrect == Spec => []TypeOK
  BY InvHolds, PTL DEF Inv

-----------------------------------------------------------------------------
(* A transfer that stays in its slot touches nothing outside of it. *)
LEMMA NotOutside ==
    ASSUME Inv, SlotInv
    PROVE  /\ OtaEraseSector => ~Outside(xfer.sector * BlocksPerSector)
           /\ OtaWriteBlock => ~Outside(xfer.block)
<1> USE DEF Inv
<1>1. SUFFICES ASSUME pc \in {"erase", "write"}
               PROVE  /\ xfer.sector <= SectorOf(xfer.end)
                            => ~Outside(xfer.sector * BlocksPerSector)
                      /\ ~Outside(xfer.block)
  BY DEF OtaEraseSector, OtaWriteBlock
<1>2. ota_parm \in Session /\ xfer \in Transfer
  BY <1>1 DEF TypeOK, CallInv
<1>3. /\ xfer.sector \in Nat /\ xfer.block \in Nat /\ xfer.end \in Nat
      /\ ota_parm.file_size \in Nat /\ SlotLen[ota_parm.slot] \in Nat
      /\ xfer.block <= xfer.end /\ xfer.end < ota_parm.file_size
      /\ ota_parm.file_size <= SlotLen[ota_parm.slot]
  BY <1>1, <1>2, SlotsAssumption DEF Session, Transfer, SlotInv, CallInv
<1>4. xfer.sector <= SectorOf(xfer.end) => xfer.sector * BlocksPerSector <= xfer.end
  BY <1>3, SectorStart
<1>5. xfer.sector * BlocksPerSector \in Nat
  BY <1>3, OtaAssumption
<1> QED
  BY <1>3, <1>4, <1>5 DEF Outside

LEMMA TransferStays ==
    ASSUME Inv, SlotInv, OtaEraseSector \/ OtaWriteBlock
    PROVE  tables' = tables /\ slots'[running] = slots[running]
<1> USE DEF Inv
<1>1. /\ ota_parm # NULL /\ ota_parm \in Session /\ running \in Index
      /\ ota_parm.slot # running /\ slots \in [Index -> [Blocks -> Cell]]
  BY FlipFacts DEF OtaEraseSector, OtaWriteBlock, TypeOK, FlashTypeOK, CallInv, SlotInv
<1>2. CASE OtaEraseSector
  <2>1. /\ UNCHANGED tables
        /\ \/ slots' = [slots EXCEPT ![ota_parm.slot] =
                [b \in Blocks |-> IF SectorOf(b) = xfer.sector THEN Blank ELSE @[b]]]
           \/ UNCHANGED slots
    BY <1>2, NotOutside DEF OtaEraseSector
  <2> QED
    BY <1>1, <2>1
<1>3. CASE OtaWriteBlock
  <2>1. /\ UNCHANGED tables
        /\ \/ slots' = [slots EXCEPT ![ota_parm.slot] =
                [b \in Blocks |-> IF b = xfer.block THEN Programmed(@[b], xfer.data)
                                                    ELSE @[b]]]
           \/ UNCHANGED slots
    BY <1>3, NotOutside DEF OtaWriteBlock
  <2> QED
    BY <1>1, <2>1
<1> QED
  BY <1>2, <1>3

(* The boot copy, and the session while there is one. *)
LEMMA SlotFacts ==
    ASSUME Inv, SlotInv
    PROVE  LET id == pt_table_get_active_partition(tables) IN
           /\ id \in Copies /\ tables[id] \in Table /\ OtherCopy(OtherCopy(id)) = id
           /\ BootSlot(tables) = tables[id].entries[FW] /\ BootSlot(tables) \in Index
           /\ ota_parm # NULL => /\ ota_parm \in Session /\ ~rebootDue
                                 /\ BootSlot(tables) = running
                                 /\ ota_parm.slot = OtherIndex(running)
                                 /\ ota_parm.slot \in Index
           /\ pc \in {"pterase", "ptwrite"} =>
                 /\ upd.target \in Copies /\ upd.stuff \in Table
                 /\ upd.target = OtherCopy(id) /\ OtherCopy(upd.target) = id
                 /\ ota_parm # NULL
<1> DEFINE id == pt_table_get_active_partition(tables)
<1>1. id \in Copies /\ tables[id] \in Table /\ tables[id] # Torn
  BY ActiveCopy DEF Inv, TypeOK, FlashTypeOK, SlotInv
<1>2. BootSlot(tables) = tables[id].entries[FW] /\ BootSlot(tables) \in Index
  BY <1>1, EntryIndex DEF Inv, CallInv, pt_table_valid, BootSlot
<1>3. OtherCopy(OtherCopy(id)) = id
  BY <1>1 DEF OtherCopy
<1>4. ota_parm # NULL => /\ ota_parm \in Session /\ ~rebootDue
                        /\ BootSlot(tables) = running
                        /\ ota_parm.slot = OtherIndex(running)
                        /\ ota_parm.slot \in Index
  BY FlipFacts DEF Inv, SlotInv, TypeOK, FlashTypeOK
<1>5. pc \in {"pterase", "ptwrite"} =>
         /\ upd.target \in Copies /\ upd.stuff \in Table
         /\ upd.target = OtherCopy(id) /\ ota_parm # NULL
  BY DEF Inv, TypeOK, CallInv, SlotInv, TableUpdate
<1> QED
  BY <1>1, <1>2, <1>3, <1>4, <1>5

LEMMA FitsInWord ==
    ASSUME NEW i \in Index, NEW x \in Nat, x <= SlotLen[i]
    PROVE  x <= MaxLen /\ x < Word
<1>1. /\ SlotLen[0] \in Nat /\ SlotLen[1] \in Nat /\ (i = 0 \/ i = 1)
      /\ ChunkMax \in Nat /\ Word \in Nat
  BY SlotsAssumption, OtaAssumption DEF Index
<1>2. MaxLen \in Nat /\ SlotLen[0] <= MaxLen /\ SlotLen[1] <= MaxLen
  BY <1>1 DEF MaxLen
<1>3. x <= MaxLen
  BY <1>1, <1>2
<1>4. MaxLen + ChunkMax < Word
  BY OtaAssumption
<1> QED
  BY <1>1, <1>2, <1>3, <1>4

LEMMA SlotNext ==
    ASSUME CallerReboots, CallerInFile, Inv, SlotInv, [Next]_vars
    PROVE  SlotInv'
<1> USE DEF Inv
<1> DEFINE id == pt_table_get_active_partition(tables)
<1>a. /\ id \in Copies /\ tables[id] \in Table
      /\ BootSlot(tables) = tables[id].entries[FW] /\ BootSlot(tables) \in Index
  BY SlotFacts
<1>b. ota_parm # NULL => /\ ota_parm \in Session /\ ~rebootDue
                        /\ BootSlot(tables) = running
                        /\ ota_parm.slot = OtherIndex(running)
                        /\ ota_parm.slot \in Index
  BY SlotFacts
<1>1. CASE Reset
  BY <1>1, <1>a DEF Reset, Boot, SlotInv, flash, BootSlot
<1>2. ASSUME NEW size \in 0..MaxLen, bflb_ota_start(size) PROVE SlotInv'
  <2>1. ~rebootDue /\ BootSlot(tables) = running
    BY <1>2 DEF bflb_ota_start, SlotInv
  <2>2. MtdBackupSlot = OtherIndex(tables[id].entries[FW])
    BY <2>1, <1>a DEF MtdBackupSlot, SlotInv
  <2>3. /\ ota_parm' = [slot          |-> MtdBackupSlot,
                        ota_addr      |-> OtherIndex(tables[id].entries[FW]),
                        file_size     |-> size,
                        sector_erased |-> {}]
        /\ size <= SlotLen[OtherIndex(tables[id].entries[FW])]
        /\ pc = "idle"
        /\ UNCHANGED <<flash, boot2, running, pc, xfer, upd, caller>>
    BY <1>2 DEF bflb_ota_start, SizeLimit
  <2> QED
    BY <2>1, <2>2, <2>3, <1>a DEF SlotInv, flash, caller
<1>3. ASSUME NEW offset \in 0..(Word - 1), NEW len \in 1..ChunkMax, NEW data \in Cell \ {Blank},
             bflb_ota_update(offset, len, data)
      PROVE  SlotInv'
  <2>1. /\ offset \in Nat /\ len \in Nat /\ len > 0 /\ len <= ChunkMax
        /\ Word \in Nat /\ MaxLen \in Nat /\ MaxLen + ChunkMax < Word /\ ChunkMax \in Nat
    BY OtaAssumption, SlotsAssumption DEF MaxLen
  <2>2. /\ offset <= ota_parm.file_size /\ ota_parm # NULL
        /\ Plus(offset, len) <= ota_parm.file_size
        /\ xfer' = [sector |-> SectorOf(offset), block |-> offset,
                    end |-> Plus(offset, len - 1), data |-> data]
        /\ pc' = "erase"
        /\ UNCHANGED <<flash, boot2, running, ota_parm, upd, rebootDue>>
    BY <1>3 DEF bflb_ota_update
  <2>3. ota_parm.file_size \in Nat /\ ota_parm.file_size <= MaxLen
    <3>1. /\ ota_parm.slot \in Index /\ ota_parm.file_size \in Nat
          /\ ota_parm.file_size <= SlotLen[ota_parm.slot]
      BY <1>b, <2>2 DEF Session, SlotInv
    <3> QED
      BY <3>1, FitsInWord
  <2>4. Plus(offset, len) = offset + len /\ Plus(offset, len - 1) = offset + len - 1
    <3> DEFINE l == len - 1
               f == ota_parm.file_size
    <3>1. f \in Nat /\ f <= MaxLen /\ offset <= f
      BY <2>2, <2>3
    <3>2. l \in Nat /\ offset + len < Word /\ offset + l < Word
      <4> HIDE DEF f
      <4> QED
        BY <2>1, <3>1
    <3> HIDE DEF l
    <3>3. Plus(offset, len) = offset + len /\ Plus(offset, l) = offset + l
      BY <2>1, <3>2, PlusFacts
    <3>4. l = len - 1
      BY DEF l
    <3>5. offset + l = offset + len - 1
      BY <2>1, <3>4
    <3> QED
      BY <3>3, <3>4, <3>5
  <2>5. xfer'.block <= xfer'.end /\ xfer'.end < ota_parm'.file_size
    BY <2>1, <2>2, <2>3, <2>4
  <2> QED
    BY <2>2, <2>5 DEF SlotInv, flash
<1>4. CASE OtaEraseSector
  <2>1. ota_parm # NULL /\ pc = "erase" /\ tables' = tables /\ xfer \in Transfer
    BY <1>4, TransferStays DEF OtaEraseSector, CallInv, TypeOK
  <2>2. /\ ota_parm'.slot = ota_parm.slot /\ ota_parm'.ota_addr = ota_parm.ota_addr
        /\ ota_parm'.file_size = ota_parm.file_size
        /\ xfer'.end = xfer.end /\ xfer'.block = xfer.block
    BY <1>4, <2>1, <1>b DEF OtaEraseSector, Session, Transfer
  <2> QED
    BY <1>4, <2>1, <2>2, <1>b DEF OtaEraseSector, SlotInv, caller
<1>5. CASE OtaSkipSector
  <2>1. xfer'.end = xfer.end /\ xfer'.block = xfer.block
    BY <1>5 DEF OtaSkipSector, CallInv, TypeOK, Transfer
  <2> QED
    BY <1>5, <2>1 DEF OtaSkipSector, SlotInv, flash, caller
<1>6. CASE OtaEraseDone
  BY <1>6 DEF OtaEraseDone, SlotInv, flash, caller
<1>7. CASE OtaWriteBlock
  <2>1. ota_parm # NULL /\ pc = "write" /\ tables' = tables /\ xfer \in Transfer
    BY <1>7, TransferStays DEF OtaWriteBlock, CallInv, TypeOK
  <2>2. pc' = "write" => xfer'.block <= xfer'.end /\ xfer'.end = xfer.end
    <3>1. /\ xfer.block \in Nat /\ xfer.end \in Nat /\ xfer.block <= xfer.end
          /\ xfer.end < Word
      <4>1. /\ xfer.end < ota_parm.file_size /\ ota_parm.file_size \in Nat
            /\ ota_parm.file_size <= SlotLen[ota_parm.slot]
            /\ ota_parm.slot \in Index /\ xfer.block <= xfer.end
            /\ xfer.block \in Nat /\ xfer.end \in Nat
        BY <2>1, <1>b DEF SlotInv, Transfer, Session
      <4> QED
        <5>1. ota_parm.file_size < Word
          BY <4>1, FitsInWord
        <5>2. Word \in Nat
          BY OtaAssumption
        <5> QED
          BY <4>1, <5>1, <5>2
    <3>2. xfer.block # xfer.end => Plus(xfer.block, 1) = xfer.block + 1
      <4>1. xfer.block # xfer.end => xfer.block + 1 < Word
        <5> DEFINE b == xfer.block
                   e == xfer.end
        <5>1. b \in Nat /\ e \in Nat /\ b <= e /\ e < Word /\ Word \in Nat
          BY <3>1, OtaAssumption
        <5> HIDE DEF b, e
        <5>2. b # e => b + 1 < Word
          BY <5>1
        <5> QED
          BY <5>2 DEF b, e
      <4> QED
        BY <3>1, <4>1, PlusFacts
    <3>3. pc' = "write" => xfer.block # xfer.end /\ xfer' = [xfer EXCEPT !.block = Plus(@, 1)]
      BY <1>7 DEF OtaWriteBlock
    <3> QED
      BY <2>1, <3>1, <3>2, <3>3 DEF Transfer
  <2>3. pc' \in {"idle", "write"}
    BY <1>7 DEF OtaWriteBlock
  <2> QED
    BY <1>7, <2>1, <2>2, <2>3 DEF OtaWriteBlock, SlotInv, caller
<1>8. ASSUME NEW check \in BOOLEAN, SessionRefused(check) PROVE SlotInv'
  BY <1>8 DEF SessionRefused, CloseSession, SlotInv, flash
<1>9. ASSUME NEW check \in BOOLEAN, bflb_ota_finish(check) PROVE SlotInv'
  <2>1. /\ upd' = [target |-> OtherCopy(id),
                   stuff  |-> UpdatedTable(tables[id], FW,
                                           OtherIndex(tables[id].entries[FW]))]
        /\ pc' = "pterase"
        /\ UNCHANGED <<flash, boot2, running, ota_parm, xfer, caller>>
        /\ ota_parm # NULL
    BY <1>9 DEF bflb_ota_finish, PrepareUpdate
  <2>2. OtherIndex(tables[id].entries[FW]) = ota_parm.slot
    BY <2>1, <1>a, <1>b
  <2>3. UpdatedTable(tables[id], FW, ota_parm.slot).entries[FW] = ota_parm.slot
    BY <2>1, <1>a, <1>b, FlipFacts, UpdatedTableFacts, PartitionAssumption
  <2> QED
    BY <2>1, <2>2, <2>3 DEF SlotInv, flash, caller
<1>10. CASE bflb_ota_check
  BY <1>10 DEF bflb_ota_check, SlotInv, flash
<1>11. CASE bflb_ota_abort
  BY <1>11 DEF bflb_ota_abort, CloseSession, SlotInv, flash
<1>c. ASSUME pc \in {"pterase", "ptwrite"}
      PROVE  /\ upd.target \in Copies /\ upd.stuff \in Table /\ upd.target = OtherCopy(id)
             /\ tables \in [Copies -> Table \cup {Torn}] /\ id # INVALID
  BY <1>c, SlotFacts DEF TypeOK, FlashTypeOK, SlotInv
<1>12. CASE PtErase
  <2>1. pc = "pterase" /\ tables' = [tables EXCEPT ![upd.target] = Torn]
    BY <1>12 DEF PtErase
  <2>2. BootSlot(tables') = BootSlot(tables) /\ pt_table_get_active_partition(tables') = id
    BY <2>1, <1>c, EraseInactive
  <2> QED
    BY <1>12, <2>1, <2>2 DEF PtErase, SlotInv, caller
<1>13. CASE PtEraseFails
  <2>1. /\ pc = "pterase" /\ pc' = "idle" /\ ota_parm' = NULL /\ rebootDue' = TRUE
        /\ UNCHANGED <<boot2, running>>
        /\ tables' = [tables EXCEPT ![upd.target] = Torn] \/ tables' = tables
    BY <1>13 DEF PtEraseFails, CloseSession
  <2>2. pt_table_get_active_partition(tables') # INVALID
    BY <2>1, <1>c, EraseInactive
  <2> QED
    BY <2>1, <2>2 DEF SlotInv
<1>14. CASE PtWrite
  <2>1. /\ pc = "ptwrite" /\ pc' = "idle" /\ ota_parm' = NULL /\ rebootDue' = TRUE
        /\ UNCHANGED <<boot2, running>>
        /\ tables' = [tables EXCEPT ![upd.target] = upd.stuff] \/ tables' = tables
    BY <1>14 DEF PtWrite, CloseSession
  <2>2. pt_table_get_active_partition(tables') # INVALID
    BY <2>1, <1>c, WriteInactive
  <2> QED
    BY <2>1, <2>2 DEF SlotInv
<1>15. CASE UNCHANGED vars
  BY <1>15 DEF vars, SlotInv, BootSlot
<1> QED
  BY <1>1, <1>2, <1>3, <1>4, <1>5, <1>6, <1>7, <1>8, <1>9, <1>10, <1>11,
     <1>12, <1>13, <1>14, <1>15
  DEF Next, bflb_ota_apply

LEMMA SlotInvHolds ==
    ASSUME CallerReboots, CallerInFile
    PROVE  Spec => [](Inv /\ SlotInv)
<1>1. Inv /\ SlotInv /\ [Next]_vars => Inv' /\ SlotInv'
  BY NextInv, SlotNext
<1> QED
  BY <1>1, InitInv, PTL DEF Spec

(* No step of an update touches the slot the firmware executes from, nor   *)
(* anything outside the slot of the session, for a caller who reboots      *)
(* after an update and passes offsets in the file to bflb_ota_update.      *)
THEOREM RunningImage ==
    ASSUME CallerReboots, CallerInFile
    PROVE  Spec => RunningImageIntact
<1>1. Inv /\ SlotInv /\ [Next]_vars => [slots'[running] = slots[running]]_<<slots, running>>
  <2> SUFFICES ASSUME Inv, SlotInv, Next PROVE slots'[running] = slots[running]
    BY DEF vars
  <2>1. CASE OtaEraseSector \/ OtaWriteBlock
    BY <2>1, TransferStays
  <2>2. ASSUME ~OtaEraseSector, ~OtaWriteBlock, Next PROVE slots' = slots
    BY <2>2
    DEF Next, Reset, Boot, bflb_ota_start, bflb_ota_update, OtaSkipSector, OtaEraseDone,
        SessionRefused, bflb_ota_finish, bflb_ota_apply, bflb_ota_check,
        bflb_ota_abort, PtErase, PtEraseFails, PtWrite, flash
  <2> QED
    BY <2>1, <2>2
<1> QED
  BY <1>1, SlotInvHolds, PTL DEF Spec, RunningImageIntact

(* The check of bflb_ota_update, in arithmetic modulo 2^32, keeps every    *)
(* transfer in its slot for a caller whose offsets lie in the file he      *)
(* announced; it does not for others.                                      *)
THEOREM InsideSlot ==
    ASSUME CallerReboots, CallerInFile
    PROVE  Spec => []WritesInsideSlot
<1>1. Inv /\ SlotInv => WritesInsideSlot
  <2> SUFFICES ASSUME Inv, SlotInv, pc \in {"erase", "write"}
               PROVE  xfer.block <= xfer.end /\ xfer.end < SlotLen[ota_parm.slot]
    BY DEF WritesInsideSlot
  <2>1. ota_parm \in Session /\ ota_parm # NULL /\ xfer \in Transfer
    BY DEF Inv, CallInv, TypeOK, FlashTypeOK
  <2>2. /\ ota_parm.slot \in Index /\ ota_parm.file_size \in Nat
        /\ xfer.end \in Nat /\ SlotLen[ota_parm.slot] \in Nat
    BY <2>1, SlotsAssumption DEF Session, Transfer
  <2> QED
    BY <2>1, <2>2 DEF SlotInv
<1> QED
  BY <1>1, SlotInvHolds, PTL
-----------------------------------------------------------------------------
(* Whether a slot is whole depends on the contents of that slot only.      *)
LEMMA CompleteFrame ==
    ASSUME NEW s, slots'[s] = slots[s]
    PROVE  /\ Complete(s) => Complete(s)'
           /\ \A n : HashMatches(s, n) => HashMatches(s, n)'
  BY DEF Complete, HashMatches

(* A slot whose hash was accepted holds a whole image.                     *)
LEMMA HashedIsComplete ==
    ASSUME NEW s, NEW n, HashMatches(s, n), n <= SlotLen[s]
    PROVE  Complete(s)
  BY DEF HashMatches, Complete

LEMMA ImageInit == Init => ImageInv
<1> SUFFICES ASSUME Init PROVE ImageInv
  OBVIOUS
<1>1. PICK v \in Images :
         /\ ImageLen[v] <= SlotLen[0]
         /\ slots = [s \in Index |-> [b \in Blocks |->
                         IF s = 0 /\ b < ImageLen[v] THEN v ELSE Blank]]
  BY DEF Init, FactoryFlash
<1>2. 0..(ImageLen[v] - 1) \subseteq Blocks
  BY <1>1, OtaAssumption, SlotsAssumption DEF Blocks, MaxLen
<1>3. Complete(0)
  BY <1>1, <1>2, OtaAssumption, SlotsAssumption DEF Complete
<1>4. PICK T \in SUBSET EntryTypes :
         /\ FW \in T
         /\ tables = [c \in Copies |->
                IF c = 0 THEN [age |-> 0, entries |-> [t \in T |-> 0]] ELSE Torn]
  BY DEF Init, FactoryFlash
<1>5. tables[0].entries[FW] = 0 /\ tables[1] = Torn
  BY <1>4
<1>6. pt_table_get_active_partition(tables) = 0
  BY <1>5, InitInv
  DEF SlotInv, pt_table_get_active_partition, pt_table_valid, INVALID
<1>7. BootSlot(tables) = 0
  BY <1>5, <1>6 DEF BootSlot
<1> QED
  BY <1>3, <1>7 DEF Init, FactoryFlash, ImageInv

(* A caller who, besides, applies only what he verified keeps it.          *)
LEMMA ImageNext ==
    ASSUME CallerVerifies, IInv, [Next]_vars
    PROVE  ImageInv'
<1> USE DEF IInv
<1> DEFINE id == pt_table_get_active_partition(tables)
<1>a. /\ id \in Copies /\ tables[id] \in Table
      /\ BootSlot(tables) = tables[id].entries[FW] /\ BootSlot(tables) \in Index
      /\ OtherCopy(OtherCopy(id)) = id
  BY SlotFacts
<1>b. ota_parm # NULL => /\ ota_parm \in Session /\ BootSlot(tables) = running
                        /\ ota_parm.slot = OtherIndex(running) /\ ota_parm.slot \in Index
  BY SlotFacts
(* Steps that leave the flash as it is leave whole what was whole. *)
<1>f. ASSUME UNCHANGED flash
      PROVE  /\ BootSlot(tables)' = BootSlot(tables) /\ Complete(BootSlot(tables))'
             /\ \A s, n : HashMatches(s, n) => HashMatches(s, n)'
             /\ \A s : Complete(s) => Complete(s)'
  BY <1>f DEF flash, BootSlot, Complete, HashMatches, ImageInv
<1>1. CASE Reset
  BY <1>1, <1>f DEF Reset, Boot, ImageInv
<1>2. ASSUME NEW size \in 0..MaxLen, bflb_ota_start(size) PROVE ImageInv'
  <2>1. /\ pc = "idle" /\ ota_parm = NULL
        /\ UNCHANGED <<flash, boot2, running, pc, xfer, upd, caller>>
    BY <1>2 DEF bflb_ota_start
  <2> QED
    BY <2>1, <1>f DEF ImageInv, caller
<1>3. ASSUME NEW offset \in 0..(Word - 1), NEW len \in 1..ChunkMax, NEW data \in Cell \ {Blank},
             bflb_ota_update(offset, len, data)
      PROVE  ImageInv'
  BY <1>3, <1>f DEF bflb_ota_update, ImageInv
<1>4. CASE OtaEraseSector \/ OtaWriteBlock
  <2>1. /\ ota_parm # NULL /\ pc \in {"erase", "write"} /\ ~verified
        /\ verified' = verified /\ pc' \notin {"pterase", "ptwrite"}
    BY <1>4 DEF OtaEraseSector, OtaWriteBlock, Inv, CallInv, ImageInv, caller
  <2>2. tables' = tables /\ slots'[running] = slots[running]
    BY <1>4, TransferStays
  <2>3. BootSlot(tables)' = BootSlot(tables) /\ Complete(BootSlot(tables))'
    BY <2>1, <2>2, <1>b, CompleteFrame DEF BootSlot, ImageInv
  <2> QED
    BY <2>1, <2>3 DEF ImageInv
<1>5. CASE OtaSkipSector
  BY <1>5, <1>f DEF OtaSkipSector, ImageInv, caller
<1>6. CASE OtaEraseDone
  BY <1>6, <1>f DEF OtaEraseDone, ImageInv, caller
<1>8. ASSUME NEW check \in BOOLEAN, SessionRefused(check) PROVE ImageInv'
  BY <1>8, <1>f DEF SessionRefused, CloseSession, ImageInv
<1>9. ASSUME NEW check \in BOOLEAN, bflb_ota_finish(check) PROVE ImageInv'
  <2>1. /\ upd' = [target |-> OtherCopy(id),
                   stuff  |-> UpdatedTable(tables[id], FW,
                                           OtherIndex(tables[id].entries[FW]))]
        /\ pc' = "pterase"
        /\ UNCHANGED <<flash, boot2, running, ota_parm, xfer, caller>>
        /\ ota_parm # NULL
    BY <1>9 DEF bflb_ota_finish, PrepareUpdate
  <2>2. OtherIndex(tables[id].entries[FW]) = ota_parm.slot
    BY <2>1, <1>a, <1>b
  <2>3. UpdatedTable(tables[id], FW, ota_parm.slot).age = tables[id].age + 1
    BY <2>1, <1>a, <1>b, UpdatedTableFacts, PartitionAssumption
  <2>4. HashMatches(ota_parm.slot, ota_parm.file_size)
    BY <1>9 DEF bflb_ota_finish, ImageInv
  <2>5. Complete(ota_parm.slot)
    BY <2>1, <2>4, HashedIsComplete DEF SlotInv
  <2>6. upd'.stuff.age = tables'[OtherCopy(upd'.target)].age + 1
    BY <2>1, <2>2, <2>3, <1>a DEF flash
  <2>7. Complete(ota_parm.slot)' /\ HashMatches(ota_parm.slot, ota_parm.file_size)'
    <3>1. ota_parm' = ota_parm /\ UNCHANGED flash
      BY <2>1
    <3> QED
      BY <3>1, <2>4, <2>5 DEF flash, Complete, HashMatches
  <2> QED
    BY <2>1, <2>6, <2>7, <1>f DEF ImageInv, caller
<1>10. CASE bflb_ota_check
  <2>1. HashMatches(ota_parm.slot, ota_parm.file_size)'
    BY <1>10 DEF bflb_ota_check, flash, HashMatches
  <2> QED
    BY <1>10, <2>1, <1>f DEF bflb_ota_check, ImageInv
<1>11. CASE bflb_ota_abort
  BY <1>11, <1>f DEF bflb_ota_abort, CloseSession, ImageInv
<1>c. ASSUME pc \in {"pterase", "ptwrite"}
      PROVE  /\ upd.target \in Copies /\ upd.stuff \in Table
             /\ upd.target = OtherCopy(id) /\ OtherCopy(upd.target) = id
             /\ upd.stuff.entries[FW] = ota_parm.slot
             /\ upd.stuff.age = tables[id].age + 1
             /\ Complete(ota_parm.slot)
             /\ tables \in [Copies -> Table \cup {Torn}] /\ id # INVALID
  BY <1>c, SlotFacts DEF Inv, TypeOK, FlashTypeOK, SlotInv, ImageInv
<1>12. CASE PtErase
  <2>1. /\ pc = "pterase" /\ tables' = [tables EXCEPT ![upd.target] = Torn]
        /\ UNCHANGED <<slots, ota_parm, upd, caller>> /\ pc' = "ptwrite"
    BY <1>12 DEF PtErase
  <2>2. BootSlot(tables') = BootSlot(tables) /\ tables'[id] = tables[id]
    BY <2>1, <1>a, <1>c, EraseInactive DEF OtherCopy
  <2>3. Complete(BootSlot(tables))' /\ Complete(ota_parm.slot)'
    BY <1>c, <2>1, <2>2 DEF ImageInv, Complete
  <2>4. verified => HashMatches(ota_parm.slot, ota_parm.file_size)'
    BY <2>1 DEF ImageInv, HashMatches
  <2> QED
    BY <1>c, <2>1, <2>2, <2>3, <2>4 DEF ImageInv, caller
<1>13. CASE PtEraseFails
  <2>1. /\ pc = "pterase" /\ UNCHANGED slots /\ pc' = "idle" /\ verified' = FALSE
        /\ tables' = [tables EXCEPT ![upd.target] = Torn] \/ tables' = tables
    BY <1>13 DEF PtEraseFails, CloseSession
  <2>2. BootSlot(tables') = BootSlot(tables)
    BY <2>1, <1>c, EraseInactive
  <2>3. Complete(BootSlot(tables))'
    BY <2>1, <2>2 DEF ImageInv, Complete
  <2> QED
    BY <2>1, <2>3 DEF ImageInv
<1>14. CASE PtWrite
  <2>1. /\ pc = "ptwrite" /\ UNCHANGED slots /\ pc' = "idle" /\ verified' = FALSE
        /\ tables' = [tables EXCEPT ![upd.target] = upd.stuff] \/ tables' = tables
    BY <1>14 DEF PtWrite, CloseSession
  <2>2. BootSlot(tables') \in {BootSlot(tables), ota_parm.slot}
    BY <2>1, <1>c, WriteInactive
  <2>3. Complete(BootSlot(tables))'
    BY <2>1, <2>2, <1>c DEF ImageInv, Complete
  <2> QED
    BY <2>1, <2>3 DEF ImageInv
<1>15. CASE UNCHANGED vars
  <2>1. UNCHANGED flash
    BY <1>15 DEF vars, flash
  <2> QED
    BY <1>15, <2>1, <1>f DEF vars, flash, ImageInv, Complete, HashMatches
<1> QED
  BY <1>1, <1>2, <1>3, <1>4, <1>5, <1>6, <1>8, <1>9, <1>10, <1>11,
     <1>12, <1>13, <1>14, <1>15
  DEF Next, bflb_ota_apply

LEMMA IInvHolds ==
    ASSUME CallerReboots, CallerInFile, CallerVerifies
    PROVE  Spec => []IInv
<1>1. Init => IInv
  BY InitInv, ImageInit DEF IInv
<1>2. IInv /\ [Next]_vars => IInv'
  BY NextInv, SlotNext, ImageNext DEF IInv
<1> QED
  BY <1>1, <1>2, PTL DEF Spec

(* A power loss anywhere in an update leaves a device that boots a whole   *)
(* image, if the caller of bflb_ota reboots after an update, passes        *)
(* offsets in the file, and applies only what he verified.                 *)
THEOREM BootImage ==
    ASSUME CallerReboots, CallerInFile, CallerVerifies
    PROVE  Spec => []BootImageComplete
<1>1. IInv => BootImageComplete
  BY DEF IInv, SlotInv, ImageInv, BootImageComplete
<1> QED
  BY <1>1, IInvHolds, PTL

(* Under the same conditions an update whose table pt_table_update_entry   *)
(* stored is the one the next boot starts.                                 *)
THEOREM FinishEffective ==
    ASSUME CallerReboots, CallerInFile, CallerVerifies
    PROVE  Spec => FinishTakesEffect
<1>1. IInv /\ [Next]_vars =>
         [pc = "ptwrite" /\ pc' = "idle" /\ tables'[upd.target] = upd.stuff
             => /\ BootSlot(tables') = ota_parm.slot
                /\ Complete(ota_parm.slot)]_vars
  <2> SUFFICES ASSUME IInv, Next, pc = "ptwrite", pc' = "idle",
                      tables'[upd.target] = upd.stuff
               PROVE  BootSlot(tables') = ota_parm.slot /\ Complete(ota_parm.slot)
    OBVIOUS
  <2> DEFINE id == pt_table_get_active_partition(tables)
  <2>1. /\ upd.target \in Copies /\ upd.stuff \in Table
        /\ upd.target = OtherCopy(id) /\ OtherCopy(upd.target) = id
        /\ id \in Copies /\ tables[id] \in Table
    BY SlotFacts DEF IInv
  <2>2. /\ upd.stuff.entries[FW] = ota_parm.slot
        /\ upd.stuff.age = tables[OtherCopy(upd.target)].age + 1
        /\ Complete(ota_parm.slot)
        /\ tables \in [Copies -> Table \cup {Torn}]
    BY DEF IInv, Inv, TypeOK, FlashTypeOK, SlotInv, ImageInv
  <2>3. tables' \in [Copies -> Table \cup {Torn}] /\ tables'[id] = tables[id]
    <3>1. tables' = [tables EXCEPT ![upd.target] = upd.stuff] \/ tables' = tables
      BY DEF Next, Reset, Boot, bflb_ota_start, bflb_ota_update, OtaEraseSector, OtaSkipSector,
             OtaEraseDone, OtaWriteBlock, SessionRefused, bflb_ota_finish, bflb_ota_apply,
             bflb_ota_check, bflb_ota_abort, PtErase, PtEraseFails, PtWrite, flash
    <3> QED
      BY <2>1, <2>2, <3>1 DEF OtherCopy
  <2> QED
    BY <2>1, <2>2, <2>3, NewerWins
<1> QED
  BY <1>1, IInvHolds, PTL DEF Spec, FinishTakesEffect
=============================================================================
