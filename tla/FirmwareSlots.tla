--------------------------- MODULE FirmwareSlots ----------------------------
(***************************************************************************)
(* What every firmware update of the SDK works on: the two firmware slots  *)
(* and the two partition tables in flash, the RAM copy of the table that   *)
(* bflb_boot2.c loads once per boot, and the boot loader's choice.         *)
(*                                                                         *)
(* A slot is a row of blocks.  A block holds the image its bytes came      *)
(* from, or is Blank (erased), or Junk (bytes of no image, or bytes        *)
(* programmed over others).  The SHA-256 that accompanies an image is      *)
(* abstracted to the fact it establishes.                                  *)
(***************************************************************************)
EXTENDS PartitionTable

CONSTANTS Images,           \* the firmware images that exist
          ImageLen,         \* their length in blocks
          Blank, Junk,      \* contents of a block that belong to no image
          SlotLen           \* max_len of the FW entry, in blocks, per slot

MaxLen  == IF SlotLen[0] >= SlotLen[1] THEN SlotLen[0] ELSE SlotLen[1]
Blocks  == 0..(MaxLen - 1)
Cell    == Images \cup {Blank, Junk}

ASSUME SlotsAssumption ==
    /\ ImageLen \in [Images -> Nat \ {0}]
    /\ Blank \notin Images /\ Junk \notin Images /\ Blank # Junk
    /\ SlotLen \in [Index -> Nat \ {0}]

VARIABLES
    tables,     \* flash: the two partition tables
    slots,      \* flash: the contents of the two firmware slots
    boot2,      \* RAM: boot2_partition_table, loaded by bflb_boot2_init
    running     \* the slot the processor executes from (XIP)

flash == <<tables, slots>>
-----------------------------------------------------------------------------
(* The image in slot s is whole: every block of it is in place. *)
Complete(s) ==
    \E v \in Images : /\ ImageLen[v] <= SlotLen[s]
                      /\ \A b \in 0..(ImageLen[v] - 1) : slots[s][b] = v

(* Programming NOR flash only clears bits. *)
Programmed(old, new) == IF old = Blank \/ old = new THEN new ELSE Junk

(* What the boot loader will start after the next reset. *)
BootSlot(tb) == tb[pt_table_get_active_partition(tb)].entries[FW]

(* Deviation: the MTD layer opens the active slot. *)
MtdActiveSlot == boot2.table.entries[FW]

(* bflb_mtd_open(..., BACKUP): the inactive slot by the RAM table. *)
MtdBackupSlot == OtherIndex(boot2.table.entries[FW])

(* The device was flashed with one image in slot 0 and one valid table.    *)
FactoryFlash ==
    /\ \E v \in Images :
          /\ ImageLen[v] <= SlotLen[0]
          /\ slots = [s \in Index |-> [b \in Blocks |->
                         IF s = 0 /\ b < ImageLen[v] THEN v ELSE Blank]]
    /\ \E T \in SUBSET EntryTypes :
          /\ FW \in T
          /\ tables = [c \in Copies |->
                 IF c = 0 THEN [age |-> 0, entries |-> [t \in T |-> 0]] ELSE Torn]
          /\ boot2 = [idx |-> 0, table |-> [age |-> 0, entries |-> [t \in T |-> 0]]]
    /\ running = 0

(* After a reset the boot loader picks table and slot, and the application *)
(* loads its RAM copy in bflb_boot2_init.                                  *)
Boot ==
    LET id == pt_table_get_active_partition(tables) IN
    /\ id # INVALID
    /\ boot2' = [idx |-> id, table |-> tables[id]]
    /\ running' = tables[id].entries[FW]
    /\ UNCHANGED flash
-----------------------------------------------------------------------------
FlashTypeOK ==
    /\ tables \in [Copies -> Table \cup {Torn}]
    /\ slots \in [Index -> [Blocks -> Cell]]
    /\ boot2 \in [idx : Copies, table : Table]
    /\ running \in Index

(* Wherever the power is lost during an update, the next reset finds a     *)
(* valid table, and the slot that this table selects holds a whole image.  *)
BootImageComplete ==
    /\ pt_table_get_active_partition(tables) # INVALID
    /\ Complete(BootSlot(tables))

(* The firmware executes in place: no step of an update erases or programs *)
(* the slot that the processor is running from, rebooted or not.           *)
RunningImageIntact == [][slots'[running] = slots[running]]_<<slots, running>>
=============================================================================
