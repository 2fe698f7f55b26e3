------------------------------ MODULE BflbOta -------------------------------
(***************************************************************************)
(* The firmware update of components/utils/bflb_ota/bflb_ota.c, with the   *)
(* MTD layer it writes through, the RAM copy of the partition table that   *)
(* bflb_boot2.c loads once per boot, the flash, and a power loss between   *)
(* any two flash operations.                                               *)
(*                                                                         *)
(* The 32-byte SHA-256 that ends an image is abstracted to the fact it     *)
(* establishes, HashMatches.  BlocksPerSector blocks share one 4096-byte   *)
(* erase sector.  Addresses and lengths are uint32_t, and the MTD layer    *)
(* adds them to the address of the slot unchecked.                         *)
(***************************************************************************)
EXTENDS FirmwareSlots

CONSTANTS BlocksPerSector,
          BitmapSectors,    \* bits of sector_erased (HOSAL_OTA_FILE_SIZE_MAX / 4096)
          ChunkMax,         \* the longest buffer a caller hands to update
          Word,             \* 2^32 bytes, in blocks: uint32_t is a number modulo it
          NULL,             \* ota_parm == NULL
          FlashFaults,      \* may an erase or a program operation fail?
          CallerReboots,    \* does the caller reboot after a finished update?
          CallerVerifies,   \* does it apply only what a hash check accepted?
          CallerInFile,     \* does it pass offsets in the announced file only?
          MaxAge            \* bound on the age of the table (u32 in the code)

Session  == [slot : Index, ota_addr : Index, file_size : Nat,
             sector_erased : SUBSET Nat]
Transfer == [sector : Nat, block : Nat, end : Nat, data : Cell]
TableUpdate == [target : Copies, stuff : Table]

ASSUME OtaAssumption ==
    /\ BlocksPerSector \in Nat \ {0}
    /\ BitmapSectors \in Nat
    /\ ChunkMax \in Nat
    /\ Word \in Nat /\ MaxLen + ChunkMax < Word
    /\ FlashFaults \in BOOLEAN /\ CallerReboots \in BOOLEAN
    /\ CallerVerifies \in BOOLEAN /\ CallerInFile \in BOOLEAN
    /\ MaxAge \in Nat
    /\ NULL \notin Session /\ NULL \notin Transfer /\ NULL \notin TableUpdate

VARIABLES
    ota_parm,   \* RAM: the update session, or NULL
    pc,         \* the point the current bflb_ota_* call has reached
    xfer,       \* the transfer of the bflb_ota_update call in progress, or NULL
    upd,        \* the table pt_table_update_entry is about to store, or NULL
    verified,   \* the caller has seen bflb_ota_check return 0
    rebootDue   \* the caller has seen finish or apply return 0

caller == <<verified, rebootDue>>
vars   == <<tables, slots, boot2, running, ota_parm, pc, xfer, upd,
            verified, rebootDue>>

Points   == {"idle", "erase", "write", "pterase", "ptwrite"}
-----------------------------------------------------------------------------
SectorOf(b) == b \div BlocksPerSector

Plus(a, b) == (a + b) % Word        \* of uint32_t

(* The SHA-256 over the first size blocks of slot s equals the one stored  *)
(* at their end: they are exactly one image.                               *)
HashMatches(s, size) ==
    \E v \in Images : /\ ImageLen[v] = size
                      /\ \A b \in 0..(size - 1) : b \in Blocks /\ slots[s][b] = v
-----------------------------------------------------------------------------
Init ==
    /\ FactoryFlash
    /\ ota_parm = NULL
    /\ pc = "idle"
    /\ xfer = NULL
    /\ upd = NULL
    /\ verified = FALSE
    /\ rebootDue = FALSE

(* Power loss or reset at any point.  A power loss inside an erase or a    *)
(* program operation leaves what the one before or the one after the       *)
(* operation is, as far as any reader can tell.                            *)
Reset ==
    /\ Boot
    /\ ota_parm' = NULL
    /\ pc' = "idle"
    /\ xfer' = NULL
    /\ upd' = NULL
    /\ verified' = FALSE
    /\ rebootDue' = FALSE

(* bflb_mtd_close(...); free(ota_parm); ota_parm = NULL *)
CloseSession ==
    /\ ota_parm' = NULL
    /\ pc' = "idle"
    /\ upd' = NULL
    /\ verified' = FALSE

(* Deviation: the file is measured against the active slot. *)
ActiveSizeLimit(id) == SlotLen[tables[id].entries[FW]]

(* The size limit is the one of the slot that the table in flash calls     *)
(* inactive; the MTD handle is on the one that the table in RAM does.      *)
SizeLimit(id) == SlotLen[OtherIndex(tables[id].entries[FW])]

bflb_ota_start(size) ==
    LET id == pt_table_get_active_partition(tables) IN
    /\ pc = "idle"
    /\ ota_parm = NULL
    /\ CallerReboots => ~rebootDue
    /\ id # INVALID
    /\ HasEntry(tables[id], FW)
    /\ tables[id].age < MaxAge
    /\ size <= SizeLimit(id)
    /\ ota_parm' = [slot          |-> MtdBackupSlot,
                    ota_addr      |-> OtherIndex(tables[id].entries[FW]),
                    file_size     |-> size,
                    sector_erased |-> {}]
    /\ UNCHANGED <<flash, boot2, running, pc, xfer, upd, caller>>

(* The sum of offset and buf_len wraps: an offset just below 2^32 passes   *)
(* the check.  Nothing else is checked on the way to the flash.            *)
bflb_ota_update(offset, len, data) ==
    /\ pc = "idle"
    /\ ota_parm # NULL
    /\ CallerInFile => offset <= ota_parm.file_size
    /\ len > 0
    /\ Plus(offset, len) <= ota_parm.file_size
    /\ xfer' = [sector |-> SectorOf(offset), block |-> offset,
                end |-> Plus(offset, len - 1), data |-> data]
    /\ pc' = "erase"
    /\ verified' = FALSE
    /\ UNCHANGED <<flash, boot2, running, ota_parm, upd, rebootDue>>

(* Does block b of the flash, counted from the start of the open slot, lie *)
(* outside of it?                                                          *)
Outside(b) == b >= SlotLen[ota_parm.slot]

(* An operation outside the slot, or one that fails without being noticed: *)
(* it hits a table, a slot, or nothing that is modelled.                   *)
Stray ==
    \/ \E c \in Copies : tables' = [tables EXCEPT ![c] = Torn] /\ UNCHANGED slots
    \/ \E s \in Index, row \in [Blocks -> Cell] :
          slots' = [slots EXCEPT ![s] = row] /\ UNCHANGED tables
    \/ UNCHANGED flash

(* The loop of bflb_ota_erase.  The result of bflb_flash_erase is dropped  *)
(* by bflb_mtd_erase, so a failed erase is recorded as done.  Beyond its   *)
(* last word the bitmap is foreign memory and reads as anything.           *)
OtaEraseSector ==
    /\ pc = "erase"
    /\ xfer.sector <= SectorOf(xfer.end)
    /\ xfer.sector \notin ota_parm.sector_erased \/ xfer.sector >= BitmapSectors
    /\ IF Outside(xfer.sector * BlocksPerSector) THEN Stray
       ELSE /\ \/ slots' = [slots EXCEPT ![ota_parm.slot] =
                    [b \in Blocks |-> IF SectorOf(b) = xfer.sector THEN Blank ELSE @[b]]]
               \/ FlashFaults /\ UNCHANGED slots
            /\ UNCHANGED tables
    /\ ota_parm' = [ota_parm EXCEPT !.sector_erased = @ \cup {xfer.sector}]
    /\ xfer' = [xfer EXCEPT !.sector = @ + 1]
    /\ UNCHANGED <<boot2, running, pc, upd, caller>>

OtaSkipSector ==
    /\ pc = "erase"
    /\ xfer.sector <= SectorOf(xfer.end)
    /\ xfer.sector \in ota_parm.sector_erased \/ xfer.sector >= BitmapSectors
    /\ xfer' = [xfer EXCEPT !.sector = @ + 1]
    /\ UNCHANGED <<flash, boot2, running, ota_parm, pc, upd, caller>>

OtaEraseDone ==
    /\ pc = "erase"
    /\ xfer.sector > SectorOf(xfer.end)
    /\ pc' = "write"
    /\ UNCHANGED <<flash, boot2, running, ota_parm, xfer, upd, caller>>

(* One block of bflb_mtd_write; the result of bflb_flash_write is dropped. *)
OtaWriteBlock ==
    /\ pc = "write"
    /\ IF Outside(xfer.block) THEN Stray
       ELSE /\ \/ slots' = [slots EXCEPT ![ota_parm.slot] =
                    [b \in Blocks |-> IF b = xfer.block THEN Programmed(@[b], xfer.data)
                                                        ELSE @[b]]]
               \/ FlashFaults /\ UNCHANGED slots
            /\ UNCHANGED tables
    /\ IF xfer.block # xfer.end
       THEN xfer' = [xfer EXCEPT !.block = Plus(@, 1)] /\ pc' = pc
       ELSE pc' = "idle" /\ xfer' = NULL
    /\ UNCHANGED <<boot2, running, ota_parm, upd, caller>>
-----------------------------------------------------------------------------
(* bflb_ota_finish, bflb_ota_check and bflb_ota_apply give the session up  *)
(* when the file is no longer than its hash, when the buffer for the hash  *)
(* cannot be allocated and when the hash is wrong.                         *)
SessionRefused(check) ==
    /\ pc = "idle"
    /\ ota_parm # NULL
    /\ \/ ota_parm.file_size = 0
       \/ check  \* malloc failed, or the hash does not match
    /\ CloseSession
    /\ UNCHANGED <<flash, boot2, running, xfer, rebootDue>>

(* The table to store: the active copy in flash with the FW entry on the   *)
(* other slot, for the copy that is not active.                            *)
PrepareUpdate ==
    LET id == pt_table_get_active_partition(tables) IN
    /\ id # INVALID
    /\ HasEntry(tables[id], FW)
    /\ EntryFits(tables[id], FW)
    /\ upd' = [target |-> OtherCopy(id),
               stuff  |-> UpdatedTable(tables[id], FW,
                                       OtherIndex(tables[id].entries[FW]))]
    /\ pc' = "pterase"

bflb_ota_finish(check_hash) ==
    /\ pc = "idle"
    /\ ota_parm # NULL
    /\ ota_parm.file_size > 0
    /\ IF check_hash
       THEN HashMatches(ota_parm.slot, ota_parm.file_size)
       ELSE CallerVerifies => verified
    /\ PrepareUpdate
    /\ UNCHANGED <<flash, boot2, running, ota_parm, xfer, caller>>

bflb_ota_apply == bflb_ota_finish(FALSE)

bflb_ota_check ==
    /\ pc = "idle"
    /\ ota_parm # NULL
    /\ ota_parm.file_size > 0
    /\ HashMatches(ota_parm.slot, ota_parm.file_size)
    /\ verified' = TRUE
    /\ UNCHANGED <<flash, boot2, running, ota_parm, pc, xfer, upd, rebootDue>>

bflb_ota_abort ==
    /\ pc = "idle"
    /\ ota_parm # NULL
    /\ CloseSession
    /\ UNCHANGED <<flash, boot2, running, xfer, rebootDue>>

(* The flash half of pt_table_update_entry.  When either operation fails   *)
(* finish prints the error, closes the session and returns 0 all the same. *)
PtErase ==
    /\ pc = "pterase"
    /\ tables' = [tables EXCEPT ![upd.target] = Torn]
    /\ pc' = "ptwrite"
    /\ UNCHANGED <<slots, boot2, running, ota_parm, xfer, upd, caller>>

PtEraseFails ==
    /\ FlashFaults
    /\ pc = "pterase"
    /\ \/ tables' = [tables EXCEPT ![upd.target] = Torn]
       \/ UNCHANGED tables
    /\ CloseSession
    /\ rebootDue' = TRUE
    /\ UNCHANGED <<slots, boot2, running, xfer>>

PtWrite ==
    /\ pc = "ptwrite"
    /\ \/ tables' = [tables EXCEPT ![upd.target] = upd.stuff]
       \/ FlashFaults /\ UNCHANGED tables
    /\ CloseSession
    /\ rebootDue' = TRUE
    /\ UNCHANGED <<slots, boot2, running, xfer>>
-----------------------------------------------------------------------------
Next ==
    \/ Reset
    \/ \E size \in 0..MaxLen : bflb_ota_start(size)
    \/ \E offset \in 0..(Word - 1), len \in 1..ChunkMax, data \in Cell \ {Blank} :
          bflb_ota_update(offset, len, data)
    \/ OtaEraseSector \/ OtaSkipSector \/ OtaEraseDone \/ OtaWriteBlock
    \/ \E check \in BOOLEAN : SessionRefused(check) \/ bflb_ota_finish(check)
    \/ bflb_ota_apply \/ bflb_ota_check \/ bflb_ota_abort
    \/ PtErase \/ PtEraseFails \/ PtWrite

Spec == Init /\ [][Next]_vars
-----------------------------------------------------------------------------
(* Every variable has its type; NULL is no session.                        *)
TypeOK ==
    /\ FlashTypeOK
    /\ ota_parm \in Session \cup {NULL}
    /\ pc \in Points
    /\ xfer \in Transfer \cup {NULL}
    /\ upd \in TableUpdate \cup {NULL}
    /\ verified \in BOOLEAN /\ rebootDue \in BOOLEAN

(* For a caller whose offsets lie in the file: a transfer that             *)
(* bflb_ota_update accepted goes from the block it is at to its end        *)
(* without leaving the slot it is written to, although the file was        *)
(* measured by the flash table and the slot opened by the RAM table.       *)
WritesInsideSlot ==
    pc \in {"erase", "write"} =>
        xfer.block <= xfer.end /\ xfer.end < SlotLen[ota_parm.slot]

(* When the flash does its part, the step that ends finish or apply makes  *)
(* the next boot start the slot this session wrote, a whole image.         *)
FinishTakesEffect ==
    [][pc = "ptwrite" /\ pc' = "idle" /\ tables'[upd.target] = upd.stuff
           => /\ BootSlot(tables') = ota_parm.slot
              /\ Complete(ota_parm.slot)]_vars

(* bflb_ota_start announces the address it computed from the table in      *)
(* flash ("use OTA address"); that is where the session writes.            *)
AnnouncedSlotIsWritten == ota_parm # NULL => ota_parm.slot = ota_parm.ota_addr
=============================================================================
