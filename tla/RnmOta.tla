------------------------------- MODULE RnmOta -------------------------------
(***************************************************************************)
(* The host-driven firmware update: blctl_ota on a Linux host              *)
(* (host_linux/userspace/blctl_ota.c) sends START, the parts of the file   *)
(* and COMMIT; the network manager of the device                           *)
(* (dev_net_mgmr/src/rnm_ota.c) takes them one at a time from its command  *)
(* queue, writes the inactive slot and lets bflb_boot2_update_ptable       *)
(* switch the partition table.                                             *)
(*                                                                         *)
(* The unit of length is 512 bytes: the size of the OTA header, and half   *)
(* a part.  A file is the header followed by the blocks of its image; it   *)
(* may be truncated.                                                       *)
(*                                                                         *)
(* Every wait of the host has a timeout, after which blctl gives up and    *)
(* the user may run it again; what it asked for may still be in the queue, *)
(* or never have arrived.  Resets, timeouts, failed allocations and failed *)
(* flash operations are faults; MaxFaults bounds their number.             *)
(***************************************************************************)
EXTENDS FirmwareSlots, Sequences, FiniteSets

CONSTANTS Hosts,          \* the blctl processes that may run at the same time
          NULL,           \* rnm->ota == NULL
          WholeFiles,     \* are all files complete?
          RebootBeforeRetry, \* does the user always reboot the card after a COMMIT
                          \* that was not answered, or only at times?
          AbortUsed,      \* does anyone call blctl_ota_abort?
          QueueCap,       \* bound on the commands waiting in cmd_msg_queue
          MaxFaults,      \* bound on the number of faults
          MaxAge          \* bound on the age of the table

Commands == {"START", "PART", "COMMIT", "ABORT"}
Replies  == {"START_ACK", "PROGRAM_ACK", "FIN_ACK", "COMMIT_ACK", "ABORT_ACK",
             "ERROR"}
HostPoints == {"closed", "start", "part", "commit", "abort", "reboot"}

Session == [slot : Index, active_index : Index, offset_written : Nat,
            body_length : Nat, that : Images \cup {NULL}, sha_ok : BOOLEAN]
Command == [from : Hosts \cup {NULL}, type : Commands, image : Images,
            offset : Nat, len : Nat]
Process == [pc : HostPoints, image : Images, size : Nat, offset : Nat,
            reply : Replies \cup {NULL}]
TableUpdate == [target : Copies, stuff : Table, from : Hosts \cup {NULL}]

ASSUME RnmOtaAssumption ==
    /\ IsFiniteSet(Hosts)
    /\ NULL \notin Hosts /\ NULL \notin Images
    /\ NULL \notin Replies
    /\ NULL \notin Session /\ NULL \notin TableUpdate
    /\ WholeFiles \in BOOLEAN /\ RebootBeforeRetry \in BOOLEAN
    /\ AbortUsed \in BOOLEAN
    /\ QueueCap \in Nat \ {0} /\ MaxFaults \in Nat /\ MaxAge \in Nat

VARIABLES
    ota,        \* rnm->ota: the session on the device, or NULL
    pc,         \* the point the rnms task has reached
    upd,        \* the table that is being stored, or NULL
    cmdq,       \* cmd_msg_queue, with the commands still on the bus
    hosts,      \* the blctl processes
    faults      \* the faults so far

device == <<ota, pc, upd>>
vars   == <<tables, slots, boot2, running, ota, pc, upd, cmdq, hosts, faults>>

Points == {"idle", "pterase", "ptwrite", "exception"}
-----------------------------------------------------------------------------
Init ==
    /\ FactoryFlash
    /\ ota = NULL
    /\ pc = "idle"
    /\ upd = NULL
    /\ cmdq = <<>>
    /\ \E v \in Images :
          hosts = [h \in Hosts |-> [pc |-> "closed", image |-> v, size |-> 0,
                                    offset |-> 0, reply |-> NULL]]
    /\ faults = 0

Fault == faults < MaxFaults /\ faults' = faults + 1
-----------------------------------------------------------------------------
(* blctl_rnm_msg_expect: the request goes out, and the process waits.      *)
Send(h, type, point, image, size, offset) ==
    /\ Len(cmdq) < QueueCap
    /\ cmdq' = Append(cmdq, [from |-> h, type |-> type, image |-> image,
                             offset |-> offset,
                             len |-> IF type # "PART" THEN 0
                                     ELSE IF size - offset < 2 THEN size - offset
                                     ELSE 2])
    /\ hosts' = [hosts EXCEPT ![h] = [pc |-> point, image |-> image, size |-> size,
                                      offset |-> offset, reply |-> NULL]]
    /\ UNCHANGED <<flash, boot2, running, device, faults>>

FileSizes(v) == IF WholeFiles THEN {1 + ImageLen[v]} ELSE 0..(1 + ImageLen[v])

(* A run of "blctl ota".  While the user knows that a reboot is due, no    *)
(* new update is started.                                                  *)
blctl_ota(h) ==
    /\ hosts[h].pc = "closed"
    /\ \A g \in Hosts : hosts[g].pc # "reboot"
    /\ \A c \in Copies : tables[c] # Torn => tables[c].age < MaxAge
    /\ \E v \in Images : \E size \in FileSizes(v) : Send(h, "START", "start", v, size, 0)

blctl_ota_abort(h) ==
    /\ AbortUsed
    /\ hosts[h].pc = "closed"
    /\ Send(h, "ABORT", "abort", hosts[h].image, 0, 0)

(* The next part of the file, or COMMIT when the file is at its end.       *)
NextRequest(h, write_offset) ==
    IF write_offset < hosts[h].size
    THEN Send(h, "PART", "part", hosts[h].image, hosts[h].size, write_offset)
    ELSE Send(h, "COMMIT", "commit", hosts[h].image, hosts[h].size, write_offset)

Started(h) ==
    /\ hosts[h].pc = "start"
    /\ hosts[h].reply = "START_ACK"
    /\ NextRequest(h, 0)

(* PROGRAM_ACK and FIN_ACK are not told apart. *)
PartDone(h) ==
    /\ hosts[h].pc = "part"
    /\ hosts[h].reply \in {"PROGRAM_ACK", "FIN_ACK"}
    /\ NextRequest(h, hosts[h].offset + 2)

(* "OTA finished": the user reboots the card. *)
Finished(h) ==
    /\ hosts[h].pc = "commit"
    /\ hosts[h].reply = "COMMIT_ACK"

Exit(h, point) == hosts' = [hosts EXCEPT ![h].pc = point, ![h].reply = NULL]

HostExits(h) ==
    /\ hosts[h].reply # NULL
    /\ \/ Finished(h) /\ Exit(h, "reboot")
       \/ hosts[h].pc = "start"  /\ hosts[h].reply = "ERROR" /\ Exit(h, "closed")
       \/ hosts[h].pc = "part"   /\ hosts[h].reply = "ERROR" /\ Exit(h, "closed")
       \/ hosts[h].pc = "abort"  /\ Exit(h, "closed")
    /\ UNCHANGED <<flash, boot2, running, device, cmdq, faults>>

Without(q, i) == [j \in 1..(Len(q) - 1) |-> IF j < i THEN q[j] ELSE q[j + 1]]

Orphan(c, h) == IF c.from = h THEN [c EXCEPT !.from = NULL] ELSE c

(* The wait times out: the request never arrived, is still in the queue or *)
(* being served, or its answer is lost or late.                            *)
HostTimeout(h) ==
    /\ hosts[h].pc \in {"start", "part", "commit", "abort"}
    /\ Fault
    /\ \/ cmdq' = [i \in DOMAIN cmdq |-> Orphan(cmdq[i], h)]
       \/ \E i \in DOMAIN cmdq : cmdq[i].from = h /\ cmdq' = Without(cmdq, i)
    /\ upd' = IF upd # NULL /\ upd.from = h THEN [upd EXCEPT !.from = NULL] ELSE upd
    /\ \/ hosts[h].pc = "commit" /\ Exit(h, "reboot")
       \/ (hosts[h].pc = "commit" => ~RebootBeforeRetry) /\ Exit(h, "closed")
    /\ UNCHANGED <<flash, boot2, running, ota, pc>>
-----------------------------------------------------------------------------
(* rnms_mgmr_task takes the next command. *)
Take(type) ==
    /\ pc = "idle"
    /\ cmdq # <<>>
    /\ Head(cmdq).type = type
    /\ cmdq' = Tail(cmdq)

(* The answer carries the session and message id of the request; a process *)
(* that no longer waits for it never sees it.                              *)
Reply(from, status) ==
    hosts' = IF from = NULL THEN hosts ELSE [hosts EXCEPT ![from].reply = status]

NoFault == UNCHANGED faults

(* The whole slot is erased; a failing flash leaves some of it.            *)
Erased(s, missed) ==
    [slots EXCEPT ![s] = [b \in Blocks |-> IF b \in missed \/ b >= SlotLen[s]
                                           THEN @[b] ELSE Blank]]

(* Deviation: the answer to a second START leaves the session open. *)
StartRefusedKeeps ==
    /\ Take("START")
    /\ ota # NULL
    /\ Reply(Head(cmdq).from, "ERROR")
    /\ NoFault
    /\ UNCHANGED <<flash, boot2, running, device>>

(* A second START is refused, and closes the session that is open.         *)
StartRefused ==
    /\ Take("START")
    /\ ota # NULL
    /\ ota' = NULL
    /\ Reply(Head(cmdq).from, "ERROR")
    /\ NoFault
    /\ UNCHANGED <<flash, boot2, running, pc, upd>>

StartFails ==   \* ota_ctx_alloc or bl_mtd_open is out of memory
    /\ Take("START")
    /\ ota = NULL
    /\ Fault
    /\ Reply(Head(cmdq).from, "ERROR")
    /\ UNCHANGED <<flash, boot2, running, device>>

handle_start ==
    /\ Take("START")
    /\ ota = NULL
    /\ HasEntry(boot2.table, FW)
    /\ ota' = [slot |-> MtdBackupSlot, active_index |-> boot2.table.entries[FW],
               offset_written |-> 0, body_length |-> 0, that |-> NULL, sha_ok |-> TRUE]
    /\ \/ slots' = Erased(MtdBackupSlot, {}) /\ NoFault
       \/ Fault /\ \E missed \in SUBSET Blocks : slots' = Erased(MtdBackupSlot, missed)
    /\ Reply(Head(cmdq).from, "START_ACK")
    /\ UNCHANGED <<tables, boot2, running, pc, upd>>

(* PROGRAM_PART, COMMIT and ABORT read rnm->ota without looking whether it *)
(* is NULL; the processor stops in its exception handler.                  *)
NoSession ==
    /\ \E type \in {"PART", "COMMIT", "ABORT"} : Take(type)
    /\ ota = NULL
    /\ pc' = "exception"
    /\ NoFault
    /\ UNCHANGED <<flash, boot2, running, ota, upd, hosts>>

handle_abort ==
    /\ Take("ABORT")
    /\ ota # NULL
    /\ ota' = NULL
    /\ Reply(Head(cmdq).from, "ABORT_ACK")
    /\ NoFault
    /\ UNCHANGED <<flash, boot2, running, pc, upd>>
-----------------------------------------------------------------------------
(* The session as a part sees it: the first part brings the header.  Only  *)
(* the header's length is checked, against the target partition.           *)
Described(c) ==
    IF c.offset = 0
    THEN [ota EXCEPT !.body_length = ImageLen[c.image], !.that = c.image, !.sha_ok = TRUE]
    ELSE ota

(* The blocks of the body that a part carries: the first one always gives  *)
(* RNM_OTA_PART_SIZE - OTA_HEADER_SIZE bytes, whatever its length.         *)
PartLen(c) == IF c.offset = 0 THEN 1 ELSE c.len

(* A first part that ends with the header leaves old bytes in write_buf.   *)
PartData(c) == IF c.offset = 0 /\ c.len < 2 THEN Junk ELSE c.image

InSequence(c) ==
    \/ c.offset = 0 /\ ota.offset_written = 0
    \/ c.offset = ota.offset_written + 1

PartAccepted(c) ==
    LET s == Described(c)
        end == ota.offset_written + PartLen(c) IN
    /\ InSequence(c)
    /\ c.offset = 0 => s.body_length <= SlotLen[OtherIndex(ota.active_index)]
    /\ end <= s.body_length
    /\ c.offset = 0 \/ end = s.body_length \/ PartLen(c) = 2

(* Every refusal answers with an error and closes the session. *)
PartRefused ==
    /\ Take("PART")
    /\ ota # NULL
    /\ ~PartAccepted(Head(cmdq))
    /\ ota' = NULL
    /\ Reply(Head(cmdq).from, "ERROR")
    /\ NoFault
    /\ UNCHANGED <<flash, boot2, running, pc, upd>>

Written(s, first, end, data, missed) ==
    [slots EXCEPT ![s] = [b \in Blocks |->
        IF b \in first..(end - 1) /\ b \notin missed THEN Programmed(@[b], data) ELSE @[b]]]

(* Deviation: the last part is acknowledged whatever the hash is. *)
HashSkipped(s) == TRUE

(* memcmp(octx->sha256_this, octx->sha256_that) after the last part. *)
HashMatches(s) == s.sha_ok

(* The bytes that rnm_ota.c reads back are those of the image. *)
ReadBack(c) ==
    \A b \in ota.offset_written..(ota.offset_written + PartLen(c) - 1) :
        slots'[ota.slot][b] = Described(c).that

(* The part is written, read back and fed to the hash.  The last part is   *)
(* acknowledged only when the hash is the one in the header.               *)
ProgramPart(missed) ==
    LET c == Head(cmdq)
        s == Described(c)
        end == ota.offset_written + PartLen(c)
        hashed == [s EXCEPT !.offset_written = end, !.sha_ok = s.sha_ok /\ ReadBack(c)]
    IN
    /\ slots' = Written(ota.slot, ota.offset_written, end, PartData(c), missed)
    /\ IF end < s.body_length
       THEN ota' = hashed /\ Reply(c.from, "PROGRAM_ACK")
       ELSE IF HashMatches(hashed)
       THEN ota' = hashed /\ Reply(c.from, "FIN_ACK")
       ELSE ota' = NULL /\ Reply(c.from, "ERROR")

handle_program_part ==
    /\ Take("PART")
    /\ ota # NULL
    /\ PartAccepted(Head(cmdq))
    /\ \/ ProgramPart({}) /\ NoFault
       \/ Fault /\ \E missed \in SUBSET Blocks : ProgramPart(missed)
    /\ UNCHANGED <<tables, boot2, running, pc, upd>>
-----------------------------------------------------------------------------
(* bflb_boot2_update_ptable works on the RAM copy of the table, which it   *)
(* leaves as it is, and stores the result over the copy that was not       *)
(* active at boot.  Nothing asks whether the last part has been seen.      *)
handle_commit ==
    /\ Take("COMMIT")
    /\ ota # NULL
    /\ EntryFits(boot2.table, FW)
    /\ upd' = [target |-> OtherCopy(boot2.idx),
               stuff  |-> UpdatedTable(boot2.table, FW, OtherIndex(ota.active_index)),
               from   |-> Head(cmdq).from]
    /\ pc' = "pterase"
    /\ NoFault
    /\ UNCHANGED <<flash, boot2, running, ota, hosts>>

PtErase ==
    /\ pc = "pterase"
    /\ tables' = [tables EXCEPT ![upd.target] = Torn]
    /\ pc' = "ptwrite"
    /\ NoFault
    /\ UNCHANGED <<slots, boot2, running, ota, upd, cmdq, hosts>>

(* The result of bflb_boot2_update_ptable is ignored: COMMIT_ACK.          *)
CommitAnswered ==
    /\ Reply(upd.from, "COMMIT_ACK")
    /\ ota' = NULL
    /\ upd' = NULL
    /\ pc' = "idle"
    /\ UNCHANGED <<slots, running, cmdq>>

PtFails ==
    /\ Fault
    /\ \/ pc = "pterase" /\ UNCHANGED tables
       \/ pc \in {"pterase", "ptwrite"} /\ tables' = [tables EXCEPT ![upd.target] = Torn]
    /\ CommitAnswered
    /\ UNCHANGED boot2

(* Deviation: the table in RAM is updated in place. *)
PtWriteInRam ==
    /\ pc = "ptwrite"
    /\ tables' = [tables EXCEPT ![upd.target] = upd.stuff]
    /\ boot2' = [boot2 EXCEPT !.table = upd.stuff]
    /\ NoFault
    /\ CommitAnswered

(* The table in RAM stays as it was at boot, so that an update that is not *)
(* followed by a reboot does not change what the next one finds.           *)
PtWrite ==
    /\ pc = "ptwrite"
    /\ tables' = [tables EXCEPT ![upd.target] = upd.stuff]
    /\ NoFault
    /\ CommitAnswered
    /\ UNCHANGED boot2
-----------------------------------------------------------------------------
(* After a reset the queue and the session are gone.  A process whose      *)
(* request was in there times out; one that has its answer goes on.        *)
Reset ==
    LET lost == {h \in Hosts : hosts[h].pc \in {"start", "part", "commit", "abort"}
                                 /\ hosts[h].reply = NULL} IN
    /\ Boot
    /\ ota' = NULL
    /\ pc' = "idle"
    /\ upd' = NULL
    /\ cmdq' = <<>>
    /\ hosts' = [h \in Hosts |->
          IF h \in lost \/ hosts[h].pc = "reboot"
          THEN [hosts[h] EXCEPT !.pc = "closed"] ELSE hosts[h]]

PowerLoss == Reset /\ Fault

(* "blctl reboot", or the power switch of a device that stopped. *)
UserReboot ==
    /\ pc = "exception" \/ \E h \in Hosts : hosts[h].pc = "reboot"
    /\ Reset
    /\ NoFault
-----------------------------------------------------------------------------
Host(h) ==
    \/ blctl_ota(h) \/ blctl_ota_abort(h)
    \/ Started(h) \/ PartDone(h) \/ HostExits(h)
    \/ HostTimeout(h)

Device ==
    \/ handle_start \/ StartRefused \/ StartFails
    \/ handle_program_part \/ PartRefused
    \/ handle_commit \/ PtErase \/ PtFails \/ PtWrite
    \/ handle_abort \/ NoSession

Next == (\E h \in Hosts : Host(h)) \/ Device \/ PowerLoss \/ UserReboot

Spec == Init /\ [][Next]_vars

(* The tasks of the device run; the user reads what blctl prints, runs it  *)
(* again after a failure and reboots the card after an update.             *)
FairSpec ==
    /\ Spec
    /\ WF_vars(Device)
    /\ WF_vars(UserReboot)
    /\ \A h \in Hosts : /\ WF_vars(blctl_ota(h))
                        /\ WF_vars(Started(h) \/ PartDone(h) \/ HostExits(h))
-----------------------------------------------------------------------------
(* Every variable has its type. *)
TypeOK ==
    /\ FlashTypeOK
    /\ ota \in Session \cup {NULL}
    /\ pc \in Points
    /\ upd \in TableUpdate \cup {NULL}
    /\ cmdq \in Seq(Command)
    /\ hosts \in [Hosts -> Process]
    /\ faults \in Nat

(* COMMIT switches to the slot that was written: when it is stored, every  *)
(* block of an image whose hash was checked is in that slot.               *)
CommittedImageWhole ==
    pc \in {"pterase", "ptwrite"} => Complete(upd.stuff.entries[FW])

(* However many timeouts, resets and failures disturb the first attempts,  *)
(* once they end an update that the user keeps retrying gets through.      *)
UpdateGetsThrough == <>(\E h \in Hosts : Finished(h))
=============================================================================
