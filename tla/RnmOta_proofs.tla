---------------------------- MODULE RnmOta_proofs ----------------------------
(* What RnmOta guarantees for all images, slot lengths, queue lengths and  *)
(* numbers of faults: whatever the hosts do, the running image stays as it *)
(* is; and with a single host and complete files, what COMMIT stores, and  *)
(* what the device boots next, is a whole image.                           *)
EXTENDS RnmOta, FirmwareSlots_proofs, SequenceTheorems

USE DEF Copies, Index
-----------------------------------------------------------------------------
(* Which slot and which copy an update aims at. *)
SlotInv ==
    /\ HasEntry(boot2.table, FW)
    /\ boot2.table.entries[FW] = running
    /\ tables[boot2.idx] = boot2.table
    /\ \A c \in Copies : tables[c] # Torn => HasEntry(tables[c], FW)
    /\ ota # NULL => ota.slot = OtherIndex(running) /\ ota.active_index = running
    /\ upd # NULL <=> pc \in {"pterase", "ptwrite"}
    /\ upd # NULL => /\ ota # NULL
                     /\ upd.target = OtherCopy(boot2.idx)
                     /\ HasEntry(upd.stuff, FW)
                     /\ upd.stuff.entries[FW] = ota.slot

Inv == TypeOK /\ SlotInv

(* What the session knows of the slot once it has written to it.           *)
SessionInv ==
    ota # NULL =>
        /\ ota.offset_written = 0 => ota.body_length = 0
        /\ ota.offset_written > 0 =>
              /\ ota.that \in Images
              /\ ota.body_length = ImageLen[ota.that]
              /\ ota.body_length <= SlotLen[ota.slot]
              /\ ota.offset_written <= ota.body_length
              /\ ota.sha_ok => \A b \in 0..(ota.offset_written - 1) :
                                  slots[ota.slot][b] = ota.that
              /\ ota.offset_written = ota.body_length => ota.sha_ok

(* The body is written to its end. *)
Whole == ota.offset_written > 0 /\ ota.offset_written = ota.body_length

(* The blocks of the body that are written once the part at offset is.     *)
Sent(image, offset) ==
    IF offset + 2 <= 1 + ImageLen[image] THEN offset + 1 ELSE ImageLen[image]

(* The part is the one the session waits for. *)
Continues(c) ==
    IF c.offset = 0 THEN ota.offset_written = 0
    ELSE /\ ota.offset_written = c.offset - 1
         /\ ota.offset_written > 0
         /\ ota.that = c.image

(* Process h waits for the answer to command c. *)
Waits(h, c) ==
    /\ hosts[h].reply = NULL
    /\ hosts[h].image = c.image
    /\ \/ c.type = "START"  /\ hosts[h].pc = "start"
       \/ c.type = "PART"   /\ hosts[h].pc = "part" /\ hosts[h].offset = c.offset
       \/ c.type = "COMMIT" /\ hosts[h].pc = "commit"
       \/ c.type = "ABORT"  /\ hosts[h].pc = "abort"

PartShape(c) ==
    /\ c.offset < 1 + ImageLen[c.image]
    /\ c.len = IF 1 + ImageLen[c.image] - c.offset < 2
               THEN 1 + ImageLen[c.image] - c.offset ELSE 2

(* What the queue holds: the command h waits for comes last, and a PART or *)
(* a COMMIT, which h sends on an answer only, comes first.                 *)
QueueInv(h) ==
    \A i \in 1..Len(cmdq) :
        /\ cmdq[i].from = h => i = Len(cmdq) /\ Waits(h, cmdq[i])
        /\ cmdq[i].type = "PART" =>
              i = 1 /\ PartShape(cmdq[i]) /\ (ota # NULL => Continues(cmdq[i]))
        /\ cmdq[i].type = "COMMIT" => i = 1 /\ (ota # NULL => Whole)

(* What h knows of the session when it has an answer.                      *)
AnswerInv(h) ==
    /\ hosts[h].reply # NULL => cmdq = <<>> /\ pc = "idle"
    /\ hosts[h].pc \in {"start", "part", "commit"} =>
          hosts[h].size = 1 + ImageLen[hosts[h].image]
    /\ hosts[h].pc = "start" /\ hosts[h].reply = "START_ACK" /\ ota # NULL =>
          ota.offset_written = 0
    /\ hosts[h].pc = "part" /\ hosts[h].reply \in {"PROGRAM_ACK", "FIN_ACK"} /\ ota # NULL =>
          /\ ota.that = hosts[h].image
          /\ ota.offset_written = Sent(hosts[h].image, hosts[h].offset)

CommitInv(h) ==
    upd # NULL => /\ Whole
                  /\ upd.from = h => /\ hosts[h].pc = "commit"
                                     /\ hosts[h].reply = NULL
                                     /\ cmdq = <<>>

HostInv(h) == QueueInv(h) /\ AnswerInv(h) /\ CommitInv(h)

(* From COMMIT to the reboot nothing else happens, when the user reboots   *)
(* after a COMMIT in any case.                                             *)
Committed(h) == hosts[h].pc \in {"commit", "reboot"}

RebootInv(h) ==
    /\ Complete(running)
    /\ BootSlot(tables) # running => /\ Complete(BootSlot(tables))
                                     /\ ota = NULL /\ upd = NULL /\ cmdq = <<>>
                                     /\ Committed(h)
    /\ upd # NULL => cmdq = <<>> /\ Committed(h)
    /\ \A i \in 1..Len(cmdq) : cmdq[i].type = "COMMIT" => Len(cmdq) = 1 /\ Committed(h)
-----------------------------------------------------------------------------
(* Facts about the queue of commands. *)
LEMMA TailFacts ==
    ASSUME NEW q \in Seq(Command), q # <<>>
    PROVE  /\ Head(q) \in Command /\ Head(q) = q[1] /\ 1 \in 1..Len(q)
           /\ Tail(q) \in Seq(Command) /\ Len(Tail(q)) = Len(q) - 1
           /\ \A i \in 1..Len(Tail(q)) : Tail(q)[i] = q[i + 1]
           /\ Len(q) = 1 => Tail(q) = <<>>
<1>1. Head(q) \in Command /\ Head(q) = q[1] /\ 1 \in 1..Len(q)
  OBVIOUS
<1>2. Tail(q) \in Seq(Command) /\ Len(Tail(q)) = Len(q) - 1
  OBVIOUS
<1>3. \A i \in 1..Len(Tail(q)) : Tail(q)[i] = q[i + 1]
  OBVIOUS
<1>4. ASSUME Len(q) = 1 PROVE Tail(q) = <<>>
  <2>1. Len(Tail(q)) = 0
    BY <1>2, <1>4
  <2>2. \A s \in Seq(Command) : s # <<>> => Len(s) \in Nat \ {0}
    BY EmptySeq
  <2> QED
    BY ONLY <1>2, <2>1, <2>2, Zenon
<1> QED
  BY <1>1, <1>2, <1>3, <1>4

LEMMA AppendFacts ==
    ASSUME NEW q \in Seq(Command), NEW c \in Command
    PROVE  /\ Append(q, c) \in Seq(Command)
           /\ Len(Append(q, c)) = Len(q) + 1
           /\ \A i \in 1..Len(q) : Append(q, c)[i] = q[i]
           /\ Append(q, c)[Len(q) + 1] = c
  OBVIOUS

LEMMA WithoutFacts ==
    ASSUME NEW q \in Seq(Command), NEW i \in 1..Len(q)
    PROVE  /\ Without(q, i) \in Seq(Command)
           /\ Len(Without(q, i)) = Len(q) - 1
           /\ \A j \in 1..(Len(q) - 1) :
                 Without(q, i)[j] = IF j < i THEN q[j] ELSE q[j + 1]
<1>1. Len(q) \in Nat /\ Len(q) - 1 \in Nat
  OBVIOUS
<1>2. \A j \in 1..Len(q) : q[j] \in Command
  OBVIOUS
<1>3. \A j \in 1..(Len(q) - 1) : (IF j < i THEN q[j] ELSE q[j + 1]) \in Command
  BY <1>1, <1>2
<1>4. Without(q, i) \in [1..(Len(q) - 1) -> Command]
  BY <1>3 DEF Without
<1>5. Without(q, i) \in Seq(Command)
  BY <1>1, <1>4
<1> QED
  BY <1>1, <1>4, <1>5 DEF Without

LEMMA OrphanFacts ==
    ASSUME NEW q \in Seq(Command), NEW h \in Hosts,
           NEW p, p = [i \in DOMAIN q |-> Orphan(q[i], h)]
    PROVE  /\ p \in Seq(Command)
           /\ Len(p) = Len(q)
           /\ \A i \in 1..Len(q) : /\ p[i].from # h
                                   /\ p[i].type = q[i].type
                                   /\ p[i].image = q[i].image
                                   /\ p[i].offset = q[i].offset
                                   /\ p[i].len = q[i].len
<1>1. DOMAIN q = 1..Len(q) /\ Len(q) \in Nat /\ \A i \in 1..Len(q) : q[i] \in Command
  OBVIOUS
<1>2. ASSUME NEW c \in Command
      PROVE  /\ Orphan(c, h) \in Command /\ Orphan(c, h).from # h
             /\ Orphan(c, h).type = c.type /\ Orphan(c, h).image = c.image
             /\ Orphan(c, h).offset = c.offset /\ Orphan(c, h).len = c.len
  BY RnmOtaAssumption DEF Orphan, Command
<1>3. p \in [1..Len(q) -> Command]
  BY <1>1, <1>2
<1>4. p \in Seq(Command) /\ Len(p) = Len(q)
  BY <1>1, <1>3
<1> QED
  BY <1>1, <1>2, <1>4

LEMMA ReplyFacts ==
    ASSUME hosts \in [Hosts -> Process], NEW from \in Hosts \cup {NULL},
           NEW status \in Replies, Reply(from, status)
    PROVE  /\ hosts' \in [Hosts -> Process]
           /\ \A h \in Hosts : h # from => hosts'[h] = hosts[h]
           /\ \A h \in Hosts : /\ hosts'[h].pc = hosts[h].pc
                               /\ hosts'[h].image = hosts[h].image
                               /\ hosts'[h].size = hosts[h].size
                               /\ hosts'[h].offset = hosts[h].offset
                               /\ h = from => hosts'[h].reply = status
<1>1. CASE from = NULL
  BY <1>1, RnmOtaAssumption DEF Reply
<1>2. CASE from \in Hosts
  <2>1. hosts' = [hosts EXCEPT ![from].reply = status]
    BY <1>2, RnmOtaAssumption DEF Reply
  <2>2. \A h \in Hosts : hosts[h] \in Process
    OBVIOUS
  <2> QED
    BY <1>2, <2>1, <2>2 DEF Process
<1> QED
  BY <1>1, <1>2
-----------------------------------------------------------------------------
LEMMA InitInv == Init => Inv
<1> SUFFICES ASSUME Init PROVE Inv
  OBVIOUS
<1>1. PICK T \in SUBSET EntryTypes :
         /\ FW \in T
         /\ tables = [c \in Copies |->
                IF c = 0 THEN [age |-> 0, entries |-> [t \in T |-> 0]] ELSE Torn]
         /\ boot2 = [idx |-> 0, table |-> [age |-> 0, entries |-> [t \in T |-> 0]]]
  BY DEF Init, FactoryFlash
<1> DEFINE t0 == [age |-> 0, entries |-> [t \in T |-> 0]]
<1>2. t0 \in Table
  <2>1. [t \in T |-> 0] \in [T -> Index]
    OBVIOUS
  <2> QED
    BY <2>1 DEF Table
<1>3. FlashTypeOK
  <2>1. tables \in [Copies -> Table \cup {Torn}]
    BY <1>1, <1>2
  <2>2. boot2 \in [idx : Copies, table : Table]
    BY <1>1, <1>2
  <2>3. slots \in [Index -> [Blocks -> Cell]] /\ running \in Index
    BY DEF Init, FactoryFlash, Cell
  <2> QED
    BY <2>1, <2>2, <2>3 DEF FlashTypeOK
<1>4. hosts \in [Hosts -> Process]
  BY DEF Init, Process, HostPoints
<1>5. TypeOK
  BY <1>3, <1>4 DEF Init, TypeOK, Points
<1>6. SlotInv
  <2>1. HasEntry(t0, FW) /\ t0.entries[FW] = 0
    BY <1>1 DEF HasEntry
  <2>2. tables[0] = t0 /\ tables[1] = Torn /\ boot2.idx = 0 /\ boot2.table = t0
    BY <1>1
  <2>3. running = 0 /\ ota = NULL /\ upd = NULL /\ pc = "idle"
    BY DEF Init, FactoryFlash
  <2> QED
    BY <2>1, <2>2, <2>3 DEF SlotInv
<1> QED
  BY <1>5, <1>6 DEF Inv

(* A request of a host leaves the device alone.                            *)
LEMMA SendInv ==
    ASSUME Inv, NEW h \in Hosts, NEW type \in Commands, NEW point \in HostPoints,
           NEW image \in Images, NEW size \in Nat, NEW offset \in Nat,
           type = "PART" => offset < size,
           Send(h, type, point, image, size, offset)
    PROVE  Inv'
<1> DEFINE c == [from |-> h, type |-> type, image |-> image, offset |-> offset,
                 len |-> IF type # "PART" THEN 0
                         ELSE IF size - offset < 2 THEN size - offset ELSE 2]
<1>1. c \in Command
  BY DEF Command
<1>2. cmdq \in Seq(Command) /\ cmdq' = Append(cmdq, c)
  BY DEF Send, Inv, TypeOK
<1>3. cmdq' \in Seq(Command)
  BY <1>1, <1>2, AppendFacts
<1>4. hosts' \in [Hosts -> Process]
  BY DEF Send, Inv, TypeOK, Process
<1> QED
  BY <1>3, <1>4
  DEF Send, Inv, TypeOK, FlashTypeOK, SlotInv, flash, device

(* Taking a command from the queue. *)
LEMMA TakeFacts ==
    ASSUME Inv, NEW type, Take(type)
    PROVE  /\ Head(cmdq) \in Command /\ Head(cmdq).type = type
           /\ Head(cmdq) = cmdq[1] /\ 1 \in 1..Len(cmdq)
           /\ cmdq' \in Seq(Command)
           /\ Len(cmdq') = Len(cmdq) - 1
           /\ \A i \in 1..Len(cmdq') : cmdq'[i] = cmdq[i + 1]
           /\ Len(cmdq) = 1 => cmdq' = <<>>
           /\ pc = "idle" /\ upd = NULL
  BY TailFacts DEF Take, Inv, TypeOK, SlotInv

(* A command that is answered at once. *)
LEMMA AnswerType ==
    ASSUME Inv, NEW type, Take(type), NEW status \in Replies,
           Reply(Head(cmdq).from, status)
    PROVE  cmdq' \in Seq(Command) /\ hosts' \in [Hosts -> Process]
<1>1. cmdq' \in Seq(Command) /\ Head(cmdq).from \in Hosts \cup {NULL}
  BY TakeFacts DEF Command
<1>2. hosts' \in [Hosts -> Process]
  BY <1>1, ReplyFacts DEF Inv, TypeOK
<1> QED
  BY <1>1, <1>2

LEMMA FaultType ==
    ASSUME faults \in Nat, Fault \/ NoFault
    PROVE  faults' \in Nat
  BY DEF Fault, NoFault

(* The session after the description in a first part has been read.        *)
LEMMA DescribedFacts ==
    ASSUME ota \in Session, NEW c \in Command
    PROVE  /\ Described(c) \in Session
           /\ Described(c).slot = ota.slot
           /\ Described(c).active_index = ota.active_index
           /\ Described(c).offset_written = ota.offset_written
           /\ c.offset = 0 => /\ Described(c).that = c.image
                              /\ Described(c).body_length = ImageLen[c.image]
                              /\ Described(c).sha_ok = TRUE
           /\ c.offset # 0 => Described(c) = ota
<1>1. ImageLen[c.image] \in Nat /\ c.image \in Images
  BY SlotsAssumption DEF Command
<1> QED
  BY <1>1 DEF Described, Session

(* What handle_program_part does to the slot and to the session.           *)
LEMMA ProgramStep ==
    ASSUME Inv, handle_program_part
    PROVE  LET c == Head(cmdq)
               end == ota.offset_written + PartLen(c) IN
           /\ Take("PART") /\ ota \in Session /\ c \in Command /\ PartAccepted(c)
           /\ PartLen(c) \in Nat
           /\ \E missed \in SUBSET Blocks :
                 slots' = Written(ota.slot, ota.offset_written, end, PartData(c), missed)
           /\ \/ /\ ota' \in Session
                 /\ ota'.slot = ota.slot
                 /\ ota'.active_index = ota.active_index
                 /\ ota'.that = Described(c).that
                 /\ ota'.body_length = Described(c).body_length
                 /\ ota'.offset_written = end
                 /\ ota'.sha_ok => Described(c).sha_ok /\ ReadBack(c)
                 /\ end < Described(c).body_length \/ ota'.sha_ok
                 /\ \E status \in {"PROGRAM_ACK", "FIN_ACK"} : Reply(c.from, status)
              \/ ota' = NULL /\ Reply(c.from, "ERROR")
           /\ faults' \in Nat
<1> DEFINE c == Head(cmdq)
           s == Described(c)
           end == ota.offset_written + PartLen(c)
           hashed == [s EXCEPT !.offset_written = end,
                               !.sha_ok = s.sha_ok /\ ReadBack(c)]
<1>1. Take("PART") /\ ota # NULL /\ PartAccepted(c) /\ ota \in Session
  BY DEF handle_program_part, Inv, TypeOK
<1>2. c \in Command
  BY <1>1, TakeFacts
<1>3. PartLen(c) \in Nat /\ end \in Nat
  BY <1>1, <1>2 DEF PartLen, Command, Session
<1>4. s \in Session
  BY <1>1, <1>2, DescribedFacts
<1>5. (s.sha_ok /\ ReadBack(c)) \in BOOLEAN
  BY <1>4, Zenon DEF Session
<1>6. /\ hashed \in Session
      /\ hashed.slot = s.slot /\ hashed.active_index = s.active_index
      /\ hashed.that = s.that /\ hashed.body_length = s.body_length
      /\ hashed.offset_written = end
      /\ hashed.sha_ok = (s.sha_ok /\ ReadBack(c))
  <2> DEFINE B == s.sha_ok /\ ReadBack(c)
  <2>1. B \in BOOLEAN
    BY <1>5
  <2>2. hashed = [s EXCEPT !.offset_written = end, !.sha_ok = B]
    OBVIOUS
  <2> HIDE DEF B
  <2>3. [s EXCEPT !.offset_written = end, !.sha_ok = B] \in Session
    BY <1>3, <1>4, <2>1 DEF Session
  <2> QED
    BY <1>4, <2>2, <2>3 DEF Session, B
<1>7. PICK missed \in SUBSET Blocks : ProgramPart(missed)
  BY DEF handle_program_part
<1>8. slots' = Written(ota.slot, ota.offset_written, end, PartData(c), missed)
  BY <1>7 DEF ProgramPart
<1>9. \/ /\ ota' = hashed
         /\ end < s.body_length \/ HashMatches(hashed)
         /\ \E status \in {"PROGRAM_ACK", "FIN_ACK"} : Reply(c.from, status)
      \/ ota' = NULL /\ Reply(c.from, "ERROR")
  <2>1. IF end < s.body_length
        THEN ota' = hashed /\ Reply(c.from, "PROGRAM_ACK")
        ELSE IF HashMatches(hashed)
        THEN ota' = hashed /\ Reply(c.from, "FIN_ACK")
        ELSE ota' = NULL /\ Reply(c.from, "ERROR")
    BY <1>7 DEF ProgramPart
  <2> HIDE DEF hashed, s, end, c
  <2> QED
    BY <2>1
<1>10. faults' \in Nat
  BY FaultType DEF handle_program_part, Inv, TypeOK
<1>11. /\ s.slot = ota.slot /\ s.active_index = ota.active_index
  BY <1>1, <1>2, DescribedFacts
<1> HIDE DEF hashed, s
<1>12. ASSUME ota' = hashed, end < s.body_length \/ HashMatches(hashed)
       PROVE  /\ ota' \in Session
              /\ ota'.slot = ota.slot
              /\ ota'.active_index = ota.active_index
              /\ ota'.that = s.that
              /\ ota'.body_length = s.body_length
              /\ ota'.offset_written = end
              /\ ota'.sha_ok => s.sha_ok /\ ReadBack(c)
              /\ end < s.body_length \/ ota'.sha_ok
  BY <1>6, <1>11, <1>12 DEF HashMatches
<1> QED
  BY <1>1, <1>2, <1>3, <1>8, <1>9, <1>10, <1>12 DEF s

LEMMA NextInv == Inv /\ [Next]_vars => Inv'
<1> SUFFICES ASSUME Inv, [Next]_vars PROVE Inv'
  OBVIOUS
<1>a. faults \in Nat /\ running \in Index /\ boot2.idx \in Copies /\ boot2.table \in Table
  BY DEF Inv, TypeOK, FlashTypeOK
<1>b. ota # NULL => ota \in Session
  BY DEF Inv, TypeOK
<1>c. upd # NULL => /\ upd \in TableUpdate /\ upd.target \in Copies /\ upd.stuff \in Table
                    /\ upd.from \in Hosts \cup {NULL}
  BY DEF Inv, TypeOK, TableUpdate
<1>1. ASSUME NEW h \in Hosts, blctl_ota(h) PROVE Inv'
  <2>0. PICK v \in Images : \E size \in FileSizes(v) : Send(h, "START", "start", v, size, 0)
    BY <1>1 DEF blctl_ota
  <2>1. PICK size \in FileSizes(v) : Send(h, "START", "start", v, size, 0)
    BY <2>0
  <2>2. size \in Nat
    BY SlotsAssumption DEF FileSizes
  <2> QED
    BY <2>1, <2>2, SendInv DEF Commands, HostPoints
<1>2. ASSUME NEW h \in Hosts, blctl_ota_abort(h) PROVE Inv'
  <2>1. hosts[h].image \in Images
    BY DEF Inv, TypeOK, Process
  <2> QED
    BY <1>2, <2>1, SendInv DEF blctl_ota_abort, Commands, HostPoints
<1>3. ASSUME NEW h \in Hosts, Started(h) \/ PartDone(h) PROVE Inv'
  <2>1. hosts[h].image \in Images /\ hosts[h].size \in Nat /\ hosts[h].offset \in Nat
    BY DEF Inv, TypeOK, Process
  <2>2. PICK wo \in Nat : NextRequest(h, wo)
    BY <1>3, <2>1 DEF Started, PartDone
  <2>3. CASE wo < hosts[h].size
    BY <2>1, <2>2, <2>3, SendInv DEF NextRequest, Commands, HostPoints
  <2>4. CASE ~(wo < hosts[h].size)
    BY <2>1, <2>2, <2>4, SendInv DEF NextRequest, Commands, HostPoints
  <2> QED
    BY <2>3, <2>4
<1>4. ASSUME NEW h \in Hosts, HostExits(h) PROVE Inv'
  <2>1. PICK point \in HostPoints : Exit(h, point)
    BY <1>4 DEF HostExits, HostPoints
  <2>2. hosts' \in [Hosts -> Process]
    BY <2>1 DEF Exit, Inv, TypeOK, Process
  <2> QED
    BY <1>4, <2>2 DEF HostExits, Inv, TypeOK, FlashTypeOK, SlotInv, flash, device
<1>5. ASSUME NEW h \in Hosts, HostTimeout(h) PROVE Inv'
  <2>1. PICK point \in HostPoints : Exit(h, point)
    BY <1>5 DEF HostTimeout, HostPoints
  <2>2. hosts' \in [Hosts -> Process]
    BY <2>1 DEF Exit, Inv, TypeOK, Process
  <2>3. cmdq' \in Seq(Command)
    <3>1. cmdq \in Seq(Command) /\ DOMAIN cmdq = 1..Len(cmdq)
      BY DEF Inv, TypeOK
    <3> QED
      <4>1. CASE cmdq' = [i \in DOMAIN cmdq |-> Orphan(cmdq[i], h)]
        BY <3>1, <4>1, OrphanFacts
      <4>2. ASSUME NEW i \in DOMAIN cmdq, cmdq' = Without(cmdq, i)
            PROVE  cmdq' \in Seq(Command)
        BY <3>1, <4>2, WithoutFacts
      <4> QED
        BY <1>5, <4>1, <4>2 DEF HostTimeout
  <2>4. /\ upd' \in TableUpdate \cup {NULL}
        /\ upd' = NULL <=> upd = NULL
        /\ upd # NULL => upd'.target = upd.target /\ upd'.stuff = upd.stuff
    BY <1>5, <1>c, RnmOtaAssumption DEF HostTimeout, TableUpdate, Inv, TypeOK
  <2>5. TypeOK'
    BY <1>5, <1>a, <2>2, <2>3, <2>4, FaultType
    DEF HostTimeout, Inv, TypeOK, FlashTypeOK, flash
  <2>6. SlotInv'
    BY <1>5, <2>4 DEF HostTimeout, Inv, SlotInv, flash
  <2> QED
    BY <2>5, <2>6 DEF Inv
<1>6. CASE StartRefused \/ PartRefused \/ handle_abort
  <2>1. PICK type \in Commands, status \in Replies :
           Take(type) /\ Reply(Head(cmdq).from, status)
    BY <1>6 DEF StartRefused, PartRefused, handle_abort, Commands, Replies
  <2>2. cmdq' \in Seq(Command) /\ hosts' \in [Hosts -> Process]
    BY <2>1, AnswerType
  <2>3. /\ ota' = NULL /\ upd = NULL
        /\ UNCHANGED <<tables, slots, boot2, running, pc, upd, faults>>
    BY <1>6, <2>1, TakeFacts DEF StartRefused, PartRefused, handle_abort, flash, NoFault
  <2>4. TypeOK'
    BY <2>2, <2>3 DEF Inv, TypeOK, FlashTypeOK
  <2>5. SlotInv'
    BY <2>3 DEF Inv, SlotInv
  <2> QED
    BY <2>4, <2>5 DEF Inv
<1>7. CASE StartFails
  <2>1. cmdq' \in Seq(Command) /\ hosts' \in [Hosts -> Process]
    BY <1>7, AnswerType DEF StartFails, Replies
  <2>2. TypeOK'
    BY <1>7, <1>a, <2>1, FaultType
    DEF StartFails, Inv, TypeOK, FlashTypeOK, flash, device
  <2>3. SlotInv'
    BY <1>7 DEF StartFails, Inv, SlotInv, flash, device
  <2> QED
    BY <2>2, <2>3 DEF Inv
<1>8. CASE handle_start
  <2>1. cmdq' \in Seq(Command) /\ hosts' \in [Hosts -> Process] /\ upd = NULL
    BY <1>8, AnswerType, TakeFacts DEF handle_start, Replies
  <2>2. MtdBackupSlot = OtherIndex(running) /\ boot2.table.entries[FW] = running
    BY DEF MtdBackupSlot, Inv, SlotInv
  <2>3. ota' = [slot |-> OtherIndex(running), active_index |-> running,
                offset_written |-> 0, body_length |-> 0, that |-> NULL, sha_ok |-> TRUE]
    BY <1>8, <2>2 DEF handle_start
  <2>4. ota' \in Session
    BY <1>a, <2>3, FlipFacts DEF Session
  <2>5. slots' \in [Index -> [Blocks -> Cell]]
    <3>1. PICK missed \in SUBSET Blocks : slots' = Erased(OtherIndex(running), missed)
      BY <1>8, <2>2 DEF handle_start
    <3> QED
      BY <1>a, <3>1, FlipFacts DEF Erased, Inv, TypeOK, FlashTypeOK, Cell
  <2>6. faults' \in Nat
    BY <1>8, <1>a, FaultType DEF handle_start
  <2>7. TypeOK'
    BY <1>8, <2>1, <2>4, <2>5, <2>6 DEF handle_start, Inv, TypeOK, FlashTypeOK
  <2>8. SlotInv'
    BY <1>8, <2>1, <2>3 DEF handle_start, Inv, SlotInv
  <2> QED
    BY <2>7, <2>8 DEF Inv
<1>9. CASE NoSession
  <2>1. PICK type : Take(type)
    BY <1>9 DEF NoSession
  <2>2. cmdq' \in Seq(Command) /\ upd = NULL
    BY <2>1, TakeFacts
  <2>3. TypeOK'
    BY <1>9, <2>2 DEF NoSession, NoFault, Inv, TypeOK, FlashTypeOK, flash, Points
  <2>4. SlotInv'
    BY <1>9, <2>2 DEF NoSession, Inv, SlotInv, flash
  <2> QED
    BY <2>3, <2>4 DEF Inv
<1>10. CASE handle_program_part
  <2>1. \E status \in Replies : Reply(Head(cmdq).from, status)
    BY <1>10, ProgramStep DEF Replies
  <2>2. cmdq' \in Seq(Command) /\ hosts' \in [Hosts -> Process] /\ upd = NULL
    BY <1>10, <2>1, ProgramStep, AnswerType, TakeFacts
  <2>3. slots' \in [Index -> [Blocks -> Cell]]
    <3>1. PICK missed \in SUBSET Blocks :
             slots' = Written(ota.slot, ota.offset_written,
                              ota.offset_written + PartLen(Head(cmdq)),
                              PartData(Head(cmdq)), missed)
      BY <1>10, ProgramStep
    <3>2. PartData(Head(cmdq)) \in Cell
      BY <1>10, ProgramStep DEF PartData, Cell, Command
    <3> QED
      BY <3>1, <3>2, SlotsAssumption
      DEF Written, Programmed, Cell, Inv, TypeOK, FlashTypeOK
  <2>4. /\ ota' \in Session \cup {NULL}
        /\ ota' # NULL => ota # NULL /\ ota'.slot = ota.slot
                                     /\ ota'.active_index = ota.active_index
    BY <1>10, ProgramStep DEF handle_program_part
  <2>5. faults' \in Nat
    BY <1>10, ProgramStep
  <2>6. TypeOK'
    BY <1>10, <2>2, <2>3, <2>4, <2>5 DEF handle_program_part, Inv, TypeOK, FlashTypeOK
  <2>7. SlotInv'
    BY <1>10, <2>2, <2>4 DEF handle_program_part, Inv, SlotInv
  <2> QED
    BY <2>6, <2>7 DEF Inv
<1>11. CASE handle_commit
  <2> DEFINE stuff == UpdatedTable(boot2.table, FW, OtherIndex(ota.active_index))
  <2>1. ota # NULL /\ ota.active_index = running /\ ota.slot = OtherIndex(running)
    BY <1>11 DEF handle_commit, Inv, SlotInv
  <2>2. stuff \in Table /\ HasEntry(stuff, FW) /\ stuff.entries[FW] = ota.slot
    BY <1>a, <2>1, FlipFacts, UpdatedTableFacts, PartitionAssumption
  <2>3. cmdq' \in Seq(Command) /\ Head(cmdq).from \in Hosts \cup {NULL}
    BY <1>11, TakeFacts DEF handle_commit, Command
  <2>4. OtherCopy(boot2.idx) \in Copies
    BY <1>a DEF OtherCopy
  <2> HIDE DEF stuff
  <2>5. upd' = [target |-> OtherCopy(boot2.idx), stuff |-> stuff, from |-> Head(cmdq).from]
    BY <1>11 DEF handle_commit, stuff
  <2>6. upd' \in TableUpdate /\ upd' # NULL
    BY <2>2, <2>3, <2>4, <2>5, RnmOtaAssumption DEF TableUpdate
  <2>7. /\ pc' = "pterase"
        /\ UNCHANGED <<tables, slots, boot2, running, ota, hosts, faults>>
    BY <1>11 DEF handle_commit, NoFault, flash
  <2>8. TypeOK'
    BY <2>3, <2>6, <2>7 DEF Inv, TypeOK, FlashTypeOK, Points
  <2>9. SlotInv'
    BY <2>1, <2>2, <2>5, <2>6, <2>7 DEF Inv, SlotInv
  <2> QED
    BY <2>8, <2>9 DEF Inv
<1>12. CASE PtErase
  <2>1. upd # NULL /\ upd.target = OtherCopy(boot2.idx) /\ upd.target # boot2.idx
    BY <1>12, <1>a DEF PtErase, Inv, SlotInv, OtherCopy
  <2>2. TypeOK'
    BY <1>12, <1>c, <2>1 DEF PtErase, NoFault, Inv, TypeOK, FlashTypeOK, Points
  <2>3. SlotInv'
    BY <1>12, <1>a, <1>c, <2>1 DEF PtErase, Inv, SlotInv, TypeOK, FlashTypeOK
  <2> QED
    BY <2>2, <2>3 DEF Inv
<1>13. CASE PtFails \/ PtWrite
  <2>1. /\ upd # NULL /\ upd.target = OtherCopy(boot2.idx) /\ upd.target # boot2.idx
        /\ HasEntry(upd.stuff, FW)
    BY <1>13, <1>a DEF PtFails, PtWrite, Inv, SlotInv, OtherCopy
  <2>2. /\ \/ tables' = tables
           \/ tables' = [tables EXCEPT ![upd.target] = Torn]
           \/ tables' = [tables EXCEPT ![upd.target] = upd.stuff]
        /\ ota' = NULL /\ upd' = NULL /\ pc' = "idle"
        /\ UNCHANGED <<slots, boot2, running, cmdq>>
        /\ Reply(upd.from, "COMMIT_ACK")
    BY <1>13 DEF PtFails, PtWrite, CommitAnswered
  <2>3. faults' \in Nat
    BY <1>13, <1>a, FaultType DEF PtFails, PtWrite
  <2>4. hosts' \in [Hosts -> Process]
    BY <1>c, <2>1, <2>2, ReplyFacts DEF Inv, TypeOK, Replies
  <2>5. tables' \in [Copies -> Table \cup {Torn}]
    BY <1>c, <2>1, <2>2 DEF Inv, TypeOK, FlashTypeOK
  <2>6. TypeOK'
    BY <2>2, <2>3, <2>4, <2>5 DEF Inv, TypeOK, FlashTypeOK, Points
  <2>7. SlotInv'
    BY <1>a, <1>c, <2>1, <2>2 DEF Inv, SlotInv, TypeOK, FlashTypeOK
  <2> QED
    BY <2>6, <2>7 DEF Inv
<1>14. CASE PowerLoss \/ UserReboot
  <2>1. Reset /\ faults' \in Nat
    BY <1>14, <1>a, FaultType DEF PowerLoss, UserReboot
  <2> DEFINE id == pt_table_get_active_partition(tables)
  <2>2. id # INVALID /\ id \in Copies /\ tables[id] \in Table /\ tables[id] # Torn
    <3>1. id # INVALID
      BY <2>1 DEF Reset, Boot
    <3> QED
      BY <3>1, ActiveCopy DEF Inv, TypeOK, FlashTypeOK
  <2>3. HasEntry(tables[id], FW) /\ tables[id].entries[FW] \in Index
    BY <2>2, EntryIndex DEF Inv, SlotInv
  <2>4. /\ boot2' = [idx |-> id, table |-> tables[id]]
        /\ running' = tables[id].entries[FW]
        /\ UNCHANGED <<tables, slots>>
        /\ ota' = NULL /\ pc' = "idle" /\ upd' = NULL /\ cmdq' = <<>>
    BY <2>1 DEF Reset, Boot, flash
  <2>5. hosts' \in [Hosts -> Process]
    BY <2>1 DEF Reset, Inv, TypeOK, Process, HostPoints
  <2>6. TypeOK'
    BY <2>1, <2>2, <2>3, <2>4, <2>5 DEF Inv, TypeOK, FlashTypeOK, Points
  <2>7. SlotInv'
    BY <2>2, <2>3, <2>4 DEF Inv, SlotInv
  <2> QED
    BY <2>6, <2>7 DEF Inv
<1>15. CASE UNCHANGED vars
  BY <1>15 DEF vars, Inv, TypeOK, FlashTypeOK, SlotInv
<1> QED
  BY <1>1, <1>2, <1>3, <1>4, <1>5, <1>6, <1>7, <1>8, <1>9, <1>10, <1>11, <1>12,
     <1>13, <1>14, <1>15
  DEF Next, Host, Device
-----------------------------------------------------------------------------
(* Every variable keeps its type, for any hosts and any files.             *)
THEOREM TypeCorrect == Spec => []TypeOK
<1>1. Inv => TypeOK
  BY DEF Inv
<1> QED
  BY <1>1, InitInv, NextInv, PTL DEF Spec

(* The slot the device runs from: handle_start and handle_program_part     *)
(* write the other one, and a reset changes no slot.                       *)
LEMMA RunningStep ==
    ASSUME Inv, [Next]_vars
    PROVE  slots'[running] = slots[running]
<1>a. /\ running \in Index /\ OtherIndex(running) # running
      /\ slots \in [Index -> [Blocks -> Cell]]
  BY FlipFacts DEF Inv, TypeOK, FlashTypeOK
<1>1. CASE handle_start
  <2>1. MtdBackupSlot = OtherIndex(running)
    BY DEF MtdBackupSlot, Inv, SlotInv
  <2>2. PICK missed \in SUBSET Blocks : slots' = Erased(OtherIndex(running), missed)
    BY <1>1, <2>1 DEF handle_start
  <2> QED
    BY <1>a, <2>2 DEF Erased
<1>2. CASE handle_program_part
  <2>1. ota.slot = OtherIndex(running)
    BY <1>2 DEF handle_program_part, Inv, SlotInv
  <2>2. PICK missed \in SUBSET Blocks :
           slots' = Written(ota.slot, ota.offset_written,
                            ota.offset_written + PartLen(Head(cmdq)),
                            PartData(Head(cmdq)), missed)
    BY <1>2, ProgramStep
  <2> QED
    BY <1>a, <2>1, <2>2 DEF Written
<1>3. ASSUME ~handle_start, ~handle_program_part PROVE UNCHANGED slots
  <2>1. CASE UNCHANGED vars
    BY <2>1 DEF vars
  <2>2. ASSUME NEW h \in Hosts, Host(h) PROVE UNCHANGED slots
    BY <2>2 DEF Host, blctl_ota, blctl_ota_abort, Started, PartDone, NextRequest,
                Send, HostExits, HostTimeout, flash
  <2>3. CASE Device
    BY <1>3, <2>3
    DEF Device, StartRefused, StartFails, PartRefused, handle_commit, PtErase, PtFails,
        PtWrite, CommitAnswered, handle_abort, NoSession, flash
  <2>4. CASE PowerLoss \/ UserReboot
    BY <2>4 DEF PowerLoss, UserReboot, Reset, Boot, flash
  <2> QED
    BY <2>1, <2>2, <2>3, <2>4 DEF Next
<1> QED
  BY <1>1, <1>2, <1>3

(* No update, of any number of hosts and with any files, disturbs the      *)
(* image that the device executes.                                         *)
THEOREM RunningImage == Spec => RunningImageIntact
<1>1. Inv /\ [Next]_vars => [slots'[running] = slots[running]]_<<slots, running>>
  BY RunningStep
<1> QED
  BY <1>1, InitInv, NextInv, PTL DEF Spec, RunningImageIntact
-----------------------------------------------------------------------------
(* The session invariant: what is hashed is in the slot. *)
LEMMA InitSession == Init => SessionInv
  BY DEF Init, SessionInv

LEMMA NextSession == Inv /\ SessionInv /\ [Next]_vars => SessionInv'
<1> SUFFICES ASSUME Inv, SessionInv, [Next]_vars PROVE SessionInv'
  OBVIOUS
<1>1. CASE handle_start
  <2>1. ota'.offset_written = 0 /\ ota'.body_length = 0
    BY <1>1 DEF handle_start
  <2> QED
    BY <2>1 DEF SessionInv
<1>2. CASE handle_program_part
  <2> DEFINE c == Head(cmdq)
             s == Described(c)
             end == ota.offset_written + PartLen(c)
  <2>1. ota \in Session /\ c \in Command /\ PartAccepted(c) /\ PartLen(c) \in Nat
    BY <1>2, ProgramStep
  <2>2. SUFFICES ASSUME ota' # NULL PROVE SessionInv'
    BY DEF SessionInv
  <2>3. /\ ota'.slot = ota.slot
        /\ ota'.that = s.that
        /\ ota'.body_length = s.body_length
        /\ ota'.offset_written = end
        /\ ota'.sha_ok => s.sha_ok /\ ReadBack(c)
        /\ end < s.body_length \/ ota'.sha_ok
    BY <1>2, <2>2, ProgramStep
  <2>4. PICK missed \in SUBSET Blocks :
           slots' = Written(ota.slot, ota.offset_written, end, PartData(c), missed)
    BY <1>2, ProgramStep
  <2>5. /\ ota.offset_written \in Nat /\ end \in Nat /\ c.offset \in Nat
        /\ ota.slot \in Index /\ SlotLen[ota.slot] \in Nat
        /\ SlotLen[ota.slot] <= MaxLen /\ MaxLen \in Nat
    BY <2>1, SlotsAssumption DEF Session, Command, MaxLen
  <2>6. end <= s.body_length /\ s.body_length \in Nat
    BY <2>1, DescribedFacts DEF PartAccepted, Session
  <2>7. CASE c.offset = 0
    <3>1. ota.offset_written = 0 /\ PartLen(c) = 1 /\ end = 1
      BY <2>1, <2>5, <2>7 DEF PartAccepted, InSequence, PartLen
    <3>2. s.that = c.image /\ s.body_length = ImageLen[c.image] /\ c.image \in Images
      BY <2>1, <2>7, DescribedFacts DEF Command
    <3>3. s.body_length <= SlotLen[ota.slot]
      <4>1. ota.slot = OtherIndex(ota.active_index)
        BY <2>1, RnmOtaAssumption DEF Inv, SlotInv
      <4> QED
        BY <2>1, <2>7, <4>1 DEF PartAccepted
    <3>4. ota'.sha_ok => \A b \in 0..(end - 1) : slots'[ota.slot][b] = s.that
      BY <2>3, <3>1 DEF ReadBack
    <3> QED
      BY <2>3, <2>5, <2>6, <3>1, <3>2, <3>3, <3>4 DEF SessionInv
  <2>8. CASE c.offset # 0
    <3>1. s = ota /\ c.offset = ota.offset_written + 1
      BY <2>1, <2>8, DescribedFacts DEF PartAccepted, InSequence
    <3>2. CASE ota.offset_written = 0
      <4>1. ota.body_length = 0 /\ end = 0
        BY <2>1, <2>2, <2>5, <2>6, <3>1, <3>2, RnmOtaAssumption DEF SessionInv
      <4> QED
        BY <2>3, <3>1, <4>1 DEF SessionInv
    <3>3. CASE ota.offset_written > 0
      <4>1. /\ ota.that \in Images /\ ota.body_length = ImageLen[ota.that]
            /\ ota.body_length <= SlotLen[ota.slot]
            /\ ota.sha_ok => \A b \in 0..(ota.offset_written - 1) :
                                slots[ota.slot][b] = ota.that
        BY <2>1, <3>3, RnmOtaAssumption DEF SessionInv
      <4>2. ASSUME ota'.sha_ok, NEW b \in 0..(end - 1) PROVE slots'[ota.slot][b] = ota.that
        <5>1. CASE b < ota.offset_written
          <6>1. b \in Blocks /\ b \notin ota.offset_written..(end - 1)
            BY <2>5, <2>6, <3>1, <4>1, <5>1 DEF Blocks
          <6>2. slots'[ota.slot][b] = slots[ota.slot][b]
            BY <2>4, <2>5, <6>1 DEF Written, Inv, TypeOK, FlashTypeOK
          <6>3. ota.sha_ok
            BY <2>3, <3>1, <4>2
          <6>4. b \in 0..(ota.offset_written - 1)
            BY <2>5, <4>2, <5>1
          <6> QED
            BY <4>1, <6>2, <6>3, <6>4
        <5>2. CASE ~(b < ota.offset_written)
          <6>1. b \in ota.offset_written..(ota.offset_written + PartLen(c) - 1)
            BY <2>1, <2>5, <4>2, <5>2
          <6>2. ReadBack(c) /\ Described(c) = ota
            BY <2>3, <3>1, <4>2
          <6> QED
            BY <6>1, <6>2 DEF ReadBack
        <5> QED
          BY <5>1, <5>2
      <4>3. /\ ota'.that = ota.that /\ ota'.body_length = ota.body_length
            /\ ota'.slot = ota.slot /\ ota'.offset_written = end
        BY <2>3, <3>1
      <4>4. ota'.offset_written = ota'.body_length => ota'.sha_ok
        BY <2>3, <2>5, <2>6
      <4>5. ota'.sha_ok => \A b \in 0..(ota'.offset_written - 1) :
                              slots'[ota'.slot][b] = ota'.that
        BY <4>2, <4>3
      <4>6. end <= ota.body_length /\ end # 0
        BY <2>5, <2>6, <3>1, <3>3, <2>1
      <4> QED
        BY <4>1, <4>3, <4>4, <4>5, <4>6 DEF SessionInv
    <3> QED
      BY <2>5, <3>2, <3>3
  <2> QED
    BY <2>7, <2>8
<1>3. ASSUME UNCHANGED <<slots, ota>> \/ ota' = NULL PROVE SessionInv'
  BY <1>3 DEF SessionInv
<1>4. ASSUME ~handle_start, ~handle_program_part
      PROVE  UNCHANGED <<slots, ota>> \/ ota' = NULL
  <2>1. CASE UNCHANGED vars
    BY <2>1 DEF vars
  <2>2. ASSUME NEW h \in Hosts, Host(h) PROVE UNCHANGED <<slots, ota>>
    BY <2>2 DEF Host, blctl_ota, blctl_ota_abort, Started, PartDone, NextRequest,
                Send, HostExits, HostTimeout, flash, device
  <2>3. CASE Device
    BY <1>4, <2>3
    DEF Device, StartRefused, StartFails, PartRefused, handle_commit, PtErase, PtFails,
        PtWrite, CommitAnswered, handle_abort, NoSession, flash, device
  <2>4. CASE PowerLoss \/ UserReboot
    BY <2>4 DEF PowerLoss, UserReboot, Reset
  <2> QED
    BY <2>1, <2>2, <2>3, <2>4 DEF Next
<1> QED
  BY <1>1, <1>2, <1>3, <1>4
-----------------------------------------------------------------------------
(* A single host. *)
LEMMA HostRecord ==
    ASSUME Inv, NEW h \in Hosts
    PROVE  /\ hosts[h] \in Process
           /\ hosts[h].image \in Images
           /\ hosts[h].size \in Nat /\ hosts[h].offset \in Nat
           /\ ImageLen[hosts[h].image] \in Nat \ {0}
  BY SlotsAssumption DEF Inv, TypeOK, Process

(* What is left in the queue when the device takes a command.              *)
LEMMA TakenQueue ==
    ASSUME Inv, NEW h \in Hosts, HostInv(h), NEW type, Take(type)
    PROVE  /\ hosts[h].reply = NULL
           /\ \A i \in 1..Len(cmdq') :
                 /\ cmdq'[i].type \notin {"PART", "COMMIT"}
                 /\ cmdq'[i].from = h => i = Len(cmdq') /\ Waits(h, cmdq'[i])
           /\ Head(cmdq).from = h => cmdq' = <<>> /\ Waits(h, Head(cmdq))
           /\ type = "PART" => PartShape(Head(cmdq)) /\ (ota # NULL => Continues(Head(cmdq)))
           /\ type = "COMMIT" /\ ota # NULL => Whole
<1>1. cmdq # <<>>
  BY DEF Take
<1>2. hosts[h].reply = NULL
  BY <1>1 DEF HostInv, AnswerInv
<1>3. Len(cmdq) \in Nat /\ Len(cmdq') \in Nat
  BY TakeFacts DEF Inv, TypeOK
<1>4. ASSUME NEW i \in 1..Len(cmdq')
      PROVE  /\ cmdq'[i].type \notin {"PART", "COMMIT"}
             /\ cmdq'[i].from = h => i = Len(cmdq') /\ Waits(h, cmdq'[i])
  <2>1. i + 1 \in 1..Len(cmdq) /\ i + 1 # 1 /\ cmdq'[i] = cmdq[i + 1]
    BY <1>3, TakeFacts
  <2>2. cmdq[i + 1].from = h => i + 1 = Len(cmdq) /\ Waits(h, cmdq[i + 1])
    BY <2>1 DEF HostInv, QueueInv
  <2>3. cmdq[i + 1].type \notin {"PART", "COMMIT"}
    BY <2>1 DEF HostInv, QueueInv
  <2> QED
    BY <1>3, <2>1, <2>2, <2>3, TakeFacts
<1>5. Head(cmdq).from = h => cmdq' = <<>> /\ Waits(h, Head(cmdq))
  BY <1>3, TakeFacts DEF HostInv, QueueInv
<1>6. /\ type = "PART" => PartShape(Head(cmdq)) /\ (ota # NULL => Continues(Head(cmdq)))
      /\ type = "COMMIT" /\ ota # NULL => Whole
  BY TakeFacts DEF HostInv, QueueInv
<1> QED
  BY <1>2, <1>4, <1>5, <1>6

(* What an answer at once changes for the host. *)
LEMMA AnswerStep ==
    ASSUME Inv, NEW h \in Hosts, Hosts = {h}, HostInv(h), NEW type, Take(type),
           NEW status \in Replies, Reply(Head(cmdq).from, status),
           UNCHANGED <<pc, upd>>
    PROVE  /\ QueueInv(h)' /\ CommitInv(h)'
           /\ hosts'[h].pc = hosts[h].pc /\ hosts'[h].image = hosts[h].image
           /\ hosts'[h].size = hosts[h].size /\ hosts'[h].offset = hosts[h].offset
           /\ hosts'[h].reply # NULL => /\ hosts'[h].reply = status
                                        /\ cmdq' = <<>> /\ pc' = "idle"
                                        /\ Waits(h, Head(cmdq))
<1>1. Head(cmdq).from \in Hosts \cup {NULL}
  BY TakeFacts DEF Command
<1>2. CommitInv(h)'
  BY TakeFacts DEF CommitInv
<1>3. pc' = "idle"
  BY TakeFacts
<1>4. /\ hosts'[h].pc = hosts[h].pc /\ hosts'[h].image = hosts[h].image
      /\ hosts'[h].size = hosts[h].size /\ hosts'[h].offset = hosts[h].offset
      /\ Head(cmdq).from = h => hosts'[h].reply = status
  BY <1>1, ReplyFacts DEF Inv, TypeOK
<1>5. CASE Head(cmdq).from = h
  <2>1. cmdq' = <<>> /\ Waits(h, Head(cmdq))
    BY <1>5, TakenQueue
  <2>2. QueueInv(h)'
    BY <2>1 DEF QueueInv
  <2> QED
    BY <1>2, <1>3, <1>4, <1>5, <2>1, <2>2
<1>6. CASE Head(cmdq).from = NULL
  <2>1. hosts' = hosts
    BY <1>6 DEF Reply
  <2>2. hosts'[h].reply = NULL
    BY <2>1, TakenQueue
  <2>3. QueueInv(h)'
    BY <2>1, TakenQueue DEF QueueInv, Waits
  <2> QED
    BY <1>2, <1>4, <2>2, <2>3
<1> QED
  BY <1>1, <1>5, <1>6

LEMMA InitHost == ASSUME NEW h \in Hosts, Init PROVE HostInv(h)
<1>1. hosts[h].pc = "closed" /\ hosts[h].reply = NULL /\ cmdq = <<>> /\ upd = NULL
  BY DEF Init
<1> QED
  BY <1>1, RnmOtaAssumption DEF HostInv, QueueInv, AnswerInv, CommitInv

(* A request goes to the end of the queue, which is empty unless it is the *)
(* first one of a run of blctl.                                            *)
LEMMA SendHost ==
    ASSUME Inv, NEW h \in Hosts, Hosts = {h}, HostInv(h),
           NEW type \in Commands, NEW point, NEW image \in Images, NEW size \in Nat,
           NEW offset \in Nat, Send(h, type, point, image, size, offset),
           hosts[h].pc = "closed" \/ hosts[h].reply # NULL,
           \/ type = "START" /\ point = "start"
           \/ type = "ABORT" /\ point = "abort"
           \/ type = "PART" /\ point = "part" /\ hosts[h].reply # NULL
           \/ type = "COMMIT" /\ point = "commit" /\ hosts[h].reply # NULL,
           point # "abort" => size = 1 + ImageLen[image],
           type = "PART" =>
              /\ offset < size
              /\ ota # NULL => IF offset = 0 THEN ota.offset_written = 0
                               ELSE /\ ota.offset_written = offset - 1
                                    /\ ota.offset_written > 0
                                    /\ ota.that = image,
           type = "COMMIT" => (ota # NULL => Whole)
    PROVE  HostInv(h)'
<1> DEFINE c == [from |-> h, type |-> type, image |-> image, offset |-> offset,
                 len |-> IF type # "PART" THEN 0
                         ELSE IF size - offset < 2 THEN size - offset ELSE 2]
<1>1. c \in Command /\ cmdq \in Seq(Command) /\ cmdq' = Append(cmdq, c)
  BY DEF Send, Inv, TypeOK, Command
<1>2. /\ hosts'[h].pc = point /\ hosts'[h].image = image /\ hosts'[h].size = size
      /\ hosts'[h].offset = offset /\ hosts'[h].reply = NULL
      /\ UNCHANGED <<ota, pc, upd>>
  BY DEF Send, device, Inv, TypeOK
<1>3. /\ Len(cmdq) \in Nat /\ Len(cmdq') = Len(cmdq) + 1
      /\ \A i \in 1..Len(cmdq) : cmdq'[i] = cmdq[i]
      /\ cmdq'[Len(cmdq) + 1] = c
  BY <1>1, AppendFacts
<1>4. \A i \in 1..Len(cmdq) : cmdq[i].from # h
  BY DEF HostInv, QueueInv, AnswerInv, Waits
<1>5. hosts[h].reply # NULL => Len(cmdq) = 0
  BY DEF HostInv, AnswerInv
<1>6. QueueInv(h)'
  <2>1. ASSUME NEW i \in 1..Len(cmdq')
        PROVE  (/\ cmdq[i].from = h => i = Len(cmdq) /\ Waits(h, cmdq[i])
                /\ cmdq[i].type = "PART" =>
                      i = 1 /\ PartShape(cmdq[i]) /\ (ota # NULL => Continues(cmdq[i]))
                /\ cmdq[i].type = "COMMIT" => i = 1 /\ (ota # NULL => Whole))'
    <3>1. CASE i \in 1..Len(cmdq)
      <4>1. cmdq'[i] = cmdq[i] /\ cmdq[i].from # h
        BY <1>3, <1>4, <3>1
      <4>2. /\ cmdq[i].type = "PART" =>
                  i = 1 /\ PartShape(cmdq[i]) /\ (ota # NULL => Continues(cmdq[i]))
            /\ cmdq[i].type = "COMMIT" => i = 1 /\ (ota # NULL => Whole)
        BY <3>1 DEF HostInv, QueueInv
      <4> QED
        BY <1>2, <4>1, <4>2 DEF PartShape, Continues, Whole
    <3>2. CASE i = Len(cmdq) + 1
      <4>1. cmdq'[i] = c
        BY <1>3, <3>2
      <4>2. i = Len(cmdq')
        BY <1>3, <3>2
      <4>3. type = "PART" =>
               i = 1 /\ PartShape(c) /\ (ota' # NULL => Continues(c)')
        <5>1. ASSUME type = "PART" PROVE i = 1 /\ PartShape(c)
          <6>1. size = 1 + ImageLen[image] /\ offset < size /\ i = 1
            BY <1>5, <3>2, <5>1
          <6>2. /\ c.offset = offset /\ c.image = image
                /\ c.len = IF size - offset < 2 THEN size - offset ELSE 2
            BY <5>1
          <6>3. ImageLen[image] \in Nat
            BY SlotsAssumption
          <6> HIDE DEF c
          <6> QED
            BY <6>1, <6>2, <6>3 DEF PartShape
        <5>2. ASSUME type = "PART", ota' # NULL PROVE Continues(c)'
          BY <1>2, <5>2 DEF Continues
        <5> QED
          BY <5>1, <5>2
      <4>4. type = "COMMIT" => i = 1 /\ (ota' # NULL => Whole')
        BY <1>2, <1>5, <3>2 DEF Whole
      <4>5. Waits(h, cmdq[i])'
        BY <1>2, <4>1 DEF Waits
      <4>6. PartShape(c) => PartShape(cmdq[i])'
        BY <4>1 DEF PartShape
      <4>7. Continues(c)' => Continues(cmdq[i])'
        BY <4>1 DEF Continues
      <4> QED
        BY <4>1, <4>2, <4>3, <4>4, <4>5, <4>6, <4>7
    <3> QED
      BY <1>3, <3>1, <3>2
  <2> QED
    BY <2>1 DEF QueueInv
<1>7. AnswerInv(h)'
  BY <1>2, RnmOtaAssumption DEF AnswerInv, Replies
<1>8. CommitInv(h)'
  <2>1. hosts[h].reply # NULL => upd = NULL
    BY DEF HostInv, AnswerInv, Inv, SlotInv
  <2> QED
    BY <1>2, <2>1 DEF HostInv, CommitInv, Whole
<1> QED
  BY <1>6, <1>7, <1>8 DEF HostInv

LEMMA NextHost ==
    ASSUME NEW h \in Hosts, Hosts = {h}, WholeFiles,
           Inv, SessionInv, HostInv(h), [Next]_vars
    PROVE  HostInv(h)'
<1>a. /\ hosts[h].image \in Images /\ hosts[h].size \in Nat /\ hosts[h].offset \in Nat
      /\ ImageLen[hosts[h].image] \in Nat \ {0}
  BY HostRecord
<1>1. CASE blctl_ota(h)
  <2>1. PICK v \in Images : \E size \in FileSizes(v) : Send(h, "START", "start", v, size, 0)
    BY <1>1 DEF blctl_ota
  <2>2. Send(h, "START", "start", v, 1 + ImageLen[v], 0)
    BY <2>1 DEF FileSizes
  <2>3. 1 + ImageLen[v] \in Nat
    BY SlotsAssumption
  <2> QED
    BY <1>1, <2>2, <2>3, SendHost DEF blctl_ota, Commands
<1>2. CASE blctl_ota_abort(h)
  BY <1>2, <1>a, SendHost DEF blctl_ota_abort, Commands
<1>3. CASE Started(h)
  <2>1. /\ hosts[h].size = 1 + ImageLen[hosts[h].image] /\ hosts[h].reply # NULL
        /\ ota # NULL => ota.offset_written = 0
    BY <1>3, RnmOtaAssumption DEF Started, HostInv, AnswerInv, Replies
  <2>2. Send(h, "PART", "part", hosts[h].image, hosts[h].size, 0)
    BY <1>3, <1>a, <2>1 DEF Started, NextRequest
  <2> QED
    BY <1>a, <2>1, <2>2, SendHost DEF Commands
<1>4. CASE PartDone(h)
  <2> DEFINE wo == hosts[h].offset + 2
  <2>1. /\ hosts[h].size = 1 + ImageLen[hosts[h].image] /\ hosts[h].reply # NULL
        /\ ota # NULL => /\ ota.that = hosts[h].image
                         /\ ota.offset_written = Sent(hosts[h].image, hosts[h].offset)
    BY <1>4, RnmOtaAssumption DEF PartDone, HostInv, AnswerInv, Replies
  <2>2. CASE wo < hosts[h].size
    <3>1. Send(h, "PART", "part", hosts[h].image, hosts[h].size, wo)
      BY <1>4, <2>2 DEF PartDone, NextRequest
    <3>2. ota # NULL => ota.offset_written = wo - 1 /\ ota.offset_written > 0
      BY <1>a, <2>1, <2>2 DEF Sent
    <3> QED
      BY <1>a, <2>1, <2>2, <3>1, <3>2, SendHost DEF Commands
  <2>3. CASE ~(wo < hosts[h].size)
    <3>1. Send(h, "COMMIT", "commit", hosts[h].image, hosts[h].size, wo)
      BY <1>4, <2>3 DEF PartDone, NextRequest
    <3>2. ota # NULL => ota.offset_written = ImageLen[hosts[h].image]
      BY <1>a, <2>1, <2>3 DEF Sent
    <3>3. ota # NULL => Whole
      BY <1>a, <2>1, <3>2 DEF Whole, SessionInv
    <3> QED
      BY <1>a, <2>1, <3>1, <3>3, SendHost DEF Commands
  <2> QED
    BY <2>2, <2>3
<1>5. CASE HostExits(h)
  <2>1. cmdq = <<>> /\ upd = NULL
    BY <1>5 DEF HostExits, HostInv, AnswerInv, Inv, SlotInv
  <2>2. hosts'[h].reply = NULL /\ hosts'[h].pc \in {"closed", "reboot"}
    <3>1. PICK point \in {"closed", "reboot"} : Exit(h, point)
      BY <1>5 DEF HostExits
    <3> QED
      BY <3>1, HostRecord DEF Exit, Process, Inv, TypeOK
  <2> QED
    BY <1>5, <2>1, <2>2, RnmOtaAssumption
    DEF HostExits, device, HostInv, QueueInv, AnswerInv, CommitInv, Replies
<1>6. CASE HostTimeout(h)
  <2>1. /\ hosts'[h].reply = NULL /\ hosts'[h].pc \in {"closed", "reboot"}
        /\ UNCHANGED <<ota, pc>>
    <3>1. PICK point \in {"closed", "reboot"} : Exit(h, point)
      BY <1>6 DEF HostTimeout
    <3> QED
      BY <1>6, <3>1, HostRecord DEF HostTimeout, Exit, Process, Inv, TypeOK
  <2>2. cmdq \in Seq(Command) /\ DOMAIN cmdq = 1..Len(cmdq) /\ Len(cmdq) \in Nat
    BY DEF Inv, TypeOK
  <2>3. ASSUME NEW i \in 1..Len(cmdq')
        PROVE  /\ i \in 1..Len(cmdq)
               /\ cmdq'[i].from # h
               /\ cmdq'[i].type = cmdq[i].type /\ cmdq'[i].image = cmdq[i].image
               /\ cmdq'[i].offset = cmdq[i].offset /\ cmdq'[i].len = cmdq[i].len
    <3>1. CASE cmdq' = [j \in DOMAIN cmdq |-> Orphan(cmdq[j], h)]
      <4>1. /\ Len(cmdq') = Len(cmdq)
            /\ \A j \in 1..Len(cmdq) :
                  /\ cmdq'[j].from # h
                  /\ cmdq'[j].type = cmdq[j].type /\ cmdq'[j].image = cmdq[j].image
                  /\ cmdq'[j].offset = cmdq[j].offset /\ cmdq'[j].len = cmdq[j].len
        BY <2>2, <3>1, OrphanFacts
      <4> QED
        BY <4>1
    <3>2. ASSUME NEW k \in DOMAIN cmdq, cmdq[k].from = h, cmdq' = Without(cmdq, k)
          PROVE  i \in 1..Len(cmdq) /\ cmdq[i].from # h /\ cmdq'[i] = cmdq[i]
      <4>1. k = Len(cmdq)
        BY <2>2, <3>2 DEF HostInv, QueueInv
      <4>2. i < k /\ i \in 1..Len(cmdq) /\ i \in 1..(Len(cmdq) - 1)
        BY <2>2, <3>2, <4>1, WithoutFacts
      <4>3. cmdq'[i] = cmdq[i]
        BY <2>2, <3>2, <4>2, WithoutFacts
      <4>4. cmdq[i].from # h
        <5>1. cmdq[i].from = h => i = Len(cmdq)
          BY <4>2 DEF HostInv, QueueInv
        <5> QED
          BY <4>1, <4>2, <5>1
      <4> QED
        BY <4>2, <4>3, <4>4
    <3> QED
      BY <1>6, <3>1, <3>2 DEF HostTimeout
  <2>4. QueueInv(h)'
    BY <2>1, <2>3 DEF HostInv, QueueInv, PartShape, Continues, Whole
  <2>5. AnswerInv(h)'
    BY <2>1, RnmOtaAssumption DEF AnswerInv, Replies
  <2>6. upd' # NULL => upd # NULL /\ upd'.from # h
    BY <1>6, RnmOtaAssumption DEF HostTimeout, Inv, TypeOK, TableUpdate
  <2>7. CommitInv(h)'
    BY <2>1, <2>6 DEF HostInv, CommitInv, Whole
  <2> QED
    BY <2>4, <2>5, <2>7 DEF HostInv
<1>7. CASE StartRefused \/ PartRefused \/ handle_abort
  <2>1. PICK type \in Commands, status \in Replies :
           Take(type) /\ Reply(Head(cmdq).from, status)
    BY <1>7 DEF StartRefused, PartRefused, handle_abort, Commands, Replies
  <2>2. ota' = NULL /\ UNCHANGED <<pc, upd>>
    BY <1>7 DEF StartRefused, PartRefused, handle_abort
  <2>3. AnswerInv(h)'
    BY <2>1, <2>2, AnswerStep DEF HostInv, AnswerInv
  <2> QED
    BY <2>1, <2>2, <2>3, AnswerStep DEF HostInv
<1>8. CASE StartFails
  <2>1. Take("START") /\ Reply(Head(cmdq).from, "ERROR") /\ UNCHANGED <<pc, upd>>
    BY <1>8 DEF StartFails, device
  <2>2. AnswerInv(h)'
    BY <2>1, AnswerStep, RnmOtaAssumption DEF HostInv, AnswerInv, Replies
  <2> QED
    BY <2>1, <2>2, AnswerStep DEF HostInv, Replies
<1>9. CASE handle_start
  <2>1. /\ Take("START") /\ Reply(Head(cmdq).from, "START_ACK") /\ UNCHANGED <<pc, upd>>
        /\ ota'.offset_written = 0
    BY <1>9 DEF handle_start
  <2>2. AnswerInv(h)'
    BY <2>1, AnswerStep, RnmOtaAssumption DEF HostInv, AnswerInv, Replies
  <2> QED
    BY <2>1, <2>2, AnswerStep DEF HostInv, Replies
<1>10. CASE handle_program_part
  <2> DEFINE c == Head(cmdq)
             end == ota.offset_written + PartLen(c)
  <2>1. /\ Take("PART") /\ ota \in Session /\ ota # NULL /\ c \in Command
        /\ PartAccepted(c) /\ UNCHANGED <<pc, upd>>
    BY <1>10, ProgramStep DEF handle_program_part
  <2>2. PartShape(c) /\ Continues(c) /\ c.type = "PART"
    BY <2>1, TakenQueue, TakeFacts
  <2>3. PICK status \in {"PROGRAM_ACK", "FIN_ACK", "ERROR"} :
           /\ Reply(c.from, status)
           /\ ota' # NULL => /\ ota'.that = Described(c).that
                             /\ ota'.offset_written = end
    BY <1>10, ProgramStep
  <2>4. ota' # NULL => /\ ota'.that = c.image
                       /\ ota'.offset_written = Sent(c.image, c.offset)
    <3>1. c.offset \in Nat /\ ImageLen[c.image] \in Nat \ {0} /\ ota.offset_written \in Nat
      BY <2>1, SlotsAssumption DEF Command, Session
    <3>2. CASE c.offset = 0
      <4>1. Described(c).that = c.image
        BY <2>1, <3>2, DescribedFacts
      <4>2. end = 1 /\ Sent(c.image, c.offset) = 1
        BY <2>2, <3>1, <3>2 DEF Continues, PartLen, Sent
      <4> QED
        BY <2>3, <4>1, <4>2
    <3>3. CASE c.offset # 0
      <4>1. Described(c).that = c.image /\ ota.offset_written = c.offset - 1
        BY <2>1, <2>2, <3>3, DescribedFacts DEF Continues
      <4>2. PartLen(c) = c.len
        BY <3>3 DEF PartLen
      <4>3. end = Sent(c.image, c.offset)
        BY <2>2, <3>1, <4>1, <4>2 DEF PartShape, Sent
      <4> QED
        BY <2>3, <4>1, <4>3
    <3> QED
      BY <3>2, <3>3
  <2>5. hosts'[h].reply # NULL => Waits(h, c)
    BY <2>1, <2>3, AnswerStep DEF Replies
  <2>6. AnswerInv(h)'
    <3>1. /\ hosts'[h].reply # NULL => cmdq' = <<>> /\ pc' = "idle"
          /\ hosts'[h].pc = hosts[h].pc /\ hosts'[h].image = hosts[h].image
          /\ hosts'[h].size = hosts[h].size /\ hosts'[h].offset = hosts[h].offset
      BY <2>1, <2>3, AnswerStep DEF Replies
    <3>2. hosts'[h].reply # NULL => /\ hosts[h].pc = "part"
                                    /\ hosts[h].image = c.image
                                    /\ hosts[h].offset = c.offset
      BY <2>2, <2>5 DEF Waits
    <3> QED
      BY <2>4, <3>1, <3>2, RnmOtaAssumption DEF HostInv, AnswerInv, Replies
  <2> QED
    BY <2>1, <2>3, <2>6, AnswerStep DEF HostInv, Replies
<1>11. CASE NoSession
  <2>1. PICK type : Take(type)
    BY <1>11 DEF NoSession
  <2>2. /\ hosts[h].reply = NULL /\ upd = NULL
        /\ UNCHANGED <<ota, upd, hosts>>
    BY <1>11, <2>1, TakenQueue, TakeFacts DEF NoSession
  <2>3. QueueInv(h)'
    BY <2>1, <2>2, TakenQueue DEF QueueInv, Waits
  <2> QED
    BY <2>2, <2>3, RnmOtaAssumption DEF HostInv, AnswerInv, CommitInv, Replies
<1>12. CASE handle_commit
  <2>1. Take("COMMIT") /\ ota # NULL
    BY <1>12 DEF handle_commit
  <2>2. /\ hosts[h].reply = NULL /\ Whole /\ UNCHANGED <<ota, hosts>>
        /\ upd'.from = Head(cmdq).from /\ Head(cmdq).type = "COMMIT"
    BY <1>12, <2>1, TakenQueue, TakeFacts DEF handle_commit
  <2>3. QueueInv(h)'
    BY <2>1, <2>2, TakenQueue DEF QueueInv, Waits
  <2>4. CommitInv(h)'
    BY <2>1, <2>2, TakenQueue DEF CommitInv, Whole, Waits
  <2> QED
    BY <2>2, <2>3, <2>4, RnmOtaAssumption DEF HostInv, AnswerInv, Replies
<1>13. CASE PtErase
  <2>1. hosts[h].reply = NULL /\ UNCHANGED <<ota, upd, cmdq, hosts>>
    BY <1>13 DEF PtErase, HostInv, AnswerInv
  <2> QED
    BY <2>1, RnmOtaAssumption
    DEF HostInv, QueueInv, AnswerInv, CommitInv, Waits, Continues, Whole, Replies
<1>14. CASE PtFails \/ PtWrite
  <2>1. /\ upd # NULL /\ ota' = NULL /\ upd' = NULL /\ pc' = "idle" /\ UNCHANGED cmdq
        /\ Reply(upd.from, "COMMIT_ACK")
    BY <1>14 DEF PtFails, PtWrite, CommitAnswered, Inv, SlotInv
  <2>2. upd.from \in Hosts \cup {NULL}
    BY <2>1 DEF Inv, TypeOK, TableUpdate
  <2>3. hosts'[h].pc = hosts[h].pc /\ hosts'[h].image = hosts[h].image
        /\ hosts'[h].size = hosts[h].size
    BY <2>1, <2>2, ReplyFacts DEF Inv, TypeOK, Replies
  <2>4. CASE upd.from = h
    <3>1. cmdq' = <<>>
      BY <2>1, <2>4 DEF HostInv, CommitInv
    <3> QED
      BY <2>1, <2>3, <3>1 DEF HostInv, QueueInv, AnswerInv, CommitInv
  <2>5. CASE upd.from = NULL
    <3>1. hosts' = hosts
      BY <2>1, <2>5 DEF Reply
    <3> QED
      BY <2>1, <3>1 DEF HostInv, QueueInv, AnswerInv, CommitInv, Waits
  <2> QED
    BY <2>2, <2>4, <2>5
<1>15. CASE PowerLoss \/ UserReboot
  <2>1. /\ cmdq' = <<>> /\ ota' = NULL /\ upd' = NULL /\ pc' = "idle"
        /\ hosts'[h].pc \in {hosts[h].pc, "closed"} /\ hosts'[h].image = hosts[h].image
        /\ hosts'[h].size = hosts[h].size
    BY <1>15 DEF PowerLoss, UserReboot, Reset, Inv, TypeOK, Process
  <2> QED
    BY <2>1 DEF HostInv, QueueInv, AnswerInv, CommitInv
<1>16. CASE UNCHANGED vars
  BY <1>16 DEF vars, HostInv, QueueInv, AnswerInv, CommitInv, Waits, Continues, Whole
<1> QED
  BY <1>1, <1>2, <1>3, <1>4, <1>5, <1>6, <1>7, <1>8, <1>9, <1>10, <1>11, <1>12,
     <1>13, <1>14, <1>15, <1>16
  DEF Next, Host, Device
-----------------------------------------------------------------------------
(* A body that is written to its end and hashed is a whole image.          *)
LEMMA WholeSlot ==
    ASSUME Inv, SessionInv, ota # NULL, Whole
    PROVE  Complete(ota.slot)
<1>1. /\ ota.that \in Images
      /\ ota.body_length = ImageLen[ota.that]
      /\ ota.body_length <= SlotLen[ota.slot]
      /\ ota.offset_written = ImageLen[ota.that]
      /\ ota.sha_ok
      /\ ota.sha_ok => \A b \in 0..(ota.offset_written - 1) :
                          slots[ota.slot][b] = ota.that
  BY DEF SessionInv, Whole
<1> QED
  BY <1>1 DEF Complete

LEMMA CommitWhole ==
    ASSUME NEW h \in Hosts, Inv, SessionInv, HostInv(h)
    PROVE  upd # NULL => Complete(upd.stuff.entries[FW])
  BY WholeSlot DEF HostInv, CommitInv, Inv, SlotInv

(* With one host, whose files are complete, COMMIT switches to a slot that *)
(* holds a whole image: a late, lost or repeated request of that host      *)
(* never lets it reach a session that has not seen the last part.          *)
THEOREM CommittedWhole ==
    ASSUME NEW h, Hosts = {h}, WholeFiles
    PROVE  Spec => []CommittedImageWhole
<1> DEFINE I == Inv /\ SessionInv /\ HostInv(h)
<1>0. h \in Hosts
  OBVIOUS
<1>1. Init => I
  BY <1>0, InitInv, InitSession, InitHost
<1>2. I /\ [Next]_vars => I'
  BY <1>0, NextInv, NextSession, NextHost
<1>3. I => CommittedImageWhole
  BY <1>0, CommitWhole DEF CommittedImageWhole, Inv, SlotInv
<1> HIDE DEF I
<1> QED
  BY <1>1, <1>2, <1>3, PTL DEF Spec
-----------------------------------------------------------------------------
(* From the COMMIT to the reboot. *)
LEMMA InitReboot == ASSUME NEW h \in Hosts, Init PROVE RebootInv(h)
<1>1. cmdq = <<>> /\ upd = NULL /\ running = 0
  BY DEF Init, FactoryFlash
<1>2. /\ tables \in [Copies -> Table \cup {Torn}]
      /\ boot2.idx = 0 /\ tables[0] = boot2.table /\ boot2.table.entries[FW] = 0
      /\ tables[0] # Torn /\ tables[1] = Torn
  <2>1. Inv
    BY InitInv
  <2>2. PICK T \in SUBSET EntryTypes :
           /\ FW \in T
           /\ tables = [c \in Copies |->
                  IF c = 0 THEN [age |-> 0, entries |-> [t \in T |-> 0]] ELSE Torn]
           /\ boot2 = [idx |-> 0, table |-> [age |-> 0, entries |-> [t \in T |-> 0]]]
    BY DEF Init, FactoryFlash
  <2> QED
    BY <2>1, <2>2, PartitionAssumption DEF Inv, TypeOK, FlashTypeOK
<1>3. BootSlot(tables) = 0
  BY <1>2, EitherTable DEF OtherCopy
<1>4. Complete(0)
  <2>1. PICK v \in Images :
           /\ ImageLen[v] <= SlotLen[0]
           /\ slots = [s \in Index |-> [b \in Blocks |->
                          IF s = 0 /\ b < ImageLen[v] THEN v ELSE Blank]]
    BY DEF Init, FactoryFlash
  <2>2. \A b \in 0..(ImageLen[v] - 1) : b \in Blocks /\ b < ImageLen[v]
    BY <2>1, SlotsAssumption DEF Blocks, MaxLen
  <2> QED
    BY <2>1, <2>2 DEF Complete
<1> QED
  BY <1>1, <1>3, <1>4 DEF RebootInv

LEMMA NextReboot ==
    ASSUME NEW h \in Hosts, Hosts = {h}, RebootBeforeRetry,
           Inv, SessionInv, HostInv(h), RebootInv(h), [Next]_vars
    PROVE  RebootInv(h)'
<1>a. /\ running \in Index /\ boot2.idx \in Copies
      /\ tables \in [Copies -> Table \cup {Torn}]
      /\ tables[boot2.idx] = boot2.table /\ boot2.table \in Table
      /\ boot2.table # Torn /\ boot2.table.entries[FW] = running
  BY PartitionAssumption DEF Inv, TypeOK, FlashTypeOK, SlotInv
<1>b. Complete(running) /\ slots'[running] = slots[running]
  BY RunningStep DEF RebootInv
<1>c. running' = running => Complete(running)'
  BY <1>b DEF Complete
<1>1. ASSUME hosts[h].pc \notin {"commit", "reboot"}
      PROVE  /\ BootSlot(tables) = running /\ upd = NULL
             /\ \A i \in 1..Len(cmdq) : cmdq[i].type # "COMMIT"
  BY <1>1 DEF RebootInv, Committed
<1>2. ASSUME UNCHANGED <<tables, running>>, BootSlot(tables) = running, upd' = NULL,
             \A i \in 1..Len(cmdq') : cmdq'[i].type = "COMMIT" => Len(cmdq') = 1 /\ Committed(h)'
      PROVE  RebootInv(h)'
  BY <1>2, <1>c DEF RebootInv, BootSlot, pt_table_get_active_partition
<1>3. ASSUME NEW type, Take(type), UNCHANGED <<tables, running, upd>>
      PROVE  RebootInv(h)'
  <2>1. cmdq # <<>> /\ upd = NULL
    BY <1>3, TakeFacts DEF Take
  <2>2. BootSlot(tables) = running
    BY <2>1 DEF RebootInv
  <2> QED
    BY <1>2, <1>3, <2>1, <2>2, TakenQueue
<1>4. CASE blctl_ota(h) \/ blctl_ota_abort(h) \/ Started(h) \/ PartDone(h)
  <2>1. hosts[h].pc \notin {"commit", "reboot"}
    BY <1>4 DEF blctl_ota, blctl_ota_abort, Started, PartDone
  <2>2. PICK type, point, image, size, offset :
           /\ Send(h, type, point, image, size, offset)
           /\ type = "COMMIT" => point = "commit" /\ hosts[h].reply # NULL
    BY <1>4, RnmOtaAssumption
    DEF blctl_ota, blctl_ota_abort, Started, PartDone, NextRequest, Replies
  <2> DEFINE c == [from |-> h, type |-> type, image |-> image, offset |-> offset,
                   len |-> IF type # "PART" THEN 0
                           ELSE IF size - offset < 2 THEN size - offset ELSE 2]
  <2>3. /\ cmdq' = Append(cmdq, c)
        /\ UNCHANGED <<tables, running, upd>> /\ hosts'[h].pc = point
    BY <2>2 DEF Send, flash, device, Inv, TypeOK
  <2>4. cmdq \in Seq(Command) /\ Len(cmdq) \in Nat
    BY DEF Inv, TypeOK
  <2>5. c.type = type
    OBVIOUS
  <2> HIDE DEF c
  <2>6. ASSUME NEW i \in 1..Len(cmdq'), cmdq'[i].type = "COMMIT"
        PROVE  Len(cmdq') = 1 /\ Committed(h)'
    <3>1. Len(cmdq') = Len(cmdq) + 1 /\ (i \in 1..Len(cmdq) => cmdq'[i] = cmdq[i])
                                     /\ (i = Len(cmdq) + 1 => cmdq'[i] = c)
      BY <2>3, <2>4
    <3>2. i = Len(cmdq) + 1 /\ type = "COMMIT"
      BY <1>1, <2>1, <2>4, <2>5, <2>6, <3>1
    <3>3. cmdq = <<>>
      BY <2>2, <3>2 DEF HostInv, AnswerInv
    <3> QED
      BY <2>2, <2>3, <3>1, <3>2, <3>3 DEF Committed
  <2> QED
    BY <1>1, <1>2, <2>1, <2>3, <2>6
<1>5. CASE HostExits(h)
  <2>1. cmdq = <<>> /\ upd = NULL
    BY <1>5 DEF HostExits, HostInv, AnswerInv, Inv, SlotInv
  <2>2. UNCHANGED <<tables, slots, running, ota, upd, cmdq>>
    BY <1>5 DEF HostExits, flash, device
  <2>3. hosts[h].pc \in {"commit", "reboot"} => hosts'[h].pc = "reboot"
    <3>1. hosts[h].pc \in {"commit", "reboot"} => Exit(h, "reboot")
      BY <1>5 DEF HostExits
    <3> QED
      BY <3>1, HostRecord DEF Exit, Process, Inv, TypeOK
  <2> QED
    BY <1>c, <2>1, <2>2, <2>3
    DEF RebootInv, BootSlot, pt_table_get_active_partition, Complete, Committed
<1>6. CASE HostTimeout(h)
  <2>1. /\ UNCHANGED <<tables, slots, running, ota>>
        /\ upd = NULL => upd' = NULL
    BY <1>6 DEF HostTimeout, flash
  <2>2. cmdq \in Seq(Command) /\ DOMAIN cmdq = 1..Len(cmdq) /\ Len(cmdq) \in Nat
    BY DEF Inv, TypeOK
  <2>3. /\ Len(cmdq') \in Nat /\ Len(cmdq') <= Len(cmdq)
        /\ \A i \in 1..Len(cmdq') :
              \E j \in 1..Len(cmdq) : cmdq'[i].type = cmdq[j].type
    <3>1. CASE cmdq' = [i \in DOMAIN cmdq |-> Orphan(cmdq[i], h)]
      BY <2>2, <3>1, OrphanFacts
    <3>2. ASSUME NEW k \in DOMAIN cmdq, cmdq' = Without(cmdq, k)
          PROVE  /\ Len(cmdq') \in Nat /\ Len(cmdq') <= Len(cmdq)
                 /\ \A i \in 1..Len(cmdq') :
                       \E j \in 1..Len(cmdq) : cmdq'[i].type = cmdq[j].type
      <4>1. Len(cmdq') = Len(cmdq) - 1
        BY <2>2, <3>2, WithoutFacts
      <4>2. ASSUME NEW i \in 1..Len(cmdq')
            PROVE  \E j \in 1..Len(cmdq) : cmdq'[i].type = cmdq[j].type
        <5>1. i \in 1..(Len(cmdq) - 1) /\ i \in 1..Len(cmdq) /\ i + 1 \in 1..Len(cmdq)
          BY <2>2, <4>1
        <5>2. cmdq'[i] = IF i < k THEN cmdq[i] ELSE cmdq[i + 1]
          BY <2>2, <3>2, <5>1, WithoutFacts
        <5> QED
          BY <5>1, <5>2
      <4> QED
        BY <2>2, <3>2, <4>1, <4>2
    <3> QED
      BY <1>6, <3>1, <3>2 DEF HostTimeout
  <2>4. CASE hosts[h].pc \in {"commit", "reboot"}
    <3>1. hosts'[h].pc = "reboot"
      <4>1. Exit(h, "reboot")
        BY <1>6, <2>4 DEF HostTimeout
      <4> QED
        BY <4>1, HostRecord DEF Exit, Process, Inv, TypeOK
    <3>2. cmdq = <<>> => cmdq' = <<>>
      BY <2>2, <2>3, <1>6 DEF HostTimeout
    <3>3. ASSUME NEW i \in 1..Len(cmdq'), cmdq'[i].type = "COMMIT"
          PROVE  Len(cmdq') = 1
      <4>1. Len(cmdq) = 1
        BY <2>3, <3>3 DEF RebootInv
      <4>2. Len(cmdq') \in Nat /\ Len(cmdq') <= 1
        BY <2>3, <4>1
      <4> QED
        BY <3>3, <4>2
    <3>4. upd' # NULL => upd # NULL
      BY <2>1
    <3> QED
      BY <1>c, <2>1, <3>1, <3>2, <3>3, <3>4
      DEF RebootInv, BootSlot, pt_table_get_active_partition, Complete, Committed
  <2>5. CASE hosts[h].pc \notin {"commit", "reboot"}
    BY <1>1, <1>2, <2>1, <2>3, <2>5
  <2> QED
    BY <2>4, <2>5
<1>7. CASE StartRefused \/ StartFails \/ handle_start \/ PartRefused \/ handle_program_part
           \/ handle_abort \/ NoSession
  <2>1. (\E type : Take(type)) /\ UNCHANGED <<tables, running, upd>>
    BY <1>7 DEF StartRefused, StartFails, handle_start, PartRefused, handle_program_part,
                handle_abort, NoSession, flash, device
  <2> QED
    BY <1>3, <2>1
<1>8. CASE handle_commit
  <2>1. /\ Take("COMMIT") /\ cmdq # <<>> /\ UNCHANGED <<tables, running, hosts>>
    BY <1>8 DEF handle_commit, Take, flash
  <2>2. BootSlot(tables) = running
    BY <2>1 DEF RebootInv
  <2>3. Len(cmdq) = 1 /\ Committed(h)
    BY <2>1, TakeFacts DEF RebootInv
  <2>4. cmdq' = <<>>
    BY <2>1, <2>3, TakeFacts
  <2> QED
    BY <1>c, <2>1, <2>2, <2>3, <2>4
    DEF RebootInv, BootSlot, pt_table_get_active_partition, Committed
<1>d. ASSUME NEW t \in Table \cup {Torn}, upd # NULL,
             tables' = [tables EXCEPT ![upd.target] = t],
             UNCHANGED running
      PROVE  /\ t = Torn => BootSlot(tables') = running
             /\ BootSlot(tables') \in {running, t.entries[FW]}
  <2>1. upd.target = OtherCopy(boot2.idx) /\ upd.target \in Copies /\ upd.target # boot2.idx
    BY <1>a, <1>d DEF Inv, SlotInv, OtherCopy
  <2>2. /\ tables' \in [Copies -> Table \cup {Torn}]
        /\ tables'[boot2.idx] = boot2.table /\ tables'[OtherCopy(boot2.idx)] = t
    BY <1>a, <1>d, <2>1
  <2> QED
    BY <1>a, <2>2, EitherTable
<1>9. CASE PtErase
  <2>1. /\ upd # NULL /\ tables' = [tables EXCEPT ![upd.target] = Torn]
        /\ UNCHANGED <<slots, running, upd, cmdq, hosts>>
    BY <1>9 DEF PtErase, Inv, SlotInv
  <2>2. BootSlot(tables') = running
    BY <1>d, <2>1
  <2> QED
    BY <1>c, <2>1, <2>2 DEF RebootInv, BootSlot, pt_table_get_active_partition, Committed
<1>10. CASE PtFails \/ PtWrite
  <2>1. /\ upd # NULL /\ ota' = NULL /\ upd' = NULL
        /\ UNCHANGED <<slots, running, cmdq>>
        /\ \/ tables' = tables
           \/ tables' = [tables EXCEPT ![upd.target] = Torn]
           \/ tables' = [tables EXCEPT ![upd.target] = upd.stuff]
        /\ Reply(upd.from, "COMMIT_ACK")
    BY <1>10 DEF PtFails, PtWrite, CommitAnswered, Inv, SlotInv
  <2>2. cmdq = <<>> /\ Committed(h) /\ BootSlot(tables) = running
    BY <2>1 DEF RebootInv
  <2>3. hosts'[h].pc = hosts[h].pc
    <3>1. upd.from \in Hosts \cup {NULL}
      BY <2>1 DEF Inv, TypeOK, TableUpdate
    <3> QED
      BY <2>1, <3>1, ReplyFacts DEF Inv, TypeOK, Replies
  <2>4. upd.stuff \in Table
    BY <2>1 DEF Inv, TypeOK, TableUpdate
  <2>5. BootSlot(tables') \in {running, upd.stuff.entries[FW]}
    BY <1>d, <2>1, <2>2, <2>4
  <2>6. Complete(upd.stuff.entries[FW])
    BY <2>1, CommitWhole
  <2>7. PICK s \in {running, upd.stuff.entries[FW]} : s = BootSlot(tables')
    BY <2>5
  <2>8. Complete(s)'
    BY <1>b, <2>1, <2>6, <2>7 DEF Complete
  <2>9. s = BootSlot(tables)'
    BY <2>7 DEF BootSlot, pt_table_get_active_partition
  <2>10. Complete(BootSlot(tables))'
    BY <2>8, <2>9 DEF Complete
  <2> QED
    BY <1>c, <2>1, <2>2, <2>3, <2>10 DEF RebootInv, Committed
<1>11. CASE PowerLoss \/ UserReboot
  <2>1. /\ UNCHANGED <<tables, slots>> /\ running' = BootSlot(tables)
        /\ upd' = NULL /\ cmdq' = <<>>
    BY <1>11 DEF PowerLoss, UserReboot, Reset, Boot, BootSlot, flash
  <2>2. Complete(BootSlot(tables))
    BY DEF RebootInv
  <2>3. Complete(running)'
    BY <2>1, <2>2 DEF Complete
  <2> QED
    BY <2>1, <2>3 DEF RebootInv, BootSlot, pt_table_get_active_partition
<1>12. CASE UNCHANGED vars
  BY <1>12, <1>c DEF vars, RebootInv, BootSlot, pt_table_get_active_partition, Complete, Committed
<1> QED
  BY <1>4, <1>5, <1>6, <1>7, <1>8, <1>9, <1>10, <1>11, <1>12
  DEF Next, Host, Device

(* If the user reboots the card after every COMMIT that was not answered,  *)
(* the next boot finds a valid table, and a whole image in the slot that   *)
(* this table selects, wherever power is lost and whatever times out.      *)
THEOREM BootedImageWhole ==
    ASSUME NEW h, Hosts = {h}, WholeFiles, RebootBeforeRetry
    PROVE  Spec => []BootImageComplete
<1> DEFINE I == Inv /\ SessionInv /\ HostInv(h) /\ RebootInv(h)
<1>0. h \in Hosts
  OBVIOUS
<1>1. Init => I
  BY <1>0, InitInv, InitSession, InitHost, InitReboot
<1>2. I /\ [Next]_vars => I'
  BY <1>0, NextInv, NextSession, NextHost, NextReboot
<1>3. I => BootImageComplete
  <2> SUFFICES ASSUME I PROVE BootImageComplete
    OBVIOUS
  <2>1. /\ boot2.idx \in Copies /\ tables \in [Copies -> Table \cup {Torn}]
        /\ tables[boot2.idx] # Torn
    BY PartitionAssumption DEF Inv, TypeOK, FlashTypeOK, SlotInv
  <2>2. pt_table_get_active_partition(tables) # INVALID
    BY <2>1, EitherTable
  <2>3. Complete(BootSlot(tables))
    BY DEF RebootInv
  <2> QED
    BY <2>2, <2>3 DEF BootImageComplete
<1> HIDE DEF I
<1> QED
  BY <1>1, <1>2, <1>3, PTL DEF Spec
=============================================================================
