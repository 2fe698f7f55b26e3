----------------------------- MODULE ShellInput -----------------------------
(***************************************************************************)
(* The input of the shell, components/shell/shell_freertos.c: the receive  *)
(* interrupt of the UART writes a ring buffer without a lock, the shell    *)
(* task reads it.  The interrupt runs to its end between any two memory    *)
(* accesses of the task; the accesses themselves are not volatile, so the  *)
(* compiler may swap two that do not depend on each other.                 *)
(*                                                                         *)
(* The bytes that arrive are numbered, 0 is what the buffer held before.   *)
(***************************************************************************)
EXTENDS RingOps

CONSTANTS MaxBytes,         \* bound on the bytes that arrive
          FirstStores,      \* of the two stores that end a round, those that may come first
          Paced             \* does the sender leave no more unread than the buffer holds?

ASSUME ShellInputAssumption ==
    /\ MaxBytes \in Nat
    /\ Data = 0..MaxBytes
    /\ FirstStores # {} /\ FirstStores \subseteq {"index", "mirror"}
    /\ Paced \in BOOLEAN

VARIABLES
    rb,             \* shell_rb
    sem,            \* sem_shell, a binary semaphore
    pc,             \* the point the shell task has reached
    seen,           \* what Ring_Buffer_Get_Length has loaded of the write end
    len,            \* the iterations left of the loop over shell_handler
    data,           \* the byte the loop hands to shell_handler
    sent,           \* the number of bytes that arrived
    accepted,       \* history: those that found space
    taken           \* history: the number of bytes Ring_Buffer_Read_Byte delivered

vars == <<rb, sem, pc, seen, len, data, sent, accepted, taken>>

(* The task samples the length twice: for the loop ("length"), and in each *)
(* Ring_Buffer_Read_Byte ("read").                                         *)
Points == {"wait", "length", "read", "load", "store", "index", "mirror"}
Unseen == [mirror |-> {}, index |-> {}]
-----------------------------------------------------------------------------
Init ==
    /\ rb = [buf |-> [i \in Slots |-> 0], readMirror |-> FALSE, readIndex |-> 0,
             writeMirror |-> FALSE, writeIndex |-> 0]
    /\ sem = TRUE                       \* vSemaphoreCreateBinary gives it
    /\ pc = "wait"
    /\ seen = Unseen
    /\ len = 0
    /\ data = 0
    /\ sent = 0
    /\ accepted = <<>>
    /\ taken = 0
-----------------------------------------------------------------------------
(* A byte for which there is no space is lost. *)
Ring_Buffer_Write_Byte(d) ==
    IF Ring_Buffer_Get_Empty_Length(rb) # 0
    THEN rb' = Written(rb, <<d>>) /\ accepted' = Append(accepted, d)
    ELSE UNCHANGED <<rb, accepted>>

(* The FIFO is emptied, then the task is woken; the receive time-out may   *)
(* find the FIFO empty.  An interrupt that finds several bytes is as many  *)
(* interrupts in a row: it writes byte by byte, and to give the binary     *)
(* semaphore once more changes nothing.                                    *)
uart_shell_isr ==
    /\ \/ /\ sent < MaxBytes
          /\ Paced => Len(accepted) - taken < Size
          /\ sent' = sent + 1
          /\ Ring_Buffer_Write_Byte(sent + 1)
       \/ UNCHANGED <<rb, sent, accepted>>
    /\ sem' = TRUE
    /\ UNCHANGED <<pc, seen, len, data, taken>>
-----------------------------------------------------------------------------
(* The writer's mirror and index are two loads.  The reader's are the      *)
(* task's own.                                                             *)
LoadMirror ==
    /\ pc \in {"length", "read"}
    /\ seen.mirror = {}
    /\ seen' = [seen EXCEPT !.mirror = {rb.writeMirror}]
    /\ UNCHANGED <<rb, sem, pc, len, data, sent, accepted, taken>>

LoadIndex ==
    /\ pc \in {"length", "read"}
    /\ seen.index = {}
    /\ seen' = [seen EXCEPT !.index = {rb.writeIndex}]
    /\ UNCHANGED <<rb, sem, pc, len, data, sent, accepted, taken>>

SampledLength(length) ==
    \E mirror \in seen.mirror, index \in seen.index :
        length = LengthOf(rb.readMirror, mirror, rb.readIndex, index)

TakeSemaphore ==
    /\ pc = "wait"
    /\ sem
    /\ sem' = FALSE
    /\ pc' = "length"
    /\ UNCHANGED <<rb, seen, len, data, sent, accepted, taken>>

(* Deviation: the task waits again without looking at the rest. *)
StartLoopOnce ==
    /\ pc = "length"
    /\ \E n \in 0..(Word - 1) : SampledLength(n) /\ len' = IF n > 1 THEN 1 ELSE n
    /\ pc' = IF len' = 0 THEN "wait" ELSE "read"
    /\ seen' = Unseen
    /\ UNCHANGED <<rb, sem, data, sent, accepted, taken>>

(* Deviation: what woke the task in the meantime is forgotten. *)
StartLoopDrains ==
    /\ pc = "length"
    /\ \E n \in 0..(Word - 1) : SampledLength(n) /\ len' = n
    /\ pc' = IF len' = 0 THEN "wait" ELSE "read"
    /\ seen' = Unseen
    /\ sem' = FALSE
    /\ UNCHANGED <<rb, data, sent, accepted, taken>>

StartLoop ==
    /\ pc = "length"
    /\ \E n \in 0..(Word - 1) : SampledLength(n) /\ len' = n
    /\ pc' = IF len' = 0 THEN "wait" ELSE "read"
    /\ seen' = Unseen
    /\ UNCHANGED <<rb, sem, data, sent, accepted, taken>>

(* shell_handler(data), and the next round of the loop. *)
EndRound == len' = len - 1 /\ pc' = IF len = 1 THEN "wait" ELSE "read"

(* Ring_Buffer_Read_Byte found nothing; the loop ignores its result and    *)
(* hands the byte of the round before to the handler once more.            *)
ReadNothing ==
    /\ pc = "read"
    /\ SampledLength(0)
    /\ seen' = Unseen
    /\ EndRound
    /\ UNCHANGED <<rb, sem, data, sent, accepted, taken>>

ReadSomething ==
    /\ pc = "read"
    /\ \E n \in 1..(Word - 1) : SampledLength(n)
    /\ seen' = Unseen
    /\ pc' = "load"
    /\ UNCHANGED <<rb, sem, len, data, sent, accepted, taken>>

LoadByte ==
    /\ pc = "load"
    /\ data' = rb.buf[rb.readIndex]
    /\ pc' = "store"
    /\ UNCHANGED <<rb, sem, seen, len, sent, accepted, taken>>

AtEnd == rb.readIndex = Size - 1

StoreIndex ==
    /\ pc = "store" /\ ~AtEnd
    /\ rb' = [rb EXCEPT !.readIndex = @ + 1]
    /\ taken' = taken + 1
    /\ EndRound
    /\ UNCHANGED <<sem, seen, data, sent, accepted>>

(* At the end of the buffer index and mirror change, in two stores. *)
FirstStore ==
    /\ pc = "store" /\ AtEnd
    /\ \/ /\ "index" \in FirstStores
          /\ rb' = [rb EXCEPT !.readIndex = 0]
          /\ pc' = "mirror"
       \/ /\ "mirror" \in FirstStores
          /\ rb' = [rb EXCEPT !.readMirror = ~@]
          /\ pc' = "index"
    /\ UNCHANGED <<sem, seen, len, data, sent, accepted, taken>>

(* Deviation: the mirror is left alone at the end of the buffer. *)
SecondStoreSameMirror ==
    /\ pc \in {"index", "mirror"}
    /\ rb' = [rb EXCEPT !.readIndex = 0]
    /\ taken' = taken + 1
    /\ EndRound
    /\ UNCHANGED <<sem, seen, data, sent, accepted>>

SecondStore ==
    /\ pc \in {"index", "mirror"}
    /\ rb' = IF pc = "index" THEN [rb EXCEPT !.readIndex = 0]
                             ELSE [rb EXCEPT !.readMirror = ~@]
    /\ taken' = taken + 1
    /\ EndRound
    /\ UNCHANGED <<sem, seen, data, sent, accepted>>
-----------------------------------------------------------------------------
shell_task ==
    \/ TakeSemaphore \/ LoadMirror \/ LoadIndex \/ StartLoop
    \/ ReadNothing \/ ReadSomething \/ LoadByte
    \/ StoreIndex \/ FirstStore \/ SecondStore

Next == uart_shell_isr \/ shell_task

(* The scheduler runs the shell task; nobody need type. *)
Spec == Init /\ [][Next]_vars /\ WF_vars(shell_task)
-----------------------------------------------------------------------------
(* Every variable has its type. *)
TypeOK ==
    /\ rb \in Ring
    /\ sem \in BOOLEAN
    /\ pc \in Points
    /\ seen \in [mirror : SUBSET BOOLEAN, index : SUBSET Slots]
    /\ len \in 0..(Word - 1)
    /\ data \in Data
    /\ sent \in 0..MaxBytes
    /\ accepted \in Seq(Data)
    /\ taken \in 0..Len(accepted)

(* The ring once the read in progress is complete. *)
Settled ==
    CASE pc = "index"  -> [rb EXCEPT !.readIndex = 0]
      [] pc = "mirror" -> [rb EXCEPT !.readMirror = ~@]
      [] OTHER         -> rb

(* No byte that the interrupt wrote is overwritten, skipped or taken twice *)
(* by the task, wherever in the task's accesses the interrupt runs.        *)
TakenInOrder ==
    LET n == taken + (IF pc \in {"index", "mirror"} THEN 1 ELSE 0) IN
    /\ Contents(Settled) = SubSeq(accepted, n + 1, Len(accepted))
    /\ pc \in {"store", "index", "mirror"} => data = accepted[taken + 1]

(* The task never sleeps on a byte: one that is still in the buffer has    *)
(* woken it.                                                               *)
NoLostWakeup == pc = "wait" /\ Ring_Buffer_Get_Length(rb) # 0 => sem

(* Every byte that was stored reaches the handler. *)
EveryByteTaken ==
    \A n \in 1..MaxBytes : (Len(accepted) >= n) ~> (taken >= n)

(* A byte is dropped when the buffer has no space for it, and only then.   *)
AcceptsWhatFits ==
    [][sent' # sent => (accepted' # accepted <=> Len(accepted) - taken < Size)]_vars
=============================================================================
