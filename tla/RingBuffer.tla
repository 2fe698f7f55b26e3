----------------------------- MODULE RingBuffer -----------------------------
(***************************************************************************)
(* The operations of ring_buffer.c one at a time, as a caller with a lock  *)
(* that covers the whole call would see them.                              *)
(***************************************************************************)
EXTENDS RingOps

CONSTANTS MaxLen,           \* the longest request
          ForceOverwrites   \* may a forced write be longer than the free space?

ASSUME RingBufferAssumption == MaxLen \in Nat \ {0} /\ ForceOverwrites \in BOOLEAN

VARIABLES
    rb,             \* *rbType
    call,           \* the last call, with its argument
    got,            \* what the last read or peek delivered
    ret             \* the length the last call returned

vars == <<rb, call, got, ret>>

Call(op, data, length) == [op |-> op, data |-> data, length |-> length]

Requests == UNION {[1..n -> Data] : n \in 0..MaxLen}

Smaller(m, n) == IF m <= n THEN m ELSE n

(* Ring_Buffer_Init; what the memory held before does not matter. *)
Ring_Buffer_Init ==
    /\ \E d \in Data : rb = [buf |-> [i \in Slots |-> d],
                             readMirror |-> FALSE, readIndex |-> 0,
                             writeMirror |-> FALSE, writeIndex |-> 0]
    /\ call = Call("Init", <<>>, 0)
    /\ got = <<>>
    /\ ret = 0

Ring_Buffer_Reset ==
    /\ rb' = [rb EXCEPT !.readMirror = FALSE, !.readIndex = 0,
                        !.writeMirror = FALSE, !.writeIndex = 0]
    /\ call' = Call("Reset", <<>>, 0)
    /\ UNCHANGED <<got, ret>>

Ring_Buffer_Write(s) ==
    LET n == Smaller(Len(s), Ring_Buffer_Get_Empty_Length(rb)) IN
    /\ rb' = IF Ring_Buffer_Get_Empty_Length(rb) = 0
             THEN rb ELSE Written(rb, SubSeq(s, 1, n))
    /\ call' = Call("Write", s, Len(s))
    /\ ret' = n
    /\ UNCHANGED got

Ring_Buffer_Write_Byte(d) ==
    /\ rb' = IF Ring_Buffer_Get_Empty_Length(rb) = 0 THEN rb ELSE Written(rb, <<d>>)
    /\ call' = Call("Write", <<d>>, 1)
    /\ ret' = IF Ring_Buffer_Get_Empty_Length(rb) = 0 THEN 0 ELSE 1
    /\ UNCHANGED got

(* When the new bytes overwrite old ones the read end follows the write    *)
(* end.  In the branch that crosses the end of the buffer both mirrors are *)
(* inverted.                                                               *)
Ring_Buffer_Write_Force(s) ==
    LET t    == IF Len(s) > Size THEN SubSeq(s, Len(s) - Size + 1, Len(s)) ELSE s
        new  == Written(rb, t)
        over == Len(t) > Ring_Buffer_Get_Empty_Length(rb)
    IN
    /\ over => ForceOverwrites
    /\ rb' = IF ~over THEN new
             ELSE [new EXCEPT !.readIndex  = new.writeIndex,
                              !.readMirror = Mirrored(@, rb.writeIndex, Len(t))]
    /\ call' = Call("WriteForce", s, Len(s))
    /\ ret' = Len(t)
    /\ UNCHANGED got

Ring_Buffer_Write_Byte_Force(d) ==
    LET new == Written(rb, <<d>>) IN
    /\ rb' = IF ~Full(rb) THEN new
             ELSE [new EXCEPT !.readIndex  = new.writeIndex,
                              !.readMirror = Mirrored(@, rb.writeIndex, 1)]
    /\ call' = Call("WriteForce", <<d>>, 1)
    /\ ret' = 1
    /\ UNCHANGED got

Delivered(n) == [k \in 1..n |-> rb.buf[Slot(rb.readIndex + k - 1)]]

Ring_Buffer_Read(length) ==
    LET n == Smaller(length, Ring_Buffer_Get_Length(rb)) IN
    /\ got' = Delivered(n)
    /\ rb' = IF Ring_Buffer_Get_Length(rb) = 0 THEN rb ELSE Dropped(rb, n)
    /\ call' = Call("Read", <<>>, length)
    /\ ret' = n

Ring_Buffer_Read_Byte == Ring_Buffer_Read(1)

Ring_Buffer_Peek(length) ==
    LET n == Smaller(length, Ring_Buffer_Get_Length(rb)) IN
    /\ got' = Delivered(n)
    /\ call' = Call("Peek", <<>>, length)
    /\ ret' = n
    /\ UNCHANGED rb

Ring_Buffer_Peek_Byte == Ring_Buffer_Peek(1)

Next ==
    \/ Ring_Buffer_Reset
    \/ \E s \in Requests : Ring_Buffer_Write(s) \/ Ring_Buffer_Write_Force(s)
    \/ \E d \in Data : Ring_Buffer_Write_Byte(d) \/ Ring_Buffer_Write_Byte_Force(d)
    \/ \E n \in 0..MaxLen : Ring_Buffer_Read(n) \/ Ring_Buffer_Peek(n)
    \/ Ring_Buffer_Read_Byte \/ Ring_Buffer_Peek_Byte

Spec == Ring_Buffer_Init /\ [][Next]_vars
-----------------------------------------------------------------------------
(* The indices stay inside the buffer, and so do the lengths. *)
TypeOK ==
    /\ rb \in Ring
    /\ got \in Seq(Data)
    /\ ret \in 0..Size

(* The writer is never behind the reader and never a round and a byte      *)
(* ahead: no byte is read that was not written, and none read twice.       *)
LengthInRange == Ring_Buffer_Get_Length(rb) \in 0..Size

(* Every operation does to the contents what it does to a bounded queue.   *)
Queue == INSTANCE RingQueue WITH queue <- Contents(rb)
IsQueue == Queue!Spec
=============================================================================
