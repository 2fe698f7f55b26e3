------------------------------ MODULE RingOps -------------------------------
(***************************************************************************)
(* The data structure of components/utils/ring_buffer/ring_buffer.c: a     *)
(* row of bytes, an index and a mirror bit for each end.  The mirror bits  *)
(* tell a full buffer from an empty one: they differ while the writer is   *)
(* one round ahead of the reader.  Lengths are unsigned words, and         *)
(* subtracting indices that do not belong together wraps around.           *)
(***************************************************************************)
EXTENDS Integers, Sequences

CONSTANTS Size,     \* rbType->size
          Data,     \* the bytes
          Word      \* 2^32, the modulus of uint32_t

ASSUME RingAssumption == Size \in Nat \ {0} /\ Word \in Nat /\ Word > 2 * Size

Slots == 0..(Size - 1)

Ring == [buf : [Slots -> Data], readMirror : BOOLEAN, readIndex : Slots,
         writeMirror : BOOLEAN, writeIndex : Slots]

(* The difference of two lengths, as uint32_t holds it. *)
Wrap(x) == IF x < 0 THEN x + Word ELSE x

LengthOf(readMirror, writeMirror, readIndex, writeIndex) ==
    IF readMirror = writeMirror THEN Wrap(writeIndex - readIndex)
                                ELSE Wrap(Size - Wrap(readIndex - writeIndex))

Ring_Buffer_Get_Length(rb) ==
    LengthOf(rb.readMirror, rb.writeMirror, rb.readIndex, rb.writeIndex)

Ring_Buffer_Get_Empty_Length(rb) == Wrap(Size - Ring_Buffer_Get_Length(rb))

Full(rb) == rb.readIndex = rb.writeIndex /\ rb.readMirror # rb.writeMirror

Slot(i) == IF i < Size THEN i ELSE i - Size

(* The bytes in the buffer, oldest first. *)
Contents(rb) ==
    [k \in 1..Ring_Buffer_Get_Length(rb) |-> rb.buf[Slot(rb.readIndex + k - 1)]]

(* Deviation: a move that ends exactly at the end of the buffer stays there. *)
MovedPastEnd(index, n) == IF Size - index >= n THEN index + n ELSE n - (Size - index)

(* An index that moves on by n stays in its mirror, or starts the next.    *)
Moved(index, n) == IF Size - index > n THEN index + n ELSE n - (Size - index)
Mirrored(mirror, index, n) == IF Size - index > n THEN mirror ELSE ~mirror

(* Deviation: the part beyond the end of the buffer is not copied. *)
FirstPartCopied(rb, s) ==
    [i \in Slots |-> LET k == i - rb.writeIndex
                     IN IF k >= 0 /\ k < Len(s) THEN s[k + 1] ELSE rb.buf[i]]

(* The bytes s from the write index on, in one part or in two. *)
Copied(rb, s) ==
    [i \in Slots |->
        LET k == IF i >= rb.writeIndex THEN i - rb.writeIndex
                                       ELSE i + Size - rb.writeIndex
        IN IF k < Len(s) THEN s[k + 1] ELSE rb.buf[i]]

Written(rb, s) ==
    [rb EXCEPT !.buf         = Copied(rb, s),
               !.writeIndex  = Moved(rb.writeIndex, Len(s)),
               !.writeMirror = Mirrored(rb.writeMirror, rb.writeIndex, Len(s))]

(* Deviation: the mirror is left alone at the end of the buffer. *)
DropsSameMirror(rb, n) == [rb EXCEPT !.readIndex = Moved(@, n)]

(* n bytes are taken from the read end. *)
Dropped(rb, n) ==
    [rb EXCEPT !.readIndex  = Moved(rb.readIndex, n),
               !.readMirror = Mirrored(rb.readMirror, rb.readIndex, n)]
=============================================================================
