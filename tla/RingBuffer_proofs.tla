------------------------- MODULE RingBuffer_proofs --------------------------
(***************************************************************************)
(* Proofs about RingBuffer for every size, every set of bytes and every    *)
(* length of a request.                                                    *)
(***************************************************************************)
EXTENDS RingBuffer, SequenceTheorems, TLAPS

(* The mirrors tell which end is ahead in the row. *)
Ordered(b) ==
    /\ b.readMirror = b.writeMirror => b.readIndex <= b.writeIndex
    /\ b.readMirror # b.writeMirror => b.writeIndex <= b.readIndex

(* The inductive invariant. *)
Inv == TypeOK /\ Ordered(rb)

USE RingAssumption, RingBufferAssumption
-----------------------------------------------------------------------------
(* The length without the words around it. *)
LengthIs(b) ==
    Ring_Buffer_Get_Length(b) = IF b.readMirror = b.writeMirror
                                THEN b.writeIndex - b.readIndex
                                ELSE Size - (b.readIndex - b.writeIndex)

(* In an ordered buffer no subtraction of Ring_Buffer_Get_Length wraps. *)
LEMMA LengthBounds ==
    ASSUME NEW b \in Ring, Ordered(b)
    PROVE  /\ Ring_Buffer_Get_Length(b) =
                IF b.readMirror = b.writeMirror THEN b.writeIndex - b.readIndex
                                                ELSE Size - (b.readIndex - b.writeIndex)
           /\ Ring_Buffer_Get_Length(b) \in 0..Size
           /\ Ring_Buffer_Get_Empty_Length(b) = Size - Ring_Buffer_Get_Length(b)
  BY DEF Ring, Slots, Ordered, Ring_Buffer_Get_Length, Ring_Buffer_Get_Empty_Length,
         LengthOf, Wrap

(* A copy of any bytes into the row leaves a row of bytes. *)
LEMMA CopiedType ==
    ASSUME NEW b \in Ring, NEW s \in Seq(Data)
    PROVE  /\ Copied(b, s) \in [Slots -> Data]
           /\ \A k \in 0..(Size - 1) :
                 Copied(b, s)[Slot(b.writeIndex + k)] =
                    IF k < Len(s) THEN s[k + 1] ELSE b.buf[Slot(b.writeIndex + k)]
  <1>1. Copied(b, s) \in [Slots -> Data]
    BY DEF Copied, Slots, Ring
  <1>2. ASSUME NEW k \in 0..(Size - 1)
        PROVE  Copied(b, s)[Slot(b.writeIndex + k)] =
                  IF k < Len(s) THEN s[k + 1] ELSE b.buf[Slot(b.writeIndex + k)]
    <2> DEFINE j == Slot(b.writeIndex + k)
    <2>0. /\ j \in Slots
          /\ (IF j >= b.writeIndex THEN j - b.writeIndex
                                   ELSE j + Size - b.writeIndex) = k
      BY DEF Slots, Ring, Slot
    <2> HIDE DEF j
    <2>1. Copied(b, s)[j] = IF k < Len(s) THEN s[k + 1] ELSE b.buf[j]
      BY <2>0 DEF Copied
    <2>2. QED BY <2>1 DEF j
  <1>3. QED BY <1>1, <1>2

(* A write that fits lengthens the contents by exactly its bytes. *)
LEMMA WrittenKeeps ==
    ASSUME NEW b \in Ring, Ordered(b), NEW s \in Seq(Data),
           Len(s) <= Size - Ring_Buffer_Get_Length(b)
    PROVE  /\ Written(b, s) \in Ring
           /\ Ordered(Written(b, s))
           /\ Ring_Buffer_Get_Length(Written(b, s)) = Ring_Buffer_Get_Length(b) + Len(s)
  <1> DEFINE c == Written(b, s)
  <1>1. Copied(b, s) \in [Slots -> Data]
    BY CopiedType
  <1>2. /\ c.buf = Copied(b, s)
        /\ c.readMirror = b.readMirror
        /\ c.readIndex = b.readIndex
        /\ c.writeIndex = Moved(b.writeIndex, Len(s))
        /\ c.writeMirror = Mirrored(b.writeMirror, b.writeIndex, Len(s))
    BY DEF Written, Ring
  <1>3. Moved(b.writeIndex, Len(s)) \in Slots
    BY LengthBounds DEF Moved, Ring, Slots
  <1>4. Mirrored(b.writeMirror, b.writeIndex, Len(s)) \in BOOLEAN
    BY DEF Mirrored, Ring
  <1>5. c \in Ring
    BY <1>1, <1>3, <1>4 DEF Written, Ring
  <1>6. CASE Size - b.writeIndex > Len(s)
    <2>1. c.writeIndex = b.writeIndex + Len(s) /\ c.writeMirror = b.writeMirror
      BY <1>2, <1>6 DEF Moved, Mirrored
    <2>2. Ordered(c)
      BY <1>2, <2>1, LengthBounds DEF Ordered, Ring, Slots
    <2>3. LengthIs(b) /\ LengthIs(c)
      BY <1>5, <2>2, LengthBounds DEF LengthIs
    <2>4. QED BY <1>2, <1>5, <2>1, <2>2, <2>3 DEF Ring, Slots, LengthIs
  <1>7. CASE ~(Size - b.writeIndex > Len(s))
    <2>1. c.writeIndex = Len(s) - (Size - b.writeIndex) /\ c.writeMirror = ~b.writeMirror
      BY <1>2, <1>7 DEF Moved, Mirrored
    <2>2. b.readMirror = b.writeMirror
      BY <1>7, LengthBounds DEF Ordered, Ring, Slots
    <2>3. c.readMirror # c.writeMirror
      BY <1>2, <2>1, <2>2, Zenon DEF Ring
    <2>4. Ordered(c)
      BY <1>2, <2>1, <2>2, <2>3, LengthBounds DEF Ordered, Ring, Slots
    <2>5. LengthIs(b) /\ LengthIs(c)
      BY <1>5, <2>4, LengthBounds DEF LengthIs
    <2>6. QED BY <1>2, <1>5, <2>1, <2>2, <2>3, <2>4, <2>5 DEF Ring, Slots, LengthIs
  <1>8. QED BY <1>6, <1>7

(* Taking no more than there is shortens the contents by that much. *)
LEMMA DroppedKeeps ==
    ASSUME NEW b \in Ring, Ordered(b), NEW n \in Nat,
           n <= Ring_Buffer_Get_Length(b)
    PROVE  /\ Dropped(b, n) \in Ring
           /\ Ordered(Dropped(b, n))
           /\ Ring_Buffer_Get_Length(Dropped(b, n)) = Ring_Buffer_Get_Length(b) - n
  <1> DEFINE c == Dropped(b, n)
  <1>2. /\ c.buf = b.buf
        /\ c.writeMirror = b.writeMirror
        /\ c.writeIndex = b.writeIndex
        /\ c.readIndex = Moved(b.readIndex, n)
        /\ c.readMirror = Mirrored(b.readMirror, b.readIndex, n)
    BY DEF Dropped, Ring
  <1>3. Moved(b.readIndex, n) \in Slots
    BY LengthBounds DEF Moved, Ring, Slots
  <1>4. Mirrored(b.readMirror, b.readIndex, n) \in BOOLEAN
    BY DEF Mirrored, Ring
  <1>5. c \in Ring
    BY <1>3, <1>4 DEF Dropped, Ring
  <1>6. CASE Size - b.readIndex > n
    <2>1. c.readIndex = b.readIndex + n /\ c.readMirror = b.readMirror
      BY <1>2, <1>6 DEF Moved, Mirrored
    <2>2. Ordered(c)
      BY <1>2, <2>1, LengthBounds DEF Ordered, Ring, Slots
    <2>3. LengthIs(b) /\ LengthIs(c)
      BY <1>5, <2>2, LengthBounds DEF LengthIs
    <2>4. QED BY <1>2, <1>5, <2>1, <2>2, <2>3 DEF Ring, Slots, LengthIs
  <1>7. CASE ~(Size - b.readIndex > n)
    <2>1. c.readIndex = n - (Size - b.readIndex) /\ c.readMirror = ~b.readMirror
      BY <1>2, <1>7 DEF Moved, Mirrored
    <2>2. b.readMirror # b.writeMirror
      BY <1>7, LengthBounds DEF Ordered, Ring, Slots
    <2>3. c.readMirror = c.writeMirror
      BY <1>2, <2>1, <2>2, Zenon DEF Ring
    <2>4. Ordered(c)
      BY <1>2, <2>1, <2>2, <2>3, LengthBounds DEF Ordered, Ring, Slots
    <2>5. LengthIs(b) /\ LengthIs(c)
      BY <1>5, <2>4, LengthBounds DEF LengthIs
    <2>6. QED BY <1>2, <1>5, <2>1, <2>2, <2>3, <2>4, <2>5 DEF Ring, Slots, LengthIs
  <1>8. QED BY <1>6, <1>7
-----------------------------------------------------------------------------
(* The contents are a sequence of bytes of the length the code computes. *)
LEMMA ContentsSeq ==
    ASSUME NEW b \in Ring, Ordered(b)
    PROVE  /\ Contents(b) \in Seq(Data)
           /\ Len(Contents(b)) = Ring_Buffer_Get_Length(b)
           /\ \A k \in 1..Ring_Buffer_Get_Length(b) :
                 Contents(b)[k] = b.buf[Slot(b.readIndex + k - 1)]
  <1>1. Ring_Buffer_Get_Length(b) \in 0..Size
    BY LengthBounds
  <1>2. ASSUME NEW k \in 1..Ring_Buffer_Get_Length(b)
        PROVE  b.buf[Slot(b.readIndex + k - 1)] \in Data
    <2>1. Slot(b.readIndex + k - 1) \in Slots
      BY <1>1 DEF Slot, Slots, Ring
    <2>2. QED BY <2>1 DEF Ring
  <1>3. QED BY <1>1, <1>2 DEF Contents

(* Counted from either end, an offset leads to the same slot. *)
LEMMA SameSlot ==
    ASSUME NEW r \in Slots, NEW w \in Slots, NEW L \in 0..Size,
           w \in {r + L, r + L - Size}, NEW k \in 1..Size
    PROVE  /\ k <= L => Slot(w + (Size + k - 1 - L)) = Slot(r + k - 1)
           /\ k > L => Slot(w + (k - 1 - L)) = Slot(r + k - 1)
  BY DEF Slot, Slots

(* A write that fits appends its bytes to the contents. *)
LEMMA ContentsWritten ==
    ASSUME NEW b \in Ring, Ordered(b), NEW s \in Seq(Data),
           Len(s) <= Size - Ring_Buffer_Get_Length(b)
    PROVE  Contents(Written(b, s)) = Contents(b) \o s
  <1> DEFINE c == Written(b, s)
             L == Ring_Buffer_Get_Length(b)
             m == Len(s)
             q == Contents(b)
             t == q \o s
             r == b.readIndex
             w == b.writeIndex
  <1>1. c \in Ring /\ Ordered(c) /\ Ring_Buffer_Get_Length(c) = L + m
    BY WrittenKeeps
  <1>2. c.readIndex = r /\ c.buf = Copied(b, s)
    BY DEF Written, Ring
  <1>3. q \in Seq(Data) /\ Len(q) = L /\ \A k \in 1..L : q[k] = b.buf[Slot(r + k - 1)]
    BY ContentsSeq
  <1>4. /\ Contents(c) \in Seq(Data) /\ Len(Contents(c)) = L + m
        /\ \A k \in 1..(L + m) : Contents(c)[k] = c.buf[Slot(c.readIndex + k - 1)]
    BY <1>1, ContentsSeq
  <1>5. /\ t \in Seq(Data) /\ Len(t) = L + m
        /\ \A k \in 1..(L + m) : t[k] = IF k <= L THEN q[k] ELSE s[k - L]
    <2>1. /\ t \in Seq(Data) /\ Len(t) = Len(q) + m
          /\ \A k \in 1..(Len(q) + m) :
                t[k] = IF k <= Len(q) THEN q[k] ELSE s[k - Len(q)]
      BY <1>3, ConcatProperties
    <2>2. QED BY <1>3, <2>1
  <1>6. /\ L \in 0..Size /\ m \in Nat /\ m <= Size - L
        /\ r \in Slots /\ w \in Slots /\ w \in {r + L, r + L - Size}
    <2>1. L \in 0..Size /\ LengthIs(b)
      BY LengthBounds DEF LengthIs
    <2>2. QED BY <2>1 DEF LengthIs, Ring, Slots
  <1>7. \A k \in 0..(Size - 1) :
           Copied(b, s)[Slot(w + k)] = IF k < m THEN s[k + 1] ELSE b.buf[Slot(w + k)]
    BY CopiedType
  <1> HIDE DEF c, L, m, q, t, r, w
  <1>8. ASSUME NEW k \in 1..(L + m)
        PROVE  Contents(c)[k] = t[k]
    <2>1. k \in 1..Size
      BY <1>6
    <2>2. Contents(c)[k] = Copied(b, s)[Slot(r + k - 1)]
      BY <1>2, <1>4
    <2>3. CASE k <= L
      <3>1. Size + k - 1 - L \in 0..(Size - 1) /\ ~(Size + k - 1 - L < m)
        BY <1>6, <2>1, <2>3
      <3>2. Slot(w + (Size + k - 1 - L)) = Slot(r + k - 1)
        BY <1>6, <2>1, <2>3, SameSlot
      <3>3. Copied(b, s)[Slot(r + k - 1)] = b.buf[Slot(r + k - 1)]
        BY <1>7, <3>1, <3>2
      <3>4. k \in 1..L
        BY <1>6, <2>1, <2>3
      <3>5. QED BY <1>3, <1>5, <2>2, <2>3, <3>3, <3>4
    <2>4. CASE k > L
      <3>1. k - 1 - L \in 0..(Size - 1) /\ k - 1 - L < m /\ (k - 1 - L) + 1 = k - L
            /\ ~(k <= L)
        BY <1>6, <2>1, <2>4
      <3>2. Slot(w + (k - 1 - L)) = Slot(r + k - 1)
        BY <1>6, <2>1, <2>4, SameSlot
      <3>3. Copied(b, s)[Slot(r + k - 1)] = s[k - L]
        BY <1>7, <3>1, <3>2
      <3>4. QED BY <1>5, <2>2, <3>1, <3>3
    <2>5. QED BY <1>6, <2>1, <2>3, <2>4
  <1>9. Contents(c) = t
    BY <1>4, <1>5, <1>8, SeqEqual
  <1>10. QED BY <1>9 DEF c, t, q

(* Taking bytes removes them from the front of the contents. *)
LEMMA ContentsDropped ==
    ASSUME NEW b \in Ring, Ordered(b), NEW n \in Nat,
           n <= Ring_Buffer_Get_Length(b)
    PROVE  Contents(Dropped(b, n)) = SubSeq(Contents(b), n + 1, Len(Contents(b)))
  <1> DEFINE c == Dropped(b, n)
             L == Ring_Buffer_Get_Length(b)
  <1>1. c \in Ring /\ Ordered(c) /\ Ring_Buffer_Get_Length(c) = L - n
    BY DroppedKeeps
  <1>2. c.readIndex = Moved(b.readIndex, n) /\ c.buf = b.buf
    BY DEF Dropped, Ring
  <1>3. /\ Contents(b) \in Seq(Data) /\ Len(Contents(b)) = L
        /\ \A k \in 1..L : Contents(b)[k] = b.buf[Slot(b.readIndex + k - 1)]
    BY ContentsSeq
  <1>4. /\ Contents(c) \in Seq(Data) /\ Len(Contents(c)) = L - n
        /\ \A k \in 1..(L - n) : Contents(c)[k] = c.buf[Slot(c.readIndex + k - 1)]
    BY <1>1, ContentsSeq
  <1>5. L \in 0..Size
    BY LengthBounds
  <1>6. /\ SubSeq(Contents(b), n + 1, L) \in Seq(Data)
        /\ Len(SubSeq(Contents(b), n + 1, L)) = L - n
        /\ \A k \in 1..(L - n) :
              SubSeq(Contents(b), n + 1, L)[k] = Contents(b)[n + k]
    BY <1>3, <1>5
  <1>7. ASSUME NEW k \in 1..(L - n)
        PROVE  Contents(c)[k] = SubSeq(Contents(b), n + 1, L)[k]
    <2>1. Slot(c.readIndex + k - 1) = Slot(b.readIndex + (n + k) - 1)
      BY <1>2, <1>5 DEF Slot, Slots, Ring, Moved
    <2>2. n + k \in 1..L
      BY <1>5
    <2>3. QED BY <1>2, <1>3, <1>4, <1>6, <2>1, <2>2
  <1> HIDE DEF c, L
  <1>8. Contents(c) = SubSeq(Contents(b), n + 1, L)
    BY <1>4, <1>6, <1>7, SeqEqual
  <1>9. QED BY <1>3, <1>8 DEF c

(* What a read or a peek delivers is the front of the contents. *)
LEMMA DeliveredIsFront ==
    ASSUME rb \in Ring, Ordered(rb), NEW n \in Nat,
           n <= Ring_Buffer_Get_Length(rb)
    PROVE  Delivered(n) = SubSeq(Contents(rb), 1, n)
  <1> DEFINE L == Ring_Buffer_Get_Length(rb)
  <1>1. L \in 0..Size
    BY LengthBounds
  <1>2. /\ Contents(rb) \in Seq(Data) /\ Len(Contents(rb)) = L
        /\ \A k \in 1..L : Contents(rb)[k] = rb.buf[Slot(rb.readIndex + k - 1)]
    BY ContentsSeq
  <1>3. /\ SubSeq(Contents(rb), 1, n) \in Seq(Data)
        /\ Len(SubSeq(Contents(rb), 1, n)) = n
        /\ \A k \in 1..n : SubSeq(Contents(rb), 1, n)[k] = Contents(rb)[k]
    BY <1>1, <1>2
  <1>4. ASSUME NEW k \in 1..n
        PROVE  rb.buf[Slot(rb.readIndex + k - 1)] \in Data
    <2>1. k \in 1..Len(Contents(rb))
      BY <1>1, <1>2
    <2>2. Contents(rb)[k] \in Data
      BY <1>2, <2>1, ElementOfSeq
    <2>3. QED BY <1>2, <2>1, <2>2
  <1>5. /\ Delivered(n) \in Seq(Data) /\ Len(Delivered(n)) = n
        /\ \A k \in 1..n : Delivered(n)[k] = rb.buf[Slot(rb.readIndex + k - 1)]
    BY <1>4 DEF Delivered
  <1>6. \A k \in 1..n : Delivered(n)[k] = SubSeq(Contents(rb), 1, n)[k]
    BY <1>1, <1>2, <1>3, <1>5
  <1>7. QED BY <1>3, <1>5, <1>6, SeqEqual
-----------------------------------------------------------------------------
(* A forced write that overwrites is a read of the bytes it covers and a   *)
(* write, for the one-byte variant: the buffer stays ordered and full.     *)
LEMMA ForcedByte ==
    ASSUME NEW b \in Ring, Ordered(b), Full(b), NEW d \in Data
    PROVE  [Written(b, <<d>>) EXCEPT
               !.readIndex  = Written(b, <<d>>).writeIndex,
               !.readMirror = Mirrored(@, b.writeIndex, 1)] = Written(Dropped(b, 1), <<d>>)
  BY DEF Written, Dropped, Full, Ring, Copied

(* One byte more. *)
LEMMA ByteWritten ==
    ASSUME NEW b \in Ring, Ordered(b), NEW d \in Data,
           Ring_Buffer_Get_Length(b) < Size
    PROVE  /\ Written(b, <<d>>) \in Ring /\ Ordered(Written(b, <<d>>))
           /\ Contents(Written(b, <<d>>)) = Contents(b) \o <<d>>
  <1> DEFINE s == <<d>>
  <1>1. s \in Seq(Data) /\ Len(s) = 1
    OBVIOUS
  <1> HIDE DEF s
  <1>2. Len(s) <= Size - Ring_Buffer_Get_Length(b)
    BY <1>1, LengthBounds
  <1>3. /\ Written(b, s) \in Ring /\ Ordered(Written(b, s))
        /\ Contents(Written(b, s)) = Contents(b) \o s
    BY <1>1, <1>2, WrittenKeeps, ContentsWritten
  <1>4. QED BY <1>3 DEF s

(* The front of a request, as long as the code takes it. *)
LEMMA Front ==
    ASSUME NEW s \in Requests, NEW n \in 0..Len(s)
    PROVE  /\ s \in Seq(Data) /\ Len(s) \in Nat
           /\ SubSeq(s, 1, n) \in Seq(Data) /\ Len(SubSeq(s, 1, n)) = n
  <1>1. s \in Seq(Data) /\ Len(s) \in Nat
    BY DEF Requests
  <1>2. QED BY <1>1

(* Every operation keeps the buffer ordered and of its type. *)
LEMMA InitInv == Ring_Buffer_Init => Inv
  BY DEF Ring_Buffer_Init, Inv, TypeOK, Ordered, Ring, Slots

LEMMA StepInv == Inv /\ [Next]_vars => Inv'
  <1> SUFFICES ASSUME Inv, [Next]_vars PROVE Inv'
    OBVIOUS
  <1> DEFINE L == Ring_Buffer_Get_Length(rb)
  <1>1. /\ rb \in Ring /\ Ordered(rb) /\ got \in Seq(Data) /\ ret \in 0..Size
        /\ L \in 0..Size /\ Ring_Buffer_Get_Empty_Length(rb) = Size - L
    BY LengthBounds DEF Inv, TypeOK
  <1> HIDE DEF L
  <1>2. CASE Ring_Buffer_Reset
    <2>1. /\ rb' \in Ring /\ rb'.readIndex = 0 /\ rb'.writeIndex = 0
          /\ got' = got /\ ret' = ret
      <3>1. 0 \in Slots
        BY DEF Slots
      <3>2. rb' = [rb EXCEPT !.readMirror = FALSE, !.readIndex = 0,
                             !.writeMirror = FALSE, !.writeIndex = 0]
        BY <1>2 DEF Ring_Buffer_Reset
      <3>3. rb' = [buf |-> rb.buf, readMirror |-> FALSE, readIndex |-> 0,
                   writeMirror |-> FALSE, writeIndex |-> 0]
        BY <1>1, <3>2 DEF Ring
      <3>4. rb' \in Ring /\ rb'.readIndex = 0 /\ rb'.writeIndex = 0
        BY <1>1, <3>1, <3>3 DEF Ring
      <3>5. QED BY <1>2, <3>4 DEF Ring_Buffer_Reset
    <2>2. Ordered(rb')
      BY <2>1 DEF Ordered
    <2>3. QED BY <1>1, <2>1, <2>2 DEF Inv, TypeOK, Ordered
  <1>3. ASSUME NEW s \in Requests, Ring_Buffer_Write(s) PROVE Inv'
    <2> DEFINE n == Smaller(Len(s), Size - L)
    <2>1. Len(s) \in Nat
      BY Front
    <2>2. n \in 0..Len(s) /\ n <= Size - L /\ n \in 0..Size
      BY <1>1, <2>1 DEF Smaller
    <2>3. SubSeq(s, 1, n) \in Seq(Data) /\ Len(SubSeq(s, 1, n)) = n
      BY <2>2, Front
    <2>4. Written(rb, SubSeq(s, 1, n)) \in Ring /\ Ordered(Written(rb, SubSeq(s, 1, n)))
      BY <1>1, <2>2, <2>3, WrittenKeeps DEF L
    <2>5. rb' \in {rb, Written(rb, SubSeq(s, 1, n))} /\ ret' = n /\ got' = got
      BY <1>1, <1>3 DEF Ring_Buffer_Write
    <2>6. QED BY <1>1, <2>2, <2>4, <2>5 DEF Inv, TypeOK, Ordered
  <1>4. ASSUME NEW s \in Requests, Ring_Buffer_Write_Force(s) PROVE Inv'
    <2> DEFINE t == IF Len(s) > Size THEN SubSeq(s, Len(s) - Size + 1, Len(s)) ELSE s
               c == Written(rb, t)
               f == [c EXCEPT !.readIndex  = c.writeIndex,
                              !.readMirror = Mirrored(@, rb.writeIndex, Len(t))]
    <2>1. s \in Seq(Data) /\ Len(s) \in Nat
      BY DEF Requests
    <2>2. t \in Seq(Data) /\ Len(t) \in 0..Size
      BY <2>1
    <2> HIDE DEF t
    <2>3. Copied(rb, t) \in [Slots -> Data]
      BY <1>1, <2>2, CopiedType
    <2>4. /\ Moved(rb.writeIndex, Len(t)) \in Slots
          /\ Mirrored(rb.writeMirror, rb.writeIndex, Len(t)) \in BOOLEAN
          /\ Mirrored(rb.readMirror, rb.writeIndex, Len(t)) \in BOOLEAN
      <3>1. Moved(rb.writeIndex, Len(t)) \in Slots
        BY <1>1, <2>2 DEF Moved, Ring, Slots
      <3>2. Mirrored(rb.writeMirror, rb.writeIndex, Len(t)) \in BOOLEAN
        BY <1>1 DEF Mirrored, Ring
      <3>3. Mirrored(rb.readMirror, rb.writeIndex, Len(t)) \in BOOLEAN
        BY <1>1 DEF Mirrored, Ring
      <3>4. QED BY <3>1, <3>2, <3>3
    <2>5. f \in Ring /\ f.readIndex = f.writeIndex
      BY <1>1, <2>3, <2>4 DEF Written, Ring
    <2>6. Ordered(f)
      BY <2>5 DEF Ordered, Ring, Slots
    <2>7. CASE Len(t) > Size - L
      <3>1. rb' = f /\ ret' = Len(t) /\ got' = got
        BY <1>1, <1>4, <2>7 DEF Ring_Buffer_Write_Force, t
      <3>2. QED BY <1>1, <2>2, <2>5, <2>6, <3>1 DEF Inv, TypeOK, Ordered
    <2>8. CASE ~(Len(t) > Size - L)
      <3>1. rb' = c /\ ret' = Len(t) /\ got' = got
        BY <1>1, <1>4, <2>8 DEF Ring_Buffer_Write_Force, t
      <3>2. c \in Ring /\ Ordered(c)
        BY <1>1, <2>2, <2>8, WrittenKeeps DEF L
      <3>3. QED BY <1>1, <2>2, <3>1, <3>2 DEF Inv, TypeOK, Ordered
    <2>9. QED BY <2>7, <2>8
  <1>5. ASSUME NEW d \in Data, Ring_Buffer_Write_Byte(d) PROVE Inv'
    <2>2. Size - L # 0 => Written(rb, <<d>>) \in Ring /\ Ordered(Written(rb, <<d>>))
      BY <1>1, ByteWritten DEF L
    <2>3. /\ rb' = (IF Size - L = 0 THEN rb ELSE Written(rb, <<d>>))
          /\ ret' \in {0, 1} /\ got' = got
      BY <1>1, <1>5 DEF Ring_Buffer_Write_Byte
    <2>4. QED BY <1>1, <2>2, <2>3 DEF Inv, TypeOK, Ordered
  <1>6. ASSUME NEW d \in Data, Ring_Buffer_Write_Byte_Force(d) PROVE Inv'
    <2>2. CASE Full(rb)
      <3>1. L = Size
        BY <1>1, <2>2, LengthBounds DEF L, Full, Ring, Slots
      <3>2. /\ Dropped(rb, 1) \in Ring /\ Ordered(Dropped(rb, 1))
            /\ Ring_Buffer_Get_Length(Dropped(rb, 1)) = Size - 1
        BY <1>1, <3>1, DroppedKeeps DEF L
      <3>3. /\ Written(Dropped(rb, 1), <<d>>) \in Ring
            /\ Ordered(Written(Dropped(rb, 1), <<d>>))
        BY <3>2, ByteWritten
      <3>4. rb' = Written(Dropped(rb, 1), <<d>>) /\ ret' = 1 /\ got' = got
        BY <1>1, <1>6, <2>2, ForcedByte DEF Ring_Buffer_Write_Byte_Force
      <3>5. QED BY <1>1, <3>3, <3>4 DEF Inv, TypeOK, Ordered
    <2>3. CASE ~Full(rb)
      <3>1. L < Size
        BY <1>1, <2>3, LengthBounds DEF L, Full, Ring, Slots, Ordered
      <3>2. Written(rb, <<d>>) \in Ring /\ Ordered(Written(rb, <<d>>))
        BY <1>1, <3>1, ByteWritten DEF L
      <3>3. rb' = Written(rb, <<d>>) /\ ret' = 1 /\ got' = got
        BY <1>6, <2>3 DEF Ring_Buffer_Write_Byte_Force
      <3>4. QED BY <1>1, <3>2, <3>3 DEF Inv, TypeOK, Ordered
    <2>4. QED BY <2>2, <2>3
  <1>7. ASSUME NEW length \in Nat, Ring_Buffer_Read(length) PROVE Inv'
    <2> DEFINE n == Smaller(length, L)
    <2>1. n \in Nat /\ n <= L /\ n \in 0..Size
      BY <1>1 DEF Smaller
    <2> HIDE DEF n
    <2>2. Delivered(n) = SubSeq(Contents(rb), 1, n) /\ Contents(rb) \in Seq(Data)
          /\ Len(Contents(rb)) = L
      BY <1>1, <2>1, DeliveredIsFront, ContentsSeq DEF L
    <2>3. Delivered(n) \in Seq(Data)
      BY <1>1, <2>1, <2>2
    <2>4. Dropped(rb, n) \in Ring /\ Ordered(Dropped(rb, n))
      BY <1>1, <2>1, DroppedKeeps DEF L
    <2>5. rb' \in {rb, Dropped(rb, n)} /\ ret' = n /\ got' = Delivered(n)
      BY <1>7 DEF Ring_Buffer_Read, n, L
    <2>6. QED BY <1>1, <2>1, <2>3, <2>4, <2>5 DEF Inv, TypeOK, Ordered
  <1>8. ASSUME NEW length \in Nat, Ring_Buffer_Peek(length) PROVE Inv'
    <2> DEFINE n == Smaller(length, L)
    <2>1. n \in Nat /\ n <= L /\ n \in 0..Size
      BY <1>1 DEF Smaller
    <2> HIDE DEF n
    <2>2. Delivered(n) = SubSeq(Contents(rb), 1, n) /\ Contents(rb) \in Seq(Data)
          /\ Len(Contents(rb)) = L
      BY <1>1, <2>1, DeliveredIsFront, ContentsSeq DEF L
    <2>3. Delivered(n) \in Seq(Data)
      BY <1>1, <2>1, <2>2
    <2>4. rb' = rb /\ ret' = n /\ got' = Delivered(n)
      BY <1>8 DEF Ring_Buffer_Peek, n, L
    <2>5. QED BY <1>1, <2>1, <2>3, <2>4 DEF Inv, TypeOK, Ordered
  <1>9. CASE UNCHANGED vars
    BY <1>1, <1>9 DEF vars, Inv, TypeOK, Ordered
  <1>10. QED
    BY <1>2, <1>3, <1>4, <1>5, <1>6, <1>7, <1>8, <1>9
       DEF Next, Ring_Buffer_Read_Byte, Ring_Buffer_Peek_Byte
-----------------------------------------------------------------------------
(* The indices never leave the buffer, whatever is written, forced or      *)
(* read: ring_buffer.c touches no memory outside it.                       *)
THEOREM TypeCorrect == Spec => []TypeOK
  <1>1. Inv => TypeOK
    BY DEF Inv
  <1>2. QED BY InitInv, StepInv, <1>1, PTL DEF Spec

(* Ring_Buffer_Get_Length never wraps around and never exceeds the size.   *)
THEOREM LengthCorrect == Spec => []LengthInRange
  <1>1. Inv => LengthInRange
    BY LengthBounds DEF Inv, TypeOK, LengthInRange
  <1>2. QED BY InitInv, StepInv, <1>1, PTL DEF Spec
-----------------------------------------------------------------------------
(* The refinement: RingBuffer implements RingQueue, its contents being the *)
(* queue, as long as no forced write is longer than the free space.        *)
LEMMA EmptyContents ==
    ASSUME NEW b \in Ring, b.readIndex = b.writeIndex, b.readMirror = b.writeMirror
    PROVE  Contents(b) = <<>>
  <1>1. Ordered(b)
    BY DEF Ordered, Ring, Slots
  <1>2. Ring_Buffer_Get_Length(b) = 0
    BY <1>1, LengthBounds DEF Ring, Slots
  <1>3. Contents(b) \in Seq(Data) /\ Len(Contents(b)) = 0
    BY <1>1, <1>2, ContentsSeq
  <1>4. QED BY <1>3, EmptySeq

(* The newest bytes of a full queue and one more. *)
LEMMA OneByteOff ==
    ASSUME NEW q \in Seq(Data), NEW d \in Data, Len(q) > 0
    PROVE  SubSeq(q, 2, Len(q)) \o <<d>> = SubSeq(q \o <<d>>, 2, Len(q) + 1)
  <1> DEFINE u == SubSeq(q, 2, Len(q)) \o <<d>>
             v == SubSeq(q \o <<d>>, 2, Len(q) + 1)
             e == <<d>>
             f == SubSeq(q, 2, Len(q))
             w == q \o e
  <1>1. e \in Seq(Data) /\ Len(e) = 1
    OBVIOUS
  <1>2. f \in Seq(Data) /\ Len(f) = Len(q) - 1 /\ \A i \in 1..(Len(q) - 1) : f[i] = q[i + 1]
    <2> DEFINE n == Len(q)
    <2>1. n \in Nat /\ n > 0 /\ \A i \in 2..n : q[i] \in Data
      OBVIOUS
    <2>2. /\ f \in Seq(Data) /\ Len(f) = IF 2 <= n THEN n - 2 + 1 ELSE 0
          /\ \A i \in 1..(n - 2 + 1) : f[i] = q[2 + i - 1]
      BY <2>1, SubSeqProperties
    <2> HIDE DEF f, n
    <2>3. Len(f) = n - 1
      BY <2>1, <2>2
    <2>4. ASSUME NEW i \in 1..(n - 1) PROVE f[i] = q[i + 1]
      <3>1. i \in 1..(n - 2 + 1) /\ 2 + i - 1 = i + 1
        BY <2>1
      <3>2. QED BY <2>2, <3>1
    <2>5. QED BY <2>2, <2>3, <2>4 DEF n
  <1> HIDE DEF e, f
  <1>3. u \in Seq(Data) /\ Len(u) = Len(q)
        /\ \A i \in 1..Len(q) : u[i] = IF i <= Len(q) - 1 THEN f[i] ELSE e[i - (Len(q) - 1)]
    <2>1. /\ f \o e \in Seq(Data) /\ Len(f \o e) = Len(f) + Len(e)
          /\ \A i \in 1..(Len(f) + Len(e)) :
                (f \o e)[i] = IF i <= Len(f) THEN f[i] ELSE e[i - Len(f)]
      BY <1>1, <1>2, ConcatProperties
    <2>2. u = f \o e
      BY DEF e, f
    <2>3. QED BY <1>1, <1>2, <2>1, <2>2
  <1>4. w \in Seq(Data) /\ Len(w) = Len(q) + 1
        /\ \A i \in 1..(Len(q) + 1) : w[i] = IF i <= Len(q) THEN q[i] ELSE e[i - Len(q)]
    BY <1>1, ConcatProperties
  <1>5. v = SubSeq(w, 2, Len(q) + 1)
    BY DEF e
  <1> HIDE DEF w, u, v
  <1>6. v \in Seq(Data) /\ Len(v) = Len(q) /\ \A i \in 1..Len(q) : v[i] = w[i + 1]
    BY <1>4, <1>5
  <1>7. ASSUME NEW i \in 1..Len(q) PROVE u[i] = v[i]
    <2>1. v[i] = w[i + 1] /\ i + 1 \in 1..(Len(q) + 1)
      BY <1>6
    <2>2. CASE i < Len(q)
      <3>1. i \in 1..(Len(q) - 1) /\ i + 1 <= Len(q) /\ i <= Len(q) - 1
        BY <2>2
      <3>2. u[i] = f[i] /\ f[i] = q[i + 1] /\ w[i + 1] = q[i + 1]
        BY <1>2, <1>3, <1>4, <2>1, <3>1
      <3>3. QED BY <2>1, <3>2
    <2>3. CASE i = Len(q)
      <3>1. i - (Len(q) - 1) = 1 /\ i + 1 - Len(q) = 1 /\ ~(i <= Len(q) - 1) /\ ~(i + 1 <= Len(q))
        BY <2>3
      <3>2. u[i] = e[1] /\ w[i + 1] = e[1]
        BY <1>3, <1>4, <2>1, <3>1
      <3>3. QED BY <2>1, <3>2
    <2>4. QED BY <2>2, <2>3
  <1>8. u = v
    BY <1>3, <1>6, <1>7, SeqEqual
  <1>9. QED BY <1>8 DEF u, v

LEMMA InitRefines == Ring_Buffer_Init => Queue!Init
  <1> SUFFICES ASSUME Ring_Buffer_Init PROVE Queue!Init
    OBVIOUS
  <1>1. rb \in Ring /\ rb.readIndex = rb.writeIndex /\ rb.readMirror = rb.writeMirror
    <2>1. rb \in Ring
      BY InitInv DEF Inv, TypeOK
    <2>2. rb.readIndex = rb.writeIndex /\ rb.readMirror = rb.writeMirror
      BY DEF Ring_Buffer_Init
    <2>3. QED BY <2>1, <2>2
  <1>2. Contents(rb) = <<>>
    BY <1>1, EmptyContents
  <1>3. call = Call("Init", <<>>, 0) /\ got = <<>> /\ ret = 0
    BY DEF Ring_Buffer_Init
  <1>4. QED BY <1>2, <1>3 DEF Queue!Init, Call, Queue!Call

LEMMA StepRefines ==
    ASSUME ForceOverwrites = FALSE, Inv, Inv', [Next]_vars
    PROVE  [Queue!Next]_<<Contents(rb), call, got, ret>>
  <1> DEFINE L == Ring_Buffer_Get_Length(rb)
             q == Contents(rb)
  <1> USE DEF Call, Queue!Call, Smaller, Queue!Smaller, Requests, Queue!Requests
  <1>1. /\ rb \in Ring /\ Ordered(rb)
        /\ L \in 0..Size /\ Ring_Buffer_Get_Empty_Length(rb) = Size - L
        /\ q \in Seq(Data) /\ Len(q) = L
    BY LengthBounds, ContentsSeq DEF Inv, TypeOK
  <1>2. ASSUME Ring_Buffer_Reset PROVE Queue!Next
    <2>1. rb'.readIndex = rb'.writeIndex /\ rb'.readMirror = rb'.writeMirror
      BY <1>1, <1>2 DEF Ring_Buffer_Reset, Ring
    <2>2. Contents(rb') = <<>>
      BY <2>1, EmptyContents DEF Inv, TypeOK
    <2>3. Queue!Reset
      BY <1>2, <2>2 DEF Ring_Buffer_Reset, Queue!Reset
    <2>4. QED BY <2>3 DEF Queue!Next
  <1>3. ASSUME NEW s \in Requests, Ring_Buffer_Write(s) PROVE Queue!Write(s)
    <2> DEFINE n == Smaller(Len(s), Size - L)
               f == SubSeq(s, 1, n)
    <2>1. s \in Seq(Data) /\ Len(s) \in Nat
      BY Front
    <2>2. n \in 0..Len(s) /\ n <= Size - L /\ (Size - L = 0 => n = 0)
      BY <1>1, <2>1
    <2>3. f \in Seq(Data) /\ Len(f) = n
      BY <2>2, Front
    <2>4. rb' = (IF Size - L = 0 THEN rb ELSE Written(rb, f)) /\ ret' = n /\ got' = got
          /\ call' = Call("Write", s, Len(s))
      BY <1>1, <1>3 DEF Ring_Buffer_Write
    <2>5. Contents(Written(rb, f)) = q \o f
      BY <1>1, <2>2, <2>3, ContentsWritten
    <2>6. Size - L = 0 => q = q \o f
      BY <1>1, <2>2, <2>3, EmptySeq, ConcatEmptySeq
    <2>7. Contents(rb') = q \o f
      BY <2>4, <2>5, <2>6
    <2>8. QED BY <1>1, <2>4, <2>7 DEF Queue!Write
  <1>4. ASSUME NEW s \in Requests, Ring_Buffer_Write_Force(s) PROVE Queue!WriteForce(s)
    <2> DEFINE t == IF Len(s) > Size THEN SubSeq(s, Len(s) - Size + 1, Len(s)) ELSE s
               all == q \o s
    <2>1. s \in Seq(Data) /\ Len(s) \in Nat
      BY Front
    <2>2. t \in Seq(Data) /\ Len(t) = Smaller(Len(s), Size)
      BY <2>1
    <2> HIDE DEF t
    <2>3. ~(Len(t) > Size - L)
      BY <1>1, <1>4 DEF Ring_Buffer_Write_Force, t
    <2>4. rb' = Written(rb, t) /\ ret' = Len(t) /\ got' = got
          /\ call' = Call("WriteForce", s, Len(s))
      BY <1>1, <1>4, <2>3 DEF Ring_Buffer_Write_Force, t
    <2>5. Contents(rb') = q \o t
      BY <1>1, <2>2, <2>3, <2>4, ContentsWritten
    <2>6. all \in Seq(Data) /\ Len(all) = L + Len(s)
      BY <1>1, <2>1, ConcatProperties
    <2>7. q \o t = SubSeq(all, IF Len(all) > Size THEN Len(all) - Size + 1 ELSE 1, Len(all))
      <3>1. CASE Len(s) > Size
        <4>1. L = 0 /\ q = <<>>
          BY <1>1, <2>1, <2>2, <2>3, <3>1, EmptySeq
        <4>2. q \o t = t /\ all = s
          BY <2>1, <2>2, <4>1, ConcatEmptySeq
        <4>3. QED BY <2>1, <3>1, <4>2 DEF t
      <3>2. CASE ~(Len(s) > Size)
        <4>1. t = s /\ ~(Len(all) > Size)
          BY <1>1, <2>1, <2>3, <2>6, <3>2 DEF t
        <4>2. SubSeq(all, 1, Len(all)) = all
          BY <2>6, SubSeqFull
        <4>3. QED BY <4>1, <4>2
      <3>3. QED BY <3>1, <3>2
    <2>8. QED BY <2>2, <2>4, <2>5, <2>7 DEF Queue!WriteForce
  <1>5. ASSUME NEW d \in Data, Ring_Buffer_Write_Byte(d) PROVE Queue!Write(<<d>>)
    <2>1. SubSeq(<<d>>, 1, 1) = <<d>> /\ SubSeq(<<d>>, 1, 0) = <<>> /\ Len(<<d>>) = 1
      <3>1. <<d>> \in Seq(Data) /\ Len(<<d>>) = 1
        OBVIOUS
      <3>2. SubSeq(<<d>>, 1, Len(<<d>>)) = <<d>>
        BY <3>1, SubSeqFull
      <3>3. SubSeq(<<d>>, 1, 0) = <<>>
        BY SubSeqEmpty
      <3>4. QED BY <3>1, <3>2, <3>3
    <2>2. call' = Call("Write", <<d>>, 1) /\ got' = got
          /\ ret' = (IF Size - L = 0 THEN 0 ELSE 1)
          /\ rb' = (IF Size - L = 0 THEN rb ELSE Written(rb, <<d>>))
      BY <1>1, <1>5 DEF Ring_Buffer_Write_Byte
    <2>3. CASE Size - L = 0
      <3>1. q \o <<>> = q
        BY <1>1, ConcatEmptySeq
      <3>2. Smaller(Len(<<d>>), Size - Len(q)) = 0
        BY <1>1, <2>1, <2>3
      <3>3. QED BY <1>1, <2>1, <2>2, <2>3, <3>1, <3>2 DEF Queue!Write
    <2>4. CASE Size - L # 0
      <3>1. L < Size
        BY <1>1, <2>4
      <3>2. Contents(rb') = q \o <<d>>
        BY <1>1, <2>2, <2>4, <3>1, ByteWritten
      <3>3. Smaller(Len(<<d>>), Size - Len(q)) = 1
        BY <1>1, <2>1, <3>1
      <3>4. QED BY <1>1, <2>1, <2>2, <2>4, <3>2, <3>3 DEF Queue!Write
    <2>5. QED BY <2>3, <2>4
  <1>6. ASSUME NEW d \in Data, Ring_Buffer_Write_Byte_Force(d) PROVE Queue!WriteForce(<<d>>)
    <2> DEFINE all == q \o <<d>>
    <2>1. Len(<<d>>) = 1 /\ <<d>> \in Seq(Data)
      OBVIOUS
    <2>2. all \in Seq(Data) /\ Len(all) = L + 1
      BY <1>1, <2>1, ConcatProperties
    <2>3. call' = Call("WriteForce", <<d>>, 1) /\ ret' = 1 /\ got' = got
      BY <1>6 DEF Ring_Buffer_Write_Byte_Force
    <2>4. CASE Full(rb)
      <3>1. L = Size
        BY <1>1, <2>4, LengthBounds DEF Full, Ring, Slots
      <3>2. /\ Dropped(rb, 1) \in Ring /\ Ordered(Dropped(rb, 1))
            /\ Ring_Buffer_Get_Length(Dropped(rb, 1)) = Size - 1
            /\ Contents(Dropped(rb, 1)) = SubSeq(q, 2, Len(q))
        BY <1>1, <3>1, DroppedKeeps, ContentsDropped
      <3>3. rb' = Written(Dropped(rb, 1), <<d>>)
        BY <1>1, <1>6, <2>4, ForcedByte DEF Ring_Buffer_Write_Byte_Force
      <3>4. Contents(rb') = SubSeq(q, 2, L) \o <<d>>
        <4> DEFINE e == Dropped(rb, 1)
        <4>1. e \in Ring /\ Ordered(e) /\ Ring_Buffer_Get_Length(e) < Size
          BY <3>2
        <4> HIDE DEF e
        <4>2. Contents(Written(e, <<d>>)) = Contents(e) \o <<d>>
          BY <4>1, ByteWritten
        <4>3. QED BY <1>1, <3>2, <3>3, <4>2 DEF e
      <3>5. SubSeq(q, 2, L) \o <<d>> = SubSeq(all, 2, L + 1)
        BY <1>1, <3>1, OneByteOff
      <3>6. /\ (IF Len(all) > Size THEN Len(all) - Size + 1 ELSE 1) = 2
            /\ Smaller(Len(<<d>>), Size) = 1
        BY <2>1, <2>2, <3>1
      <3>7. QED BY <2>1, <2>2, <2>3, <3>4, <3>5, <3>6 DEF Queue!WriteForce
    <2>5. CASE ~Full(rb)
      <3>1. L < Size
        BY <1>1, <2>5, LengthBounds DEF Full, Ring, Slots, Ordered
      <3>2. rb' = Written(rb, <<d>>)
        BY <1>6, <2>5 DEF Ring_Buffer_Write_Byte_Force
      <3>3. Contents(rb') = all
        BY <1>1, <3>1, <3>2, ByteWritten
      <3>4. SubSeq(all, 1, Len(all)) = all
        BY <2>2, SubSeqFull
      <3>5. /\ (IF Len(all) > Size THEN Len(all) - Size + 1 ELSE 1) = 1
            /\ Smaller(Len(<<d>>), Size) = 1
        BY <1>1, <2>1, <2>2, <3>1
      <3>6. QED BY <2>1, <2>2, <2>3, <3>3, <3>4, <3>5 DEF Queue!WriteForce
    <2>6. QED BY <2>4, <2>5
  <1>7. ASSUME NEW length \in Nat, Ring_Buffer_Read(length) PROVE Queue!Read(length)
    <2> DEFINE n == Smaller(length, L)
    <2>1. n \in Nat /\ n <= L /\ (L = 0 => n = 0)
      BY <1>1
    <2>2. got' = SubSeq(q, 1, n)
      BY <1>1, <1>7, <2>1, DeliveredIsFront DEF Ring_Buffer_Read
    <2>3. ret' = n /\ call' = Call("Read", <<>>, length)
          /\ rb' = (IF L = 0 THEN rb ELSE Dropped(rb, n))
      BY <1>7 DEF Ring_Buffer_Read
    <2>4. Contents(rb') = SubSeq(q, n + 1, Len(q))
      <3>1. CASE L = 0
        <4>1. q = <<>> /\ n = 0
          BY <1>1, <2>1, <3>1, EmptySeq
        <4>2. QED BY <2>3, <3>1, <4>1, SubSeqEmpty
      <3>2. CASE L # 0
        BY <1>1, <2>1, <2>3, <3>2, ContentsDropped
      <3>3. QED BY <3>1, <3>2
    <2>5. QED BY <1>1, <2>2, <2>3, <2>4 DEF Queue!Read
  <1>8. ASSUME NEW length \in Nat, Ring_Buffer_Peek(length) PROVE Queue!Peek(length)
    <2> DEFINE n == Smaller(length, L)
    <2>1. n \in Nat /\ n <= L
      BY <1>1
    <2>2. got' = SubSeq(q, 1, n)
      BY <1>1, <1>8, <2>1, DeliveredIsFront DEF Ring_Buffer_Peek
    <2>3. ret' = n /\ call' = Call("Peek", <<>>, length) /\ rb' = rb
      BY <1>8 DEF Ring_Buffer_Peek
    <2>4. QED BY <1>1, <2>2, <2>3 DEF Queue!Peek
  <1>9. CASE UNCHANGED vars
    BY <1>9 DEF vars
  <1>10. 1 \in 0..MaxLen /\ \A n \in 0..MaxLen : n \in Nat
    BY RingBufferAssumption
  <1>11. \A d \in Data : <<d>> \in Queue!Requests
    <2> SUFFICES ASSUME NEW d \in Data PROVE <<d>> \in Queue!Requests
      OBVIOUS
    <2>1. <<d>> \in [1..1 -> Data]
      OBVIOUS
    <2>2. [1..1 -> Data] \in {[1..n -> Data] : n \in 0..MaxLen}
      BY <1>10
    <2>3. QED BY <2>1, <2>2 DEF Queue!Requests
  <1>12. Next \/ UNCHANGED vars
    OBVIOUS
  <1> HIDE DEF Queue!Requests, Requests
  <1>13. Requests = Queue!Requests
    BY DEF Requests, Queue!Requests
  <1>14. ASSUME Next PROVE Queue!Next
    <2>1. CASE Ring_Buffer_Reset
      BY <1>2, <2>1
    <2>2. CASE \E s \in Requests : Ring_Buffer_Write(s) \/ Ring_Buffer_Write_Force(s)
      BY <1>3, <1>4, <1>13, <2>2 DEF Queue!Next
    <2>3. CASE \E d \in Data : Ring_Buffer_Write_Byte(d) \/ Ring_Buffer_Write_Byte_Force(d)
      BY <1>5, <1>6, <1>11, <2>3 DEF Queue!Next
    <2>4. CASE \E n \in 0..MaxLen : Ring_Buffer_Read(n) \/ Ring_Buffer_Peek(n)
      BY <1>7, <1>8, <1>10, <2>4 DEF Queue!Next
    <2>5. CASE Ring_Buffer_Read_Byte
      <3>1. Queue!Read(1)
        BY <1>7, <2>5 DEF Ring_Buffer_Read_Byte
      <3>2. QED BY <1>10, <3>1 DEF Queue!Next
    <2>6. CASE Ring_Buffer_Peek_Byte
      <3>1. Queue!Peek(1)
        BY <1>8, <2>6 DEF Ring_Buffer_Peek_Byte
      <3>2. QED BY <1>10, <3>1 DEF Queue!Next
    <2>7. QED BY <1>14, <2>1, <2>2, <2>3, <2>4, <2>5, <2>6 DEF Next
  <1>15. QED BY <1>9, <1>12, <1>14

(* Whatever the size, the bytes and the requests, the ring buffer is a     *)
(* bounded queue to callers whose forced writes fit in the free space.     *)
THEOREM ImplementsQueue ==
    ASSUME ForceOverwrites = FALSE
    PROVE  Spec => IsQueue
  <1>1. Inv /\ Inv' /\ [Next]_vars => [Queue!Next]_<<Contents(rb), call, got, ret>>
    BY StepRefines
  <1>2. QED BY InitInv, StepInv, InitRefines, <1>1, PTL DEF Spec, IsQueue, Queue!Spec
=============================================================================
