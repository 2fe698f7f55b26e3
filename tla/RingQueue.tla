----------------------------- MODULE RingQueue ------------------------------
(***************************************************************************)
(* What components/utils/ring_buffer promises its callers: a queue of at   *)
(* most Size bytes.  An ordinary write keeps what fits and says how much   *)
(* that was; a forced write keeps everything new and drops the oldest.     *)
(***************************************************************************)
EXTENDS Naturals, Sequences

CONSTANTS Size,     \* capacity of the buffer
          Data,     \* the bytes
          MaxLen    \* the longest request

VARIABLES
    queue,          \* the bytes in the buffer, oldest first
    call,           \* the last call, with its argument
    got,            \* what the last read or peek delivered
    ret             \* the length the last call returned

Call(op, data, length) == [op |-> op, data |-> data, length |-> length]

Requests == UNION {[1..n -> Data] : n \in 0..MaxLen}

Smaller(m, n) == IF m <= n THEN m ELSE n

Init ==
    /\ queue = <<>>
    /\ call = Call("Init", <<>>, 0)
    /\ got = <<>>
    /\ ret = 0

Write(s) ==
    LET n == Smaller(Len(s), Size - Len(queue)) IN
    /\ call' = Call("Write", s, Len(s))
    /\ queue' = queue \o SubSeq(s, 1, n)
    /\ ret' = n
    /\ UNCHANGED got

(* The newest Size bytes of all. *)
WriteForce(s) ==
    LET all == queue \o s IN
    /\ call' = Call("WriteForce", s, Len(s))
    /\ queue' = SubSeq(all, IF Len(all) > Size THEN Len(all) - Size + 1 ELSE 1, Len(all))
    /\ ret' = Smaller(Len(s), Size)
    /\ UNCHANGED got

Peek(n) ==
    LET m == Smaller(n, Len(queue)) IN
    /\ call' = Call("Peek", <<>>, n)
    /\ got' = SubSeq(queue, 1, m)
    /\ ret' = m
    /\ UNCHANGED queue

Read(n) ==
    LET m == Smaller(n, Len(queue)) IN
    /\ call' = Call("Read", <<>>, n)
    /\ got' = SubSeq(queue, 1, m)
    /\ ret' = m
    /\ queue' = SubSeq(queue, m + 1, Len(queue))

Reset ==
    /\ queue' = <<>>
    /\ call' = Call("Reset", <<>>, 0)
    /\ UNCHANGED <<got, ret>>

Next ==
    \/ \E s \in Requests : Write(s) \/ WriteForce(s)
    \/ \E n \in 0..MaxLen : Peek(n) \/ Read(n)
    \/ Reset

Spec == Init /\ [][Next]_<<queue, call, got, ret>>
=============================================================================
