---------------------------- MODULE MCRingBuffer ----------------------------
(* Requests longer than the buffer, and every position of both ends.       *)
EXTENDS RingBuffer
=============================================================================
