--------------------------- MODULE MCShellSession ---------------------------
(* More bytes than the buffer holds twice, in any number at a time.          *)
EXTENDS ShellSession

MCData == 0..MaxBytes
=============================================================================
