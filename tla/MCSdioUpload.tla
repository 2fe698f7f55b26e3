---------------------------- MODULE MCSdioUpload ----------------------------
(* More frames than ports, so that every port is used again, and a reset   *)
(* at any step.                                                            *)
EXTENDS SdioUpload
=============================================================================
