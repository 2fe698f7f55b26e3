----------------------------- MODULE MCBflbOta ------------------------------
(* Small instances of BflbOta: two images of different lengths, slots of   *)
(* different lengths, sectors of two blocks.                               *)
EXTENDS BflbOta

CONSTANTS factory, update, mfg

MCImages   == {factory, update}
MCImageLen == [v \in MCImages |-> IF v = factory THEN 2 ELSE 3]
MCSlotLen  == [s \in Index |-> IF s = 0 THEN 4 ELSE 3]
MCTypes    == {FW, mfg}
=============================================================================
