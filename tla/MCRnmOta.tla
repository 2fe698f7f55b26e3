------------------------------ MODULE MCRnmOta ------------------------------
(* Small instances of RnmOta: an image that ends in the middle of a part   *)
(* and one that ends with a part, in slots of different lengths.           *)
EXTENDS RnmOta

CONSTANTS factory, update, host1, host2

MCImages   == {factory, update}
MCImageLen == [v \in MCImages |-> IF v = factory THEN 2 ELSE 3]
(* An update that fits only one of the two slots. *)
BigImageLen == [v \in MCImages |-> IF v = factory THEN 2 ELSE 4]
MCSlotLen  == [s \in Index |-> IF s = 0 THEN 4 ELSE 3]
OneHost    == {host1}
TwoHosts   == {host1, host2}
MCTypes    == {FW}
=============================================================================
