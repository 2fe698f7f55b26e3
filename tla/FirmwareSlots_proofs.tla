------------------------ MODULE FirmwareSlots_proofs ------------------------
(* Facts about the partition tables and the two slots that the proofs of   *)
(* both ways to update the firmware, BflbOta and RnmOta, rest on.          *)
EXTENDS FirmwareSlots, TLAPS

USE DEF Copies, Index

(* The two indices of an entry. *)
LEMMA FlipFacts ==
    \A i \in Index : OtherIndex(i) \in Index /\ OtherIndex(i) # i
                     /\ OtherIndex(OtherIndex(i)) = i
  BY DEF OtherIndex

(* The boot copy, when there is one, is a valid table.                     *)
LEMMA ActiveCopy ==
    ASSUME NEW tb \in [Copies -> Table \cup {Torn}],
           pt_table_get_active_partition(tb) # INVALID
    PROVE  /\ pt_table_get_active_partition(tb) \in Copies
           /\ tb[pt_table_get_active_partition(tb)] \in Table
           /\ tb[pt_table_get_active_partition(tb)] # Torn
  BY DEF pt_table_get_active_partition, pt_table_valid, INVALID

(* active_index of an entry that is there. *)
LEMMA EntryIndex ==
    ASSUME NEW t \in Table, NEW e, HasEntry(t, e)
    PROVE  t.entries[e] \in Index
<1>1. t.entries \in UNION {[T -> Index] : T \in SUBSET EntryTypes}
  BY DEF Table
<1>2. PICK T \in SUBSET EntryTypes : t.entries \in [T -> Index]
  BY <1>1
<1> QED
  BY <1>2 DEF HasEntry

(* Replacing or adding an entry gives a table of the right shape, one age  *)
(* older, with the entry in it and every other entry untouched.            *)
LEMMA UpdatedTableFacts ==
    ASSUME NEW t \in Table, NEW e \in EntryTypes, NEW i \in Index
    PROVE  /\ UpdatedTable(t, e, i) \in Table
           /\ UpdatedTable(t, e, i).age = t.age + 1
           /\ HasEntry(UpdatedTable(t, e, i), e)
           /\ UpdatedTable(t, e, i).entries[e] = i
           /\ \A f \in DOMAIN t.entries \ {e} :
                 UpdatedTable(t, e, i).entries[f] = t.entries[f]
<1>1. t.entries \in UNION {[T -> Index] : T \in SUBSET EntryTypes} /\ t.age \in Nat
  BY DEF Table
<1>2. PICK T \in SUBSET EntryTypes : t.entries \in [T -> Index]
  BY <1>1
<1> DEFINE D == T \cup {e}
           g == [f \in D |-> IF f = e THEN i ELSE t.entries[f]]
<1>3. UpdatedTable(t, e, i) = [age |-> t.age + 1, entries |-> g]
  BY <1>2 DEF UpdatedTable
<1>4. D \in SUBSET EntryTypes /\ g \in [D -> Index]
  BY <1>2
<1>5. g \in UNION {[S -> Index] : S \in SUBSET EntryTypes}
  BY <1>4
<1> QED
  BY <1>1, <1>2, <1>3, <1>4, <1>5 DEF Table, HasEntry

(* Storing Torn in the copy that is not active changes nothing for a boot. *)
LEMMA EraseInactive ==
    ASSUME NEW tb \in [Copies -> Table \cup {Torn}],
           pt_table_get_active_partition(tb) # INVALID,
           NEW c \in Copies, c = OtherCopy(pt_table_get_active_partition(tb))
    PROVE  LET tn == [tb EXCEPT ![c] = Torn] IN
           /\ tn \in [Copies -> Table \cup {Torn}]
           /\ pt_table_get_active_partition(tn) = pt_table_get_active_partition(tb)
           /\ BootSlot(tn) = BootSlot(tb)
           /\ tn[OtherCopy(c)] = tb[OtherCopy(c)]
  BY DEF pt_table_get_active_partition, pt_table_valid, INVALID, OtherCopy, BootSlot

(* Of two valid tables the one with the higher age is booted from.         *)
LEMMA NewerWins ==
    ASSUME NEW tb \in [Copies -> Table \cup {Torn}], NEW c \in Copies,
           tb[c] \in Table, tb[OtherCopy(c)] \in Table,
           tb[c].age = tb[OtherCopy(c)].age + 1
    PROVE  BootSlot(tb) = tb[c].entries[FW]
<1>1. \A d \in Copies : tb[d] \in Table => tb[d] # Torn /\ tb[d].age \in Nat
  BY PartitionAssumption DEF Table
<1> QED
  BY <1>1 DEF pt_table_get_active_partition, pt_table_valid, OtherCopy, BootSlot

(* Storing a table there leaves the old one or the new one to boot from.   *)
LEMMA WriteInactive ==
    ASSUME NEW tb \in [Copies -> Table \cup {Torn}],
           pt_table_get_active_partition(tb) # INVALID,
           NEW c \in Copies, c = OtherCopy(pt_table_get_active_partition(tb)),
           NEW t \in Table
    PROVE  LET tn == [tb EXCEPT ![c] = t] IN
           /\ tn \in [Copies -> Table \cup {Torn}]
           /\ pt_table_get_active_partition(tn) # INVALID
           /\ BootSlot(tn) \in {BootSlot(tb), t.entries[FW]}
<1>1. t # Torn /\ t.age \in Nat
  BY PartitionAssumption DEF Table
<1>2. \A d \in Copies : tb[d] # Torn => tb[d].age \in Nat
  BY DEF Table
<1> QED
  BY <1>1, <1>2
  DEF pt_table_get_active_partition, pt_table_valid, INVALID, OtherCopy, BootSlot

(* While copy c holds a valid table the device boots, from the slot which  *)
(* that table or the other one selects.                                    *)
LEMMA EitherTable ==
    ASSUME NEW tb \in [Copies -> Table \cup {Torn}], NEW c \in Copies, tb[c] # Torn
    PROVE  /\ pt_table_get_active_partition(tb) # INVALID
           /\ BootSlot(tb) \in {tb[c].entries[FW], tb[OtherCopy(c)].entries[FW]}
           /\ tb[OtherCopy(c)] = Torn => BootSlot(tb) = tb[c].entries[FW]
  BY DEF pt_table_get_active_partition, pt_table_valid, INVALID, OtherCopy, BootSlot
=============================================================================
