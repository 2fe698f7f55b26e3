--------------------------- MODULE PartitionTable ---------------------------
(***************************************************************************)
(* The two copies of the flash partition table that                        *)
(* components/utils/partition/partition.c keeps at 0xE000 and 0xF000, and  *)
(* the functions that choose, read and rewrite them.                       *)
(*                                                                         *)
(* A table is abstracted to its age and, for every entry type it holds,    *)
(* the active_index of that entry: the choice of the boot copy and of the  *)
(* boot slot depends on nothing else.  The magic code, the entry count and *)
(* the two CRCs are what makes a half-written copy recognisable; such a    *)
(* copy (erased, or written only in part) is the single value Torn.        *)
(***************************************************************************)
EXTENDS Naturals, FiniteSets

CONSTANTS EntryTypes,     \* the values of the "type" byte of an entry
          FW,             \* the type of the firmware entry, named "FW"
          PT_ENTRY_MAX,   \* capacity of pt_entries
          Torn            \* a table that pt_table_valid refuses

Copies  == 0..1           \* PT_TABLE_ID_0, PT_TABLE_ID_1
INVALID == 2              \* PT_TABLE_ID_INVALID
Index   == 0..1           \* active_index: which of the two addresses is used

Table == [age : Nat, entries : UNION {[T -> Index] : T \in SUBSET EntryTypes}]

ASSUME PartitionAssumption ==
    /\ IsFiniteSet(EntryTypes)
    /\ FW \in EntryTypes
    /\ PT_ENTRY_MAX \in Nat
    /\ Torn \notin Table

pt_table_valid(t) == t # Torn

(* The newer valid copy, copy 0 when both have the same age.               *)
pt_table_get_active_partition(tables) ==
    IF pt_table_valid(tables[0]) /\ pt_table_valid(tables[1])
    THEN IF tables[0].age >= tables[1].age THEN 0 ELSE 1
    ELSE IF pt_table_valid(tables[0]) THEN 0
    ELSE IF pt_table_valid(tables[1]) THEN 1
    ELSE INVALID

(* !(active_index & 0x01) *)
OtherIndex(i) == 1 - i

(* Deviations: the update rewrites the copy it was read from; or the other *)
(* copy is taken to be the next one.                                       *)
SameCopy(id) == id
NextCopy(id) == id + 1

(* !active_id: the copy an update rewrites. *)
OtherCopy(id) == 1 - id

HasEntry(stuff, type) == type \in DOMAIN stuff.entries

(* An entry that is absent is added while there is room for it.            *)
EntryFits(stuff, type) ==
    HasEntry(stuff, type) \/ Cardinality(DOMAIN stuff.entries) < PT_ENTRY_MAX

(* Deviation: the age of the table is left as it was. *)
SameAgeTable(stuff, type, index) ==
    [stuff EXCEPT !.entries = [t \in DOMAIN @ \cup {type} |->
                                  IF t = type THEN index ELSE @[t]]]

(* The table that pt_table_update_entry prepares in RAM before it touches  *)
(* the flash: the entry replaced or added, the age one higher.             *)
UpdatedTable(stuff, type, index) ==
    [age     |-> stuff.age + 1,
     entries |-> [t \in DOMAIN stuff.entries \cup {type} |->
                     IF t = type THEN index ELSE stuff.entries[t]]]
=============================================================================
