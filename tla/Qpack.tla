------------------------------- MODULE Qpack -------------------------------
(***************************************************************************)
(* The QPACK decoder of qpack.c: the dynamic table, a ring of TableSize    *)
(* entries, the instructions of the encoder stream that fill it, and the   *)
(* field lines that refer to it.                                           *)
(*                                                                         *)
(* An entry is <<name, value>>.  An instruction is two units long, and a   *)
(* frame may end between them.                                             *)
(***************************************************************************)
EXTENDS Integers, Sequences, SequencesExt

CONSTANTS
  TableSize,   \* QPACK_DYNAMIC_MAX
  Lookalikes   \* instructions the rest of one may be read as

ASSUME TableSizeAssumption == TableSize \in Nat \ {0}

NoEntry == <<>>

EmptyTable ==
  [entries |-> [pos \in 0..TableSize - 1 |-> NoEntry],
   tail |-> 0, count |-> 0, insert_count |-> 0]

(* Mutant: the index counts from the oldest entry.                         *)
GetDynamicEntryFromOldest(t, idx) ==
  IF idx < t.count THEN {t.entries[(t.tail + idx) % TableSize]} ELSE {}

(* qpack_get_dynamic_entry: the entry idx places before the latest, if the *)
(* table still has it.                                                     *)
GetDynamicEntry(t, idx) ==
  LET abs == t.insert_count - 1 - idx
      oldest == t.insert_count - t.count
  IN IF idx < t.insert_count /\ abs >= oldest
     THEN {t.entries[(t.tail + (abs - oldest)) % TableSize]}
     ELSE {}

(* Mutant: a full table overwrites the oldest entry but keeps tail there.  *)
AddDynamicEntryTailStays(t, e) ==
  [t EXCEPT !.entries[(t.tail + t.count) % TableSize] = e,
            !.count = IF @ = TableSize THEN @ ELSE @ + 1,
            !.insert_count = @ + 1]

(* qpack_add_dynamic_entry: at the end, over the oldest entry if all       *)
(* places are taken.                                                       *)
AddDynamicEntry(t, e) ==
  [t EXCEPT !.entries[(t.tail + t.count) % TableSize] = e,
            !.tail = IF t.count = TableSize THEN (@ + 1) % TableSize ELSE @,
            !.count = IF @ = TableSize THEN @ ELSE @ + 1,
            !.insert_count = @ + 1]

-----------------------------------------------------------------------------
(* The entry an instruction adds, if any.  A name reference or a duplicate *)
(* of an entry the table does not have adds none.  (Set Dynamic Table      *)
(* Capacity changes nothing, whatever the capacity.)                       *)
Addition(t, i) ==
  CASE i.op = "literal name"   -> {<<i.name, i.value>>}
    [] i.op = "name reference" -> {<<e[1], i.value>> : e \in GetDynamicEntry(t, i.idx)}
    [] i.op = "duplicate"      -> GetDynamicEntry(t, i.idx)

Obey(t, i) ==
  LET new == Addition(t, i)
  IN IF new = {} THEN t ELSE AddDynamicEntry(t, CHOOSE e \in new : TRUE)

Instruction(i) == <<<<"first", i>>, <<"second", i>>>>

(* What the k-th unit of a frame makes of the table.  An instruction that  *)
(* is cut off is lost; its rest, at the front of the next frame, is read   *)
(* as whatever it looks like, and the byte of a stream type (0x02) as      *)
(* Duplicate.                                                              *)
Unit(t, units, k) ==
  CASE units[k][1] = "first"  -> {IF k < Len(units) THEN Obey(t, units[k][2]) ELSE t}
    [] units[k][1] = "second" -> {t} \cup (IF k = 1 THEN {Obey(t, i) : i \in Lookalikes} ELSE {})
    [] OTHER                  -> {Obey(t, [op |-> "duplicate", idx |-> 2])}

(* qpack_parse_encoder_instructions on the data of one STREAM frame: the   *)
(* tables that may come of it.                                             *)
ParseEncoderInstructions(t, units) ==
  LET tables[k \in 0..Len(units)] ==
        IF k = 0 THEN {t} ELSE UNION {Unit(table, units, k) : table \in tables[k - 1]}
  IN tables[Len(units)]

(* decode_qpack_headers on a field line that refers to the dynamic table:  *)
(* the Required Insert Count and the Base before it are read over, and the *)
(* index counts from the latest entry there is.                            *)
DecodeField(t, field) ==
  [meant |-> field.idx, got |-> GetDynamicEntry(t, field.idx),
   base |-> field.base, seen |-> t.insert_count]

(* The entries the table holds, oldest first.                              *)
Contents(t) ==
  [k \in 1..t.count |-> t.entries[(t.tail + (k - 1)) % TableSize]]
=============================================================================
