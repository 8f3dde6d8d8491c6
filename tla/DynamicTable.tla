---------------------------- MODULE DynamicTable ----------------------------
(***************************************************************************)
(* The tables of HPACK (http/src/http2/hpack/tables.rs): DynamicTable      *)
(* keeps its entries in one ring of bytes, each between two copies of its  *)
(* size, so that evict can take the oldest from the front and get can walk *)
(* to any from the back; HeaderTable puts the static table before it.      *)
(*                                                                         *)
(* The ring (a VecDeque) is a sequence of bytes.  A u64 is 8 bytes that    *)
(* know their value and place; 8 bytes that are not the bytes of one u64   *)
(* in order read as Garbage, and so does what lies beyond the ring.        *)
(***************************************************************************)
EXTENDS Integers, Sequences, SequencesExt, FiniteSetsExt

CONSTANTS
  Names,     \* header names, sequences of bytes
  Values,    \* header values
  Static,    \* STATIC_TABLE, where a header without a value has the empty one
  TableSizes \* sizes that a table is given

ASSUME TableAssumption ==
  /\ \A s \in Names \cup Values : s \in Seq(Range(s))
  /\ Static \in Seq([name : Names, value : Values])
  /\ TableSizes \subseteq Nat

VARIABLES
  buffer,         \* the ring
  max_size,
  permitted_size,
  num_elements,
  answer          \* the index given to HeaderTable::get last, and what it pushed

tableVars == <<buffer, max_size, permitted_size, num_elements, answer>>

Header  == [name : Names, value : Values]
None    == <<>>
Garbage == -1

Text(s)  == [i \in 1..Len(s) |-> [byte |-> s[i], of |-> 0, at |-> 0]]
U64(n)   == [i \in 1..8 |-> [byte |-> "u64", of |-> n, at |-> i]]

(* DynamicTable::get_size                                                  *)
get_size(ring, offset) ==
  LET n == ring[offset + 1].of
  IN  IF {offset + 1, offset + 8} \subseteq DOMAIN ring /\ SubSeq(ring, offset + 1, offset + 8) = U64(n)
      THEN n ELSE Garbage

(* The n bytes from an offset on, as a caller of get copies them.          *)
Copied(ring, offset, n) ==
  [i \in 1..n |-> IF offset + i \in DOMAIN ring THEN ring[offset + i].byte ELSE "garbage"]

Cell == [byte : {"u64"} \cup UNION {Range(s) : s \in Names \cup Values}, of : Nat, at : 0..8]

TableTypeOK ==
  /\ buffer \in Seq(Cell)
  /\ max_size \in Nat /\ permitted_size \in Nat /\ num_elements \in Nat
  /\ answer \in Nat \X ({None} \cup {<<h>> : h \in Header})

TableInit ==
  /\ buffer = <<>>
  /\ permitted_size \in TableSizes
  /\ max_size = permitted_size
  /\ num_elements = 0
  /\ answer = <<0, None>>

(* Where the ring starts after k calls of DynamicTable::evict.              *)
Start(k) ==
  LET next == [offset \in Int |-> offset + get_size(buffer, offset)]
      start[j \in 0..k] == IF j = 0 THEN 0 ELSE next[start[j - 1]]
  IN  start[k]

Evicted(k) == SubSeq(buffer, Start(k) + 1, Len(buffer))

(* How often the loops of insert and resize call it for a room of size.    *)
Evictions(size) ==
  LET enough == {k \in 0..num_elements : Len(buffer) - Start(k) <= size}
  IN  IF enough = {} THEN num_elements ELSE Min(enough)

-----------------------------------------------------------------------------
(* Mutant: the size after an entry does not count the two sizes around it. *)
EncodedShort(name, value, size) ==
  U64(size) \o U64(Len(name)) \o U64(Len(value)) \o Text(name) \o Text(value) \o U64(size - 16)

Encoded(name, value, size) ==
  U64(size) \o U64(Len(name)) \o U64(Len(value)) \o Text(name) \o Text(value) \o U64(size)

(* Mutant: the room of the new entry itself is not made.                   *)
insertLate(name, value) ==
  LET size == Len(name) + Len(value) + 32
      k    == Evictions(max_size)
  IN  /\ IF size > max_size
         THEN buffer' = <<>> /\ num_elements' = 0
         ELSE /\ buffer' = Evicted(k) \o Encoded(name, value, size)
              /\ num_elements' = num_elements - k + 1
      /\ UNCHANGED <<max_size, permitted_size, answer>>

(* DynamicTable::insert: an entry larger than the table empties it.        *)
insert(name, value) ==
  LET size == Len(name) + Len(value) + 32
      k    == Evictions(max_size - size)
  IN  /\ IF size > max_size
         THEN buffer' = <<>> /\ num_elements' = 0
         ELSE /\ buffer' = Evicted(k) \o Encoded(name, value, size)
              /\ num_elements' = num_elements - k + 1
      /\ UNCHANGED <<max_size, permitted_size, answer>>

(* DynamicTable::resize: a size that is not permitted changes nothing.     *)
resize(size) ==
  /\ size <= permitted_size
  /\ buffer' = Evicted(Evictions(size))
  /\ num_elements' = num_elements - Evictions(size)
  /\ max_size' = size
  /\ UNCHANGED <<permitted_size, answer>>

(* DynamicTable::reset_permissible_size: refused while there are entries.  *)
reset_permissible_size(size) ==
  /\ num_elements = 0
  /\ buffer' = <<>>
  /\ max_size' = size
  /\ permitted_size' = size
  /\ UNCHANGED <<num_elements, answer>>

-----------------------------------------------------------------------------
(* The offset of an entry, index 0 the newest, walking from the back.      *)
Offset(index) ==
  LET previous == [offset \in Int |-> offset - get_size(buffer, offset - 8)]
      offset[j \in 0..(index + 1)] ==
        IF j = 0 THEN Len(buffer) ELSE previous[offset[j - 1]]
  IN  offset[index + 1]

(* DynamicTable::get                                                       *)
Dynamic(index) ==
  LET offset == Offset(index)
      name   == get_size(buffer, offset + 8)
      value  == get_size(buffer, offset + 16)
  IN  IF index >= num_elements THEN None
      ELSE <<[name  |-> Copied(buffer, offset + 24, name),
              value |-> Copied(buffer, offset + 24 + name, value)]>>

(* Mutant: the dynamic table starts at the last static index.              *)
getEarly(index) ==
  /\ answer' = <<index, IF index = 0 THEN None
                        ELSE IF index < Len(Static) THEN <<Static[index]>>
                        ELSE Dynamic(index - Len(Static))>>
  /\ UNCHANGED <<buffer, max_size, permitted_size, num_elements>>

(* HeaderTable::get; a caller that passes no buffer for the value sees     *)
(* only the name.                                                          *)
get(index) ==
  /\ answer' = <<index, IF index = 0 THEN None
                        ELSE IF index <= Len(Static) THEN <<Static[index]>>
                        ELSE Dynamic(index - (Len(Static) + 1))>>
  /\ UNCHANGED <<buffer, max_size, permitted_size, num_elements>>

TableNext ==
  \/ \E name \in Names, value \in Values : insert(name, value)
  \/ \E size \in TableSizes : resize(size) \/ reset_permissible_size(size)
  \/ \E index \in 0..(Len(Static) + num_elements + 1) : get(index)

TableSpec == TableInit /\ [][TableNext]_tableVars

-----------------------------------------------------------------------------
(* Whatever was inserted and evicted, the two sizes around an entry agree: *)
(* evict, which reads the first, and get, which reads the last, cut the    *)
(* ring into the same entries, as many as num_elements counts.  What is    *)
(* read as a size then is one (TableTypeOK).                               *)
DoubleEnded ==
  /\ TableTypeOK
  /\ \A k \in 0..(num_elements - 1) : Start(k) = Offset(num_elements - k - 1)
  /\ Start(num_elements) = Len(buffer)

(* The entries take exactly the size that HPACK gives them, so that the    *)
(* table holds no more than it may and its ring, which is allocated for    *)
(* permitted_size, never grows (DynamicTable::new, insert, resize).        *)
Budget ==
  /\ Len(buffer) <= max_size /\ max_size <= permitted_size
  /\ num_elements * 32 <= Len(buffer)
  /\ num_elements = 0 => buffer = <<>>

(* The ring as a list of headers, read from the front.                     *)
Listed ==
  LET entry == [offset \in Int |->
        LET name  == get_size(buffer, offset + 8)
            value == get_size(buffer, offset + 16)
        IN  [name  |-> Copied(buffer, offset + 24, name),
             value |-> Copied(buffer, offset + 24 + name, value)]]
  IN  [k \in 1..num_elements |-> entry[Start(num_elements - k)]]

List == INSTANCE HeaderList WITH list <- Listed, max <- max_size, permitted <- permitted_size,
                            Sizes <- TableSizes

(* The ring is a list that keeps the newest headers that fit, and get      *)
(* finds in it what HPACK's index means, static entries first              *)
(* (HeaderTable, DynamicTable).                                            *)
IsList == List!Spec
=============================================================================
