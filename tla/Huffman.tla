------------------------------ MODULE Huffman -------------------------------
(***************************************************************************)
(* The Huffman code of HPACK (http/src/http2/hpack/huffman.rs): a string   *)
(* is measured by get_size, encoded by encode_bytes and decoded again by   *)
(* decode_bytes; or a peer has sent the data, which may be anything.       *)
(*                                                                         *)
(* Data is written as the sequence of its bits, eight to a byte and the    *)
(* highest first, so that bit i of the last byte is at Len(data) - i.  A   *)
(* step is one round of an inner loop.                                     *)
(***************************************************************************)
EXTENDS Integers, Sequences

CONSTANTS
  HUFFMAN_CODES, HUFFMAN_CODE_LEN, \* for each symbol
  TREE_LIST, \* for each node [left, right], a leaf with left = 0
  Path,      \* for each node, the bits that lead to it from node 0
  Strings,   \* strings to encode
  RawData,   \* what a peer with an encoder of its own may send, in bits
  Leftover   \* what the buffer had before

EOS     == 256
Bytes   == 0..255
Symbols == 0..EOS
Bits    == {0, 1}
Nodes   == DOMAIN TREE_LIST

(* Bit i of a symbol's code, from its first one on.                        *)
CodeBit(s, i) == (HUFFMAN_CODES[s] \div 2^(HUFFMAN_CODE_LEN[s] - i)) % 2

Code(s) == [i \in 1..HUFFMAN_CODE_LEN[s] |-> CodeBit(s, i)]

Leaf(n) == TREE_LIST[n].left = 0

ASSUME StringsAssumption ==
  /\ Strings \subseteq Seq(Bytes) /\ Leftover \in Seq(Bytes)
  /\ \A d \in RawData : d \in Seq(Bits) /\ Len(d) % 8 = 0

(* No code begins another, and none is that of the padding.                *)
ASSUME CodesAssumption ==
  /\ \A s \in Symbols : HUFFMAN_CODE_LEN[s] \in Nat \ {0} /\ Code(s) \in Seq(Bits)
  /\ \A s, t \in Symbols :
       /\ HUFFMAN_CODE_LEN[s] <= HUFFMAN_CODE_LEN[t]
       /\ \A i \in 1..HUFFMAN_CODE_LEN[s] : CodeBit(s, i) = CodeBit(t, i)
       => s = t
  /\ \A s \in Symbols :
       HUFFMAN_CODE_LEN[s] < 8 => \E i \in 1..HUFFMAN_CODE_LEN[s] : CodeBit(s, i) = 0

(* The tree is that of the codes.                                          *)
ASSUME TreeAssumption ==
  /\ 0 \in Nodes /\ ~Leaf(0) /\ Path[0] = <<>>
  /\ \A n \in Nodes : Path[n] \in Seq(Bits)
  /\ \A n \in Nodes : ~Leaf(n) =>
       /\ TREE_LIST[n].left \in Nodes  /\ Path[TREE_LIST[n].left]  = Append(Path[n], 0)
       /\ TREE_LIST[n].right \in Nodes /\ Path[TREE_LIST[n].right] = Append(Path[n], 1)
       /\ \A s \in Symbols : Path[n] # Code(s)
  /\ \A n \in Nodes : Leaf(n) =>
       TREE_LIST[n].right \in Symbols /\ Path[n] = Code(TREE_LIST[n].right)

VARIABLES
  encoded,  \* whether data is from encode_bytes
  src,      \* the string
  pc,
  k, i,     \* the symbol of src at hand, and how many bits of its code are done
  size,     \* of get_size
  ends,     \* where get_size sees the codes of src end, in bits (history)
  offset,   \* of the next bit in its byte
  data,
  pos,      \* how many bits are decoded
  index,    \* the node
  all_ones,
  out,      \* the buffer given to decode_bytes
  starts,   \* where the codes of out and what comes behind them start (history)
  result

inputVars  == <<encoded, src>>
sizeVars   == <<size, ends>>
writeVars  == <<offset, data>>
decodeVars == <<pos, index, all_ones, out, starts, result>>
vars       == <<inputVars, pc, k, i, sizeVars, writeVars, decodeVars>>

TypeOK ==
  /\ encoded \in BOOLEAN /\ src \in Seq(Bytes)
  /\ pc \in {"size", "encode", "call", "decode", "over"}
  /\ k \in 1..(Len(src) + 1) /\ i \in Nat
  /\ size \in Nat /\ ends \in Seq(Nat)
  /\ offset \in 0..7 /\ data \in Seq(Bits) /\ Len(data) % 8 = 0
  /\ pos \in 0..Len(data) /\ index \in Nodes /\ all_ones \in {"None", "yes", "no"}
  /\ out \in Seq(Bytes) /\ starts \in Seq(Nat)
  /\ result \in {"None", "Ok", "FoundEOS", "IncompleteData"}

Init ==
  /\ \/ encoded = TRUE /\ src \in Strings /\ data = <<>> /\ pc = "size"
     \/ encoded = FALSE /\ src = <<>> /\ data \in RawData /\ pc = "call"
  /\ k = 1 /\ i = 0 /\ size = 0 /\ ends = <<>> /\ offset = 7
  /\ pos = 0 /\ index = 0 /\ all_ones = "None"
  /\ out = Leftover /\ starts = <<0>> /\ result = "None"

-----------------------------------------------------------------------------
(* get_size.                                                               *)
AddSize ==
  /\ pc = "size" /\ k <= Len(src)
  /\ size' = size + HUFFMAN_CODE_LEN[src[k]]
  /\ ends' = Append(ends, size')
  /\ k' = k + 1
  /\ UNCHANGED <<inputVars, pc, i, writeVars, decodeVars>>

Rounded(n) == n \div 8 + (IF n % 8 > 0 THEN 1 ELSE 0)

RoundSize ==
  /\ pc = "size" /\ k > Len(src)
  /\ size' = Rounded(size)
  /\ pc' = "encode" /\ k' = 1
  /\ UNCHANGED <<inputVars, i, ends, writeVars, decodeVars>>

-----------------------------------------------------------------------------
(* encode_bytes.                                                           *)
Zeros == [j \in 1..8 |-> 0]

NextOffset == (offset - 1) % 8

(* A new byte for the first bit of it, and bit << o in the last byte.      *)
WithBit(d, o, bit) ==
  LET bytes == IF o = 7 THEN d \o Zeros ELSE d
  IN  IF bit = 1 THEN [bytes EXCEPT ![Len(bytes) - o] = 1] ELSE bytes

PutBit ==
  /\ pc = "encode" /\ k <= Len(src)
  /\ data' = WithBit(data, offset, CodeBit(src[k], i + 1))
  /\ offset' = NextOffset
  /\ IF i + 1 = HUFFMAN_CODE_LEN[src[k]] THEN k' = k + 1 /\ i' = 0
                                         ELSE i' = i + 1 /\ UNCHANGED k
  /\ UNCHANGED <<inputVars, pc, sizeVars, decodeVars>>

(* Mutant: (1 << offset) - 1, one bit of the padding stays 0.              *)
PaddedShort == [j \in DOMAIN data |-> IF j > Len(data) - offset THEN 1 ELSE data[j]]

Padded == [j \in DOMAIN data |-> IF j >= Len(data) - offset THEN 1 ELSE data[j]]

Pad ==
  /\ pc = "encode" /\ k > Len(src)
  /\ data' = IF offset # 7 THEN Padded ELSE data
  /\ pc' = "call"
  /\ UNCHANGED <<inputVars, k, i, sizeVars, offset, decodeVars>>

-----------------------------------------------------------------------------
(* decode_bytes.                                                           *)
Call ==
  /\ pc = "call"
  /\ pos' = 0 /\ index' = 0 /\ all_ones' = "None" /\ out' = <<>> /\ starts' = <<0>>
  /\ pc' = "decode"
  /\ UNCHANGED <<inputVars, k, i, sizeVars, writeVars, result>>

(* Mutant: the last bit decides.                                           *)
OnesOfLast(bit) == IF bit = 1 THEN "yes" ELSE "no"

Ones(bit) == IF bit = 0 THEN "no" ELSE IF all_ones = "None" THEN "yes" ELSE all_ones

Child(bit) == IF bit = 1 THEN TREE_LIST[index].right ELSE TREE_LIST[index].left

Branch(bit) ==
  /\ ~Leaf(Child(bit))
  /\ index' = Child(bit) /\ all_ones' = Ones(bit)
  /\ UNCHANGED <<pc, out, starts, result>>

Found(bit) ==
  /\ Leaf(Child(bit)) /\ TREE_LIST[Child(bit)].right # EOS
  /\ out' = Append(out, TREE_LIST[Child(bit)].right % 256)
  /\ index' = 0 /\ all_ones' = "None"
  /\ starts' = Append(starts, pos')
  /\ UNCHANGED <<pc, result>>

(* Mutant: 256 as u8, as any other value of a leaf.                        *)
FoundEOSAsByte(bit) ==
  /\ Leaf(Child(bit)) /\ TREE_LIST[Child(bit)].right = EOS
  /\ out' = Append(out, 0) /\ index' = 0 /\ all_ones' = "None"
  /\ starts' = Append(starts, pos')
  /\ UNCHANGED <<pc, result>>

FoundEOS(bit) ==
  /\ Leaf(Child(bit)) /\ TREE_LIST[Child(bit)].right = EOS
  /\ index' = Child(bit) /\ all_ones' = Ones(bit)
  /\ result' = "FoundEOS" /\ pc' = "over"
  /\ UNCHANGED <<out, starts>>

DecodeBit ==
  /\ pc = "decode" /\ pos < Len(data)
  /\ pos' = pos + 1
  /\ Branch(data[pos + 1]) \/ FoundEOS(data[pos + 1]) \/ Found(data[pos + 1])
  /\ UNCHANGED <<inputVars, k, i, sizeVars, writeVars>>

End ==
  /\ pc = "decode" /\ pos = Len(data)
  /\ result' = IF all_ones = "no" THEN "IncompleteData" ELSE "Ok"
  /\ pc' = "over"
  /\ UNCHANGED <<inputVars, k, i, sizeVars, writeVars, pos, index, all_ones, out, starts>>

Next == AddSize \/ RoundSize \/ PutBit \/ Pad \/ Call \/ DecodeBit \/ End

Spec == Init /\ [][Next]_vars

-----------------------------------------------------------------------------
(* What encode_bytes writes is decoded to the same string, of any bytes,   *)
(* with nothing refused, whatever the buffer had before.                   *)
RoundTrip ==
  encoded =>
    /\ result \in {"None", "Ok"}
    /\ pc = "decode" => Len(out) <= Len(src) /\ \A j \in 1..Len(out) : out[j] = src[j]
    /\ result = "Ok" => out = src

(* encode_bytes writes as many bytes as get_size says, which is what       *)
(* write_string has announced as the length by then.                       *)
SizeTold == encoded /\ pc \in {"call", "decode", "over"} => Len(data) = 8 * size

(* Where what comes behind the codes of out starts.                        *)
Start == starts[Len(starts)]

(* The bits of data from p on begin with the code of s.                    *)
CodeAt(s, p) ==
  /\ p + HUFFMAN_CODE_LEN[s] <= Len(data)
  /\ \A j \in 1..HUFFMAN_CODE_LEN[s] : data[p + j] = CodeBit(s, j)

(* What is decoded of any data, a peer's too, is just the symbols whose    *)
(* codes it has, one behind the other from its beginning.                  *)
Decoded ==
  pc \in {"decode", "over"} =>
    /\ Len(starts) = Len(out) + 1 /\ starts[1] = 0
    /\ \A j \in 1..Len(out) :
         CodeAt(out[j], starts[j]) /\ starts[j + 1] = starts[j] + HUFFMAN_CODE_LEN[out[j]]

(* Data is taken if only ones are behind its last code, refused as         *)
(* incomplete if there is a zero among bits that are no code, and for the  *)
(* end-of-string symbol as soon as it is there (decode_bytes).             *)
Verdict ==
  LET rest == (Start + 1)..Len(data)
  IN  /\ result = "Ok" => \A j \in rest : data[j] = 1
      /\ result = "IncompleteData" => \E j \in rest : data[j] = 0
      /\ result \in {"Ok", "IncompleteData"} => \A s \in Symbols : ~CodeAt(s, Start)
      /\ result = "FoundEOS" => CodeAt(EOS, Start)
=============================================================================
