----------------------------- MODULE MCHuffman ------------------------------
(* The real code, on every byte alone and on strings of bytes whose codes  *)
(* have the lengths 5, 6, 7, 8, 13 and 30; and data that ends as no        *)
(* encoder would end it.                                                   *)
EXTENDS Huffman, HuffmanTables, SequencesExt

(* A node comes before its children in the tree.                           *)
Parent(n) == CHOOSE m \in 0..(n - 1) : Left[m + 1] # 0 /\ n \in {Left[m + 1], Right[m + 1]}

WayList ==
  FoldLeft(LAMBDA ways, n :
             Append(ways, IF n = 0 THEN <<>>
                          ELSE LET p == Parent(n)
                               IN  Append(ways[p + 1], IF n = Left[p + 1] THEN 0 ELSE 1)),
           <<>>, [n \in 1..Len(Left) |-> n - 1])

Ways == From0(WayList)

SomeBytes == {48, 32, 66, 38, 0, 10}

SomeStrings ==
  {<<>>} \cup {<<b>> : b \in Bytes} \cup {<<a, b>> : a, b \in SomeBytes}
         \cup {<<a, b, a>> : a, b \in SomeBytes}

Repeat(bit, n) == [j \in 1..n |-> bit]

(* Codes, some of a further one, and whole bytes of zeros or ones.         *)
SomeData ==
  LET Codes2(s) == FlattenSeq([j \in DOMAIN s |-> Code(s[j])])
      Some(t, m) == SubSeq(Code(t), 1, Min({m, Len(Code(t))}))
      Fill(d, bit, n) == d \o Repeat(bit, ((-Len(d)) % 8) + 8 * n)
  IN  {Fill(Codes2(s) \o Some(t, m), bit, n) :
         s \in {<<>>, <<48>>, <<66, 10>>}, t \in {48, 38, 10, EOS}, m \in 0..30,
         bit \in Bits, n \in 0..4}

OldContents == <<7>>
=============================================================================
