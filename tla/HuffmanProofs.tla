--------------------------- MODULE HuffmanProofs ----------------------------
(***************************************************************************)
(* Proofs about Huffman, for every code in which no symbol's code begins   *)
(* another's, its tree, and every string and data.                         *)
(***************************************************************************)
EXTENDS Huffman, SequenceTheorems, TLAPS

L(s) == HUFFMAN_CODE_LEN[s]

(* Where the codes of the first j bytes of src end.                        *)
Sum(j) == IF j = 0 THEN 0 ELSE ends[j]

Ends ==
  /\ Len(ends) <= Len(src)
  /\ \A j \in 1..Len(ends) : Sum(j) = Sum(j - 1) + L(src[j])
  /\ \A a, b \in 0..Len(ends) : a <= b => Sum(a) <= Sum(b)

Sizes ==
  /\ pc \in {"size", "encode"} => encoded
  /\ pc = "size" => /\ Len(ends) = k - 1 /\ size = Sum(k - 1)
                    /\ i = 0 /\ offset = 7 /\ data = <<>>
  /\ encoded /\ pc # "size" => Len(ends) = Len(src) /\ size = Rounded(Sum(Len(src)))

CodesUpTo(n) ==
  \A j \in 1..n : \A l \in 1..L(src[j]) : data[Sum(j - 1) + l] = CodeBit(src[j], l)

(* What is left of the last byte.                                          *)
Free(o) == IF o = 7 THEN 0 ELSE o + 1

(* How many bits encode_bytes has written.                                 *)
Done == Sum(k - 1) + i

Written ==
  pc = "encode" =>
    /\ IF k <= Len(src) THEN i < L(src[k]) ELSE i = 0
    /\ Len(data) = Done + Free(offset)
    /\ CodesUpTo(k - 1)
    /\ \A l \in 1..i : data[Sum(k - 1) + l] = CodeBit(src[k], l)
    /\ \A p \in (Done + 1)..Len(data) : data[p] = 0

Whole ==
  encoded /\ pc \in {"call", "decode", "over"} =>
    /\ Len(data) \in Sum(Len(src))..(Sum(Len(src)) + 7)
    /\ CodesUpTo(Len(src))
    /\ \A p \in (Sum(Len(src)) + 1)..Len(data) : data[p] = 1

EncodeInv == TypeOK /\ Ends /\ Sizes /\ Written /\ Whole

(* The bits of d from st on, up to p, are the way to a node.               *)
At(node, d, st, p) ==
  /\ node \in Nodes /\ st \in 0..p
  /\ Len(Path[node]) = p - st
  /\ \A j \in 1..(p - st) : Path[node][j] = d[st + j]

(* No code is among them from st on.                                       *)
NoCode(d, st, p) ==
  \A s \in Symbols : ~(L(s) <= p - st /\ \A j \in 1..L(s) : d[st + j] = CodeBit(s, j))

(* What all_ones says about them.                                          *)
OnesSince(ones, d, st, p) ==
  /\ ones = "None" => p = st
  /\ ones = "yes" => \A q \in (st + 1)..p : d[q] = 1
  /\ ones = "no" => \E q \in (st + 1)..p : d[q] = 0

Position ==
  /\ pc \in {"size", "encode", "call", "decode"} => result = "None"
  /\ pc = "over" => result # "None"
  /\ pc \in {"decode", "over"} =>
       /\ Len(starts) = Len(out) + 1
       /\ At(index, data, Start, pos)
       /\ OnesSince(all_ones, data, Start, pos)
       /\ IF result = "FoundEOS" THEN CodeAt(EOS, Start)
          ELSE ~Leaf(index) /\ NoCode(data, Start, pos)
  /\ result = "Ok" => all_ones # "no"
  /\ result = "IncompleteData" => all_ones = "no"
  /\ result \in {"Ok", "IncompleteData"} => pos = Len(data)

(* Codes from encode_bytes are decoded one by one.                         *)
Follow ==
  encoded /\ pc \in {"decode", "over"} =>
    /\ result \in {"None", "Ok"}
    /\ Len(out) <= Len(src) /\ \A j \in 1..Len(out) : out[j] = src[j]
    /\ Start = Sum(Len(out))
    /\ Len(out) < Len(src) => pos < Sum(Len(out) + 1)

DecodeInv == Decoded /\ Position /\ Follow

IInv == EncodeInv /\ DecodeInv

-----------------------------------------------------------------------------
LEMMA SymbolCodes ==
  /\ Bytes \subseteq Symbols /\ EOS \in Symbols
  /\ \A s \in Symbols : L(s) \in Nat \ {0}
  /\ \A s \in Symbols : \A j \in 1..L(s) : CodeBit(s, j) \in Bits
  /\ \A s \in Symbols : Code(s) \in Seq(Bits) /\ Len(Code(s)) = L(s)
  /\ \A s \in Symbols : \A j \in 1..L(s) : Code(s)[j] = CodeBit(s, j)
<1>1. Bytes \subseteq Symbols /\ EOS \in Symbols
  BY DEF Bytes, Symbols, EOS
<1>2. \A s \in Symbols : L(s) \in Nat \ {0} /\ Code(s) \in Seq(Bits)
  BY CodesAssumption, Zenon DEF L
<1>3. ASSUME NEW s \in Symbols
      PROVE  /\ Len(Code(s)) = L(s)
             /\ \A j \in 1..L(s) : Code(s)[j] = CodeBit(s, j) /\ CodeBit(s, j) \in Bits
  <2> DEFINE c == Code(s)  n == L(s)
  <2>1. c = [j \in 1..n |-> CodeBit(s, j)]
    BY DEF Code, L
  <2>2. n \in Nat /\ c \in Seq(Bits)
    BY <1>2
  <2>3. DOMAIN c = 1..n /\ \A j \in 1..n : c[j] = CodeBit(s, j)
    BY <2>1
  <2> HIDE DEF c, n
  <2>4. Len(c) = n /\ \A j \in 1..n : c[j] \in Bits
    BY <2>2, <2>3, LenProperties
  <2> QED BY <2>3, <2>4 DEF c, n
<1> QED BY <1>1, <1>2, <1>3

LEMMA InitEncode == Init => EncodeInv
<1> SUFFICES ASSUME Init PROVE EncodeInv
  OBVIOUS
<1>1. TypeOK
  <2>1. /\ src \in Seq(Bytes) /\ data \in Seq(Bits) /\ Len(data) % 8 = 0
        /\ encoded \in BOOLEAN /\ pc \in {"size", "call"} /\ out \in Seq(Bytes)
    <3>1. CASE encoded = TRUE /\ src \in Strings /\ data = <<>> /\ pc = "size"
      <4>1. src \in Seq(Bytes) /\ Leftover \in Seq(Bytes)
        BY <3>1, StringsAssumption, Zenon
      <4>2. out = Leftover
        BY DEF Init
      <4> QED BY <3>1, <4>1, <4>2
    <3>2. CASE encoded = FALSE /\ src = <<>> /\ data \in RawData /\ pc = "call"
      <4>1. data \in Seq(Bits) /\ Len(data) % 8 = 0 /\ Leftover \in Seq(Bytes)
        BY <3>2, StringsAssumption, Zenon
      <4>2. out = Leftover
        BY DEF Init
      <4>3. encoded \in BOOLEAN
        BY <3>2, Zenon
      <4>4. src = <<>> /\ pc = "call"
        BY <3>2
      <4> QED BY <4>1, <4>2, <4>3, <4>4
    <3> QED BY <3>1, <3>2 DEF Init
  <2>2. 0 \in Nodes
    BY TreeAssumption
  <2> QED BY <2>1, <2>2 DEF Init, TypeOK
<1>2. Ends /\ Sizes /\ Written /\ Whole
  BY <1>1 DEF Init, Ends, Sizes, Written, Whole, Sum, TypeOK
<1> QED BY <1>1, <1>2 DEF EncodeInv

LEMMA SumsStay ==
  ASSUME ends' = ends, src' = src, encoded' = encoded, Ends
  PROVE  Ends' /\ \A j : Sum(j)' = Sum(j)
BY DEF Ends, Sum

LEMMA StepAddSize == EncodeInv /\ AddSize => EncodeInv'
<1> SUFFICES ASSUME EncodeInv, AddSize PROVE EncodeInv'
  OBVIOUS
<1>0. PICK n : n = k - 1
  OBVIOUS
<1>1. /\ src \in Seq(Bytes) /\ ends \in Seq(Nat) /\ k = n + 1 /\ n \in 0..(Len(src) - 1)
      /\ size \in Nat /\ Len(ends) = n /\ size = Sum(n) /\ Len(src) \in Nat /\ pc = "size"
  BY <1>0 DEF EncodeInv, TypeOK, Sizes, AddSize
<1> DEFINE s == src[n + 1]  e == size + L(s)
<1>2. s \in Bytes /\ L(s) \in Nat \ {0}
  BY <1>1, SymbolCodes
<1>3. /\ size' = e /\ ends' = Append(ends, e) /\ k' = n + 2
      /\ UNCHANGED <<encoded, src, pc, i, offset, data, pos, index, all_ones, out, starts, result>>
  BY <1>1 DEF AddSize, L, inputVars, writeVars, decodeVars
<1>4. e \in Nat /\ e = Sum(n) + L(src[n + 1]) /\ e >= Sum(n)
  BY <1>1, <1>2
<1> HIDE DEF s, e
<1>5. /\ ends' \in Seq(Nat) /\ Len(ends') = n + 1 /\ ends'[n + 1] = e
      /\ \A j \in 1..n : ends'[j] = ends[j]
  BY <1>1, <1>3, <1>4, AppendProperties
<1>6. Sum(n + 1)' = e /\ \A j \in 0..n : Sum(j)' = Sum(j)
  BY <1>1, <1>5 DEF Sum
<1>7. \A j \in 0..n : Sum(j) \in Nat
  BY <1>1 DEF Sum
<1>8. TypeOK'
  BY <1>1, <1>3, <1>4, <1>5 DEF EncodeInv, TypeOK
<1>9. Ends'
  <2>1. \A j \in 1..n : Sum(j)' = Sum(j - 1)' + L(src[j])
    BY <1>1, <1>6 DEF EncodeInv, Ends
  <2>2. Sum(n + 1)' = Sum(n)' + L(src[n + 1])
    BY <1>1, <1>4, <1>6
  <2>3. \A a, b \in 0..n : a <= b => Sum(a)' <= Sum(b)'
    BY <1>1, <1>6 DEF EncodeInv, Ends
  <2>4. \A a \in 0..n : Sum(a)' <= e
    <3> SUFFICES ASSUME NEW a \in 0..n PROVE Sum(a)' <= e
      OBVIOUS
    <3>1. Sum(a)' <= Sum(n)' /\ Sum(n)' = Sum(n)
      BY <1>1, <1>6, <2>3
    <3>2. Sum(a)' \in Nat /\ Sum(n) \in Nat
      BY <1>1, <1>6, <1>7
    <3> QED BY <1>4, <3>1, <3>2
  <2>5. \A a, b \in 0..(n + 1) : a <= b => Sum(a)' <= Sum(b)'
    BY <1>1, <1>4, <1>6, <2>3, <2>4
  <2>6. \A j \in 1..(n + 1) : Sum(j)' = Sum(j - 1)' + L(src[j])
    BY <1>1, <2>1, <2>2
  <2> QED BY <1>1, <1>3, <1>5, <2>5, <2>6, SMTT(30) DEF Ends
<1>10. Sizes'
  BY <1>1, <1>3, <1>5, <1>6 DEF EncodeInv, Sizes
<1>11. Written' /\ Whole'
  BY <1>1, <1>3 DEF Written, Whole
<1> QED BY <1>8, <1>9, <1>10, <1>11 DEF EncodeInv

LEMMA StepRoundSize == EncodeInv /\ RoundSize => EncodeInv'
<1> SUFFICES ASSUME EncodeInv, RoundSize PROVE EncodeInv'
  OBVIOUS
<1>1. /\ src \in Seq(Bytes) /\ k = Len(src) + 1 /\ size \in Nat /\ Len(src) \in Nat
      /\ Len(ends) = k - 1 /\ size = Sum(k - 1) /\ i = 0 /\ offset = 7 /\ data = <<>>
  BY DEF EncodeInv, TypeOK, Sizes, RoundSize
<1>2. /\ size' = Rounded(size) /\ pc = "size" /\ pc' = "encode" /\ k' = 1
      /\ UNCHANGED <<encoded, src, i, ends, offset, data, pos, index, all_ones, out, starts, result>>
  BY DEF RoundSize, inputVars, writeVars, decodeVars
<1>3. Ends' /\ \A j : Sum(j)' = Sum(j)
  BY <1>2, SumsStay DEF EncodeInv
<1>4. TypeOK'
  BY <1>1, <1>2 DEF EncodeInv, TypeOK, Rounded
<1>5. Sizes'
  BY <1>1, <1>2, <1>3 DEF EncodeInv, Sizes, Rounded
<1>6. Written'
  <2>1. src' = src /\ k' = 1 /\ i' = 0 /\ data' = <<>> /\ offset' = 7 /\ Sum(0)' = 0 /\ Len(data') = 0
    BY <1>1, <1>2 DEF Sum
  <2>2. 1 <= Len(src) => 0 < L(src[1])
    BY <1>1, SymbolCodes
  <2>3. Done' = 0
    BY <2>1 DEF Done
  <2> QED BY <1>1, <2>1, <2>2, <2>3 DEF Free, Written, CodesUpTo
<1>7. Whole'
  BY <1>2 DEF Whole
<1> QED BY <1>3, <1>4, <1>5, <1>6, <1>7 DEF EncodeInv

-----------------------------------------------------------------------------
(* encode_bytes writes the next bit behind the others.                     *)

LEMMA Joined ==
  ASSUME NEW S, NEW s \in Seq(S), NEW t \in Seq(S)
  PROVE  /\ s \o t \in Seq(S) /\ Len(s \o t) = Len(s) + Len(t)
         /\ \A p \in 1..Len(s) : (s \o t)[p] = s[p]
         /\ \A p \in (Len(s) + 1)..(Len(s) + Len(t)) : (s \o t)[p] = t[p - Len(s)]
BY ConcatProperties

LEMMA ZerosJoined ==
  ASSUME NEW d \in Seq(Bits), NEW w \in Nat, w = Len(d)
  PROVE  /\ d \o Zeros \in Seq(Bits) /\ Len(d \o Zeros) = w + 8
         /\ \A p \in 1..w : (d \o Zeros)[p] = d[p]
         /\ \A p \in (w + 1)..(w + 8) : (d \o Zeros)[p] = 0
<1>1. Zeros \in Seq(Bits) /\ Len(Zeros) = 8 /\ \A j \in 1..8 : Zeros[j] = 0
  BY DEF Zeros, Bits
<1> DEFINE c == d \o Zeros
<1>2. /\ c \in Seq(Bits) /\ Len(c) = Len(d) + Len(Zeros)
      /\ \A p \in 1..Len(d) : c[p] = d[p]
      /\ \A p \in (Len(d) + 1)..(Len(d) + Len(Zeros)) : c[p] = Zeros[p - Len(d)]
  BY <1>1, Joined, Zenon
<1> HIDE DEF c
<1>3. \A p \in (w + 1)..(w + 8) : c[p] = 0
  <2> SUFFICES ASSUME NEW p \in (w + 1)..(w + 8) PROVE c[p] = 0
    OBVIOUS
  <2>1. p - w \in 1..8
    OBVIOUS
  <2>2. c[p] = Zeros[p - w]
    BY <1>1, <1>2
  <2> QED BY <1>1, <2>1, <2>2
<1>4. c \in Seq(Bits) /\ Len(c) = w + 8 /\ \A p \in 1..w : c[p] = d[p]
  BY <1>1, <1>2
<1> QED BY <1>3, <1>4 DEF c

LEMMA OneSet ==
  ASSUME NEW b \in Seq(Bits), NEW j \in 1..Len(b)
  PROVE  /\ [b EXCEPT ![j] = 1] \in Seq(Bits) /\ Len([b EXCEPT ![j] = 1]) = Len(b)
         /\ [b EXCEPT ![j] = 1][j] = 1
         /\ \A p \in 1..Len(b) : p # j => [b EXCEPT ![j] = 1][p] = b[p]
<1>1. 1 \in Bits
  BY DEF Bits
<1> QED BY <1>1, ExceptSeq

LEMMA Back ==
  ASSUME NEW o \in 0..7
  PROVE  (o - 1) % 8 = IF o = 0 THEN 7 ELSE o - 1
OBVIOUS

LEMMA Eights ==
  ASSUME NEW x \in Nat, x % 8 = 0
  PROVE  (x + 8) % 8 = 0
OBVIOUS

(* d has w bits, and zeros in what is left of its last byte.               *)
Fills(d, o, w) ==
  /\ d \in Seq(Bits) /\ o \in 0..7 /\ w \in Nat
  /\ Len(d) = w + Free(o)
  /\ \A p \in (w + 1)..Len(d) : d[p] = 0

(* e has one bit more than d.                                              *)
Follows(e, d, o, w, bit) ==
  /\ e \in Seq(Bits) /\ Len(e) = w + o + 1 /\ e[w + 1] = bit
  /\ \A p \in 1..w : e[p] = d[p]
  /\ \A p \in (w + 2)..(w + o + 1) : e[p] = 0

LEMMA Room ==
  ASSUME NEW d, NEW o, NEW w, NEW bit \in Bits, Fills(d, o, w)
  PROVE  Follows(WithBit(d, o, bit), d, o, w, bit)
<1>7. /\ d \in Seq(Bits) /\ o \in 0..7 /\ w \in Nat /\ Len(d) = w + Free(o)
      /\ \A p \in (w + 1)..Len(d) : d[p] = 0
  BY DEF Fills
<1> DEFINE b == IF o = 7 THEN d \o Zeros ELSE d
           e == WithBit(d, o, bit)
<1>0. Free(o) = IF o = 7 THEN 0 ELSE o + 1
  BY DEF Free
<1>5. b = IF o = 7 THEN d \o Zeros ELSE d
  OBVIOUS
<1>6. e = IF bit = 1 THEN [b EXCEPT ![Len(b) - o] = 1] ELSE b
  BY DEF WithBit
<1> HIDE DEF b, e
<1>1. /\ b \in Seq(Bits) /\ Len(b) = w + o + 1
      /\ \A p \in 1..w : b[p] = d[p]
      /\ \A p \in (w + 1)..(w + o + 1) : b[p] = 0
  <2>1. CASE o = 7
    <3>1. b = d \o Zeros /\ w = Len(d)
      BY <1>0, <1>5, <1>7, <2>1
    <3> DEFINE c == d \o Zeros
    <3>2. /\ c \in Seq(Bits) /\ Len(c) = w + 8
          /\ \A p \in 1..w : c[p] = d[p]
          /\ \A p \in (w + 1)..(w + 8) : c[p] = 0
      BY <1>7, <3>1, ZerosJoined, Zenon
    <3>4. b = c
      BY <3>1, Zenon
    <3> HIDE DEF c
    <3>3. w + o + 1 = w + 8
      BY <1>7, <2>1
    <3> QED BY <3>2, <3>3, <3>4
  <2>2. CASE o # 7
    <3>1. b = d /\ Len(d) = w + o + 1
      BY <1>0, <1>5, <1>7, <2>2
    <3> QED BY <1>7, <3>1, Zenon
  <2> QED BY <2>1, <2>2, Zenon
<1>2. w + 1 \in 1..Len(b) /\ Len(b) - o = w + 1 /\ Len(b) = w + o + 1
  BY <1>1, <1>7
<1>3. CASE bit = 1
  <2>1. e = [b EXCEPT ![w + 1] = 1]
    BY <1>2, <1>3, <1>6, Zenon
  <2> DEFINE c == [b EXCEPT ![w + 1] = 1]
  <2>4. /\ c \in Seq(Bits) /\ Len(c) = Len(b) /\ c[w + 1] = 1
        /\ \A p \in 1..Len(b) : p # w + 1 => c[p] = b[p]
    BY <1>1, <1>2, OneSet
  <2> HIDE DEF c
  <2>5. e = c
    BY <2>1 DEF c
  <2>2. /\ e \in Seq(Bits) /\ Len(e) = Len(b) /\ e[w + 1] = 1
        /\ \A p \in 1..Len(b) : p # w + 1 => e[p] = b[p]
    BY <2>4, <2>5, Zenon
  <2>3. /\ \A p \in 1..w : p \in 1..Len(b) /\ p # w + 1
        /\ \A p \in (w + 2)..(w + o + 1) : p \in 1..Len(b) /\ p # w + 1 /\ p \in (w + 1)..(w + o + 1)
    BY <1>2, <1>7
  <2> QED BY <1>1, <1>2, <1>3, <2>2, <2>3, Zenon DEF e, Follows
<1>4. CASE bit = 0
  <2>1. e = b
    BY <1>4, <1>6
  <2>2. /\ w + 1 \in (w + 1)..(w + o + 1)
        /\ \A p \in (w + 2)..(w + o + 1) : p \in (w + 1)..(w + o + 1)
    BY <1>2, <1>7
  <2> QED BY <1>1, <1>2, <1>4, <2>1, <2>2, Zenon DEF e, Follows
<1> QED BY <1>3, <1>4 DEF Bits, e

LEMMA StepPutBit == EncodeInv /\ PutBit => EncodeInv'
<1> SUFFICES ASSUME EncodeInv, PutBit PROVE EncodeInv'
  OBVIOUS
<1>0. PICK n : n = k - 1
  OBVIOUS
<1>1. /\ src \in Seq(Bytes) /\ ends \in Seq(Nat) /\ k = n + 1 /\ n \in 0..(Len(src) - 1)
      /\ Len(src) \in Nat /\ pc = "encode" /\ encoded /\ i \in Nat /\ offset \in 0..7
      /\ data \in Seq(Bits) /\ Len(data) \in Nat
  <2>1. /\ src \in Seq(Bytes) /\ ends \in Seq(Nat) /\ pc = "encode" /\ i \in Nat
        /\ offset \in 0..7 /\ data \in Seq(Bits)
        /\ k \in 1..(Len(src) + 1) /\ k <= Len(src)
    BY DEF EncodeInv, TypeOK, PutBit
  <2>2. encoded
    BY <2>1, Zenon DEF EncodeInv, Sizes
  <2> QED BY <1>0, <2>1, <2>2
<1>2. Len(ends) = Len(src) /\ Sum(n) \in Nat
  BY <1>1 DEF EncodeInv, Sizes, Sum
<1> DEFINE s == src[n + 1]
           bit == CodeBit(s, i + 1)
           w == Sum(n) + i
           e == WithBit(data, offset, bit)
<1>3. /\ data' = e /\ offset' = NextOffset
      /\ IF i + 1 = L(s) THEN k' = n + 2 /\ i' = 0 ELSE i' = i + 1 /\ k' = n + 1
      /\ UNCHANGED <<encoded, src, pc, size, ends, pos, index, all_ones, out, starts, result>>
  BY <1>1 DEF PutBit, L, inputVars, sizeVars, decodeVars
<1>4. s \in Bytes /\ L(s) \in Nat \ {0}
  BY <1>1, SymbolCodes
<1>5. /\ i < L(s) /\ Len(data) = w + Free(offset)
      /\ CodesUpTo(n) /\ \A l \in 1..i : data[Sum(n) + l] = CodeBit(s, l)
      /\ \A p \in (w + 1)..Len(data) : data[p] = 0
  BY <1>1 DEF EncodeInv, Written, Done
<1>6. bit \in Bits
  BY <1>1, <1>4, <1>5, SymbolCodes, SMTT(30)
<1>7. w \in Nat
  BY <1>1, <1>2
<1> HIDE DEF s, bit, w
<1>8. Follows(e, data, offset, w, bit)
  <2>1. Fills(data, offset, w)
    BY <1>1, <1>5, <1>7, Zenon DEF Fills
  <2> QED BY <1>6, <2>1, Room, Zenon
<1> HIDE DEF e
<1>9. /\ data' \in Seq(Bits) /\ Len(data') = w + offset + 1 /\ data'[w + 1] = bit
      /\ \A p \in 1..w : data'[p] = data[p]
      /\ \A p \in (w + 2)..Len(data') : data'[p] = 0
  BY <1>3, <1>8 DEF Follows
<1>10. Ends' /\ \A j : Sum(j)' = Sum(j)
  BY <1>3, SumsStay DEF EncodeInv
<1>11. offset' \in 0..7 /\ Len(data') = w + 1 + Free(offset')
  <2>1. offset' = IF offset = 0 THEN 7 ELSE offset - 1
    BY <1>1, <1>3, Back DEF NextOffset
  <2> QED BY <1>1, <1>7, <1>9, <2>1 DEF Free
<1>12. Len(data') % 8 = 0
  <2>1. Len(data') = IF offset = 7 THEN Len(data) + 8 ELSE Len(data)
    BY <1>1, <1>5, <1>7, <1>9 DEF Free
  <2>2. Len(data) % 8 = 0
    BY DEF EncodeInv, TypeOK
  <2>3. (Len(data) + 8) % 8 = 0
    BY <1>1, <2>2, Eights, Zenon
  <2> QED BY <2>1, <2>2, <2>3, Zenon
<1>13. TypeOK'
  <2>1. k' \in 1..(Len(src') + 1) /\ i' \in Nat
    BY <1>1, <1>3
  <2>2. pos' \in 0..Len(data')
    <3>1. pos \in 0..Len(data) /\ Len(data') >= Len(data) /\ Len(data') \in Nat
      BY <1>1, <1>5, <1>7, <1>9 DEF Free, EncodeInv, TypeOK
    <3> QED BY <1>1, <1>3, <3>1
  <2> QED BY <1>1, <1>3, <1>9, <1>11, <1>12, <2>1, <2>2 DEF EncodeInv, TypeOK
<1>14. Sizes'
  BY <1>1, <1>3, <1>10 DEF EncodeInv, Sizes
<1>15. Whole'
  BY <1>1, <1>3 DEF Whole
<1>16. \A j \in 0..n : Sum(j) \in Nat /\ Sum(j) <= Sum(n)
  <2>1. \A j \in 0..n : j \in 0..Len(ends) /\ j <= n
    BY <1>1, <1>2
  <2>2. \A j \in 0..n : Sum(j) \in Nat
    BY <1>1, <2>1 DEF Sum
  <2>3. \A j \in 0..n : Sum(j) <= Sum(n)
    BY <1>1, <2>1 DEF EncodeInv, Ends
  <2> QED BY <2>2, <2>3
<1>17. \A j \in 1..n : \A l \in 1..L(src[j]) : data'[Sum(j - 1) + l] = CodeBit(src[j], l)
  <2> SUFFICES ASSUME NEW j \in 1..n, NEW l \in 1..L(src[j])
               PROVE  data'[Sum(j - 1) + l] = CodeBit(src[j], l)
    OBVIOUS
  <2>1. L(src[j]) \in Nat
    BY <1>1, SymbolCodes
  <2>2. Sum(j) = Sum(j - 1) + L(src[j]) /\ Sum(j - 1) \in Nat /\ Sum(j) <= Sum(n)
    BY <1>1, <1>2, <1>16 DEF EncodeInv, Ends
  <2>3. Sum(j - 1) + l \in 1..w
    <3>1. Sum(n) \in Nat /\ i \in Nat /\ w = Sum(n) + i
      BY <1>1, <1>2 DEF w
    <3> QED BY <2>1, <2>2, <3>1
  <2> QED BY <1>5, <1>9, <2>3 DEF CodesUpTo
<1>18. \A l \in 1..(i + 1) : data'[Sum(n) + l] = CodeBit(s, l)
  <2>1. \A l \in 1..i : Sum(n) + l \in 1..w
    BY <1>1, <1>2 DEF w
  <2>2. Sum(n) + (i + 1) = w + 1
    BY <1>1, <1>2 DEF w
  <2>3. \A l \in 1..i : data'[Sum(n) + l] = CodeBit(s, l)
    BY <1>5, <1>9, <2>1
  <2> QED BY <1>1, <1>9, <2>2, <2>3 DEF bit
<1>19. CASE i + 1 = L(s)
  <2>1. k' = n + 2 /\ i' = 0 /\ k' - 1 = n + 1
    BY <1>1, <1>3, <1>19
  <2>2. Sum(n + 1) = w + 1
    BY <1>1, <1>2, <1>19 DEF EncodeInv, Ends, s, w
  <2>3. Done' = w + 1
    BY <1>7, <1>10, <2>1, <2>2 DEF Done
  <2>4. CodesUpTo(n + 1)'
    <3>1. \A l \in 1..L(src[n + 1]) : data'[Sum(n) + l] = CodeBit(src[n + 1], l)
      BY <1>18, <1>19 DEF s
    <3>2. \A j \in 1..(n + 1) : \A l \in 1..L(src[j]) : data'[Sum(j - 1) + l] = CodeBit(src[j], l)
      <4> SUFFICES ASSUME NEW j \in 1..(n + 1)
                   PROVE  \A l \in 1..L(src[j]) : data'[Sum(j - 1) + l] = CodeBit(src[j], l)
        OBVIOUS
      <4>1. CASE j = n + 1
        <5>1. j - 1 = n
          BY <1>1, <4>1
        <5> QED BY <3>1, <4>1, <5>1, Zenon
      <4>2. CASE j # n + 1
        <5>1. j \in 1..n
          BY <1>1, <4>2
        <5> QED BY <1>17, <5>1, Zenon
      <4> QED BY <4>1, <4>2
    <3> QED BY <1>3, <1>10, <3>2 DEF CodesUpTo
  <2>5. n + 2 <= Len(src) => 0 < L(src[n + 2])
    BY <1>1, SymbolCodes
  <2> QED BY <1>1, <1>3, <1>7, <1>9, <1>10, <1>11, <1>13, <1>14, <1>15, <2>1, <2>3, <2>4, <2>5
          DEF EncodeInv, Written
<1>20. CASE i + 1 # L(s)
  <2>1. k' = n + 1 /\ i' = i + 1 /\ k' - 1 = n
    BY <1>1, <1>3, <1>20
  <2>2. Done' = w + 1
    BY <1>1, <1>2, <1>10, <2>1 DEF Done, w
  <2>3. CodesUpTo(n)'
    BY <1>3, <1>10, <1>17 DEF CodesUpTo
  <2>4. i + 1 < L(src[n + 1])
    BY <1>1, <1>4, <1>5, <1>20 DEF s
  <2>5. \A l \in 1..i' : data'[Sum(n)' + l] = CodeBit(src'[k'], l)
    BY <1>3, <1>10, <1>18, <2>1 DEF s
  <2> QED BY <1>1, <1>3, <1>7, <1>9, <1>10, <1>11, <1>13, <1>14, <1>15, <2>1, <2>2, <2>3, <2>4, <2>5
          DEF EncodeInv, Written
<1> QED BY <1>19, <1>20

LEMMA StepPad == EncodeInv /\ Pad => EncodeInv'
<1> SUFFICES ASSUME EncodeInv, Pad PROVE EncodeInv'
  OBVIOUS
<1> DEFINE n == Len(src)
<1>1. /\ src \in Seq(Bytes) /\ ends \in Seq(Nat) /\ k = n + 1 /\ n \in Nat
      /\ pc = "encode" /\ encoded /\ offset \in 0..7 /\ i = 0
      /\ data \in Seq(Bits) /\ Len(data) \in Nat
  BY DEF EncodeInv, TypeOK, Sizes, Pad, Written
<1>2. Len(ends) = n /\ Sum(n) \in Nat
  BY <1>1 DEF EncodeInv, Sizes, Sum
<1>3. /\ data' = (IF offset # 7 THEN Padded ELSE data) /\ pc' = "call"
      /\ UNCHANGED <<encoded, src, k, i, size, ends, offset, pos, index, all_ones, out, starts, result>>
  BY DEF Pad, inputVars, sizeVars, decodeVars
<1>4. Len(data) = Sum(n) + Free(offset) /\ CodesUpTo(n)
  BY <1>1, <1>2 DEF EncodeInv, Written, Done
<1>5. /\ data' \in Seq(Bits) /\ Len(data') = Len(data)
      /\ \A p \in 1..Sum(n) : data'[p] = data[p]
      /\ \A p \in (Sum(n) + 1)..Len(data) : data'[p] = 1
  <2>1. CASE offset = 7
    BY <1>1, <1>2, <1>3, <1>4, <2>1 DEF Free
  <2>2. CASE offset # 7
    <3>1. Len(data) - offset = Sum(n) + 1
      BY <1>1, <1>2, <1>4, <2>2 DEF Free
    <3>2. data' = [j \in 1..Len(data) |-> IF j >= Sum(n) + 1 THEN 1 ELSE data[j]]
      BY <1>1, <1>3, <2>2, <3>1 DEF Padded
    <3>3. DOMAIN data' = 1..Len(data) /\ \A j \in 1..Len(data) : data'[j] \in Bits
      BY <1>1, <3>2 DEF Bits
    <3>4. data' \in [1..Len(data) -> Bits]
      BY <3>2, <3>3
    <3>5. data' \in Seq(Bits) /\ Len(data') = Len(data)
      BY <1>1, <3>4
    <3> QED BY <1>1, <1>2, <1>4, <3>2, <3>5 DEF Free
  <2> QED BY <2>1, <2>2
<1>6. Ends' /\ \A j : Sum(j)' = Sum(j)
  BY <1>3, SumsStay DEF EncodeInv
<1>7. TypeOK'
  BY <1>1, <1>3, <1>5 DEF EncodeInv, TypeOK
<1>8. Sizes' /\ Written'
  BY <1>1, <1>3, <1>6 DEF EncodeInv, Sizes, Written
<1>9. \A j \in 1..n : \A l \in 1..L(src[j]) : data'[Sum(j - 1) + l] = CodeBit(src[j], l)
  <2> SUFFICES ASSUME NEW j \in 1..n, NEW l \in 1..L(src[j])
               PROVE  data'[Sum(j - 1) + l] = CodeBit(src[j], l)
    OBVIOUS
  <2>1. L(src[j]) \in Nat
    BY <1>1, SymbolCodes
  <2>2. Sum(j) = Sum(j - 1) + L(src[j]) /\ Sum(j) <= Sum(n)
    BY <1>1, <1>2 DEF EncodeInv, Ends
  <2>3. Sum(j - 1) \in Nat
    BY <1>1, <1>2 DEF Sum
  <2>4. Sum(j - 1) + l \in 1..Sum(n)
    BY <1>2, <2>1, <2>2, <2>3
  <2> QED BY <1>4, <1>5, <2>4 DEF CodesUpTo
<1>10. Whole'
  <2>1. CodesUpTo(n)'
    BY <1>3, <1>6, <1>9 DEF CodesUpTo
  <2>2. Len(data') \in Sum(n)..(Sum(n) + 7)
    BY <1>1, <1>2, <1>4, <1>5 DEF Free
  <2> QED BY <1>3, <1>5, <1>6, <2>1, <2>2 DEF Whole
<1> QED BY <1>6, <1>7, <1>8, <1>10 DEF EncodeInv

-----------------------------------------------------------------------------
(* decode_bytes.                                                           *)

LEMMA SameEncoding ==
  ASSUME EncodeInv, pc \in {"call", "decode"}, pc' \in {"decode", "over"}, TypeOK',
         UNCHANGED <<encoded, src, k, i, size, ends, offset, data>>
  PROVE  EncodeInv'
<1>1. Ends' /\ \A j : Sum(j)' = Sum(j)
  BY SumsStay DEF EncodeInv
<1>2. Sizes'
  BY <1>1 DEF EncodeInv, Sizes
<1>3. Written'
  BY DEF Written
<1>4. Whole'
  <2>1. CASE encoded
    <3>1. /\ Len(data) \in Sum(Len(src))..(Sum(Len(src)) + 7)
          /\ CodesUpTo(Len(src))
          /\ \A p \in (Sum(Len(src)) + 1)..Len(data) : data[p] = 1
      BY <2>1 DEF EncodeInv, Whole
    <3>2. CodesUpTo(Len(src))'
      BY <1>1, <3>1 DEF CodesUpTo
    <3> QED BY <1>1, <3>1, <3>2 DEF Whole
  <2>2. CASE ~encoded
    BY <2>2 DEF Whole
  <2> QED BY <2>1, <2>2
<1> QED BY <1>1, <1>2, <1>3, <1>4 DEF EncodeInv

LEMMA NextSum ==
  ASSUME Ends, NEW n, n = Len(ends), NEW m \in Nat, m + 1 \in 1..n
  PROVE  Sum(m + 1) = Sum(m) + L(src[m + 1])
<1>1. PICK j \in 1..n : j = m + 1
  OBVIOUS
<1>2. Sum(j) = Sum(j - 1) + L(src[j])
  BY DEF Ends
<1>3. j - 1 = m
  BY <1>1
<1> QED BY <1>1, <1>2, <1>3

LEMMA NextCode ==
  ASSUME NEW n, CodesUpTo(n), NEW m \in Nat, m + 1 \in 1..n
  PROVE  \A l \in 1..L(src[m + 1]) : data[Sum(m) + l] = CodeBit(src[m + 1], l)
<1>1. PICK j \in 1..n : j = m + 1
  OBVIOUS
<1>2. \A l \in 1..L(src[j]) : data[Sum(j - 1) + l] = CodeBit(src[j], l)
  BY DEF CodesUpTo
<1>3. j - 1 = m
  BY <1>1
<1> QED BY <1>1, <1>2, <1>3

LEMMA NoSuchByte == EOS \notin Bytes /\ \A s \in Symbols : s # EOS => s \in Bytes /\ s % 256 = s
BY DEF Bytes, Symbols, EOS

(* The code of s takes the bits of d from st on, up to p.                  *)
CodeOver(s, d, st, p) ==
  s \in Symbols /\ L(s) = p - st /\ \A j \in 1..L(s) : d[st + j] = CodeBit(s, j)

LEMMA AtLeaf ==
  ASSUME NEW d \in Seq(Bits), NEW c, NEW st, NEW p \in 0..Len(d), At(c, d, st, p), Leaf(c)
  PROVE  CodeOver(TREE_LIST[c].right, d, st, p)
<1> DEFINE s == TREE_LIST[c].right
<1>1. /\ c \in Nodes /\ st \in 0..p /\ Len(Path[c]) = p - st
      /\ \A j \in 1..(p - st) : Path[c][j] = d[st + j]
  BY DEF At
<1>2. s \in Symbols /\ Path[c] = Code(s)
  BY <1>1, TreeAssumption
<1> HIDE DEF s
<1>3. L(s) = p - st /\ \A j \in 1..L(s) : Code(s)[j] = CodeBit(s, j)
  BY <1>1, <1>2, SymbolCodes
<1> QED BY <1>1, <1>2, <1>3 DEF s, CodeOver

LEMMA CodeOverIs ==
  ASSUME NEW t, NEW d, NEW st, NEW p, CodeOver(t, d, st, p)
  PROVE  t \in Symbols /\ L(t) = p - st /\ \A j \in 1..L(t) : d[st + j] = CodeBit(t, j)
BY DEF CodeOver

LEMMA NotThisCode ==
  ASSUME NEW d, NEW st, NEW p, NoCode(d, st, p), NEW t \in Symbols,
         \A j \in 1..L(t) : d[st + j] = CodeBit(t, j)
  PROVE  ~(L(t) <= p - st)
BY DEF NoCode

LEMMA AtBranch ==
  ASSUME NEW d \in Seq(Bits), NEW c, NEW st, NEW p \in 0..Len(d), At(c, d, st, p), ~Leaf(c),
         NEW s \in Symbols, L(s) = p - st
  PROVE  ~\A j \in 1..L(s) : d[st + j] = CodeBit(s, j)
<1> SUFFICES ASSUME \A j \in 1..L(s) : d[st + j] = CodeBit(s, j) PROVE FALSE
  OBVIOUS
<1>1. /\ c \in Nodes /\ st \in 0..p /\ Len(Path[c]) = p - st
      /\ \A j \in 1..(p - st) : Path[c][j] = d[st + j]
  BY DEF At
<1>2. Path[c] \in Seq(Bits) /\ Path[c] # Code(s)
  BY <1>1, TreeAssumption
<1>3. /\ Code(s) \in Seq(Bits) /\ Len(Code(s)) = L(s)
      /\ \A j \in 1..L(s) : Code(s)[j] = CodeBit(s, j)
  BY SymbolCodes
<1>4. Len(Path[c]) = Len(Code(s)) /\ \A j \in 1..Len(Code(s)) : Path[c][j] = Code(s)[j]
  BY <1>1, <1>3
<1>5. Path[c] = Code(s)
  BY <1>2, <1>3, <1>4, SeqEqual
<1> QED BY <1>2, <1>5

(* A step leads one level down.                                            *)
LEMMA Down ==
  ASSUME NEW d \in Seq(Bits), NEW n, NEW st, NEW p \in 0..(Len(d) - 1), At(n, d, st, p), ~Leaf(n),
         NEW c, c = IF d[p + 1] = 1 THEN TREE_LIST[n].right ELSE TREE_LIST[n].left
  PROVE  At(c, d, st, p + 1)
<1>1. /\ n \in Nodes /\ st \in 0..p /\ Len(Path[n]) = p - st
      /\ \A j \in 1..(p - st) : Path[n][j] = d[st + j]
  BY DEF At
<1> DEFINE bit == d[p + 1]
<1>2. bit \in Bits /\ Path[n] \in Seq(Bits)
  BY <1>1, TreeAssumption
<1>3. c \in Nodes /\ Path[c] = Append(Path[n], bit)
  <2>1. CASE bit = 1
    BY <1>1, <2>1, TreeAssumption
  <2>2. CASE bit = 0
    BY <1>1, <2>2, TreeAssumption
  <2> QED BY <1>2, <2>1, <2>2 DEF Bits
<1>4. /\ Len(Path[c]) = p + 1 - st /\ Path[c][p + 1 - st] = bit
      /\ \A j \in 1..(p - st) : Path[c][j] = Path[n][j]
  <2>1. Len(Path[n]) + 1 = p + 1 - st
    BY <1>1
  <2> HIDE DEF bit
  <2>2. /\ Len(Append(Path[n], bit)) = Len(Path[n]) + 1
        /\ Append(Path[n], bit)[Len(Path[n]) + 1] = bit
        /\ \A j \in 1..Len(Path[n]) : Append(Path[n], bit)[j] = Path[n][j]
    BY <1>2, AppendProperties
  <2> QED BY <1>1, <1>3, <2>1, <2>2
<1>5. \A j \in 1..(p + 1 - st) : Path[c][j] = d[st + j]
  <2> SUFFICES ASSUME NEW j \in 1..(p + 1 - st) PROVE Path[c][j] = d[st + j]
    OBVIOUS
  <2>1. CASE j = p + 1 - st
    <3>1. st + j = p + 1
      BY <1>1, <2>1
    <3> QED BY <1>4, <2>1, <3>1
  <2>2. CASE j # p + 1 - st
    <3>1. j \in 1..(p - st)
      BY <1>1, <2>2
    <3> QED BY <1>1, <1>4, <3>1
  <2> QED BY <2>1, <2>2
<1> QED BY <1>1, <1>3, <1>4, <1>5, SMTT(30) DEF At

(* What decode_bytes finds in the codes of src is the next byte of it.     *)
LEMMA LeafIsNext ==
  ASSUME IInv, encoded, pc = "decode", pos < Len(data), NEW s \in Symbols,
         L(s) = pos + 1 - Start, \A j \in 1..L(s) : data[Start + j] = CodeBit(s, j)
  PROVE  Len(out) < Len(src) /\ s = src[Len(out) + 1]
<1>0. PICK m, n, st : m = Len(out) /\ n = Len(src) /\ st = Start
  OBVIOUS
<1>1. /\ src \in Seq(Bytes) /\ n \in Nat /\ m \in 0..n /\ st = Sum(m) /\ pos \in Nat
      /\ Len(data) \in Nat /\ m < n => pos < Sum(m + 1)
  BY <1>0 DEF IInv, DecodeInv, Follow, EncodeInv, TypeOK
<1>2. /\ Len(ends) = n /\ ends \in Seq(Nat)
      /\ Len(data) <= Sum(n) + 7 /\ CodesUpTo(n)
      /\ \A p \in (Sum(n) + 1)..Len(data) : data[p] = 1
  BY <1>0 DEF IInv, EncodeInv, Sizes, TypeOK, Whole
<1>3. Sum(m) \in Nat /\ Sum(n) \in Nat /\ L(s) \in Nat
  BY <1>1, <1>2, SymbolCodes, SMTT(30) DEF Sum
<1>4. CASE m = n
  <2>1. L(s) < 8 /\ \A j \in 1..L(s) : st + j \in (Sum(n) + 1)..Len(data)
    BY <1>0, <1>1, <1>2, <1>3, <1>4
  <2>2. PICK j \in 1..L(s) : CodeBit(s, j) = 0
    BY <2>1, CodesAssumption DEF L
  <2>3. data[st + j] = 0 /\ data[st + j] = 1
    BY <1>0, <1>2, <2>1, <2>2
  <2> QED BY <2>3
<1>5. CASE m # n
  <2> DEFINE t == src[m + 1]
  <2>1. m + 1 \in 1..n /\ m + 1 - 1 = m
    BY <1>1, <1>5
  <2>2. t \in Symbols /\ L(t) \in Nat
    BY <1>0, <1>1, <2>1, SymbolCodes
  <2>3. Sum(m + 1) = Sum(m) + L(t)
    BY <1>1, <1>2, <2>1, NextSum DEF IInv, EncodeInv
  <2>4. L(s) <= L(t)
    BY <1>0, <1>1, <1>3, <2>1, <2>2, <2>3
  <2>5. \A j \in 1..L(t) : data[st + j] = CodeBit(t, j)
    BY <1>1, <1>2, <2>1, NextCode
  <2> HIDE DEF t
  <2>6. \A j \in 1..L(s) : CodeBit(s, j) = CodeBit(t, j)
    BY <1>0, <1>3, <2>2, <2>4, <2>5
  <2>7. s = t
    BY <2>2, <2>4, <2>6, CodesAssumption DEF L
  <2> QED BY <1>0, <2>1, <2>7 DEF t
<1> QED BY <1>4, <1>5

LEMMA StepEncode ==
  ASSUME IInv, AddSize \/ RoundSize \/ PutBit \/ Pad
  PROVE  IInv'
<1>1. EncodeInv'
  BY StepAddSize, StepRoundSize, StepPutBit, StepPad, Zenon DEF IInv
<1>2. pc \in {"size", "encode"} /\ pc' \in {"size", "encode", "call"} /\ result' = result
  BY DEF AddSize, RoundSize, PutBit, Pad, decodeVars
<1>3. result' = "None"
  BY <1>2 DEF IInv, DecodeInv, Position
<1>4. DecodeInv'
  BY <1>2, <1>3 DEF DecodeInv, Decoded, Position, Follow
<1> QED BY <1>1, <1>4 DEF IInv

LEMMA StepCall == IInv /\ Call => IInv'
<1> SUFFICES ASSUME IInv, Call PROVE IInv'
  OBVIOUS
<1>1. /\ pc = "call" /\ pc' = "decode" /\ pos' = 0 /\ index' = 0 /\ all_ones' = "None"
      /\ out' = <<>> /\ starts' = <<0>> /\ result' = result
      /\ UNCHANGED <<encoded, src, k, i, size, ends, offset, data>>
  BY DEF Call, inputVars, sizeVars, writeVars
<1>2. 0 \in Nodes /\ ~Leaf(0) /\ Len(Path[0]) = 0
  BY TreeAssumption
<1>3. TypeOK'
  <2>1. data \in Seq(Bits)
    BY DEF IInv, EncodeInv, TypeOK
  <2>2. <<>> \in Seq(Bytes) /\ <<0>> \in Seq(Nat) /\ 0 \in 0..Len(data)
    BY <2>1
  <2> QED BY <1>1, <1>2, <2>2 DEF IInv, EncodeInv, TypeOK
<1>4. EncodeInv'
  BY <1>1, <1>3, SameEncoding DEF IInv
<1>5. result = "None"
  BY <1>1 DEF IInv, DecodeInv, Position
<1>6. Start' = 0 /\ Len(out') = 0 /\ Len(starts') = 1 /\ starts'[1] = 0
  BY <1>1 DEF Start
<1>7. Decoded'
  BY <1>1, <1>6 DEF Decoded
<1>8. Position'
  <2>1. At(0, data', 0, 0)
    BY <1>2 DEF At
  <2>2. NoCode(data', 0, 0)
    BY SymbolCodes DEF NoCode
  <2>3. OnesSince("None", data', 0, 0)
    BY DEF OnesSince
  <2> QED BY <1>1, <1>2, <1>5, <1>6, <2>1, <2>2, <2>3 DEF Position
<1>9. Follow'
  <2>1. CASE encoded
    <3>1. src \in Seq(Bytes) /\ Len(src) \in Nat /\ Len(ends) = Len(src)
      BY <1>1, <2>1 DEF IInv, EncodeInv, TypeOK, Sizes
    <3>2. 0 < Len(src) => 0 < Sum(1)
      <4>1. ASSUME 0 < Len(src) PROVE 0 < Sum(1)
        <5>1. 1 \in 1..Len(ends) /\ src[1] \in Bytes
          BY <3>1, <4>1
        <5>2. Sum(1) = Sum(1 - 1) + L(src[1])
          BY <5>1, Zenon DEF IInv, EncodeInv, Ends
        <5>3. Sum(1 - 1) = 0
          BY DEF Sum
        <5>4. L(src[1]) \in Nat \ {0}
          BY <5>1, SymbolCodes
        <5> QED BY <5>2, <5>3, <5>4
      <4> QED BY <4>1
    <3>3. Sum(0)' = 0 /\ Sum(1)' = Sum(1)
      BY <1>1 DEF Sum
    <3> QED BY <1>1, <1>5, <1>6, <3>1, <3>2, <3>3 DEF Follow
  <2>2. CASE ~encoded
    BY <1>1, <2>2 DEF Follow
  <2> QED BY <2>1, <2>2
<1> QED BY <1>4, <1>7, <1>8, <1>9 DEF IInv, DecodeInv

-----------------------------------------------------------------------------
LEMMA OnesGrow ==
  ASSUME NEW d \in Seq(Bits), NEW p \in 0..(Len(d) - 1), NEW st \in 0..p, NEW a,
         a \in {"None", "yes", "no"}, OnesSince(a, d, st, p),
         NEW b, b = IF d[p + 1] = 0 THEN "no" ELSE IF a = "None" THEN "yes" ELSE a
  PROVE  OnesSince(b, d, st, p + 1) /\ b \in {"yes", "no"}
<1>1. d[p + 1] \in Bits
  OBVIOUS
<1>2. CASE d[p + 1] = 0
  <2>1. p + 1 \in (st + 1)..(p + 1)
    OBVIOUS
  <2> QED BY <1>2, <2>1 DEF OnesSince
<1>3. CASE d[p + 1] = 1
  <2>1. CASE a = "None"
    BY <1>3, <2>1 DEF OnesSince
  <2>2. CASE a = "yes"
    BY <1>3, <2>2 DEF OnesSince
  <2>3. CASE a = "no"
    <3>1. PICK q \in (st + 1)..p : d[q] = 0
      BY <2>3 DEF OnesSince
    <3>2. q \in (st + 1)..(p + 1) /\ b = "no"
      BY <1>3, <2>3
    <3> QED BY <3>1, <3>2 DEF OnesSince
  <2> QED BY <2>1, <2>2, <2>3
<1> QED BY <1>1, <1>2, <1>3 DEF Bits

LEMMA NoCodeGrows ==
  ASSUME NEW d \in Seq(Bits), NEW p \in 0..(Len(d) - 1), NEW st \in 0..p, NoCode(d, st, p),
         NEW c, At(c, d, st, p + 1), ~Leaf(c)
  PROVE  NoCode(d, st, p + 1)
<1> SUFFICES ASSUME NEW s \in Symbols, L(s) <= p + 1 - st,
                    \A j \in 1..L(s) : d[st + j] = CodeBit(s, j)
             PROVE  FALSE
  BY DEF NoCode
<1>1. L(s) \in Nat
  BY SymbolCodes
<1>2. ~(L(s) <= p - st)
  BY DEF NoCode
<1>3. L(s) = p + 1 - st
  BY <1>1, <1>2
<1> QED BY <1>3, AtBranch

LEMMA StepDecodeBit == IInv /\ DecodeBit => IInv'
<1> SUFFICES ASSUME IInv, DecodeBit PROVE IInv'
  OBVIOUS
<1> DEFINE bit == data[pos + 1]
           c == Child(bit)
           s == TREE_LIST[c].right
<1>0. PICK p, st, m : p = pos /\ st = Start /\ m = Len(out)
  OBVIOUS
<1>1. /\ pc = "decode" /\ pos < Len(data) /\ pos' = pos + 1
      /\ UNCHANGED <<encoded, src, k, i, size, ends, offset, data>>
      /\ Branch(bit) \/ FoundEOS(bit) \/ Found(bit)
  BY DEF DecodeBit, inputVars, sizeVars, writeVars
<1>2. /\ data \in Seq(Bits) /\ p \in 0..(Len(data) - 1) /\ starts \in Seq(Nat)
      /\ all_ones \in {"None", "yes", "no"} /\ out \in Seq(Bytes)
      /\ m \in Nat /\ Len(data) \in Nat
  <2>1. /\ data \in Seq(Bits) /\ pos \in 0..Len(data) /\ starts \in Seq(Nat)
        /\ all_ones \in {"None", "yes", "no"} /\ out \in Seq(Bytes)
    BY DEF IInv, EncodeInv, TypeOK
  <2>2. Len(data) \in Nat /\ Len(out) \in Nat
    BY <2>1
  <2> QED BY <1>0, <1>1, <2>1, <2>2
<1>3. /\ result = "None" /\ Len(starts) = m + 1 /\ At(index, data, st, p)
      /\ OnesSince(all_ones, data, st, p) /\ ~Leaf(index) /\ NoCode(data, st, p)
  BY <1>0, <1>1 DEF IInv, DecodeInv, Position
<1>4. st \in 0..p /\ index \in Nodes /\ st = starts[m + 1]
  BY <1>0, <1>3 DEF At, Start
<1>5. c = IF data[p + 1] = 1 THEN TREE_LIST[index].right ELSE TREE_LIST[index].left
  BY <1>0 DEF Child
<1>6. bit \in Bits
  BY <1>0, <1>2
<1> HIDE DEF c, bit
<1>7. At(c, data, st, p + 1) /\ c \in Nodes
  <2>1. At(c, data, st, p + 1)
    BY <1>2, <1>3, <1>5, Down
  <2> QED BY <2>1 DEF At
<1>8. ASSUME Leaf(c)
      PROVE  /\ s \in Symbols /\ L(s) = p + 1 - st
             /\ \A j \in 1..L(s) : data[st + j] = CodeBit(s, j)
             /\ CodeAt(s, st)
  <2>1. p + 1 \in 0..Len(data)
    BY <1>2
  <2>2. /\ s \in Symbols /\ L(s) = p + 1 - st
        /\ \A j \in 1..L(s) : data[st + j] = CodeBit(s, j)
    <3>1. CodeOver(s, data, st, p + 1)
      BY <1>2, <1>7, <1>8, <2>1, AtLeaf
    <3> HIDE DEF s
    <3> QED BY <1>2, <1>4, <3>1, CodeOverIs, SMTT(30)
  <2> HIDE DEF s
  <2>3. st + L(s) <= Len(data)
    BY <1>2, <1>4, <2>2
  <2> QED BY <2>2, <2>3 DEF CodeAt, L
<1>9. ASSUME Leaf(c), encoded
      PROVE  m < Len(src) /\ s = src[m + 1]
  BY <1>0, <1>1, <1>2, <1>8, <1>9, LeafIsNext DEF s
<1>10. /\ starts[1] = 0
       /\ \A j \in 1..m : CodeAt(out[j], starts[j]) /\ starts[j + 1] = starts[j] + L(out[j])
  BY <1>0, <1>1 DEF IInv, DecodeInv, Decoded, L
<1>11. ASSUME encoded
       PROVE  /\ m <= Len(src) /\ st = Sum(m) /\ \A j \in 1..m : out[j] = src[j]
              /\ m < Len(src) => p < Sum(m + 1)
  BY <1>0, <1>1, <1>11 DEF IInv, DecodeInv, Follow
<1>12. \A j : Sum(j)' = Sum(j)
  BY <1>1 DEF Sum
<1>13. \A t, j : CodeAt(t, j)' <=> CodeAt(t, j)
  BY <1>1, Zenon DEF CodeAt
<1> HIDE DEF s
<1>14. pos' = p + 1 /\ pos' \in 0..Len(data')
  BY <1>0, <1>1, <1>2
<1>15. Ones(bit) = (IF data[p + 1] = 0 THEN "no" ELSE IF all_ones = "None" THEN "yes" ELSE all_ones)
  BY <1>0 DEF Ones, bit
<1>16. CASE Branch(bit)
  <2>1. /\ ~Leaf(c) /\ index' = c /\ all_ones' = Ones(bit)
        /\ UNCHANGED <<pc, out, starts, result>>
    BY <1>16 DEF Branch, c
  <2>2. OnesSince(all_ones', data, st, p + 1) /\ all_ones' \in {"yes", "no"}
    BY <1>2, <1>3, <1>4, <1>15, <2>1, OnesGrow
  <2>3. NoCode(data, st, p + 1)
    BY <1>2, <1>3, <1>4, <1>7, <2>1, NoCodeGrows
  <2>4. Start' = st
    BY <1>0, <2>1 DEF Start
  <2>5. TypeOK'
    BY <1>1, <1>7, <1>14, <2>1, <2>2 DEF IInv, EncodeInv, TypeOK
  <2>6. EncodeInv'
    BY <1>1, <2>1, <2>5, SameEncoding DEF IInv
  <2>7. Decoded'
    BY <1>0, <1>1, <1>3, <1>10, <1>13, <2>1 DEF Decoded, L
  <2>8. Position'
    BY <1>0, <1>1, <1>3, <1>7, <1>14, <2>1, <2>2, <2>3, <2>4 DEF Position
  <2>9. Follow'
    <3>1. ASSUME encoded, m < Len(src) PROVE p + 1 < Sum(m + 1)
      <4>1. m + 1 \in 1..Len(src) /\ m + 1 - 1 = m /\ src[m + 1] \in Symbols
        BY <1>2, <3>1, SymbolCodes DEF IInv, EncodeInv, TypeOK
      <4>2. Len(ends) = Len(src) /\ CodesUpTo(Len(src)) /\ ends \in Seq(Nat)
        BY <1>1, <3>1 DEF IInv, EncodeInv, Sizes, Whole, TypeOK
      <4>3. st = Sum(m)
        BY <1>11, <3>1
      <4>4. Sum(m + 1) = st + L(src[m + 1])
        BY <1>2, <4>1, <4>2, <4>3, NextSum DEF IInv, EncodeInv
      <4>5. \A j \in 1..L(src[m + 1]) : data[st + j] = CodeBit(src[m + 1], j)
        BY <1>2, <4>1, <4>2, <4>3, NextCode
      <4>6. L(src[m + 1]) \in Nat
        BY <4>1, SymbolCodes
      <4>7. ~(L(src[m + 1]) <= p + 1 - st)
        <5>1. PICK t, q : t = src[m + 1] /\ q = p + 1
          OBVIOUS
        <5>2. t \in Symbols /\ (\A j \in 1..L(t) : data[st + j] = CodeBit(t, j)) /\ NoCode(data, st, q)
          BY <2>3, <4>1, <4>5, <5>1
        <5>3. ~(L(t) <= q - st)
          BY <5>2, NotThisCode, Zenon
        <5> QED BY <1>2, <1>4, <4>6, <5>1, <5>3
      <4> QED BY <1>2, <1>4, <4>4, <4>6, <4>7
    <3> QED BY <1>0, <1>1, <1>3, <1>11, <1>12, <1>14, <2>1, <2>4, <3>1 DEF Follow
  <2> QED BY <2>6, <2>7, <2>8, <2>9 DEF IInv, DecodeInv
<1>17. CASE FoundEOS(bit)
  <2>1. /\ Leaf(c) /\ s = EOS /\ index' = c /\ all_ones' = Ones(bit)
        /\ result' = "FoundEOS" /\ pc' = "over" /\ UNCHANGED <<out, starts>>
    BY <1>17 DEF FoundEOS, c, s
  <2>2. OnesSince(all_ones', data, st, p + 1) /\ all_ones' \in {"yes", "no"}
    BY <1>2, <1>3, <1>4, <1>15, <2>1, OnesGrow
  <2>3. CodeAt(EOS, st)
    BY <1>8, <2>1
  <2>4. Start' = st
    BY <1>0, <2>1 DEF Start
  <2>5. TypeOK'
    BY <1>1, <1>7, <1>14, <2>1, <2>2 DEF IInv, EncodeInv, TypeOK
  <2>6. EncodeInv'
    BY <1>1, <2>1, <2>5, SameEncoding DEF IInv
  <2>7. Decoded'
    BY <1>0, <1>1, <1>3, <1>10, <1>13, <2>1 DEF Decoded, L
  <2>8. Position'
    BY <1>0, <1>1, <1>3, <1>7, <1>13, <1>14, <2>1, <2>2, <2>3, <2>4 DEF Position
  <2>9. ~encoded
    <3> SUFFICES ASSUME encoded PROVE FALSE
      OBVIOUS
    <3>1. m < Len(src) /\ s = src[m + 1]
      BY <1>9, <2>1
    <3>2. src[m + 1] \in Bytes
      BY <1>2, <3>1 DEF IInv, EncodeInv, TypeOK
    <3> QED BY <2>1, <3>1, <3>2, NoSuchByte, Zenon
  <2>10. Follow'
    BY <1>1, <2>9 DEF Follow
  <2> QED BY <2>6, <2>7, <2>8, <2>10 DEF IInv, DecodeInv
<1>18. CASE Found(bit)
  <2>1. /\ Leaf(c) /\ s # EOS /\ out' = Append(out, s % 256) /\ index' = 0 /\ all_ones' = "None"
        /\ starts' = Append(starts, pos') /\ UNCHANGED <<pc, result>>
    BY <1>18 DEF Found, c, s
  <2>2. s \in Bytes /\ s % 256 = s
    BY <1>8, <2>1, NoSuchByte, Zenon
  <2>3. /\ out' \in Seq(Bytes) /\ Len(out') = m + 1 /\ out'[m + 1] = s
        /\ \A j \in 1..m : out'[j] = out[j]
    BY <1>0, <1>2, <2>1, <2>2, AppendProperties
  <2>4. /\ starts' \in Seq(Nat) /\ Len(starts') = m + 2 /\ starts'[m + 2] = p + 1
        /\ \A j \in 1..(m + 1) : starts'[j] = starts[j]
    <3>1. starts' = Append(starts, p + 1) /\ p + 1 \in Nat
      BY <1>2, <1>14, <2>1
    <3> QED BY <1>2, <1>3, <3>1, AppendProperties
  <2>5. Start' = p + 1
    BY <2>4 DEF Start
  <2>6. 0 \in Nodes /\ ~Leaf(0) /\ Len(Path[0]) = 0
    BY TreeAssumption
  <2>7. TypeOK'
    BY <1>1, <1>14, <2>1, <2>3, <2>4, <2>6 DEF IInv, EncodeInv, TypeOK
  <2>8. EncodeInv'
    BY <1>1, <2>1, <2>7, SameEncoding DEF IInv
  <2>9. Decoded'
    <3>1. starts'[1] = 0 /\ Len(starts') = Len(out') + 1
      BY <1>2, <1>10, <2>3, <2>4
    <3>2. \A j \in 1..(m + 1) : /\ CodeAt(out'[j], starts'[j])
                               /\ starts'[j + 1] = starts'[j] + L(out'[j])
      <4> SUFFICES ASSUME NEW j \in 1..(m + 1)
                   PROVE  CodeAt(out'[j], starts'[j]) /\ starts'[j + 1] = starts'[j] + L(out'[j])
        OBVIOUS
      <4>1. CASE j = m + 1
        <5>1. starts'[j] = st /\ out'[j] = s /\ starts'[j + 1] = p + 1
          BY <1>2, <1>4, <2>3, <2>4, <4>1
        <5>2. p + 1 = st + L(s) /\ CodeAt(s, st)
          BY <1>2, <1>4, <1>8, <2>1
        <5> QED BY <5>1, <5>2
      <4>2. CASE j # m + 1
        <5>1. j \in 1..m /\ j + 1 \in 1..(m + 1)
          BY <1>2, <4>2
        <5> QED BY <1>10, <2>3, <2>4, <5>1
      <4> QED BY <4>1, <4>2
    <3>3. \A j \in 1..(m + 1) : CodeAt(out[j], starts[j])'
      BY <1>1, <3>2 DEF CodeAt
    <3> QED BY <2>3, <3>1, <3>2, <3>3 DEF Decoded, L
  <2>10. Position'
    <3>1. At(0, data, p + 1, p + 1)
      BY <1>2, <2>6 DEF At
    <3>2. NoCode(data, p + 1, p + 1)
      BY <1>2, SymbolCodes DEF NoCode
    <3>3. OnesSince("None", data, p + 1, p + 1)
      BY DEF OnesSince
    <3> QED BY <1>1, <1>3, <1>14, <2>1, <2>3, <2>4, <2>5, <2>6, <3>1, <3>2, <3>3 DEF Position
  <2>11. Follow'
    <3>1. CASE encoded
      <4>1. m < Len(src) /\ s = src[m + 1] /\ src \in Seq(Bytes) /\ Len(src) \in Nat
        BY <1>9, <2>1, <3>1 DEF IInv, EncodeInv, TypeOK
      <4>2. Len(ends) = Len(src) /\ ends \in Seq(Nat)
        BY <1>1, <3>1 DEF IInv, EncodeInv, Sizes, TypeOK
      <4>4. Sum(m + 1) = p + 1
        <5>1. m + 1 \in 1..Len(src) /\ m + 1 - 1 = m
          BY <1>2, <4>1
        <5>2. Sum(m + 1) = st + L(s)
          <6>1. Sum(m + 1) = Sum(m) + L(src[m + 1])
            BY <1>2, <4>2, <5>1, NextSum DEF IInv, EncodeInv
          <6> QED BY <1>11, <3>1, <4>1, <6>1
        <5> QED BY <1>2, <1>4, <1>8, <2>1, <5>2
      <4>5. ASSUME m + 1 < Len(src) PROVE p + 1 < Sum(m + 2)
        <5>1. m + 2 \in 1..Len(src) /\ m + 2 - 1 = m + 1
          BY <1>2, <4>1, <4>5
        <5>2. Sum(m + 2) = Sum(m + 1) + L(src[m + 2])
          <6>1. m + 1 \in Nat /\ m + 1 + 1 \in 1..Len(src) /\ m + 1 + 1 = m + 2
            BY <1>2, <5>1
          <6>2. Sum(m + 1 + 1) = Sum(m + 1) + L(src[m + 1 + 1])
            BY <4>2, <6>1, NextSum DEF IInv, EncodeInv
          <6> QED BY <6>1, <6>2
        <5>3. L(src[m + 2]) \in Nat \ {0}
          BY <4>1, <5>1, SymbolCodes
        <5> QED BY <1>2, <4>4, <5>2, <5>3
      <4>6. \A j \in 1..(m + 1) : out'[j] = src[j]
        BY <1>2, <1>11, <2>3, <3>1, <4>1
      <4>7. /\ Len(out') <= Len(src) /\ Start' = Sum(m + 1)'
            /\ Len(out') + 1 = m + 2
            /\ m + 1 < Len(src) => pos' < Sum(m + 2)'
        BY <1>2, <1>12, <1>14, <2>3, <2>5, <4>1, <4>4, <4>5
      <4> QED BY <1>1, <1>3, <2>1, <2>3, <4>6, <4>7 DEF Follow
    <3>2. CASE ~encoded
      BY <1>1, <3>2 DEF Follow
    <3> QED BY <3>1, <3>2
  <2> QED BY <2>8, <2>9, <2>10, <2>11 DEF IInv, DecodeInv
<1> QED BY <1>1, <1>16, <1>17, <1>18

LEMMA StepEnd == IInv /\ End => IInv'
<1> SUFFICES ASSUME IInv, End PROVE IInv'
  OBVIOUS
<1>0. PICK m, n, st : m = Len(out) /\ n = Len(src) /\ st = Start
  OBVIOUS
<1>1. /\ pc = "decode" /\ pos = Len(data) /\ pc' = "over"
      /\ result' = (IF all_ones = "no" THEN "IncompleteData" ELSE "Ok")
      /\ UNCHANGED <<encoded, src, k, i, size, ends, offset, data, pos, index, all_ones, out, starts>>
  BY DEF End, inputVars, sizeVars, writeVars
<1>2. TypeOK'
  BY <1>1 DEF IInv, EncodeInv, TypeOK
<1>3. EncodeInv'
  BY <1>1, <1>2, SameEncoding DEF IInv
<1>4. Start' = st
  BY <1>0, <1>1 DEF Start
<1>5. Decoded'
  <2>1. \A t, j : CodeAt(t, j)' <=> CodeAt(t, j)
    BY <1>1, Zenon DEF CodeAt
  <2> QED BY <1>1, <2>1 DEF IInv, DecodeInv, Decoded
<1>6. /\ result = "None" /\ Len(starts) = Len(out) + 1 /\ At(index, data, st, pos)
      /\ OnesSince(all_ones, data, st, pos) /\ ~Leaf(index) /\ NoCode(data, st, pos)
  BY <1>0, <1>1 DEF IInv, DecodeInv, Position
<1>7. Position'
  BY <1>1, <1>4, <1>6 DEF Position
<1>8. CASE encoded
  <2>1. /\ m <= n /\ st = Sum(m) /\ \A j \in 1..m : out[j] = src[j]
        /\ m < n => Len(data) < Sum(m + 1)
    BY <1>0, <1>1, <1>8 DEF IInv, DecodeInv, Follow
  <2>2. /\ Len(ends) = n /\ ends \in Seq(Nat) /\ Len(data) >= Sum(n) /\ n \in Nat /\ m \in Nat
        /\ \A q \in (Sum(n) + 1)..Len(data) : data[q] = 1
    BY <1>0, <1>1, <1>8 DEF IInv, EncodeInv, Sizes, TypeOK, Whole
  <2>3. Len(data) \in Nat
    <3>1. data \in Seq(Bits)
      BY DEF IInv, EncodeInv, TypeOK
    <3> QED BY <3>1
  <2>4. m = n
    <3> SUFFICES ASSUME m < n PROVE FALSE
      BY <2>1, <2>2
    <3>1. m + 1 \in 0..Len(ends) /\ n \in 0..Len(ends) /\ m + 1 <= n
      BY <2>2
    <3>2. Sum(m + 1) <= Sum(n)
      BY <3>1 DEF IInv, EncodeInv, Ends
    <3>3. Sum(m + 1) \in Nat /\ Sum(n) \in Nat
      BY <2>2, <3>1 DEF Sum
    <3> QED BY <2>1, <2>2, <2>3, <3>2, <3>3
  <2>5. all_ones # "no"
    <3> SUFFICES ASSUME all_ones = "no" PROVE FALSE
      OBVIOUS
    <3>1. PICK q \in (st + 1)..pos : data[q] = 0
      BY <1>6 DEF OnesSince
    <3> QED BY <1>1, <2>1, <2>2, <2>4, <3>1
  <2>6. Sum(m)' = Sum(m) /\ Len(out') = m /\ Len(src') = n /\ result' = "Ok"
    BY <1>0, <1>1, <2>5 DEF Sum
  <2>7. Follow'
    BY <1>1, <1>4, <2>1, <2>2, <2>4, <2>6 DEF Follow
  <2> QED BY <1>3, <1>5, <1>7, <2>7 DEF IInv, DecodeInv
<1>9. CASE ~encoded
  BY <1>1, <1>3, <1>5, <1>7, <1>9 DEF Follow, IInv, DecodeInv
<1> QED BY <1>8, <1>9

-----------------------------------------------------------------------------
(* The invariant, and what follows from it.                                *)

LEMMA Stutter == IInv /\ UNCHANGED vars => IInv'
<1> SUFFICES ASSUME IInv, UNCHANGED vars PROVE IInv'
  OBVIOUS
<1>1. UNCHANGED <<encoded, src, pc, k, i, size, ends, offset, data, pos, index, all_ones, out,
                  starts, result>>
  BY DEF vars, inputVars, sizeVars, writeVars, decodeVars
<1>2. (\A j : Sum(j)' = Sum(j)) /\ Ends' /\ Start' = Start
  BY <1>1, SumsStay DEF IInv, EncodeInv, Start
<1>3. (\A j : CodesUpTo(j)' <=> CodesUpTo(j)) /\ \A t, j : CodeAt(t, j)' <=> CodeAt(t, j)
  BY <1>1, <1>2, Zenon DEF CodesUpTo, CodeAt
<1>4. EncodeInv'
  BY <1>1, <1>2, <1>3 DEF IInv, EncodeInv, TypeOK, Sizes, Written, Whole, Done
<1>5. Decoded' /\ Position'
  BY <1>1, <1>2, <1>3 DEF IInv, DecodeInv, Decoded, Position
<1>6. Follow'
  BY <1>1, <1>2, <1>3 DEF IInv, DecodeInv, Follow
<1> QED BY <1>4, <1>5, <1>6 DEF IInv, DecodeInv

(* The invariant is inductive.                                             *)
THEOREM Inductive == Spec => []IInv
<1>1. Init => IInv
  <2> SUFFICES ASSUME Init PROVE IInv
    OBVIOUS
  <2>1. DecodeInv
    BY DEF Init, DecodeInv, Decoded, Position, Follow
  <2> QED BY <2>1, InitEncode DEF IInv
<1>2. IInv /\ [Next]_vars => IInv'
  BY StepEncode, StepCall, StepDecodeBit, StepEnd, Stutter, Zenon DEF Next
<1> QED BY <1>1, <1>2, PTL DEF Spec

(* The position in a byte, the node of the tree and all else stay within   *)
(* their ranges (encode_bytes, decode_bytes).                              *)
THEOREM TypeCorrect == Spec => []TypeOK
BY Inductive, PTL DEF IInv, EncodeInv

(* What encode_bytes writes, decode_bytes decodes to the same string, for  *)
(* every code without prefixes and every string.                           *)
THEOREM DecodedAsEncoded == Spec => []RoundTrip
<1>1. IInv => RoundTrip
  <2> SUFFICES ASSUME IInv, encoded PROVE RoundTrip
    BY DEF RoundTrip
  <2>1. result \in {"None", "Ok"}
    <3>1. pc \in {"decode", "over"} => result \in {"None", "Ok"}
      BY DEF IInv, DecodeInv, Follow
    <3>2. pc \in {"size", "encode", "call"} => result = "None"
      BY DEF IInv, DecodeInv, Position
    <3> QED BY <3>1, <3>2 DEF IInv, EncodeInv, TypeOK
  <2>2. pc = "decode" => Len(out) <= Len(src) /\ \A j \in 1..Len(out) : out[j] = src[j]
    BY DEF IInv, DecodeInv, Follow
  <2>3. ASSUME result = "Ok" PROVE out = src
    <3>0. PICK m, n : m = Len(out) /\ n = Len(src)
      OBVIOUS
    <3>1. pc = "over" /\ pos = Len(data) /\ out \in Seq(Bytes) /\ src \in Seq(Bytes)
      BY <2>3 DEF IInv, DecodeInv, Position, EncodeInv, TypeOK
    <3>2. /\ m <= n /\ \A j \in 1..m : out[j] = src[j]
          /\ m < n => Len(data) < Sum(m + 1)
      BY <3>0, <3>1 DEF IInv, DecodeInv, Follow
    <3>3. Len(ends) = n /\ ends \in Seq(Nat) /\ Len(data) >= Sum(n)
      BY <3>0, <3>1 DEF IInv, EncodeInv, Sizes, TypeOK, Whole
    <3>4. m \in Nat /\ n \in Nat /\ Len(data) \in Nat
      BY <3>0, <3>1 DEF IInv, EncodeInv, TypeOK
    <3>5. m = n
      <4> SUFFICES ASSUME m < n PROVE FALSE
        BY <3>2, <3>4
      <4>1. m + 1 \in 0..Len(ends) /\ n \in 0..Len(ends) /\ m + 1 <= n
        BY <3>3, <3>4
      <4>2. Sum(m + 1) <= Sum(n)
        BY <4>1 DEF IInv, EncodeInv, Ends
      <4>3. Sum(m + 1) \in Nat /\ Sum(n) \in Nat
        BY <3>3, <4>1 DEF Sum
      <4> QED BY <3>2, <3>3, <3>4, <4>2, <4>3
    <3> QED BY <3>0, <3>1, <3>2, <3>5, SeqEqual
  <2> QED BY <2>1, <2>2, <2>3 DEF RoundTrip
<1> QED BY <1>1, Inductive, PTL

(* get_size is how many bytes encode_bytes writes.                         *)
THEOREM SizeIsTold == Spec => []SizeTold
<1>1. IInv => SizeTold
  <2> SUFFICES ASSUME IInv, encoded, pc \in {"call", "decode", "over"} PROVE Len(data) = 8 * size
    BY DEF SizeTold
  <2> DEFINE x == Sum(Len(src))  y == Len(data)
  <2>1. size = Rounded(x) /\ y \in x..(x + 7) /\ y % 8 = 0 /\ y \in Nat
    BY DEF IInv, EncodeInv, Sizes, Whole, TypeOK
  <2>2. x \in Nat
    BY DEF IInv, EncodeInv, Sizes, TypeOK, Sum
  <2> HIDE DEF x, y
  <2>3. y = 8 * Rounded(x)
    BY <2>1, <2>2 DEF Rounded
  <2> QED BY <2>1, <2>3 DEF y
<1> QED BY <1>1, Inductive, PTL

(* Whatever data a peer sends, just the codes in it are decoded.           *)
THEOREM DecodedIsThere == Spec => []Decoded
BY Inductive, PTL DEF IInv, DecodeInv

(* Whatever data a peer sends, its end decides as decode_bytes says.       *)
THEOREM RightVerdict == Spec => []Verdict
<1>1. IInv => Verdict
  <2> SUFFICES ASSUME IInv PROVE Verdict
    OBVIOUS
  <2>1. ASSUME result \in {"Ok", "IncompleteData"}
        PROVE  /\ pos = Len(data) /\ OnesSince(all_ones, data, Start, pos) /\ NoCode(data, Start, pos)
               /\ result = "Ok" <=> all_ones # "no"
    BY <2>1 DEF IInv, DecodeInv, Position, EncodeInv, TypeOK
  <2>2. ASSUME result = "FoundEOS" PROVE CodeAt(EOS, Start)
    BY <2>2 DEF IInv, DecodeInv, Position, EncodeInv, TypeOK
  <2> DEFINE rest == (Start + 1)..Len(data)
  <2>3. ASSUME result = "Ok" PROVE \A j \in rest : data[j] = 1
    <3>1. all_ones \in {"None", "yes"} /\ OnesSince(all_ones, data, Start, Len(data))
      BY <2>1, <2>3 DEF IInv, EncodeInv, TypeOK
    <3>2. Start \in Nat /\ Len(data) \in Nat
      BY <2>1, <2>3 DEF IInv, DecodeInv, Position, At, EncodeInv, TypeOK
    <3> QED BY <3>1, <3>2 DEF OnesSince
  <2>4. ASSUME result = "IncompleteData" PROVE \E j \in rest : data[j] = 0
    BY <2>1, <2>4 DEF OnesSince
  <2>5. ASSUME result \in {"Ok", "IncompleteData"}, NEW s \in Symbols PROVE ~CodeAt(s, Start)
    <3> SUFFICES ASSUME CodeAt(s, Start) PROVE FALSE
      OBVIOUS
    <3>1. /\ Start + L(s) <= Len(data)
          /\ \A j \in 1..L(s) : data[Start + j] = CodeBit(s, j)
      BY DEF CodeAt, L
    <3>2. Start \in Nat /\ Len(data) \in Nat /\ L(s) \in Nat
      BY <2>5, SymbolCodes DEF IInv, DecodeInv, Position, At, EncodeInv, TypeOK
    <3>3. L(s) <= Len(data) - Start
      BY <3>1, <3>2
    <3> QED BY <2>1, <2>5, <3>1, <3>3 DEF NoCode
  <2> QED BY <2>2, <2>3, <2>4, <2>5 DEF Verdict
<1> QED BY <1>1, Inductive, PTL
=============================================================================
