---------------------------- MODULE HpackProofs -----------------------------
(***************************************************************************)
(* Proofs about HPACK: about Literals, for every base, width and prefix,   *)
(* and about HeaderBlock, for any headers, tables, sizes and prefixes.     *)
(***************************************************************************)
EXTENDS Literals, HeaderBlock, SequenceTheorems, WellFoundedInduction, TLAPS

(* The bytes of a number go on until the last, and their sums are added up. *)
Bytes ==
  /\ sent # <<>> => /\ sent[1].sum = sent[1].digit /\ sent[1].next = 1
                    /\ sent[1].digit \in 0..mask
                    /\ sent[1].more <=> sent[1].digit = mask
  /\ \A k \in 2..Len(sent) :
       /\ sent[k - 1].more
       /\ sent[k].sum = sent[k - 1].sum + sent[k].digit * sent[k - 1].next
       /\ sent[k].next = sent[k - 1].next * Base
  /\ Len(text) > 0 => sent # <<>> /\ ~Last.more
  /\ Len(sent) + Len(text) <= MaxBytes

(* What write_integer has written and what it has left make its number, so *)
(* it needs no place that a u64 does not have.                             *)
Written ==
  number >= 0 =>
    /\ \A k \in 1..Len(sent) : sent[k].sum <= number
    /\ \A k \in 1..Len(sent) : sent[k].more => sent[k].next < Limit
    /\ sent # <<>> => number = Last.sum + (IF Last.more THEN int * Last.next ELSE 0)

Right == sent[offset].sum >= Limit \/ output = sent[offset].sum

Parsed == offset > 0 /\ offset = Len(sent) /\ ~Last.more /\ Right

(* Where a call is, and what it returned.                                  *)
Stage ==
  /\ pc = "idle" => result \in {"None", "TooSmall"}
  /\ pc \in {"first", "digits", "text"} => result = "None"
  /\ pc = "over" => result \notin {"None", "TooSmall"}
  /\ pc = "first" => place = 1
  /\ pc = "digits" => /\ offset > 0 /\ sent[offset].more
                      /\ place = sent[offset].next /\ Right
  /\ pc = "text" => kind = "string" /\ Parsed
  /\ pc = "over" /\ result \notin {"panic", "Overflow"} => Parsed
  /\ result = "Ok" => IF kind = "integer" THEN used = offset
                      ELSE used = offset + output /\ used <= come
  /\ result \in DecodeErrors => kind = "string"
  /\ result = "Overflow" => offset > 0 /\ sent[offset].more /\ sent[offset].next >= Limit
  /\ result = "panic" => /\ offset > 0
                         /\ \/ sent[offset].sum >= Limit
                            \/ /\ kind = "string" /\ Parsed
                               /\ sent[offset].sum + offset >= Limit

Missing ==
  result = "TooSmall" =>
    \/ come = 0
    \/ come <= Len(sent) /\ sent[come].more
    \/ kind = "string" /\ sent # <<>> /\ ~Last.more /\ come < Len(sent) + Last.sum

(* The buffer is as it was until a string is whole.                        *)
Taken ==
  kind = "string" =>
    /\ result = "Ok" /\ sent[offset].sum < Limit =>
         out = IF huffman THEN Decode(SubSeq(text, 1, sent[offset].sum)).out
               ELSE SubSeq(text, 1, sent[offset].sum)
    /\ pc # "over" \/ result \in {"Overflow", "panic"} => out = Leftover

IInv == TypeOK /\ Bytes /\ Written /\ Stage /\ Missing /\ Taken

-----------------------------------------------------------------------------
(* Lemmas.                                                                 *)

LEMMA Remainder ==
  ASSUME NEW m \in Nat \ {0}, NEW x \in Nat
  PROVE  /\ x % m \in 0..(m - 1) /\ x \div m \in Nat /\ x = m * (x \div m) + (x % m)
         /\ x < m => x % m = x /\ x \div m = 0
         /\ x >= m => x \div m >= 1 /\ x % m <= x - m
<1>1. x % m \in 0..(m - 1) /\ x \div m \in Int /\ x = m * (x \div m) + (x % m)
  OBVIOUS
<1> DEFINE q == x \div m  r == x % m
<1> HIDE DEF q, r
<1>2. q \in Int /\ r \in 0..(m - 1) /\ x = m * q + r
  BY <1>1 DEF q, r
<1>3. q >= 0
  <2>1. q <= -1 => m * q <= -m
    BY <1>2
  <2> QED BY <1>2, <2>1
<1>4. x < m => q = 0
  <2>1. q >= 1 => m * q >= m
    BY <1>2, <1>3
  <2> QED BY <1>2, <1>3, <2>1
<1>5. ASSUME x >= m PROVE q >= 1 /\ r <= x - m
  <2>1. q >= 1
    BY <1>2, <1>3, <1>5
  <2>2. m * q >= m
    BY <1>2, <2>1
  <2> QED BY <1>2, <2>1, <2>2
<1>6. x < m => r = x
  BY <1>2, <1>4
<1> QED BY <1>2, <1>3, <1>4, <1>5, <1>6 DEF q, r

LEMMA Places ==
  ASSUME NEW p \in Nat, NEW b \in Nat, NEW q \in Nat, NEW d \in Nat
  PROVE  (b * q + d) * p = q * (p * b) + d * p
OBVIOUS

LEMMA Product ==
  ASSUME NEW p \in Nat, NEW q \in Nat
  PROVE  p * q \in Nat /\ (p >= 1 => q <= p * q)
OBVIOUS

LEMMA Within ==
  ASSUME NEW n \in Nat, NEW s \in Nat, NEW r \in Nat, n = s + r, NEW p \in Nat, p <= r,
         NEW m \in Nat, n < m
  PROVE  s <= n /\ p < m
OBVIOUS

(* A wrapped sum is right if the number has room.                          *)
LEMMA Added ==
  ASSUME NEW m \in Nat \ {0}, NEW o \in 0..(m - 1), NEW s \in Nat, s >= m \/ o = s,
         NEW t \in Nat, NEW sum, sum = o + (t % m)
  PROVE  /\ sum \in Nat /\ sum % m \in 0..(m - 1)
         /\ sum >= m => s + t >= m
         /\ s + t >= m \/ sum % m = s + t
<1>1. t % m \in 0..(m - 1) /\ (t < m => t % m = t)
  BY Remainder
<1>2. sum \in Nat
  BY <1>1
<1>3. sum % m \in 0..(m - 1) /\ (sum < m => sum % m = sum)
  BY <1>2, Remainder
<1>4. ASSUME s + t < m PROVE sum = s + t
  BY <1>1, <1>4
<1>5. CASE s + t < m
  BY <1>2, <1>3, <1>4, <1>5
<1>6. CASE s + t >= m
  BY <1>2, <1>3, <1>6
<1> QED BY <1>5, <1>6

LEMMA Cut ==
  ASSUME NEW S, NEW s \in Seq(S), NEW n \in Nat, n <= Len(s)
  PROVE  /\ SubSeq(s, 1, n) \in Seq(S) /\ SubSeq(s, 1, n) \in [1..n -> S]
         /\ Len(SubSeq(s, 1, n)) = n /\ \A i \in 1..n : SubSeq(s, 1, n)[i] = s[i]
<1>1. \A i \in 1..n : s[i] \in S
  OBVIOUS
<1>2. /\ SubSeq(s, 1, n) \in Seq(S) /\ Len(SubSeq(s, 1, n)) = n
      /\ \A i \in 1..n : SubSeq(s, 1, n)[i] = s[i]
  BY <1>1, SubSeqProperties
<1>3. SubSeq(s, 1, n) \in [1..n -> S]
  BY <1>2, LenProperties
<1> QED BY <1>2, <1>3

LEMMA CutAppended ==
  ASSUME NEW S, NEW s \in Seq(S), NEW e \in S, NEW n \in Nat, n <= Len(s)
  PROVE  SubSeq(Append(s, e), 1, n) = SubSeq(s, 1, n)
<1> DEFINE a == Append(s, e)
<1>1. a \in Seq(S) /\ Len(a) = Len(s) + 1 /\ \A i \in 1..Len(s) : a[i] = s[i]
  BY AppendProperties
<1> HIDE DEF a
<1>2. /\ SubSeq(a, 1, n) \in Seq(S) /\ Len(SubSeq(a, 1, n)) = n
      /\ \A i \in 1..n : SubSeq(a, 1, n)[i] = a[i]
  BY <1>1, Cut
<1>3. /\ SubSeq(s, 1, n) \in Seq(S) /\ Len(SubSeq(s, 1, n)) = n
      /\ \A i \in 1..n : SubSeq(s, 1, n)[i] = s[i]
  BY Cut
<1>4. \A i \in 1..n : SubSeq(a, 1, n)[i] = SubSeq(s, 1, n)[i]
  BY <1>1, <1>2, <1>3
<1>5. SubSeq(a, 1, n) = SubSeq(s, 1, n)
  BY <1>2, <1>3, <1>4, SeqEqual
<1> QED BY <1>5 DEF a

LEMMA Limits == Limit \in Nat /\ Limit > 1 /\ (mask \in Masks => mask \in 1..(Limit - 1))
<1>1. Limit \in Nat /\ StringMask \in 1..(Limit - 1)
  BY LiteralsAssumption
<1>2. Limit > 1
  BY <1>1
<1>3. mask \in Masks => mask \in 1..(Limit - 1)
  BY LiteralsAssumption, Zenon
<1> QED BY <1>1, <1>2, <1>3

-----------------------------------------------------------------------------
(* The peer.                                                               *)

LEMMA Appended ==
  ASSUME TypeOK, NEW e \in Byte, sent' = Append(sent, e)
  PROVE  /\ sent' \in Seq(Byte) /\ Len(sent') = Len(sent) + 1 /\ Len(sent) \in Nat
         /\ sent' # <<>> /\ Last' = e /\ sent'[Len(sent) + 1] = e
         /\ \A k \in 1..Len(sent) : sent'[k] = sent[k] /\ sent[k] \in Byte
<1>1. sent \in Seq(Byte)
  BY DEF TypeOK
<1>2. /\ sent' \in Seq(Byte) /\ Len(sent') = Len(sent) + 1 /\ Len(sent) \in Nat
      /\ sent'[Len(sent) + 1] = e
      /\ \A k \in 1..Len(sent) : sent'[k] = sent[k] /\ sent[k] \in Byte
  BY <1>1, AppendProperties
<1>3. sent' # <<>>
  BY <1>2
<1>4. Last' = sent'[Len(sent')]
  BY DEF Last
<1> QED BY <1>2, <1>3, <1>4

(* A byte that the peer sends is behind everything that is parsed.         *)
LEMMA SentGrows ==
  ASSUME IInv, NEW e \in Byte, sent' = Append(sent, e), sent # <<>> => Last.more,
         sent # <<>> => e.sum >= Last.sum,
         UNCHANGED <<inputVars, text, come, parseVars>>, int' \in 0..(Limit - 1)
  PROVE  TypeOK' /\ Stage' /\ Missing' /\ Taken'
<1>1. /\ sent' \in Seq(Byte) /\ Len(sent') = Len(sent) + 1 /\ Len(sent) \in Nat
      /\ sent' # <<>> /\ Last' = e
      /\ \A k \in 1..Len(sent) : sent'[k] = sent[k] /\ sent[k] \in Byte
  BY Appended DEF IInv
<1>2. /\ kind' = kind /\ mask' = mask /\ huffman' = huffman /\ number' = number
      /\ text' = text /\ come' = come /\ pc' = pc /\ offset' = offset /\ place' = place
      /\ output' = output /\ result' = result /\ used' = used /\ out' = out
  BY DEF inputVars, parseVars
<1>3. TypeOK
  BY DEF IInv
<1>4. offset \in 0..Len(sent) /\ come \in Nat /\ Len(text) \in Nat
  BY <1>3 DEF TypeOK
<1>5. ~Parsed
  BY DEF Parsed
<1>6. offset > 0 => sent'[offset] = sent[offset]
  BY <1>1, <1>4
<1>7. TypeOK'
  <2>1. come' \in 0..(Len(sent') + Len(text')) /\ offset' \in 0..Len(sent')
    BY <1>1, <1>2, <1>3, <1>4 DEF TypeOK
  <2> QED BY <1>1, <1>2, <1>3, <2>1 DEF TypeOK
<1>8. Stage'
  <2>1. Stage
    BY DEF IInv
  <2>2. offset > 0 => (Right' <=> Right)
    BY <1>2, <1>6 DEF Right
  <2> QED BY <1>2, <1>5, <1>6, <2>1, <2>2 DEF Stage
<1>9. Missing'
  <2>1. Missing
    BY DEF IInv
  <2>2. come > 0 /\ come <= Len(sent) => come <= Len(sent') /\ sent'[come] = sent[come]
    BY <1>1, <1>4
  <2>3. sent # <<>> => Last.more
    OBVIOUS
  <2> QED BY <1>2, <1>4, <2>1, <2>2, <2>3 DEF Missing
<1>10. Taken'
  <2>1. Taken /\ Stage
    BY DEF IInv
  <2>2. result # "Ok"
    BY <1>5, <2>1, <1>3 DEF Stage, TypeOK
  <2> QED BY <1>2, <2>1, <2>2 DEF Taken
<1> QED BY <1>7, <1>8, <1>9, <1>10

LEMMA FirstSent ==
  ASSUME IInv, NEW d \in 0..mask, PutFirst(d),
         NEW i \in 0..(Limit - 1), int' = i,
         number >= 0 => \/ number < mask /\ d = number
                        \/ number >= mask /\ d = mask /\ i = number - mask
  PROVE  IInv'
<1> DEFINE e == [digit |-> d, more |-> d = mask, sum |-> d, next |-> 1]
<1>1. TypeOK /\ Bytes
  BY DEF IInv
<1>2. mask \in 1..(Limit - 1) /\ Limit \in Nat /\ Limit > 1 /\ number \in Int
  BY <1>1, Limits DEF TypeOK
<1>3. e \in Byte
  BY <1>2 DEF Byte
<1>4. sent = <<>> /\ sent' = Append(sent, e) /\ HasRoom
      /\ UNCHANGED <<inputVars, text, come, parseVars>>
  BY DEF PutFirst
<1>5. TypeOK' /\ Stage' /\ Missing' /\ Taken'
  BY <1>3, <1>4, SentGrows
<1>6. /\ Len(sent) = 0 /\ Len(sent') = 1 /\ sent'[1] = e /\ sent' # <<>> /\ Last' = e
  BY <1>1, <1>3, <1>4, Appended
<1>7. text' = text /\ mask' = mask /\ number' = number
  BY <1>4 DEF inputVars
<1>8. e.digit = d /\ (e.more <=> d = mask) /\ e.sum = d /\ e.next = 1
  OBVIOUS
<1> HIDE DEF e
<1>9. Bytes'
  <2>1. Len(text) \in Nat /\ MaxBytes \in Nat
    BY <1>1, LiteralsAssumption DEF TypeOK
  <2>2. Len(text) = 0
    BY <1>1, <1>4, <2>1 DEF Bytes
  <2>3. Len(sent') + Len(text') <= MaxBytes
    BY <1>4, <1>6, <1>7, <2>1 DEF HasRoom
  <2> QED BY <1>6, <1>7, <1>8, <2>2, <2>3 DEF Bytes
<1>10. Written'
  <2>1. SUFFICES ASSUME number >= 0
        PROVE  e.sum <= number /\ e.next < Limit
               /\ number = e.sum + (IF e.more THEN i * e.next ELSE 0)
    BY <1>6, <1>7 DEF Written
  <2>2. e.sum <= number /\ e.next < Limit
    BY <2>1, <1>2, <1>8
  <2>3. ~e.more => number = e.sum
    BY <2>1, <1>2, <1>8
  <2>4. e.more => number = e.sum + i
    BY <2>1, <1>2, <1>8
  <2>5. i * e.next = i
    BY <1>2, <1>8
  <2>6. CASE e.more
    BY <2>2, <2>4, <2>5, <2>6
  <2> QED BY <2>2, <2>3, <2>6, <1>8
<1> QED BY <1>5, <1>9, <1>10 DEF IInv

LEMMA DigitSent ==
  ASSUME IInv, NEW d \in Nat, NEW more \in BOOLEAN, PutDigit(d, more),
         NEW i \in 0..(Limit - 1), int' = i,
         number >= 0 => /\ i = int \div Base /\ d = int % Base
                        /\ more <=> int >= Base
  PROVE  IInv'
<1> DEFINE e == [digit |-> d, more |-> more, sum |-> Last.sum + d * Last.next,
                 next |-> Last.next * Base]
<1>1. TypeOK /\ Bytes /\ Written
  BY DEF IInv
<1>2. /\ sent # <<>> /\ Last.more /\ sent' = Append(sent, e) /\ HasRoom
      /\ UNCHANGED <<inputVars, text, come, parseVars>>
  BY DEF PutDigit
<1>3. Last \in Byte /\ Len(sent) \in Nat /\ Len(sent) > 0
  BY <1>1, <1>2 DEF TypeOK, Last
<1>4. Base \in Nat /\ Base > 1 /\ Limit \in Nat /\ number \in Int /\ int \in Nat
  BY <1>1, LiteralsAssumption DEF TypeOK
<1>5. /\ d * Last.next \in Nat /\ Last.next * Base \in Nat /\ Last.sum \in Nat
      /\ Last.next \in Nat
  BY <1>3, <1>4, Product DEF Byte
<1>6. e \in Byte
  BY <1>5 DEF Byte
<1>7. e.digit = d /\ e.more = more /\ e.sum = Last.sum + d * Last.next
      /\ e.next = Last.next * Base
  OBVIOUS
<1> HIDE DEF e
<1>8. /\ Len(sent') = Len(sent) + 1 /\ sent' # <<>> /\ Last' = e /\ sent'[Len(sent) + 1] = e
      /\ \A k \in 1..Len(sent) : sent'[k] = sent[k] /\ sent[k] \in Byte
  BY <1>1, <1>2, <1>6, Appended
<1>9. TypeOK' /\ Stage' /\ Missing' /\ Taken'
  BY <1>2, <1>5, <1>6, <1>7, SentGrows
<1>10. text' = text /\ mask' = mask /\ number' = number
  BY <1>2 DEF inputVars
<1>11. Bytes'
  <2>1. Len(text) \in Nat /\ MaxBytes \in Nat
    BY <1>1, LiteralsAssumption DEF TypeOK
  <2>2. ~(Len(text) > 0)
    BY <1>1, <1>2 DEF Bytes
  <2>3. Len(sent') + Len(text') <= MaxBytes
    BY <1>2, <1>3, <1>8, <1>10, <2>1 DEF HasRoom
  <2>4. sent'[1] = sent[1]
    BY <1>3, <1>8
  <2>5. ASSUME NEW k \in 2..Len(sent')
        PROVE  /\ sent'[k - 1].more
               /\ sent'[k].sum = sent'[k - 1].sum + sent'[k].digit * sent'[k - 1].next
               /\ sent'[k].next = sent'[k - 1].next * Base
    <3>1. CASE k <= Len(sent)
      <4>1. sent'[k] = sent[k] /\ sent'[k - 1] = sent[k - 1] /\ k \in 2..Len(sent)
        BY <1>3, <1>8, <3>1
      <4> QED BY <4>1, <1>1 DEF Bytes
    <3>2. CASE k = Len(sent) + 1
      <4>1. sent'[k] = e /\ sent'[k - 1] = Last
        BY <1>3, <1>8, <3>2 DEF Last
      <4> QED BY <4>1, <1>2, <1>7
    <3> QED BY <1>3, <1>8, <3>1, <3>2
  <2> QED BY <1>1, <1>2, <1>8, <1>10, <2>2, <2>3, <2>4, <2>5 DEF Bytes
<1>12. Written'
  <2>1. SUFFICES ASSUME number >= 0
        PROVE  e.sum <= number /\ (e.more => e.next < Limit)
               /\ number = e.sum + (IF e.more THEN i * e.next ELSE 0)
    <3>1. ASSUME number >= 0, NEW k \in 1..Len(sent')
          PROVE  sent'[k] = e \/ (k \in 1..Len(sent) /\ sent'[k] = sent[k])
      BY <1>3, <1>8
    <3> QED BY <3>1, <1>1, <1>8, <1>10 DEF Written
  <2>2. number = Last.sum + int * Last.next
    BY <2>1, <1>1, <1>2 DEF Written
  <2>3. i = int \div Base /\ d = int % Base /\ (more <=> int >= Base)
    BY <2>1
  <2>4. /\ i \in Nat /\ int = Base * i + d
        /\ int < Base => i = 0
        /\ int >= Base => i >= 1
    <3>1. Base \in Nat \ {0} /\ int \in Nat
      BY <1>4
    <3>2. /\ int \div Base \in Nat /\ int = Base * (int \div Base) + (int % Base)
          /\ int < Base => int \div Base = 0
          /\ int >= Base => int \div Base >= 1
      BY <3>1, Remainder
    <3> QED BY <3>2, <2>3
  <2>5. int * Last.next = i * (Last.next * Base) + d * Last.next
    <3>1. (Base * i + d) * Last.next = i * (Last.next * Base) + d * Last.next
      BY <1>4, <1>5, Places
    <3>2. int = Base * i + d
      BY <2>4
    <3>3. int * Last.next = (Base * i + d) * Last.next
      BY <3>2, Zenon
    <3> QED BY <3>1, <3>3, Zenon
  <2>6. i * e.next \in Nat /\ (i >= 1 => e.next <= i * e.next) /\ e.next \in Nat
    BY <2>4, <1>5, <1>7, Product
  <2>7. number = e.sum + i * e.next
    BY <2>2, <2>5, <2>6, <1>5, <1>7
  <2>8. e.sum \in Nat /\ number < Limit
    BY <1>1, <1>4, <1>6 DEF TypeOK, Byte
  <2>9. CASE int >= Base
    <3>1. number \in Nat
      BY <2>1, <1>4
    <3>2. e.next <= i * e.next
      BY <2>4, <2>6, <2>9
    <3>3. e.sum <= number /\ e.next < Limit
      BY <3>1, <3>2, <2>6, <2>7, <2>8, <1>4, Within
    <3> QED BY <3>3, <2>3, <2>7, <2>9, <1>7
  <2>10. CASE int < Base
    <3>1. i * e.next = 0 * e.next
      BY <2>4, <2>10
    <3>2. i * e.next = 0
      BY <3>1, <2>6
    <3> QED BY <3>2, <2>3, <2>4, <2>7, <2>8, <2>10, <1>4, <1>7
  <2> QED BY <2>9, <2>10, <1>4
<1> QED BY <1>9, <1>11, <1>12 DEF IInv

LEMMA TextSent == ASSUME IInv, PutText PROVE IInv'
<1>1. TypeOK /\ Bytes /\ Written /\ Stage /\ Missing /\ Taken
  BY DEF IInv
<1>2. PICK t \in Text : text' = Append(text, t)
  BY DEF PutText
<1>3. /\ kind = "string" /\ sent # <<>> /\ ~Last.more /\ HasRoom /\ sent' = sent /\ int' = int
      /\ kind' = kind /\ mask' = mask /\ huffman' = huffman /\ number' = number
      /\ come' = come /\ pc' = pc /\ offset' = offset /\ place' = place
      /\ output' = output /\ result' = result /\ used' = used /\ out' = out
  BY DEF PutText, inputVars, parseVars
<1>4. /\ text \in Seq(Text) /\ text' \in Seq(Text) /\ Len(text) \in Nat
      /\ Len(text') = Len(text) + 1 /\ Len(sent) \in Nat
  BY <1>1, <1>2, AppendProperties DEF TypeOK
<1>5. Last' = Last
  BY <1>3 DEF Last
<1>6. TypeOK'
  <2>1. come' \in 0..(Len(sent') + Len(text'))
    BY <1>1, <1>3, <1>4 DEF TypeOK
  <2> QED BY <1>1, <1>3, <1>4, <2>1 DEF TypeOK
<1>7. Bytes'
  <2>1. Len(sent') + Len(text') <= MaxBytes
    BY <1>3, <1>4, LiteralsAssumption DEF HasRoom
  <2> QED BY <1>1, <1>3, <1>5, <2>1 DEF Bytes
<1>8. Written'
  BY <1>1, <1>3, <1>5 DEF Written
<1>9. Stage'
  BY <1>1, <1>3, <1>5 DEF Stage, Parsed, Right
<1>10. Missing'
  BY <1>1, <1>3, <1>5 DEF Missing
<1>11. Taken'
  <2>1. CASE result = "Ok" /\ sent[offset].sum < Limit
    <3>1. Parsed /\ used = offset + output /\ used <= come
      BY <1>1, <1>3, <2>1 DEF Stage, TypeOK
    <3>2. sent[offset] \in Byte
      BY <1>1, <3>1 DEF Parsed, TypeOK
    <3>3. output = sent[offset].sum /\ offset = Len(sent) /\ sent[offset].sum \in Nat
      BY <3>1, <3>2, <2>1, LiteralsAssumption DEF Parsed, Right, Byte
    <3>4. sent[offset].sum <= Len(text)
      BY <1>1, <1>4, <3>1, <3>3 DEF TypeOK
    <3>5. SubSeq(text', 1, sent[offset].sum) = SubSeq(text, 1, sent[offset].sum)
      BY <1>2, <1>4, <3>3, <3>4, CutAppended
    <3> QED BY <1>1, <1>3, <3>5 DEF Taken
  <2>2. CASE ~(result = "Ok" /\ sent[offset].sum < Limit)
    BY <1>1, <1>3, <2>2 DEF Taken
  <2> QED BY <2>1, <2>2
<1> QED BY <1>6, <1>7, <1>8, <1>9, <1>10, <1>11 DEF IInv

LEMMA PeerStep == ASSUME IInv, Peer PROVE IInv'
<1>1. TypeOK
  BY DEF IInv
<1>2. mask \in 1..(Limit - 1) /\ Limit \in Nat /\ Limit > 1
  BY <1>1, Limits DEF TypeOK
<1>3. number \in -1..(Limit - 1) /\ int \in 0..(Limit - 1)
  BY <1>1 DEF TypeOK
<1>4. Base \in Nat \ {0} /\ Base > 1
  BY LiteralsAssumption
<1>5. ASSUME WriteFirst PROVE IInv'
  <2>1. CASE number < mask
    <3>1. PutFirst(number) /\ int' = 0 /\ number \in 0..mask
      BY <1>2, <1>3, <1>5, <2>1 DEF WriteFirst
    <3>2. 0 \in 0..(Limit - 1)
      BY <1>2
    <3> QED BY <3>1, <3>2, <2>1, FirstSent
  <2>2. CASE number >= mask
    <3>1. PutFirst(mask) /\ int' = number - mask /\ mask \in 0..mask
          /\ number - mask \in 0..(Limit - 1)
      BY <1>2, <1>3, <1>5, <2>2 DEF WriteFirst
    <3> QED BY <3>1, <2>2, FirstSent
  <2> QED BY <1>2, <1>3, <2>1, <2>2
<1>6. ASSUME WriteDigit PROVE IInv'
  <2>1. PutDigit(int % Base, int >= Base) /\ int' = int \div Base
    BY <1>6 DEF WriteDigit
  <2>2. int % Base \in Nat /\ int \div Base \in 0..(Limit - 1)
    <3>1. int \in Nat
      BY <1>2, <1>3
    <3>2. int % Base \in 0..(Base - 1) /\ int \div Base \in Nat
          /\ int = Base * (int \div Base) + (int % Base)
      BY <3>1, <1>4, Remainder
    <3> DEFINE q == int \div Base  r == int % Base  a == Base * q
    <3> HIDE DEF q, r
    <3>3. q \in Nat /\ r \in Nat /\ int = a + r
      BY <3>2, <1>4 DEF q, r
    <3>4. a \in Nat /\ q <= a
      BY <3>3, <1>4, Product
    <3>5. q \in Nat /\ r \in Nat /\ a \in Nat /\ int = a + r /\ q <= a
      BY <3>2, <3>3, <3>4, <1>4
    <3> HIDE DEF a
    <3>6. r \in Nat /\ q \in 0..(Limit - 1)
      BY <3>5, <1>2, <1>3
    <3> QED BY <3>6 DEF q, r
  <2>3. (int >= Base) \in BOOLEAN
    OBVIOUS
  <2> QED BY <2>1, <2>2, <2>3, DigitSent
<1>7. ASSUME RawFirst PROVE IInv'
  <2>1. PICK d \in 0..mask : PutFirst(d)
    BY <1>7 DEF RawFirst
  <2>2. int' = int /\ ~(number >= 0)
    BY <1>3, <1>7 DEF RawFirst
  <2> QED BY <1>3, <2>1, <2>2, FirstSent
<1>8. ASSUME RawDigit PROVE IInv'
  <2>1. PICK d \in 0..(Base - 1), more \in BOOLEAN : PutDigit(d, more)
    BY <1>8 DEF RawDigit
  <2>2. int' = int /\ ~(number >= 0) /\ d \in Nat
    BY <1>3, <1>4, <1>8, <2>1 DEF RawDigit
  <2> QED BY <1>3, <2>1, <2>2, DigitSent
<1>9. ASSUME PutText PROVE IInv'
  BY <1>9, TextSent
<1> QED BY <1>5, <1>6, <1>7, <1>8, <1>9 DEF Peer

LEMMA ByteRead ==
  ASSUME TypeOK, offset > 0
  PROVE  /\ offset \in 1..Len(sent) /\ Len(sent) \in Nat /\ sent[offset] \in Byte
         /\ sent[offset].sum \in Nat /\ sent[offset].next \in Nat
<1>1. sent \in Seq(Byte) /\ offset \in 0..Len(sent)
  BY DEF TypeOK
<1>2. Len(sent) \in Nat
  BY <1>1
<1>3. offset \in 1..Len(sent)
  BY <1>1, <1>2
<1>4. sent[offset] \in Byte
  BY <1>1, <1>3
<1> QED BY <1>2, <1>3, <1>4 DEF Byte

-----------------------------------------------------------------------------
(* The caller, and the functions of literal.rs.                            *)

LEMMA Undisturbed ==
  ASSUME IInv, UNCHANGED <<inputVars, peerVars>>
  PROVE  /\ kind' = kind /\ mask' = mask /\ huffman' = huffman /\ number' = number
         /\ int' = int /\ sent' = sent /\ text' = text /\ Last' = Last
         /\ Bytes' /\ Written'
<1>1. /\ kind' = kind /\ mask' = mask /\ huffman' = huffman /\ number' = number
      /\ int' = int /\ sent' = sent /\ text' = text
  BY DEF inputVars, peerVars
<1>2. Last' = Last
  BY <1>1 DEF Last
<1>3. Bytes'
  BY <1>1, <1>2 DEF Bytes, IInv
<1>4. Written'
  BY <1>1, <1>2 DEF Written, IInv
<1> QED BY <1>1, <1>2, <1>3, <1>4

LEMMA ComeStep == ASSUME IInv, Come PROVE IInv'
<1>1. TypeOK /\ Stage /\ Missing /\ Taken
  BY DEF IInv
<1>2. /\ kind' = kind /\ mask' = mask /\ huffman' = huffman /\ number' = number
      /\ int' = int /\ sent' = sent /\ text' = text /\ Last' = Last /\ Bytes' /\ Written'
  BY Undisturbed DEF Come
<1>3. /\ pc = "idle" /\ result' = "None" /\ pc' = pc /\ offset' = offset /\ place' = place
      /\ output' = output /\ used' = used /\ out' = out
  BY DEF Come
<1>4. PICK n \in (come + 1)..(Len(sent) + Len(text)) : come' = n
  BY DEF Come
<1>5. come \in Nat /\ Len(sent) \in Nat /\ Len(text) \in Nat /\ offset \in Nat /\ offset <= come
  BY <1>1 DEF TypeOK
<1>6. come' \in 0..(Len(sent) + Len(text)) /\ offset <= come'
  BY <1>4, <1>5
<1>7. TypeOK'
  BY <1>1, <1>2, <1>3, <1>6 DEF TypeOK
<1>8. Stage' /\ Missing' /\ Taken'
  BY <1>1, <1>2, <1>3 DEF Stage, Missing, Taken, DecodeErrors
<1> QED BY <1>2, <1>7, <1>8 DEF IInv

LEMMA CallStep == ASSUME IInv, Call PROVE IInv'
<1>1. TypeOK /\ Stage /\ Missing /\ Taken
  BY DEF IInv
<1>2. /\ kind' = kind /\ mask' = mask /\ huffman' = huffman /\ number' = number
      /\ int' = int /\ sent' = sent /\ text' = text /\ Last' = Last /\ Bytes' /\ Written'
  BY Undisturbed DEF Call
<1>3. /\ pc = "idle" /\ result = "None" /\ pc' = "first" /\ offset' = 0 /\ place' = 1
      /\ output' = 0 /\ come' = come /\ result' = result /\ used' = used /\ out' = out
  BY DEF Call
<1>4. 0 \in 0..Len(sent) /\ 0 <= come /\ 0 \in 0..(Limit - 1)
  BY <1>1, LiteralsAssumption DEF TypeOK
<1>5. TypeOK'
  BY <1>1, <1>2, <1>3, <1>4 DEF TypeOK
<1>6. Stage' /\ Missing' /\ Taken'
  BY <1>1, <1>2, <1>3 DEF Stage, Missing, Taken, DecodeErrors
<1> QED BY <1>2, <1>5, <1>6 DEF IInv

(* A call that returns TooSmall.                                           *)
LEMMA PutOff ==
  ASSUME IInv, pc \in {"first", "digits", "text"}, UNCHANGED <<inputVars, peerVars, come>>,
         UNCHANGED <<offset, place, output, used, out>>, Return("TooSmall"),
         \/ come = 0
         \/ come <= Len(sent) /\ sent[come].more
         \/ kind = "string" /\ sent # <<>> /\ ~Last.more /\ come < Len(sent) + Last.sum
  PROVE  IInv'
<1>1. TypeOK /\ Stage /\ Missing /\ Taken
  BY DEF IInv
<1>2. /\ kind' = kind /\ mask' = mask /\ huffman' = huffman /\ number' = number
      /\ int' = int /\ sent' = sent /\ text' = text /\ Last' = Last /\ Bytes' /\ Written'
  BY Undisturbed
<1>3. result' = "TooSmall" /\ pc' = "idle"
  BY DEF Return
<1>4. TypeOK'
  BY <1>1, <1>2, <1>3 DEF TypeOK
<1>5. Stage' /\ Missing' /\ Taken'
  BY <1>1, <1>2, <1>3 DEF Stage, Missing, Taken, DecodeErrors
<1> QED BY <1>2, <1>4, <1>5 DEF IInv

(* A byte was parsed, behind which the number goes on or ends.             *)
LEMMA ByteParsed ==
  ASSUME IInv, pc \in {"first", "digits"}, UNCHANGED <<inputVars, peerVars, come>>,
         offset' \in 1..Len(sent), offset' <= come, output' \in 0..(Limit - 1),
         place' \in Nat, out' = out, Right',
         \/ sent[offset'].more /\ pc' = "digits" /\ place' = sent[offset'].next
            /\ UNCHANGED <<result, used>>
         \/ ~sent[offset'].more /\ Number
  PROVE  IInv'
<1>1. TypeOK /\ Bytes /\ Stage /\ Missing /\ Taken
  BY DEF IInv
<1>2. /\ kind' = kind /\ mask' = mask /\ huffman' = huffman /\ number' = number
      /\ int' = int /\ sent' = sent /\ text' = text /\ Last' = Last /\ Bytes' /\ Written'
  BY Undisturbed
<1>3. result = "None" /\ come' = come
  BY <1>1 DEF Stage
<1>4. Len(sent) \in Nat /\ offset' \in Nat /\ offset' > 0
  BY <1>1 DEF TypeOK
<1>5. CASE sent[offset'].more /\ pc' = "digits" /\ place' = sent[offset'].next
           /\ UNCHANGED <<result, used>>
  <2>1. result' = "None" /\ used' = used
    BY <1>3, <1>5
  <2>2. offset' \in 0..Len(sent)
    BY <1>4
  <2>3. TypeOK'
    BY <1>1, <1>2, <1>3, <1>5, <2>1, <2>2 DEF TypeOK
  <2>4. Stage' /\ Missing' /\ Taken'
    BY <1>1, <1>2, <1>3, <1>4, <1>5, <2>1 DEF Stage, Missing, Taken, DecodeErrors
  <2> QED BY <1>2, <2>3, <2>4 DEF IInv
<1>6. CASE ~sent[offset'].more /\ Number
  <2>1. offset' = Len(sent)
    <3> DEFINE o == offset'
    <3>1. o \in 1..Len(sent) /\ ~sent[o].more
      BY <1>6
    <3> HIDE DEF o
    <3>2. ASSUME o < Len(sent) PROVE FALSE
      <4>1. o + 1 \in 2..Len(sent) /\ (o + 1) - 1 = o
        BY <3>1, <3>2, <1>4
      <4>2. sent[(o + 1) - 1].more
        BY <4>1, <1>1 DEF Bytes
      <4> QED BY <4>1, <4>2, <3>1
    <3>3. o = Len(sent)
      BY <3>1, <3>2, <1>4
    <3> QED BY <3>3 DEF o
  <2>2. Parsed'
    BY <1>2, <1>4, <1>6, <2>1 DEF Parsed, Last
  <2>3. offset' \in 0..Len(sent)
    BY <1>4
  <2>4. CASE kind = "integer"
    <3>1. result' = "Ok" /\ pc' = "over" /\ used' = offset'
      BY <1>6, <2>4 DEF Number, Return
    <3>2. TypeOK'
      BY <1>1, <1>2, <1>3, <1>4, <2>3, <3>1 DEF TypeOK
    <3>3. Stage' /\ Missing' /\ Taken'
      BY <1>1, <1>2, <1>4, <2>2, <2>4, <3>1 DEF Stage, Missing, Taken, DecodeErrors
    <3> QED BY <1>2, <3>2, <3>3 DEF IInv
  <2>5. CASE kind = "string"
    <3>1. result' = "None" /\ pc' = "text" /\ used' = used
      BY <1>3, <1>6, <2>5 DEF Number
    <3>2. TypeOK'
      BY <1>1, <1>2, <1>3, <1>4, <2>3, <3>1 DEF TypeOK
    <3>3. Stage' /\ Missing' /\ Taken'
      BY <1>1, <1>2, <1>3, <1>4, <2>2, <2>5, <3>1 DEF Stage, Missing, Taken, DecodeErrors
    <3> QED BY <1>2, <3>2, <3>3 DEF IInv
  <2> QED BY <1>1, <2>4, <2>5 DEF TypeOK
<1> QED BY <1>5, <1>6

LEMMA FirstParsed == ASSUME IInv, ParseFirst PROVE IInv'
<1>1. TypeOK /\ Bytes /\ Stage /\ Missing
  BY DEF IInv
<1>2. pc = "first" /\ UNCHANGED <<inputVars, peerVars, come>> /\ out' = out
  BY DEF ParseFirst, Unused
<1>3. CASE come = 0
  <2>1. Return("TooSmall") /\ UNCHANGED <<offset, place, output, used, out>>
    BY <1>3 DEF ParseFirst
  <2> QED BY <1>2, <1>3, <2>1, PutOff
<1>4. CASE come # 0
  <2>1. /\ offset' = 1 /\ output' = sent[1].digit /\ place' = place
        /\ IF sent[1].digit < mask THEN Number ELSE pc' = "digits" /\ UNCHANGED <<result, used>>
    BY <1>4 DEF ParseFirst
  <2>2. Len(sent) \in Nat /\ Len(text) \in Nat /\ come \in 0..(Len(sent) + Len(text))
    BY <1>1 DEF TypeOK
  <2>3. sent # <<>>
    BY <1>1, <1>4, <2>2 DEF Bytes
  <2>4. 1 \in 1..Len(sent) /\ 1 <= come
    BY <1>1, <1>4, <2>2, <2>3 DEF TypeOK
  <2>5. /\ sent[1] \in Byte /\ sent[1].sum = sent[1].digit /\ sent[1].next = 1
        /\ sent[1].digit \in 0..mask
        /\ sent[1].more <=> sent[1].digit = mask
    BY <1>1, <2>3, <2>4 DEF Bytes, TypeOK
  <2>6. mask \in 1..(Limit - 1) /\ Limit \in Nat
    BY <1>1, Limits DEF TypeOK
  <2>7. sent[1].digit \in 0..(Limit - 1)
    BY <2>5, <2>6
  <2>8. place = 1
    BY <1>1, <1>2 DEF Stage
  <2>9. Right' /\ place' \in Nat
    BY <1>2, <2>1, <2>5, <2>8 DEF Right, peerVars
  <2>10. CASE sent[1].digit < mask
    BY <1>2, <2>1, <2>4, <2>5, <2>6, <2>7, <2>9, <2>10, ByteParsed
  <2>11. CASE sent[1].digit = mask
    BY <1>2, <2>1, <2>4, <2>5, <2>6, <2>7, <2>8, <2>9, <2>11, ByteParsed
  <2> QED BY <2>5, <2>6, <2>10, <2>11
<1> QED BY <1>3, <1>4

LEMMA DigitParsed == ASSUME IInv, ParseDigit PROVE IInv'
<1>1. TypeOK /\ Bytes /\ Stage /\ Missing /\ Taken
  BY DEF IInv
<1>2. pc = "digits" /\ UNCHANGED <<inputVars, peerVars, come>> /\ out' = out
  BY DEF ParseDigit, Unused
<1>3. /\ offset > 0 /\ sent[offset].more /\ place = sent[offset].next /\ Right
      /\ result = "None"
  BY <1>1, <1>2 DEF Stage
<1>4. /\ offset \in 1..Len(sent) /\ offset <= come /\ Len(sent) \in Nat /\ Len(text) \in Nat
      /\ come \in 0..(Len(sent) + Len(text)) /\ Limit \in Nat \ {0}
      /\ output \in 0..(Limit - 1) /\ sent[offset] \in Byte
  BY <1>1, <1>3, LiteralsAssumption DEF TypeOK
<1>5. CASE ~Available
  <2>1. Return("TooSmall") /\ UNCHANGED <<offset, place, output, used, out>>
    BY <1>2, <1>5 DEF ParseDigit
  <2>2. come = offset
    BY <1>4, <1>5 DEF Available
  <2>3. come <= Len(sent) /\ sent[come].more
    BY <1>3, <1>4, <2>2
  <2> QED BY <1>2, <2>1, <2>3, PutOff
<1>6. CASE Available
  <2> DEFINE k == offset + 1  byte == sent[k]  t == byte.digit * place
             sum == output + Wrapped(t)
  <2>1. k \in 2..Len(sent) /\ k - 1 = offset /\ k <= come
    <3>1. offset < come
      BY <1>6 DEF Available
    <3>2. CASE offset < Len(sent)
      BY <1>4, <3>1, <3>2
    <3>3. CASE offset = Len(sent)
      <4>1. Len(text) > 0
        BY <1>4, <3>1, <3>3
      <4> QED BY <1>1, <1>3, <3>3, <4>1 DEF Bytes, Last
    <3> QED BY <1>4, <3>2, <3>3
  <2>2. byte \in Byte /\ byte.sum = sent[offset].sum + t /\ byte.next = place * Base
    <3>1. /\ sent[k].sum = sent[k - 1].sum + sent[k].digit * sent[k - 1].next
          /\ sent[k].next = sent[k - 1].next * Base
      BY <1>1, <2>1 DEF Bytes
    <3>2. k \in 1..Len(sent)
      BY <2>1, <1>4
    <3> QED BY <1>1, <1>3, <2>1, <3>1, <3>2 DEF TypeOK
  <2>3. t \in Nat /\ place * Base \in Nat /\ sent[offset].sum \in Nat
    BY <1>3, <1>4, <2>2, LiteralsAssumption, Product DEF Byte
  <2>4. /\ offset' = k /\ place' = place * Base
        /\ \/ sum >= Limit /\ Return("panic") /\ UNCHANGED <<output, used>>
           \/ /\ output' = Wrapped(sum)
              /\ IF byte.more THEN UNCHANGED <<pc, result, used>> ELSE Number
    BY <1>2, <1>6 DEF ParseDigit, NextPlace
  <2>5. sum = output + (t % Limit) /\ Wrapped(sum) = sum % Limit
    BY DEF Wrapped
  <2>6. sent' = sent /\ come' = come
    BY <1>2 DEF peerVars
  <2> HIDE DEF k, byte, t, sum
  <2>7. sent[offset].sum >= Limit \/ output = sent[offset].sum
    BY <1>3 DEF Right
  <2>8. /\ sum \in Nat /\ sum % Limit \in 0..(Limit - 1)
        /\ sum >= Limit => sent[offset].sum + t >= Limit
        /\ sent[offset].sum + t >= Limit \/ sum % Limit = sent[offset].sum + t
    BY <1>4, <2>3, <2>5, <2>7, Added
  <2>9. byte = sent[k]
    BY DEF byte
  <2>10. ASSUME sum >= Limit, Return("panic"), UNCHANGED <<output, used>> PROVE IInv'
    <3>1. /\ kind' = kind /\ mask' = mask /\ huffman' = huffman /\ number' = number
          /\ int' = int /\ sent' = sent /\ text' = text /\ Last' = Last /\ Bytes' /\ Written'
      BY <1>2, Undisturbed
    <3>2. result' = "panic" /\ pc' = "over" /\ output' = output /\ used' = used
      BY <2>10 DEF Return
    <3>3. sent'[offset'].sum >= Limit /\ offset' > 0
      BY <1>4, <2>1, <2>2, <2>4, <2>6, <2>8, <2>9, <2>10
    <3>4. offset' \in 0..Len(sent') /\ offset' <= come' /\ place' \in Nat
      BY <1>4, <2>1, <2>3, <2>4, <2>6
    <3>5. TypeOK'
      BY <1>1, <1>2, <2>6, <3>1, <3>2, <3>4 DEF TypeOK
    <3>6. Stage' /\ Missing' /\ Taken'
      BY <1>1, <1>2, <2>6, <3>1, <3>2, <3>3 DEF Stage, Missing, Taken, DecodeErrors
    <3> QED BY <3>1, <3>5, <3>6 DEF IInv
  <2>11. ASSUME output' = Wrapped(sum),
                IF byte.more THEN UNCHANGED <<pc, result, used>> ELSE Number
         PROVE  IInv'
    <3>1. Right'
      BY <2>2, <2>4, <2>5, <2>6, <2>8, <2>9, <2>11 DEF Right
    <3>2. /\ offset' \in 1..Len(sent) /\ offset' <= come /\ output' \in 0..(Limit - 1)
          /\ place' \in Nat /\ sent[offset'] = byte
      BY <1>4, <2>1, <2>3, <2>4, <2>5, <2>8, <2>9, <2>11
    <3>3. CASE byte.more
      BY <1>2, <2>2, <2>4, <2>11, <3>1, <3>2, <3>3, ByteParsed
    <3>4. CASE ~byte.more
      BY <1>2, <2>11, <3>1, <3>2, <3>4, ByteParsed
    <3> QED BY <3>3, <3>4
  <2> QED BY <2>4, <2>10, <2>11
<1> QED BY <1>5, <1>6

LEMMA TooLongStep == ASSUME IInv, TooLong PROVE IInv'
<1>1. TypeOK /\ Stage /\ Missing /\ Taken
  BY DEF IInv
<1>2. /\ kind' = kind /\ mask' = mask /\ huffman' = huffman /\ number' = number
      /\ int' = int /\ sent' = sent /\ text' = text /\ Last' = Last /\ Bytes' /\ Written'
  BY Undisturbed DEF TooLong, Unused
<1>3. /\ pc = "digits" /\ place >= Limit /\ result' = "Overflow" /\ pc' = "over"
      /\ offset' = offset /\ place' = place /\ output' = output /\ used' = used /\ out' = out
      /\ come' = come
  BY DEF TooLong, Return, Unused
<1>4. TypeOK'
  BY <1>1, <1>2, <1>3 DEF TypeOK
<1>5. Stage' /\ Missing' /\ Taken'
  BY <1>1, <1>2, <1>3 DEF Stage, Missing, Taken, DecodeErrors
<1> QED BY <1>2, <1>4, <1>5 DEF IInv

LEMMA TextParsed == ASSUME IInv, ParseText PROVE IInv'
<1>1. TypeOK /\ Bytes /\ Stage /\ Missing /\ Taken
  BY DEF IInv
<1>2. /\ pc = "text" /\ UNCHANGED <<inputVars, peerVars, come>>
      /\ UNCHANGED <<offset, place, output>>
  BY DEF ParseText, Unused
<1>3. kind = "string" /\ Parsed /\ result = "None"
  BY <1>1, <1>2 DEF Stage
<1>4. /\ offset \in 1..Len(sent) /\ offset = Len(sent) /\ offset <= come /\ Len(sent) \in Nat
      /\ Len(text) \in Nat /\ come \in 0..(Len(sent) + Len(text)) /\ Limit \in Nat \ {0}
      /\ output \in 0..(Limit - 1) /\ sent[offset] \in Byte /\ sent # <<>> /\ ~Last.more
      /\ Last = sent[offset] /\ sent[offset].sum \in Nat
  <2>1. offset > 0 /\ offset = Len(sent) /\ ~Last.more
    BY <1>3 DEF Parsed
  <2>2. /\ offset \in 1..Len(sent) /\ Len(sent) \in Nat /\ sent[offset] \in Byte
        /\ sent[offset].sum \in Nat
    BY <1>1, <2>1, ByteRead
  <2>3. /\ offset <= come /\ Len(text) \in Nat /\ come \in 0..(Len(sent) + Len(text))
        /\ output \in 0..(Limit - 1)
    BY <1>1 DEF TypeOK
  <2>4. Limit \in Nat \ {0}
    BY LiteralsAssumption
  <2>5. sent # <<>> /\ Last = sent[offset]
    BY <2>1, <2>2 DEF Last
  <2> QED BY <2>1, <2>2, <2>3, <2>4, <2>5
<1>5. sent[offset].sum >= Limit \/ output = sent[offset].sum
  BY <1>3 DEF Parsed, Right
<1>6. /\ kind' = kind /\ mask' = mask /\ huffman' = huffman /\ number' = number
      /\ int' = int /\ sent' = sent /\ text' = text /\ Last' = Last /\ Bytes' /\ Written'
  BY <1>2, Undisturbed
<1>7. offset' = offset /\ place' = place /\ output' = output /\ come' = come
  BY <1>2
<1>8. Parsed' /\ sent'[offset'] = sent[offset]
  BY <1>3, <1>6, <1>7 DEF Parsed, Right
<1> DEFINE end == offset + output
<1>9. /\ end \in Nat /\ end % Limit \in 0..(Limit - 1)
      /\ end < Limit => end % Limit = end
      /\ end >= Limit => end % Limit <= end - Limit
  <2>1. end \in Nat /\ Limit \in Nat \ {0}
    BY <1>4
  <2> HIDE DEF end
  <2> QED BY <2>1, Remainder
<1>10. ASSUME end >= Limit, Return("panic"), UNCHANGED <<used, out>> PROVE IInv'
  <2>1. result' = "panic" /\ pc' = "over" /\ used' = used /\ out' = out
    BY <1>10 DEF Return
  <2>2. sent[offset].sum >= Limit \/ sent[offset].sum + offset >= Limit
    BY <1>4, <1>5, <1>10
  <2>3. TypeOK'
    BY <1>1, <1>6, <1>7, <2>1 DEF TypeOK
  <2>4. Stage' /\ Missing' /\ Taken'
    BY <1>1, <1>2, <1>3, <1>4, <1>6, <1>7, <1>8, <2>1, <2>2
       DEF Stage, Missing, Taken, DecodeErrors
  <2> QED BY <1>6, <2>3, <2>4 DEF IInv
<1>11. ASSUME ~(offset <= StringEnd /\ StringEnd <= come), Return("TooSmall"),
              UNCHANGED <<used, out>>
       PROVE  IInv'
  <2>1. StringEnd = end % Limit
    BY DEF StringEnd, Wrapped
  <2> HIDE DEF end
  <2>2. come < end
    <3>1. CASE end < Limit
      <4>1. StringEnd = end /\ offset <= end
        BY <1>4, <1>9, <2>1, <3>1 DEF end
      <4> QED BY <1>4, <1>9, <1>11, <4>1
    <3>2. CASE end >= Limit
      <4>1. Len(sent) + Len(text) <= MaxBytes /\ MaxBytes \in 0..(Limit - 1)
        BY <1>1, LiteralsAssumption DEF Bytes
      <4> QED BY <1>4, <1>9, <3>2, <4>1
    <3> QED BY <1>4, <1>9, <3>1, <3>2
  <2>3. come < Len(sent) + Last.sum
    BY <1>4, <1>5, <2>2 DEF end
  <2> QED BY <1>2, <1>3, <1>4, <1>11, <2>3, PutOff
<1> DEFINE r == IF huffman THEN Decode(Slice) ELSE [result |-> "Ok", out |-> Slice]
<1>12. ASSUME offset <= StringEnd, StringEnd <= come, end < Limit,
              Return(r.result), out' = r.out, used' = IF r.result = "Ok" THEN end ELSE used
       PROVE  IInv'
  <2>1. StringEnd = end /\ StringEnd - offset = output
    BY <1>4, <1>9, <1>12 DEF StringEnd, Wrapped
  <2>2. output \in Nat /\ output <= Len(text) /\ Slice = SubSeq(text, 1, output)
    BY <1>4, <1>12, <2>1, SMTT(30) DEF Slice
  <2>3. Slice \in Seq(Text) /\ Slice \in [1..output -> Text] /\ output \in 0..MaxBytes
    <3>1. text \in Seq(Text) /\ Len(text) <= MaxBytes /\ MaxBytes \in Nat
      BY <1>1, <1>4, LiteralsAssumption DEF TypeOK, Bytes
    <3> QED BY <1>4, <2>2, <3>1, Cut
  <2>4. r \in Decoded
    BY <2>3, DecodeAssumption DEF Decoded
  <2>5. r.result \in {"Ok"} \cup DecodeErrors /\ r.out \in Seq(Text)
    BY <2>4 DEF Decoded
  <2>6. sent[offset].sum < Limit =>
          r.out = IF huffman THEN Decode(SubSeq(text, 1, sent[offset].sum)).out
                  ELSE SubSeq(text, 1, sent[offset].sum)
    BY <1>4, <1>5, <2>2
  <2>7. end <= come
    BY <1>12, <2>1
  <2> HIDE DEF r
  <2>8. result' = r.result /\ pc' = "over" /\ out' = r.out /\ (used' = end \/ used' = used)
        /\ (result' = "Ok" => used' = end)
    BY <1>12, <2>5 DEF Return, DecodeErrors
  <2>9. TypeOK'
    BY <1>1, <1>6, <1>7, <1>9, <2>5, <2>8 DEF TypeOK
  <2>10. Stage'
    BY <1>1, <1>3, <1>6, <1>7, <1>8, <2>5, <2>7, <2>8 DEF Stage, DecodeErrors
  <2>11. Missing' /\ Taken'
    BY <1>6, <1>7, <2>5, <2>6, <2>8 DEF Missing, Taken, DecodeErrors
  <2> QED BY <1>6, <2>9, <2>10, <2>11 DEF IInv
<1>13. CASE end >= Limit
  <2>1. ASSUME offset <= StringEnd, StringEnd <= come PROVE FALSE
    <3>1. end % Limit <= end - Limit /\ end % Limit \in Nat
      BY <1>9, <1>13
    <3>2. end - Limit < offset
      BY <1>4
    <3> HIDE DEF end
    <3>3. StringEnd = end % Limit
      BY DEF StringEnd, Wrapped, end
    <3> QED BY <1>4, <1>9, <2>1, <3>1, <3>2, <3>3
  <2> QED BY <1>10, <1>11, <1>13, <2>1 DEF ParseText
<1>14. CASE end < Limit
  BY <1>4, <1>9, <1>11, <1>12, <1>14 DEF ParseText
<1> QED BY <1>4, <1>9, <1>13, <1>14

-----------------------------------------------------------------------------
THEOREM Inductive == Spec => []IInv
<1>1. Init => IInv
  <2> SUFFICES ASSUME Init PROVE IInv
    OBVIOUS
  <2>1. TypeOK
    <3>1. Limit \in Nat \ {0} /\ Leftover \in Seq(Text) /\ StringMask \in Masks
      BY LiteralsAssumption
    <3>2. 0 \in 0..(Limit - 1) /\ Len(<<>>) = 0
      BY <3>1
    <3>3. mask \in Masks /\ huffman \in BOOLEAN /\ kind \in {"integer", "string"}
      BY <3>1 DEF Init
    <3>4. come \in 0..(Len(sent) + Len(text)) /\ offset \in 0..Len(sent) /\ offset <= come
      BY <3>2 DEF Init
    <3> QED BY <3>1, <3>2, <3>3, <3>4 DEF Init, TypeOK
  <2>2. Bytes
    BY LiteralsAssumption DEF Init, Bytes
  <2>3. Written /\ Stage /\ Missing /\ Taken
    BY DEF Init, Written, Stage, Missing, Taken, DecodeErrors
  <2> QED BY <2>1, <2>2, <2>3 DEF IInv
<1>2. IInv /\ [Next]_vars => IInv'
  <2> SUFFICES ASSUME IInv, [Next]_vars PROVE IInv'
    OBVIOUS
  <2>1. CASE Peer
    BY <2>1, PeerStep
  <2>2. CASE Come
    BY <2>2, ComeStep
  <2>3. CASE Call
    BY <2>3, CallStep
  <2>4. CASE Parse
    BY <2>4, FirstParsed, DigitParsed, TooLongStep, TextParsed DEF Parse
  <2>5. CASE UNCHANGED vars
    BY <2>5 DEF vars, inputVars, peerVars, parseVars, IInv, TypeOK, Bytes, Written, Stage,
                Missing, Taken, Parsed, Right, Last
  <2> QED BY <2>1, <2>2, <2>3, <2>4, <2>5 DEF Next
<1> QED BY <1>1, <1>2, PTL DEF Spec

(* The state is of its types, the sums within the width of u64 and the     *)
(* offsets within the slice, on every input (parse_integer, parse_string). *)
THEOREM TypeCorrect == Spec => []TypeOK
<1>1. IInv => TypeOK
  BY DEF IInv
<1> QED BY <1>1, Inductive, PTL

(* A number that fits is parsed exactly, with any prefix, width and base.  *)
THEOREM ParsedExactly == Spec => []Exact
<1>1. IInv => Exact
  <2> SUFFICES ASSUME IInv PROVE Exact
    OBVIOUS
  <2>1. TypeOK /\ Stage
    BY DEF IInv
  <2>2. pc \in {"over", "text"} /\ result \notin {"panic", "Overflow"} => Parsed
    BY <2>1 DEF Stage
  <2>3. Parsed => /\ offset = Len(sent) /\ ~Last.more
                  /\ Meant < Limit => output = Meant
    <3>1. SUFFICES ASSUME Parsed PROVE Meant < Limit => output = Meant
      BY DEF Parsed
    <3>2. Meant \in Nat /\ Limit \in Nat
      BY <2>1, <3>1, ByteRead, LiteralsAssumption DEF Parsed, Meant
    <3> QED BY <3>1, <3>2 DEF Parsed, Right, Meant
  <2>4. kind = "integer" /\ result = "Ok" => used = Len(sent)
    BY <2>1, <2>2 DEF Stage, TypeOK, Parsed
  <2>5. result = "panic" => Meant + (IF kind = "string" THEN offset ELSE 0) >= Limit
    <3>1. SUFFICES ASSUME result = "panic"
          PROVE  Meant + (IF kind = "string" THEN offset ELSE 0) >= Limit
      OBVIOUS
    <3>2. offset > 0 /\ (Meant >= Limit \/ (kind = "string" /\ Meant + offset >= Limit))
      BY <2>1, <3>1 DEF Stage, Meant
    <3>3. Meant \in Nat /\ offset \in Nat /\ Limit \in Nat
      <4>1. Meant \in Nat /\ offset \in 1..Len(sent) /\ Len(sent) \in Nat
        BY <2>1, <3>2, ByteRead DEF Meant
      <4> QED BY <4>1, LiteralsAssumption
    <3>4. CASE kind = "string"
      BY <3>2, <3>3, <3>4
    <3>5. CASE kind # "string"
      BY <3>2, <3>3, <3>5
    <3> QED BY <3>4, <3>5
  <2> QED BY <2>2, <2>3, <2>4, <2>5 DEF Exact
<1> QED BY <1>1, Inductive, PTL

(* parse_integer undoes write_integer, for every integer of a u64.         *)
THEOREM ParsedAsWritten == Spec => []RoundTrip
<1>1. ASSUME IInv, number >= 0
      PROVE  /\ result # "Overflow"
             /\ pc \in {"over", "text"} => output = number /\ offset = Len(sent)
             /\ kind = "integer" => result # "panic"
  <2>1. TypeOK /\ Written /\ Stage
    BY <1>1 DEF IInv
  <2>2. offset \in 0..Len(sent) /\ Len(sent) \in Nat /\ Limit \in Nat
        /\ number \in Int /\ number < Limit
    BY <2>1, LiteralsAssumption DEF TypeOK
  <2>3. ASSUME offset > 0
        PROVE  /\ sent[offset].sum \in Nat /\ sent[offset].sum < Limit
               /\ sent[offset].next \in Nat
               /\ sent[offset].more => sent[offset].next < Limit
    <3>1. offset \in 1..Len(sent)
      BY <2>2, <2>3
    <3>2. sent[offset].sum <= number /\ (sent[offset].more => sent[offset].next < Limit)
      BY <1>1, <2>1, <3>1 DEF Written
    <3>3. sent[offset].sum \in Nat /\ sent[offset].next \in Nat
      BY <2>1, <2>3, ByteRead
    <3> QED BY <2>2, <3>2, <3>3
  <2>4. result # "Overflow"
    <3>1. SUFFICES ASSUME result = "Overflow" PROVE FALSE
      OBVIOUS
    <3>2. offset > 0 /\ sent[offset].more /\ sent[offset].next >= Limit
      BY <2>1, <3>1 DEF Stage
    <3> QED BY <2>2, <2>3, <3>2
  <2>5. result = "panic" => kind = "string" /\ Parsed
    <3>1. SUFFICES ASSUME result = "panic" PROVE kind = "string" /\ Parsed
      OBVIOUS
    <3>2. offset > 0 /\ (sent[offset].sum >= Limit \/ (kind = "string" /\ Parsed))
      BY <2>1, <3>1 DEF Stage
    <3> QED BY <2>2, <2>3, <3>2
  <2>6. Parsed => output = number /\ offset = Len(sent)
    <3>1. SUFFICES ASSUME Parsed PROVE output = number /\ offset = Len(sent)
      OBVIOUS
    <3>2. offset > 0 /\ offset = Len(sent) /\ ~Last.more /\ Last = sent[offset]
      BY <3>1 DEF Parsed, Last
    <3>3. output = sent[offset].sum
      BY <2>2, <2>3, <3>1, <3>2 DEF Parsed, Right
    <3>4. sent # <<>>
      BY <3>2, <2>2
    <3>5. number = Last.sum + 0
      BY <1>1, <2>1, <3>2, <3>4 DEF Written
    <3> QED BY <2>3, <3>2, <3>3, <3>5
  <2>7. pc \in {"over", "text"} => Parsed
    BY <2>1, <2>4, <2>5 DEF Stage
  <2>8. pc \in {"over", "text"} => output = number /\ offset = Len(sent)
    BY <2>6, <2>7, Zenon
  <2>9. kind = "integer" => result # "panic"
    BY <2>5
  <2> QED BY <2>4, <2>8, <2>9, Zenon
<1>2. IInv => RoundTrip
  BY <1>1 DEF RoundTrip
<1> QED BY <1>2, Inductive, PTL

(* A string that is taken is the one sent, and the buffer is kept until    *)
(* then (parse_string).                                                    *)
THEOREM StringsWhole == Spec => []StringWhole
<1>1. ASSUME IInv, kind = "string", result = "Ok", Meant < Limit
      PROVE  used = Len(sent) + Meant /\ used <= come
  <2>1. TypeOK /\ Stage
    BY <1>1 DEF IInv
  <2>2. Parsed /\ used = offset + output /\ used <= come
    BY <1>1, <2>1 DEF Stage, TypeOK
  <2>3. Meant \in Nat
    BY <2>1, <2>2, ByteRead DEF Parsed, Meant
  <2>4. output = Meant /\ offset = Len(sent)
    BY <1>1, <2>2, <2>3, LiteralsAssumption DEF Parsed, Right, Meant
  <2> QED BY <2>2, <2>4
<1>2. IInv => StringWhole
  BY <1>1 DEF IInv, Taken, StringWhole, Meant
<1> QED BY <1>2, Inductive, PTL

(* No caller is told to wait for bytes that it has (TooSmall).             *)
THEOREM NeverPutOff == Spec => []NotPutOff
<1>1. IInv => NotPutOff
  BY DEF IInv, Missing, NotPutOff
<1> QED BY <1>1, Inductive, PTL

-----------------------------------------------------------------------------
(* HeaderBlock.                                                            *)

LEMMA HasFirst ==
  ASSUME NEW S \in SUBSET Nat, S # {}
  PROVE  \E i \in S : \A j \in S : i <= j
<1> DEFINE less == {p \in Nat \X Nat : p[1] < p[2]}
<1>1. IsWellFoundedOn(OpToRel(<, Nat), Nat)
  BY NatLessThanWellFounded
<1>2. OpToRel(<, Nat) = less
  BY DEF OpToRel
<1>3. PICK i \in S : \A j \in S : ~(<<j, i>> \in less)
  <2> HIDE DEF less
  <2> QED
    BY <1>1, <1>2, WFMin
<1>4. ASSUME NEW j \in S PROVE i <= j
  <2>1. ~(j < i) /\ i \in Nat /\ j \in Nat
    BY <1>3
  <2>2. QED
    BY <2>1
<1>5. QED
  BY <1>3, <1>4

LEMMA HasLargest ==
  ASSUME NEW n \in Nat, NEW S \in SUBSET (0..n), S # {}
  PROVE  \E i \in S : \A j \in S : i >= j
<1> DEFINE T == {n - i : i \in S}
<1>1. \A j \in S : j \in 0..n /\ n - j \in Nat
  OBVIOUS
<1>2. T \in SUBSET Nat /\ T # {}
  BY <1>1
<1>3. PICK m \in T : \A k \in T : m <= k
  <2> HIDE DEF T
  <2>1. QED
    BY <1>2, HasFirst
<1>4. PICK i \in S : m = n - i
  OBVIOUS
<1>5. ASSUME NEW j \in S PROVE i >= j
  <2>1. n - j \in T
    OBVIOUS
  <2>2. m <= n - j
    BY <1>3, <2>1
  <2> HIDE DEF T
  <2>3. QED
    BY <1>1, <1>4, <2>2
<1>6. QED
  BY <1>4, <1>5
-----------------------------------------------------------------------------
(* What fits into a table.                                                 *)

SizeOf(h) == Len(h.name) + Len(h.value) + 32

(* The sizes of a list add up.                                             *)
LEMMA Totals ==
  ASSUME NEW l, NEW n \in Nat
  PROVE  \E f : f = [k \in 0..n |-> IF k = 0 THEN 0 ELSE f[k - 1] + SizeOf(l[k])]
<1> DEFINE P(m) == \E f : f = [k \in 0..m |-> IF k = 0 THEN 0 ELSE f[k - 1] + SizeOf(l[k])]
           Wrong == {m \in Nat : ~P(m)}
<1>1. ASSUME NEW m \in Wrong, \A j \in Wrong : m <= j PROVE FALSE
  <2>1. CASE m = 0
    <3> DEFINE f == [k \in 0..0 |-> 0]
    <3>1. f = [k \in 0..0 |-> IF k = 0 THEN 0 ELSE f[k - 1] + SizeOf(l[k])]
      <4>1. \A k \in 0..0 : k = 0
        OBVIOUS
      <4>2. QED
        BY <4>1
    <3>2. QED
      BY <2>1, <3>1
  <2>2. CASE m # 0
    <3>1. m - 1 \in Nat /\ ~(m <= m - 1)
      BY <2>2
    <3>2. P(m - 1)
      BY <1>1, <3>1
    <3>3. PICK g : g = [k \in 0..(m - 1) |-> IF k = 0 THEN 0 ELSE g[k - 1] + SizeOf(l[k])]
      BY <3>2
    <3> DEFINE f == [k \in 0..m |-> IF k = m THEN g[m - 1] + SizeOf(l[m]) ELSE g[k]]
    <3>4. \A k \in 0..m : k # m => k \in 0..(m - 1) /\ (k # 0 => k - 1 \in 0..m /\ k - 1 # m)
      BY <3>1
    <3>5. m - 1 \in 0..m /\ m - 1 # m
      BY <3>1
    <3>6. ASSUME NEW k \in 0..m
          PROVE  f[k] = IF k = 0 THEN 0 ELSE f[k - 1] + SizeOf(l[k])
      <4>1. CASE k = m
        BY <2>2, <3>5, <4>1
      <4>2. CASE k # m
        <5>1. f[k] = g[k] /\ k \in 0..(m - 1)
          BY <3>4, <4>2
        <5>2. g[k] = IF k = 0 THEN 0 ELSE g[k - 1] + SizeOf(l[k])
          BY <3>3, <5>1
        <5>3. k # 0 => f[k - 1] = g[k - 1]
          BY <3>4, <4>2
        <5>4. QED
          BY <5>1, <5>2, <5>3
      <4>3. QED
        BY <4>1, <4>2
    <3>7. f = [k \in 0..m |-> f[k]]
      OBVIOUS
    <3>8. f = [k \in 0..m |-> IF k = 0 THEN 0 ELSE f[k - 1] + SizeOf(l[k])]
      <4> HIDE DEF f
      <4>1. QED
        BY <3>6, <3>7
    <3>9. QED
      BY <3>8
  <2>3. QED
    BY <2>1, <2>2
<1>2. Wrong = {}
  <2>1. Wrong \in SUBSET Nat
    OBVIOUS
  <2> HIDE DEF Wrong
  <2>2. QED
    BY <1>1, <2>1, HasFirst
<1>3. QED
  BY <1>2

LEMMA SameFitting ==
  ASSUME NEW l, NEW size
  PROVE  PeerTable!Fitting(l, size) = Table!Fitting(l, size)
BY DEF PeerTable!Fitting, Table!Fitting, PeerTable!SizeOf, Table!SizeOf, PeerTable!Max, Table!Max

(* What fits is a beginning of the list.                                   *)
LEMMA FittingType ==
  ASSUME NEW l \in Seq(Header), NEW size \in Nat
  PROVE  Table!Fitting(l, size) \in Seq(Header)
<1> DEFINE total == CHOOSE f : f = [k \in 0..Len(l) |-> IF k = 0 THEN 0 ELSE f[k - 1] + SizeOf(l[k])]
           fits == {k \in 0..Len(l) : total[k] <= size}
           max1 == CHOOSE x \in fits : \A y \in fits : x >= y
<1>1. Len(l) \in Nat
  BY LenProperties
<1>2. total = [k \in 0..Len(l) |-> IF k = 0 THEN 0 ELSE total[k - 1] + SizeOf(l[k])]
  BY <1>1, Totals
<1>3. total[0] = 0
  <2>1. 0 \in 0..Len(l)
    BY <1>1
  <2> HIDE DEF total
  <2>2. QED
    BY <1>2, <2>1
<1>4. fits \in SUBSET (0..Len(l)) /\ 0 \in fits
  <2> HIDE DEF total
  <2>1. QED
    BY <1>1, <1>3
<1>5. max1 \in 0..Len(l)
  <2> HIDE DEF fits
  <2>1. \E i \in fits : \A j \in fits : i >= j
    BY <1>1, <1>4, HasLargest
  <2>2. QED
    BY <1>4, <2>1
<1>6. Table!Fitting(l, size) = SubSeq(l, 1, max1)
  BY DEF Table!Fitting, Table!SizeOf, Table!Max, SizeOf
<1>7. SubSeq(l, 1, max1) \in Seq(Header)
  <2> HIDE DEF max1
  <2>1. QED
    BY <1>1, <1>5, SubSeqProperties
<1>8. QED
  BY <1>6, <1>7
-----------------------------------------------------------------------------
(* What parse_integer and parse_string make of bytes that are a beginning  *)
(* of an encoding, or have it at their beginning.                          *)

Tags == {"indexed", "incremental", "size", "plain", "length"}

Begins(d, e) == \A j \in 1..Len(e) : j <= Len(d) => d[j] = e[j]

LEMMA FullType == \A tag \in Tags : Full[tag] \in Nat
BY BlockAssumption DEF Tags

LEMMA IntSize ==
  ASSUME NEW tag \in Tags, NEW n \in Nat
  PROVE  /\ IntBytes(tag, n) \in Seq(BlockByte)
         /\ Len(IntBytes(tag, n)) = IF n < Full[tag] THEN 1 ELSE 2
         /\ IntBytes(tag, n)[1].tag = tag
         /\ IntBytes(tag, n)[1].n = IF n < Full[tag] THEN n ELSE Full[tag]
         /\ n >= Full[tag] => IntBytes(tag, n)[2].n = n - Full[tag]
<1>1. Full[tag] \in Nat
  BY FullType
<1>2. CASE n < Full[tag]
  <2>1. IntBytes(tag, n) = <<[tag |-> tag, n |-> n]>>
    BY <1>2 DEF IntBytes
  <2>2. [tag |-> tag, n |-> n] \in BlockByte
    BY DEF BlockByte, Tags
  <2>3. QED
    BY <1>1, <1>2, <2>1, <2>2
<1>3. CASE ~(n < Full[tag])
  <2>1. IntBytes(tag, n) = <<[tag |-> tag, n |-> Full[tag]], [tag |-> "rest", n |-> n - Full[tag]]>>
    BY <1>3 DEF IntBytes
  <2>2. n - Full[tag] \in Nat
    BY <1>1, <1>3
  <2>3. /\ [tag |-> tag, n |-> Full[tag]] \in BlockByte
        /\ [tag |-> "rest", n |-> n - Full[tag]] \in BlockByte
    BY <1>1, <2>2 DEF BlockByte, Tags
  <2>4. QED
    BY <1>1, <1>3, <2>1, <2>3
<1>4. QED
  BY <1>2, <1>3

(* An integer is read when all its bytes are there, and not before.        *)
LEMMA IntParsed ==
  ASSUME NEW tag \in Tags, NEW n \in Nat, NEW d \in Seq(BlockByte), Begins(d, IntBytes(tag, n)),
         NEW size, size = Len(IntBytes(tag, n))
  PROVE  /\ size \in Nat /\ size >= 1
         /\ Len(d) < size => parse_integer(tag, d).read = 0
         /\ Len(d) >= size => /\ parse_integer(tag, d).read = size
                              /\ parse_integer(tag, d).n = n
<1> DEFINE e == IntBytes(tag, n)
<1>1. Full[tag] \in Nat /\ Len(d) \in Nat /\ (Len(d) = 0 <=> d = <<>>)
  BY FullType, LenProperties, EmptySeq
<1>2. /\ size = IF n < Full[tag] THEN 1 ELSE 2
      /\ e[1].n = IF n < Full[tag] THEN n ELSE Full[tag]
      /\ n >= Full[tag] => e[2].n = n - Full[tag]
  BY IntSize
<1>3. \A j \in 1..size : j <= Len(d) => d[j] = e[j]
  BY DEF Begins
<1> HIDE DEF e
<1>4. CASE Len(d) = 0
  <2>1. parse_integer(tag, d).read = 0
    BY <1>1, <1>4 DEF parse_integer
  <2>2. QED
    BY <1>1, <1>2, <1>4, <2>1
<1>5. CASE Len(d) # 0 /\ n < Full[tag]
  <2>1. d # <<>> /\ d[1].n = n /\ Len(d) >= 1
    BY <1>1, <1>2, <1>3, <1>5
  <2>2. ~(d[1].n >= Full[tag]) /\ d[1].n < Full[tag]
    BY <1>1, <1>5, <2>1
  <2>3. parse_integer(tag, d) = [read |-> 1, n |-> d[1].n]
    BY <2>1, <2>2 DEF parse_integer
  <2>4. parse_integer(tag, d).read = 1 /\ parse_integer(tag, d).n = n
    BY <2>1, <2>3
  <2>5. QED
    BY <1>1, <1>2, <1>5, <2>4
<1>6. CASE Len(d) # 0 /\ ~(n < Full[tag])
  <2>1. d # <<>> /\ d[1].n = Full[tag] /\ Len(d) >= 1 /\ size = 2
    BY <1>1, <1>2, <1>3, <1>6
  <2>2. d[1].n >= Full[tag] /\ ~(d[1].n < Full[tag])
    BY <1>1, <2>1
  <2>3. CASE Len(d) = 1
    <3>1. parse_integer(tag, d) = [read |-> 0, n |-> 0]
      BY <2>2, <2>3 DEF parse_integer
    <3>2. QED
      BY <2>1, <2>3, <3>1
  <2>4. CASE Len(d) # 1
    <3>1. d[2].n = n - Full[tag] /\ Len(d) >= 2
      <4>1. Len(d) >= 2 /\ 2 \in 1..size
        <5>1. Len(d) \in Nat /\ Len(d) # 0 /\ Len(d) # 1 /\ size = 2
          BY <1>1, <1>6, <2>1, <2>4
        <5>2. \A x \in Nat : x # 0 /\ x # 1 => x >= 2
          OBVIOUS
        <5>3. Len(d) >= 2
          BY <5>1, <5>2
        <5>4. QED
          BY <5>1, <5>3
      <4>3. n >= Full[tag]
        BY <1>1, <1>6
      <4>2. d[2] = e[2]
        BY <1>3, <4>1
      <4>4. QED
        BY <1>2, <4>1, <4>2, <4>3
    <3>2. parse_integer(tag, d) = [read |-> 2, n |-> d[1].n + d[2].n]
      BY <2>1, <2>2, <2>4 DEF parse_integer
    <3>3. parse_integer(tag, d).read = 2 /\ parse_integer(tag, d).n = d[1].n + d[2].n
      BY <3>2
    <3>4. d[1].n + d[2].n = n
      BY <1>1, <2>1, <3>1
    <3>5. QED
      BY <2>1, <3>1, <3>3, <3>4
  <2>5. QED
    BY <2>3, <2>4
<1>7. QED
  BY <1>4, <1>5, <1>6

(* What follows the first of two parts.                                    *)
LEMMA AfterFirst ==
  ASSUME NEW d \in Seq(BlockByte), NEW a \in Seq(BlockByte), NEW b \in Seq(BlockByte), Begins(d, a \o b)
  PROVE  /\ Begins(d, a)
         /\ Len(a \o b) = Len(a) + Len(b) /\ Len(a) \in Nat /\ Len(b) \in Nat
         /\ Len(d) >= Len(a) => /\ After(d, Len(a)) \in Seq(BlockByte)
                                /\ Len(After(d, Len(a))) = Len(d) - Len(a)
                                /\ Begins(After(d, Len(a)), b)
<1>1. Len(a) \in Nat /\ Len(b) \in Nat /\ Len(d) \in Nat
  BY LenProperties
<1>2. /\ Len(a \o b) = Len(a) + Len(b)
      /\ \A i \in 1..(Len(a) + Len(b)) :
            (a \o b)[i] = IF i <= Len(a) THEN a[i] ELSE b[i - Len(a)]
  BY ConcatProperties
<1>3. \A j \in 1..(Len(a) + Len(b)) :
         j <= Len(d) => d[j] = IF j <= Len(a) THEN a[j] ELSE b[j - Len(a)]
  BY <1>2 DEF Begins
<1>4. Begins(d, a)
  <2>1. ASSUME NEW j \in 1..Len(a), j <= Len(d) PROVE d[j] = a[j]
    <3>1. j \in 1..(Len(a) + Len(b)) /\ j <= Len(a)
      BY <1>1
    <3>2. QED
      BY <1>3, <2>1, <3>1
  <2>2. QED
    BY <2>1 DEF Begins
<1>5. ASSUME Len(d) >= Len(a)
      PROVE  /\ After(d, Len(a)) \in Seq(BlockByte)
             /\ Len(After(d, Len(a))) = Len(d) - Len(a)
             /\ Begins(After(d, Len(a)), b)
  <2> DEFINE s == After(d, Len(a))
  <2>1. \A i \in (Len(a) + 1)..Len(d) : d[i] \in BlockByte
    BY <1>1, ElementOfSeq
  <2>2. /\ s \in Seq(BlockByte)
        /\ Len(s) = IF Len(a) + 1 <= Len(d) THEN Len(d) - (Len(a) + 1) + 1 ELSE 0
        /\ \A i \in 1..(Len(d) - (Len(a) + 1) + 1) : s[i] = d[(Len(a) + 1) + i - 1]
    <3>1. Len(a) + 1 \in Int /\ Len(d) \in Int
      BY <1>1
    <3>2. QED
      BY <2>1, <3>1, SubSeqProperties DEF After
  <2> HIDE DEF s
  <2>3. Len(s) = Len(d) - Len(a)
    BY <1>1, <1>5, <2>2
  <2>4. ASSUME NEW j \in 1..Len(b), j <= Len(s) PROVE s[j] = b[j]
    <3>1. /\ j \in 1..(Len(d) - (Len(a) + 1) + 1)
          /\ (Len(a) + 1) + j - 1 = Len(a) + j
          /\ Len(a) + j \in 1..(Len(a) + Len(b)) /\ Len(a) + j <= Len(d)
          /\ ~(Len(a) + j <= Len(a)) /\ (Len(a) + j) - Len(a) = j
      BY <1>1, <2>3, <2>4
    <3>2. s[j] = d[Len(a) + j]
      BY <2>2, <3>1
    <3>3. d[Len(a) + j] = b[j]
      BY <1>3, <3>1
    <3>4. QED
      BY <3>2, <3>3
  <2>5. Begins(s, b)
    BY <2>4 DEF Begins
  <2>6. QED
    BY <2>2, <2>3, <2>5 DEF s
<1>6. QED
  BY <1>1, <1>2, <1>4, <1>5

TextBytes(s) == [i \in 1..Len(s) |-> [tag |-> "text", n |-> s[i]]]

LEMMA TextBytesType ==
  ASSUME NEW s \in Seq(Nat)
  PROVE  /\ TextBytes(s) \in Seq(BlockByte) /\ Len(TextBytes(s)) = Len(s) /\ Len(s) \in Nat
         /\ \A i \in 1..Len(s) : TextBytes(s)[i].n = s[i]
         /\ StrBytes(s) = IntBytes("length", Len(s)) \o TextBytes(s)
         /\ StrBytes(s) \in Seq(BlockByte)
<1>1. Len(s) \in Nat /\ \A i \in 1..Len(s) : s[i] \in Nat
  BY LenProperties, ElementOfSeq
<1>2. \A i \in 1..Len(s) : [tag |-> "text", n |-> s[i]] \in BlockByte
  BY <1>1 DEF BlockByte
<1>3. TextBytes(s) \in Seq(BlockByte)
  BY <1>1, <1>2 DEF TextBytes
<1>4. Len(TextBytes(s)) = Len(s) /\ \A i \in 1..Len(s) : TextBytes(s)[i].n = s[i]
  BY <1>1 DEF TextBytes
<1>5. StrBytes(s) = IntBytes("length", Len(s)) \o TextBytes(s)
  BY DEF StrBytes, TextBytes
<1>6. StrBytes(s) \in Seq(BlockByte)
  <2>1. IntBytes("length", Len(s)) \in Seq(BlockByte)
    BY <1>1, IntSize DEF Tags
  <2>2. QED
    BY <1>3, <1>5, <2>1, ConcatProperties
<1>7. QED
  BY <1>1, <1>3, <1>4, <1>5, <1>6

(* A string is taken when all its bytes are there, and not before.         *)
LEMMA StrParsed ==
  ASSUME NEW s \in Seq(Nat), NEW d \in Seq(BlockByte), Begins(d, StrBytes(s)),
         NEW size, size = Len(StrBytes(s))
  PROVE  /\ size \in Nat /\ size >= 1
         /\ Len(d) < size => parse_string(d).read = 0
         /\ Len(d) >= size => parse_string(d).read = size /\ parse_string(d).s = s
<1> DEFINE num == parse_integer("length", d)
<1>1. PICK a, t, m : a = IntBytes("length", Len(s)) /\ t = TextBytes(s) /\ m = Len(a)
  OBVIOUS
<1>2. /\ t \in Seq(BlockByte) /\ Len(t) = Len(s) /\ Len(s) \in Nat
      /\ \A i \in 1..Len(s) : t[i].n = s[i]
      /\ StrBytes(s) = a \o t
  BY <1>1, TextBytesType
<1>3. "length" \in Tags
  BY DEF Tags
<1>4. a \in Seq(BlockByte)
  BY <1>1, <1>2, <1>3, IntSize
<1>5. /\ Begins(d, a)
      /\ size = m + Len(s) /\ m \in Nat
      /\ Len(d) >= m => /\ Len(After(d, m)) = Len(d) - m
                        /\ Begins(After(d, m), t)
  <2>1. Begins(d, a \o t) /\ size = Len(a \o t)
    BY <1>2
  <2>2. ASSUME NEW x \in Seq(BlockByte), NEW y \in Seq(BlockByte), Begins(d, x \o y)
        PROVE  /\ Begins(d, x)
               /\ Len(x \o y) = Len(x) + Len(y) /\ Len(x) \in Nat
               /\ Len(d) >= Len(x) => /\ Len(After(d, Len(x))) = Len(d) - Len(x)
                                      /\ Begins(After(d, Len(x)), y)
    BY <2>2, AfterFirst
  <2>4. /\ Begins(d, a)
        /\ Len(a \o t) = Len(a) + Len(t) /\ Len(a) \in Nat
        /\ Len(d) >= Len(a) => /\ Len(After(d, Len(a))) = Len(d) - Len(a)
                               /\ Begins(After(d, Len(a)), t)
    BY <1>2, <1>4, <2>1, <2>2
  <2>3. QED
    BY <1>1, <1>2, <2>1, <2>4
<1>6. /\ m >= 1
      /\ Len(d) < m => num.read = 0
      /\ Len(d) >= m => num.read = m /\ num.n = Len(s)
  BY <1>1, <1>2, <1>3, <1>5, IntParsed
<1>7. Len(d) \in Nat
  BY LenProperties
<1>8. parse_string(d) = IF num.read = 0 \/ Len(d) < num.read + num.n THEN [read |-> 0, s |-> <<>>]
                        ELSE [read |-> num.read + num.n,
                              s |-> [i \in 1..num.n |-> d[num.read + i].n]]
  BY DEF parse_string
<1>9. \A i \in 1..Len(s) : m + i <= Len(d) => d[m + i].n = s[i]
  <2>1. \A j \in 1..(m + Len(s)) : j <= Len(d) => d[j] = (a \o t)[j]
    BY <1>2, <1>5 DEF Begins
  <2>2. \A j \in 1..(m + Len(s)) : (a \o t)[j] = IF j <= m THEN a[j] ELSE t[j - m]
    BY <1>1, <1>2, <1>4, ConcatProperties
  <2>3. \A i \in 1..Len(s) : m + i \in 1..(m + Len(s)) /\ ~(m + i <= m) /\ (m + i) - m = i
    BY <1>2, <1>5
  <2>4. QED
    BY <1>2, <2>1, <2>2, <2>3
<1> HIDE DEF num
<1>10. CASE Len(d) < m
  <2>1. parse_string(d).read = 0
    BY <1>6, <1>8, <1>10
  <2>2. QED
    BY <1>2, <1>5, <1>6, <1>7, <1>10, <2>1
<1>11. CASE Len(d) >= m /\ Len(d) < size
  <2>1. parse_string(d).read = 0
    BY <1>5, <1>6, <1>8, <1>11
  <2>2. QED
    BY <1>2, <1>5, <1>6, <1>7, <1>11, <2>1
<1>12. CASE Len(d) >= size
  <2>1. num.read = m /\ num.n = Len(s) /\ ~(Len(d) < m + Len(s)) /\ num.read # 0
    BY <1>2, <1>5, <1>6, <1>7, <1>12
  <2>2. parse_string(d) = [read |-> m + Len(s), s |-> [i \in 1..Len(s) |-> d[m + i].n]]
    BY <1>8, <2>1
  <2>3. \A i \in 1..Len(s) : d[m + i].n = s[i]
    <3>1. \A i \in 1..Len(s) : m + i <= Len(d)
      BY <1>2, <1>5, <1>7, <1>12
    <3>2. QED
      BY <1>9, <3>1
  <2>4. [i \in 1..Len(s) |-> d[m + i].n] = [i \in 1..Len(s) |-> s[i]]
    BY <2>3
  <2>5. s = [i \in 1..Len(s) |-> s[i]]
    BY LenProperties
  <2>6. parse_string(d).read = m + Len(s) /\ parse_string(d).s = s
    BY <2>2, <2>4, <2>5
  <2>7. QED
    BY <1>2, <1>5, <1>6, <1>7, <1>12, <2>6
<1>13. QED
  BY <1>5, <1>7, <1>2, <1>10, <1>11, <1>12
-----------------------------------------------------------------------------
(* What read_header makes of bytes that begin a representation.            *)

LEMMA HeaderParts ==
  ASSUME NEW h \in Header
  PROVE  /\ h.name \in Names /\ h.name \in Seq(Nat)
         /\ h.value \in Values /\ h.value \in Seq(Nat)
         /\ h = [name |-> h.name, value |-> h.value]
BY BlockAssumption DEF Header

(* The entry of an index behind a list.                                    *)
EntryOf(l, i) == (Static \o l)[i]

LEMMA Entries ==
  ASSUME NEW l \in Seq(Header)
  PROVE  /\ Len(Static) \in Nat /\ Len(l) \in Nat
         /\ Static \o l \in Seq(Header)
         /\ DOMAIN (Static \o l) = 1..(Len(Static) + Len(l))
         /\ \A i \in 1..(Len(Static) + Len(l)) : EntryOf(l, i) \in Header
<1>1. Static \in Seq(Header)
  BY BlockAssumption DEF Header
<1>2. Static \o l \in Seq(Header) /\ Len(Static \o l) = Len(Static) + Len(l)
  BY <1>1, ConcatProperties
<1>3. Len(Static) \in Nat /\ Len(l) \in Nat
  BY <1>1, LenProperties
<1>4. DOMAIN (Static \o l) = 1..(Len(Static) + Len(l))
  BY <1>2, LenProperties
<1>5. \A i \in 1..(Len(Static) + Len(l)) : (Static \o l)[i] \in Header
  BY <1>2, <1>3, ElementOfSeq
<1>6. QED
  BY <1>2, <1>3, <1>4, <1>5 DEF EntryOf

LEMMA Looked ==
  ASSUME list \in Seq(Header), NEW i \in Nat
  PROVE  /\ i \in 1..(Len(Static) + Len(list)) => Table!Entry(i) = <<EntryOf(list, i)>>
         /\ ~(i \in 1..(Len(Static) + Len(list))) => Table!Entry(i) = <<>>
BY Entries DEF Table!Entry, Table!None, EntryOf

LEMMA TagOf ==
  ASSUME NEW tag \in Tags, NEW n \in Nat, NEW d \in Seq(BlockByte), d # <<>>,
         Begins(d, IntBytes(tag, n))
  PROVE  d[1].tag = tag
<1>1. Len(d) \in Nat /\ Len(d) # 0
  BY LenProperties, EmptySeq
<1>2. Full[tag] \in Nat
  BY FullType
<1>3. Len(IntBytes(tag, n)) \in {1, 2} /\ IntBytes(tag, n)[1].tag = tag
  BY <1>2, IntSize
<1>4. 1 \in 1..Len(IntBytes(tag, n)) /\ 1 <= Len(d)
  BY <1>1, <1>3
<1>5. d[1] = IntBytes(tag, n)[1]
  BY <1>4 DEF Begins
<1>6. QED
  BY <1>3, <1>5

NamePart(tag, i, s) == IntBytes(tag, i) \o (IF i = 0 THEN StrBytes(s) ELSE <<>>)

LEMMA PartTypes ==
  ASSUME NEW tag \in Tags, NEW i \in Nat, NEW s \in Seq(Nat)
  PROVE  /\ IntBytes(tag, i) \in Seq(BlockByte)
         /\ (IF i = 0 THEN StrBytes(s) ELSE <<>>) \in Seq(BlockByte)
         /\ NamePart(tag, i, s) \in Seq(BlockByte)
<1>1. IntBytes(tag, i) \in Seq(BlockByte)
  BY IntSize
<1>2. StrBytes(s) \in Seq(BlockByte)
  BY TextBytesType
<1>3. <<>> \in Seq(BlockByte)
  BY EmptySeq
<1>4. (IF i = 0 THEN StrBytes(s) ELSE <<>>) \in Seq(BlockByte)
  BY <1>2, <1>3
<1>5. QED
  BY <1>1, <1>4, ConcatProperties DEF NamePart

(* The name of a literal.                                                  *)
LEMMA NameParsed ==
  ASSUME NEW tag \in Tags, NEW i \in Nat, NEW s \in Seq(Nat),
         data \in Seq(BlockByte), list \in Seq(Header), Begins(data, NamePart(tag, i, s)),
         i # 0 => i \in 1..(Len(Static) + Len(list)) /\ EntryOf(list, i).name = s,
         NEW size, size = Len(NamePart(tag, i, s))
  PROVE  /\ size \in Nat
         /\ Len(data) < size => NameOf(tag).error = "TooSmall"
         /\ Len(data) >= size => /\ NameOf(tag).error = "none" /\ NameOf(tag).read = size
                                 /\ NameOf(tag).s = s
<1>1. PICK a, b, m : /\ a = IntBytes(tag, i) /\ b = (IF i = 0 THEN StrBytes(s) ELSE <<>>)
                     /\ m = Len(a)
  OBVIOUS
<1>2. a \in Seq(BlockByte) /\ b \in Seq(BlockByte) /\ NamePart(tag, i, s) = a \o b
  BY <1>1, PartTypes DEF NamePart
<1>3. ASSUME NEW x \in Seq(BlockByte), NEW y \in Seq(BlockByte), Begins(data, x \o y)
      PROVE  /\ Begins(data, x)
             /\ Len(x \o y) = Len(x) + Len(y) /\ Len(x) \in Nat /\ Len(y) \in Nat
             /\ Len(data) >= Len(x) => /\ After(data, Len(x)) \in Seq(BlockByte)
                                       /\ Len(After(data, Len(x))) = Len(data) - Len(x)
                                       /\ Begins(After(data, Len(x)), y)
  BY <1>3, AfterFirst
<1>4. /\ Begins(data, a)
      /\ size = m + Len(b) /\ m \in Nat /\ Len(b) \in Nat
      /\ Len(data) >= m => /\ After(data, m) \in Seq(BlockByte)
                           /\ Len(After(data, m)) = Len(data) - m
                           /\ Begins(After(data, m), b)
  <2>1. Begins(data, a \o b) /\ size = Len(a \o b)
    BY <1>2
  <2>2. /\ Begins(data, a)
        /\ Len(a \o b) = Len(a) + Len(b) /\ Len(a) \in Nat /\ Len(b) \in Nat
        /\ Len(data) >= Len(a) => /\ After(data, Len(a)) \in Seq(BlockByte)
                                  /\ Len(After(data, Len(a))) = Len(data) - Len(a)
                                  /\ Begins(After(data, Len(a)), b)
    BY <1>2, <1>3, <2>1
  <2>3. QED
    BY <1>1, <2>1, <2>2
<1>5. PICK num : num = parse_integer(tag, data)
  OBVIOUS
<1>6. /\ m >= 1
      /\ Len(data) < m => num.read = 0
      /\ Len(data) >= m => num.read = m /\ num.n = i
  BY <1>1, <1>4, <1>5, IntParsed
<1>7. Len(data) \in Nat
  BY LenProperties
<1>8. CASE Len(data) < m
  <2>1. num.read = 0
    BY <1>6, <1>8
  <2>2. NameOf(tag) = [error |-> "TooSmall"]
    BY <1>5, <2>1 DEF NameOf
  <2>3. NameOf(tag).error = "TooSmall"
    BY <2>2
  <2>4. QED
    BY <1>4, <1>7, <1>8, <2>3
<1>9. CASE Len(data) >= m /\ i # 0
  <2>1. num.read = m /\ num.n = i /\ num.read # 0
    BY <1>6, <1>9, <1>4
  <2>2. Table!Entry(num.n) = <<EntryOf(list, i)>> /\ Table!Entry(num.n) # <<>>
    <3>1. Table!Entry(i) = <<EntryOf(list, i)>>
      BY <1>9, Looked
    <3>2. QED
      BY <2>1, <3>1
  <2>3. NameOf(tag) = [error |-> "none", read |-> num.read, s |-> Table!Entry(num.n)[1].name]
    BY <1>5, <1>9, <2>1, <2>2 DEF NameOf
  <2>4. NameOf(tag).error = "none" /\ NameOf(tag).read = m /\ NameOf(tag).s = s
    BY <1>9, <2>1, <2>2, <2>3
  <2>5. Len(b) = 0
    BY <1>1, <1>9, EmptySeq
  <2>6. size = m
    BY <1>4, <2>5
  <2>7. QED
    BY <1>4, <1>7, <1>9, <2>4, <2>6
<1>10. CASE Len(data) >= m /\ i = 0
  <2>1. num.read = m /\ num.n = 0 /\ num.read # 0
    BY <1>6, <1>10, <1>4
  <2>2. PICK rest, str : rest = After(data, m) /\ str = parse_string(rest)
    OBVIOUS
  <2>3. b = StrBytes(s)
    BY <1>1, <1>10
  <2>4. rest \in Seq(BlockByte) /\ Begins(rest, StrBytes(s)) /\ Len(rest) = Len(data) - m
    BY <1>4, <1>10, <2>2, <2>3
  <2>5. /\ Len(b) >= 1
        /\ Len(rest) < Len(b) => str.read = 0
        /\ Len(rest) >= Len(b) => str.read = Len(b) /\ str.s = s
    BY <2>2, <2>3, <2>4, StrParsed
  <2>6. CASE Len(rest) < Len(b)
    <3>1. NameOf(tag) = [error |-> "TooSmall"]
      BY <1>5, <2>1, <2>2, <2>5, <2>6 DEF NameOf
    <3>2. NameOf(tag).error = "TooSmall"
      BY <3>1
    <3>3. QED
      BY <1>4, <1>7, <2>4, <2>6, <3>2
  <2>7. CASE Len(rest) >= Len(b)
    <3>1. str.read # 0
      BY <1>4, <2>5, <2>7
    <3>2. NameOf(tag) = [error |-> "none", read |-> num.read + str.read, s |-> str.s]
      BY <1>5, <2>1, <2>2, <3>1 DEF NameOf
    <3>3. NameOf(tag).error = "none" /\ NameOf(tag).read = m + Len(b) /\ NameOf(tag).s = s
      BY <2>1, <2>5, <2>7, <3>2
    <3>4. QED
      BY <1>4, <1>7, <2>4, <2>7, <3>3
  <2>8. Len(rest) \in Nat
    BY <2>4, LenProperties
  <2>9. QED
    BY <1>4, <2>6, <2>7, <2>8
<1>11. QED
  BY <1>4, <1>7, <1>8, <1>9, <1>10

(* Too few bytes: nothing but the buffers changes.                         *)
PutsOff ==
  /\ returned' = "TooSmall"
  /\ name' \in Names \cup {<<>>} /\ value' = <<>>
  /\ data' = data /\ got' = got

Takes(h, size) ==
  /\ returned' = "Ok"
  /\ name' = h.name /\ value' = h.value
  /\ got' = Append(got, h) /\ data' = After(data, size)

Refuses ==
  /\ returned' \in Fatal
  /\ name' = <<>> /\ value' = <<>>
  /\ data' = data /\ got' = got

LEMMA LiteralParsed ==
  ASSUME NEW tag \in Tags, NEW i \in Nat, NEW h \in Header,
         data \in Seq(BlockByte), list \in Seq(Header), Begins(data, Field(tag, h, i)),
         i # 0 => i \in 1..(Len(Static) + Len(list)) /\ EntryOf(list, i).name = h.name,
         Literal(tag), NEW size, size = Len(Field(tag, h, i))
  PROVE  /\ size \in Nat
         /\ \/ Len(data) < size /\ PutsOff
            \/ Len(data) >= size /\ Takes(h, size)
<1>1. PICK a, b, m : /\ a = NamePart(tag, i, h.name) /\ b = StrBytes(h.value)
                     /\ m = Len(a)
  OBVIOUS
<1>2. a \in Seq(BlockByte) /\ b \in Seq(BlockByte) /\ Field(tag, h, i) = a \o b
  BY <1>1, PartTypes, HeaderParts, TextBytesType DEF NamePart, Field
<1>3. ASSUME NEW x \in Seq(BlockByte), NEW y \in Seq(BlockByte), Begins(data, x \o y)
      PROVE  /\ Begins(data, x)
             /\ Len(x \o y) = Len(x) + Len(y) /\ Len(x) \in Nat /\ Len(y) \in Nat
             /\ Len(data) >= Len(x) => /\ After(data, Len(x)) \in Seq(BlockByte)
                                       /\ Len(After(data, Len(x))) = Len(data) - Len(x)
                                       /\ Begins(After(data, Len(x)), y)
  BY <1>3, AfterFirst
<1>4. /\ Begins(data, a)
      /\ size = m + Len(b) /\ m \in Nat /\ Len(b) \in Nat
      /\ Len(data) >= m => /\ After(data, m) \in Seq(BlockByte)
                           /\ Len(After(data, m)) = Len(data) - m
                           /\ Begins(After(data, m), b)
  <2>1. Begins(data, a \o b) /\ size = Len(a \o b)
    BY <1>2
  <2>2. /\ Begins(data, a)
        /\ Len(a \o b) = Len(a) + Len(b) /\ Len(a) \in Nat /\ Len(b) \in Nat
        /\ Len(data) >= Len(a) => /\ After(data, Len(a)) \in Seq(BlockByte)
                                  /\ Len(After(data, Len(a))) = Len(data) - Len(a)
                                  /\ Begins(After(data, Len(a)), b)
    BY <1>2, <1>3, <2>1
  <2>3. QED
    BY <1>1, <2>1, <2>2
<1>5. PICK n, v : n = NameOf(tag) /\ v = parse_string(After(data, n.read))
  OBVIOUS
<1>6. /\ Len(data) < m => n.error = "TooSmall"
      /\ Len(data) >= m => n.error = "none" /\ n.read = m /\ n.s = h.name
  BY <1>1, <1>4, <1>5, HeaderParts, NameParsed
<1>7. Len(data) \in Nat
  BY LenProperties
<1>8. \/ n.error # "none" /\ Fails(n.error, <<>>, <<>>)
      \/ n.error = "none" /\ v.read = 0 /\ Fails("TooSmall", n.s, <<>>)
      \/ n.error = "none" /\ v.read # 0 /\ Returns(n.read + v.read, n.s, v.s)
  BY <1>5 DEF Literal
<1>9. CASE Len(data) < m
  <2>1. Fails("TooSmall", <<>>, <<>>)
    BY <1>6, <1>8, <1>9
  <2>2. PutsOff
    BY <2>1 DEF Fails, PutsOff
  <2>3. QED
    BY <1>4, <1>7, <1>9, <2>2
<1>10. CASE Len(data) >= m
  <2>1. n.error = "none" /\ n.read = m /\ n.s = h.name
    BY <1>6, <1>10
  <2>2. PICK rest : rest = After(data, m)
    OBVIOUS
  <2>3. rest \in Seq(BlockByte) /\ Begins(rest, StrBytes(h.value)) /\ Len(rest) = Len(data) - m
    BY <1>1, <1>4, <1>10, <2>2
  <2>4. v = parse_string(rest)
    BY <1>5, <2>1, <2>2
  <2>5. /\ Len(b) >= 1
        /\ Len(rest) < Len(b) => v.read = 0
        /\ Len(rest) >= Len(b) => v.read = Len(b) /\ v.s = h.value
    BY <1>1, <2>3, <2>4, HeaderParts, StrParsed
  <2>6. CASE Len(rest) < Len(b)
    <3>1. Fails("TooSmall", h.name, <<>>)
      BY <1>8, <2>1, <2>5, <2>6
    <3>2. PutsOff
      BY <3>1, HeaderParts DEF Fails, PutsOff
    <3>3. Len(data) < size
      BY <1>4, <1>7, <2>3, <2>6
    <3>4. QED
      BY <1>4, <3>2, <3>3
  <2>7. CASE Len(rest) >= Len(b)
    <3>1. v.read = Len(b) /\ v.s = h.value /\ v.read # 0
      BY <1>4, <2>5, <2>7
    <3>2. Returns(m + Len(b), h.name, h.value)
      BY <1>8, <2>1, <3>1
    <3>3. Takes(h, size)
      BY <1>4, <3>2, HeaderParts DEF Returns, Takes
    <3>4. Len(data) >= size
      BY <1>4, <1>7, <2>3, <2>7
    <3>5. QED
      BY <1>4, <3>3, <3>4
  <2>8. Len(rest) \in Nat
    BY <2>3, LenProperties
  <2>9. QED
    BY <1>4, <2>6, <2>7, <2>8
<1>11. QED
  BY <1>4, <1>7, <1>9, <1>10

(* A representation: bytes that stand for a header behind a list, and      *)
(* leave another list and size.                                            *)
Stands(e, l, m, header, l2, m2) ==
  \/ \E i \in 1..(Len(Static) + Len(l)) :
       e = IntBytes("indexed", i) /\ header = EntryOf(l, i) /\ l2 = l /\ m2 = m
  \/ \E h \in Header, tag \in {"incremental", "plain"}, i \in 0..(Len(Static) + Len(l)) :
       /\ e = Field(tag, h, i)
       /\ i # 0 => EntryOf(l, i).name = h.name
       /\ header = h /\ m2 = m
       /\ l2 = IF tag = "plain" THEN l ELSE Table!Fitting(<<h>> \o l, m)
  \/ \E size \in Sizes :
       /\ e = IntBytes("size", size)
       /\ header = Nothing /\ m2 = size /\ l2 = Table!Fitting(l, size)

(* Bytes that stand for nothing.                                           *)
Wrong(e, l) ==
  \/ \E i \in {0, Len(Static) + Len(l) + 1} : e = IntBytes("indexed", i)
  \/ e = IntBytes("incremental", Len(Static) + Len(l) + 1) \o StrBytes(<<>>)
  \/ e = IntBytes("size", Permitted + 1)

(* What an integer alone makes of read_header.                             *)
LEMMA IndexedParsed ==
  ASSUME data \in Seq(BlockByte), list \in Seq(Header), NEW i \in Nat,
         Begins(data, IntBytes("indexed", i)), Indexed,
         NEW size, size = Len(IntBytes("indexed", i))
  PROVE  /\ size \in Nat /\ list' = list /\ max' = max
         /\ \/ Len(data) < size /\ PutsOff
            \/ /\ Len(data) >= size /\ i \in 1..(Len(Static) + Len(list))
               /\ Takes(EntryOf(list, i), size)
            \/ Refuses /\ i \notin 1..(Len(Static) + Len(list))
<1>1. PICK num : num = parse_integer("indexed", data)
  OBVIOUS
<1>2. PICK entry : entry = Table!Entry(num.n)
  OBVIOUS
<1>3. list' = list /\ max' = max
  BY DEF Indexed, tableVars
<1>4. \/ num.read = 0 /\ Fails("TooSmall", <<>>, <<>>)
      \/ num.read # 0 /\ entry = <<>> /\ Fails("IndexNotFound", <<>>, <<>>)
      \/ num.read # 0 /\ entry # <<>> /\ Returns(num.read, entry[1].name, entry[1].value)
  BY <1>1, <1>2 DEF Indexed
<1>5. "indexed" \in Tags
  BY DEF Tags
<1>6. /\ size \in Nat /\ size >= 1
      /\ Len(data) < size => num.read = 0
      /\ Len(data) >= size => num.read = size /\ num.n = i
  BY <1>1, <1>5, IntParsed
<1>7. Len(data) \in Nat
  BY LenProperties
<1>8. CASE Len(data) < size
  <2>1. Fails("TooSmall", <<>>, <<>>)
    BY <1>4, <1>6, <1>8
  <2>2. PutsOff
    BY <2>1 DEF Fails, PutsOff
  <2>3. QED
    BY <1>3, <1>6, <1>8, <2>2
<1>9. CASE Len(data) >= size /\ i \in 1..(Len(Static) + Len(list))
  <2>1. num.read = size /\ num.read # 0 /\ entry = Table!Entry(i)
    BY <1>2, <1>6, <1>9
  <2>2. Table!Entry(i) = <<EntryOf(list, i)>>
    BY <1>9, Looked
  <2>3. entry # <<>> /\ entry[1] = EntryOf(list, i)
    BY <2>1, <2>2
  <2>4. Returns(size, EntryOf(list, i).name, EntryOf(list, i).value)
    BY <1>4, <2>1, <2>3
  <2>5. EntryOf(list, i) \in Header
    BY <1>9, Entries
  <2>6. Takes(EntryOf(list, i), size)
    BY <2>4, <2>5, HeaderParts DEF Returns, Takes
  <2>7. QED
    BY <1>3, <1>6, <1>9, <2>6
<1>10. CASE Len(data) >= size /\ i \notin 1..(Len(Static) + Len(list))
  <2>1. num.read = size /\ num.read # 0 /\ entry = Table!Entry(i)
    BY <1>2, <1>6, <1>10
  <2>2. Table!Entry(i) = <<>>
    BY <1>10, Looked
  <2>3. Fails("IndexNotFound", <<>>, <<>>)
    BY <1>4, <2>1, <2>2
  <2>4. Refuses
    BY <2>3 DEF Fails, Refuses, Fatal
  <2>5. QED
    BY <1>3, <1>6, <1>10, <2>4
<1>11. QED
  BY <1>6, <1>7, <1>8, <1>9, <1>10

LEMMA SizeParsed ==
  ASSUME data \in Seq(BlockByte), NEW n \in Nat, Begins(data, IntBytes("size", n)), Resize,
         NEW size, size = Len(IntBytes("size", n))
  PROVE  /\ size \in Nat
         /\ \/ Len(data) < size /\ PutsOff /\ list' = list /\ max' = max
            \/ /\ Len(data) >= size /\ n <= Permitted
               /\ Takes(Nothing, size) /\ list' = Table!Fitting(list, n) /\ max' = n
            \/ Refuses /\ n > Permitted /\ list' = list /\ max' = max
<1>1. PICK num : num = parse_integer("size", data)
  OBVIOUS
<1>2. \/ num.read = 0 /\ Fails("TooSmall", <<>>, <<>>) /\ UNCHANGED tableVars
      \/ /\ num.read # 0 /\ num.n > Permitted
         /\ Fails("TableTooSmall", <<>>, <<>>) /\ UNCHANGED tableVars
      \/ /\ num.read # 0 /\ num.n <= Permitted
         /\ Returns(num.read, <<>>, <<>>) /\ resize(num.n)
  BY <1>1 DEF Resize
<1>3. "size" \in Tags
  BY DEF Tags
<1>4. /\ size \in Nat /\ size >= 1
      /\ Len(data) < size => num.read = 0
      /\ Len(data) >= size => num.read = size /\ num.n = n
  BY <1>1, <1>3, IntParsed
<1>5. Len(data) \in Nat /\ Permitted \in Nat
  BY LenProperties, BlockAssumption
<1>6. CASE Len(data) < size
  <2>1. Fails("TooSmall", <<>>, <<>>) /\ UNCHANGED tableVars
    BY <1>2, <1>4, <1>6
  <2>2. PutsOff /\ list' = list /\ max' = max
    BY <2>1 DEF Fails, PutsOff, tableVars
  <2>3. QED
    BY <1>4, <1>6, <2>2
<1>7. CASE Len(data) >= size /\ n <= Permitted
  <2>1. num.read = size /\ num.read # 0 /\ num.n = n /\ ~(n > Permitted)
    BY <1>4, <1>5, <1>7
  <2>2. Returns(size, <<>>, <<>>) /\ resize(n)
    BY <1>2, <2>1
  <2>3. Takes(Nothing, size) /\ list' = Table!Fitting(list, n) /\ max' = n
    BY <2>2 DEF Returns, Takes, Nothing, resize
  <2>4. QED
    BY <1>4, <1>7, <2>3
<1>8. CASE Len(data) >= size /\ n > Permitted
  <2>1. num.read = size /\ num.read # 0 /\ num.n = n /\ ~(n <= Permitted)
    BY <1>4, <1>5, <1>8
  <2>2. Fails("TableTooSmall", <<>>, <<>>) /\ UNCHANGED tableVars
    BY <1>2, <2>1
  <2>3. Refuses /\ list' = list /\ max' = max
    BY <2>2 DEF Fails, Refuses, Fatal, tableVars
  <2>4. QED
    BY <1>4, <1>8, <2>3
<1>9. QED
  BY <1>4, <1>5, <1>6, <1>7, <1>8

(* A literal whose name is an index beyond the tables.                     *)
LEMMA BeyondParsed ==
  ASSUME data \in Seq(BlockByte), list \in Seq(Header),
         NEW i \in Nat, i # 0, i \notin 1..(Len(Static) + Len(list)), NEW b \in Seq(BlockByte),
         Begins(data, IntBytes("incremental", i) \o b), Literal("incremental"),
         NEW size, size = Len(IntBytes("incremental", i) \o b)
  PROVE  (Len(data) < size /\ PutsOff) \/ Refuses
<1>1. PICK a, m : a = IntBytes("incremental", i) /\ m = Len(a)
  OBVIOUS
<1>2. "incremental" \in Tags
  BY DEF Tags
<1>3. a \in Seq(BlockByte)
  BY <1>1, <1>2, IntSize
<1>4. Begins(data, a) /\ size = m + Len(b) /\ m \in Nat /\ Len(b) \in Nat
  <2>1. Begins(data, a \o b) /\ size = Len(a \o b)
    BY <1>1
  <2>2. ASSUME NEW x \in Seq(BlockByte), NEW y \in Seq(BlockByte), Begins(data, x \o y)
        PROVE  /\ Begins(data, x) /\ Len(x \o y) = Len(x) + Len(y) /\ Len(x) \in Nat
               /\ Len(y) \in Nat
    BY <2>2, AfterFirst
  <2>3. Begins(data, a) /\ Len(a \o b) = Len(a) + Len(b) /\ Len(a) \in Nat /\ Len(b) \in Nat
    BY <1>3, <2>1, <2>2
  <2>4. QED
    BY <1>1, <2>1, <2>3
<1>5. PICK num, n : num = parse_integer("incremental", data) /\ n = NameOf("incremental")
  OBVIOUS
<1>6. /\ m >= 1
      /\ Len(data) < m => num.read = 0
      /\ Len(data) >= m => num.read = m /\ num.n = i
  BY <1>1, <1>2, <1>4, <1>5, IntParsed
<1>7. Len(data) \in Nat
  BY LenProperties
<1>8. n.error # "none" => Fails(n.error, <<>>, <<>>)
  BY <1>5 DEF Literal
<1>9. CASE Len(data) < m
  <2>1. num.read = 0
    BY <1>6, <1>9
  <2>2. n = [error |-> "TooSmall"]
    BY <1>5, <2>1 DEF NameOf
  <2>3. n.error = "TooSmall"
    BY <2>2
  <2>4. PutsOff
    BY <1>8, <2>3 DEF Fails, PutsOff
  <2>5. Len(data) < size
    BY <1>4, <1>7, <1>9
  <2>6. QED
    BY <2>4, <2>5
<1>10. CASE Len(data) >= m
  <2>1. num.read # 0 /\ num.n = i /\ num.n # 0
    BY <1>4, <1>6, <1>10
  <2>2. Table!Entry(i) = <<>>
    BY Looked
  <2>3. n = [error |-> "IndexNotFound"]
    BY <1>5, <2>1, <2>2 DEF NameOf
  <2>4. n.error = "IndexNotFound"
    BY <2>3
  <2>5. Refuses
    BY <1>8, <2>4 DEF Fails, Refuses, Fatal
  <2>6. QED
    BY <2>5
<1>11. QED
  BY <1>4, <1>7, <1>9, <1>10

LEMMA FieldTag ==
  ASSUME NEW tag \in Tags, NEW h \in Header, NEW i \in Nat,
         NEW d \in Seq(BlockByte), d # <<>>, Begins(d, Field(tag, h, i))
  PROVE  d[1].tag = tag
<1>1. PICK a, b, c : /\ a = IntBytes(tag, i) /\ b = (IF i = 0 THEN StrBytes(h.name) ELSE <<>>)
                     /\ c = StrBytes(h.value)
  OBVIOUS
<1>2. /\ a \in Seq(BlockByte) /\ b \in Seq(BlockByte) /\ c \in Seq(BlockByte)
      /\ a \o b \in Seq(BlockByte)
  BY <1>1, PartTypes, HeaderParts, TextBytesType, ConcatProperties
<1>3. Begins(d, (a \o b) \o c)
  BY <1>1 DEF Field
<1>4. ASSUME NEW x \in Seq(BlockByte), NEW y \in Seq(BlockByte), Begins(d, x \o y)
      PROVE  Begins(d, x)
  BY <1>4, AfterFirst
<1>5. Begins(d, a \o b)
  BY <1>2, <1>3, <1>4
<1>6. Begins(d, a)
  BY <1>2, <1>4, <1>5
<1>7. QED
  BY <1>1, <1>6, TagOf

(* The bytes of what is sent.                                              *)
LEMMA SentBytes ==
  ASSUME NEW l \in Seq(Header), NEW e
  PROVE  /\ \A m, header, l2, m2 : Stands(e, l, m, header, l2, m2) => e \in Seq(BlockByte)
         /\ Wrong(e, l) => e \in Seq(BlockByte)
<1>1. /\ "indexed" \in Tags /\ "incremental" \in Tags /\ "plain" \in Tags /\ "size" \in Tags
      /\ {"incremental", "plain"} \subseteq Tags
  BY DEF Tags
<1>2. /\ Len(Static) \in Nat /\ Len(l) \in Nat /\ Permitted \in Nat
      /\ Sizes \subseteq Nat
  BY Entries, BlockAssumption
<1>3. \A tag \in Tags, i \in Nat : IntBytes(tag, i) \in Seq(BlockByte)
  BY IntSize
<1>4. ASSUME NEW tag \in Tags, NEW h \in Header, NEW i \in Nat
      PROVE  Field(tag, h, i) \in Seq(BlockByte)
  <2>1. NamePart(tag, i, h.name) \in Seq(BlockByte) /\ StrBytes(h.value) \in Seq(BlockByte)
    BY PartTypes, HeaderParts, TextBytesType
  <2>2. Field(tag, h, i) = NamePart(tag, i, h.name) \o StrBytes(h.value)
    BY DEF Field, NamePart
  <2>3. QED
    BY <2>1, <2>2, ConcatProperties
<1>5. StrBytes(<<>>) \in Seq(BlockByte)
  BY EmptySeq, TextBytesType
<1>6. ASSUME NEW m, NEW header, NEW l2, NEW m2, Stands(e, l, m, header, l2, m2)
      PROVE  e \in Seq(BlockByte)
  <2>1. CASE \E i \in 1..(Len(Static) + Len(l)) : e = IntBytes("indexed", i)
    BY <1>1, <1>2, <1>3, <2>1
  <2>2. CASE \E h \in Header, tag \in {"incremental", "plain"}, i \in 0..(Len(Static) + Len(l)) :
               e = Field(tag, h, i)
    <3>1. PICK h \in Header, tag \in {"incremental", "plain"}, i \in 0..(Len(Static) + Len(l)) :
                 e = Field(tag, h, i)
      BY <2>2
    <3>2. tag \in Tags /\ i \in Nat
      BY <1>1, <1>2
    <3>3. QED
      BY <1>4, <3>1, <3>2
  <2>3. CASE \E size \in Sizes : e = IntBytes("size", size)
    BY <1>1, <1>2, <1>3, <2>3
  <2>4. QED
    BY <1>6, <2>1, <2>2, <2>3 DEF Stands
<1>7. ASSUME Wrong(e, l) PROVE e \in Seq(BlockByte)
  <2>1. /\ 0 \in Nat /\ Len(Static) + Len(l) + 1 \in Nat /\ Permitted + 1 \in Nat
    BY <1>2
  <2>2. IntBytes("incremental", Len(Static) + Len(l) + 1) \in Seq(BlockByte)
    BY <1>1, <1>3, <2>1
  <2>3. CASE \E i \in {0, Len(Static) + Len(l) + 1} : e = IntBytes("indexed", i)
    BY <1>1, <1>3, <2>1, <2>3
  <2>4. CASE e = IntBytes("incremental", Len(Static) + Len(l) + 1) \o StrBytes(<<>>)
    BY <1>5, <2>2, <2>4, ConcatProperties
  <2>5. CASE e = IntBytes("size", Permitted + 1)
    BY <1>1, <1>3, <2>1, <2>5
  <2>6. QED
    BY <1>7, <2>3, <2>4, <2>5 DEF Wrong
<1>8. QED
  BY <1>6, <1>7

(* One step of read_header with a representation before it.                *)
LEMMA DecodeParsed ==
  ASSUME data \in Seq(BlockByte), data # <<>>, list \in Seq(Header), max \in 0..Permitted,
         Indexed \/ Incremental \/ Resize \/ Plain,
         NEW e, Begins(data, e), NEW size, size = Len(e),
         NEW header, NEW l2, NEW m2, NEW legal \in BOOLEAN,
         legal => Stands(e, list, max, header, l2, m2),
         ~legal => Wrong(e, list)
  PROVE  /\ size \in Nat
         /\ \/ Len(data) < size /\ PutsOff /\ list' = list /\ max' = max
            \/ legal /\ Len(data) >= size /\ Takes(header, size) /\ list' = l2 /\ max' = m2
            \/ ~legal /\ Refuses /\ list' = list /\ max' = max
<1>1. /\ "indexed" \in Tags /\ "incremental" \in Tags /\ "plain" \in Tags /\ "size" \in Tags
  BY DEF Tags
<1>2. /\ Len(Static) \in Nat /\ Len(list) \in Nat /\ Permitted \in Nat
      /\ Sizes \subseteq 0..Permitted
  BY Entries, BlockAssumption
<1>3. e \in Seq(BlockByte)
  BY SentBytes
<1>4. size \in Nat
  BY <1>3, LenProperties
<1>5. /\ Indexed => data[1].tag = "indexed"
      /\ Incremental => data[1].tag = "incremental" /\ Literal("incremental")
      /\ Plain => data[1].tag = "plain" /\ Literal("plain")
      /\ Resize => data[1].tag = "size"
  BY DEF Indexed, Incremental, Plain, Resize, Literal
<1>6. ASSUME NEW tag \in Tags, NEW n \in Nat, e = IntBytes(tag, n) PROVE data[1].tag = tag
  BY <1>6, TagOf
<1>7. ASSUME legal, NEW i \in 1..(Len(Static) + Len(list)), e = IntBytes("indexed", i),
             header = EntryOf(list, i), l2 = list, m2 = max
      PROVE  \/ Len(data) < size /\ PutsOff /\ list' = list /\ max' = max
             \/ Len(data) >= size /\ Takes(header, size) /\ list' = l2 /\ max' = m2
  <2>1. i \in Nat
    BY <1>2
  <2>2. Indexed
    BY <1>1, <1>5, <1>6, <1>7, <2>1
  <2>3. /\ list' = list /\ max' = max
        /\ \/ Len(data) < size /\ PutsOff
           \/ /\ Len(data) >= size /\ i \in 1..(Len(Static) + Len(list))
              /\ Takes(EntryOf(list, i), size)
           \/ Refuses /\ i \notin 1..(Len(Static) + Len(list))
    BY <1>7, <2>1, <2>2, IndexedParsed
  <2>4. QED
    BY <1>7, <2>3
<1>8. ASSUME legal, NEW h \in Header, NEW tag \in {"incremental", "plain"},
             NEW i \in 0..(Len(Static) + Len(list)),
             e = Field(tag, h, i), i # 0 => EntryOf(list, i).name = h.name,
             header = h, m2 = max,
             l2 = IF tag = "plain" THEN list ELSE Table!Fitting(<<h>> \o list, max)
      PROVE  \/ Len(data) < size /\ PutsOff /\ list' = list /\ max' = max
             \/ Len(data) >= size /\ Takes(header, size) /\ list' = l2 /\ max' = m2
  <2>1. /\ i \in Nat /\ tag \in Tags
        /\ i # 0 => i \in 1..(Len(Static) + Len(list)) /\ EntryOf(list, i).name = h.name
    BY <1>1, <1>2, <1>8
  <2>2. data[1].tag = tag
    BY <1>8, <2>1, FieldTag
  <2>3. Literal(tag) /\ (tag = "incremental" => Incremental) /\ (tag = "plain" => Plain)
    BY <1>5, <2>2
  <2>4. Begins(data, Field(tag, h, i)) /\ size = Len(Field(tag, h, i))
    BY <1>8
  <2>5. (Len(data) < size /\ PutsOff) \/ (Len(data) >= size /\ Takes(h, size))
    BY <2>1, <2>3, <2>4, LiteralParsed
  <2>6. CASE tag = "plain"
    <3>1. list' = list /\ max' = max
      BY <2>3, <2>6 DEF Plain, tableVars
    <3>2. QED
      BY <1>8, <2>5, <2>6, <3>1
  <2>7. CASE tag = "incremental" /\ PutsOff
    <3>1. returned' # "Ok"
      BY <2>7 DEF PutsOff
    <3>2. list' = list /\ max' = max
      BY <2>3, <2>7, <3>1 DEF Incremental, tableVars
    <3>3. ~Takes(h, size)
      BY <3>1 DEF Takes
    <3>4. QED
      BY <2>5, <2>7, <3>2, <3>3
  <2>8. CASE tag = "incremental" /\ Len(data) >= size /\ Takes(h, size)
    <3>1. returned' = "Ok" /\ [name |-> name', value |-> value'] = h
      BY <2>8, HeaderParts DEF Takes
    <3>2. insert(h)
      BY <2>3, <2>8, <3>1 DEF Incremental
    <3>3. list' = l2 /\ max' = m2
      BY <1>8, <2>8, <3>2 DEF insert
    <3>4. QED
      BY <1>8, <2>8, <3>3
  <2>9. QED
    BY <2>5, <2>6, <2>7, <2>8
<1>9. ASSUME legal, NEW n \in Sizes, e = IntBytes("size", n),
             header = Nothing, m2 = n, l2 = Table!Fitting(list, n)
      PROVE  \/ Len(data) < size /\ PutsOff /\ list' = list /\ max' = max
             \/ Len(data) >= size /\ Takes(header, size) /\ list' = l2 /\ max' = m2
  <2>1. n \in Nat /\ ~(n > Permitted)
    BY <1>2
  <2>2. Resize
    BY <1>1, <1>5, <1>6, <1>9, <2>1
  <2>3. \/ Len(data) < size /\ PutsOff /\ list' = list /\ max' = max
        \/ /\ Len(data) >= size /\ n <= Permitted
           /\ Takes(Nothing, size) /\ list' = Table!Fitting(list, n) /\ max' = n
        \/ Refuses /\ n > Permitted /\ list' = list /\ max' = max
    BY <1>9, <2>1, <2>2, SizeParsed
  <2>4. QED
    BY <1>9, <2>1, <2>3
<1>10. CASE legal
  <2>1. Stands(e, list, max, header, l2, m2)
    BY <1>10
  <2>2. QED
    BY <1>4, <1>7, <1>8, <1>9, <1>10, <2>1 DEF Stands
<1>11. ASSUME ~legal, NEW i \in {0, Len(Static) + Len(list) + 1}, e = IntBytes("indexed", i)
       PROVE  ((Len(data) < size /\ PutsOff) \/ Refuses) /\ list' = list /\ max' = max
  <2>1. i \in Nat /\ i \notin 1..(Len(Static) + Len(list))
    BY <1>2
  <2>2. Indexed
    BY <1>1, <1>5, <1>6, <1>11, <2>1
  <2>3. /\ list' = list /\ max' = max
        /\ \/ Len(data) < size /\ PutsOff
           \/ /\ Len(data) >= size /\ i \in 1..(Len(Static) + Len(list))
              /\ Takes(EntryOf(list, i), size)
           \/ Refuses /\ i \notin 1..(Len(Static) + Len(list))
    BY <1>11, <2>1, <2>2, IndexedParsed
  <2>4. QED
    BY <2>1, <2>3
<1>12. ASSUME ~legal, e = IntBytes("incremental", Len(Static) + Len(list) + 1) \o StrBytes(<<>>)
       PROVE  ((Len(data) < size /\ PutsOff) \/ Refuses) /\ list' = list /\ max' = max
  <2>1. PICK i, b : i = Len(Static) + Len(list) + 1 /\ b = StrBytes(<<>>)
    OBVIOUS
  <2>2. i \in Nat /\ i # 0 /\ i \notin 1..(Len(Static) + Len(list))
    BY <1>2, <2>1
  <2>3. b \in Seq(BlockByte) /\ IntBytes("incremental", i) \in Seq(BlockByte)
    BY <1>1, <2>1, <2>2, EmptySeq, TextBytesType, IntSize
  <2>4. e = IntBytes("incremental", i) \o b
    BY <1>12, <2>1
  <2>5. Begins(data, IntBytes("incremental", i))
    <3>1. ASSUME NEW x \in Seq(BlockByte), NEW y \in Seq(BlockByte), Begins(data, x \o y)
          PROVE  Begins(data, x)
      BY <3>1, AfterFirst
    <3>2. QED
      BY <2>3, <2>4, <3>1
  <2>6. data[1].tag = "incremental"
    BY <1>1, <2>2, <2>5, TagOf
  <2>7. Incremental /\ Literal("incremental")
    BY <1>5, <2>6
  <2>8. /\ Begins(data, IntBytes("incremental", i) \o b)
        /\ size = Len(IntBytes("incremental", i) \o b)
    BY <2>4
  <2>9. (Len(data) < size /\ PutsOff) \/ Refuses
    BY <2>2, <2>3, <2>7, <2>8, BeyondParsed
  <2>10. returned' # "Ok"
    BY <2>9 DEF PutsOff, Refuses, Fatal
  <2>11. list' = list /\ max' = max
    BY <2>7, <2>10 DEF Incremental, tableVars
  <2>12. QED
    BY <2>9, <2>11
<1>13. ASSUME ~legal, e = IntBytes("size", Permitted + 1)
       PROVE  ((Len(data) < size /\ PutsOff) \/ Refuses) /\ list' = list /\ max' = max
  <2>1. PICK n : n = Permitted + 1
    OBVIOUS
  <2>2. n \in Nat /\ ~(n <= Permitted) /\ e = IntBytes("size", n)
    BY <1>2, <1>13, <2>1
  <2>3. Resize
    BY <1>1, <1>5, <1>6, <2>2
  <2>4. \/ Len(data) < size /\ PutsOff /\ list' = list /\ max' = max
        \/ /\ Len(data) >= size /\ n <= Permitted
           /\ Takes(Nothing, size) /\ list' = Table!Fitting(list, n) /\ max' = n
        \/ Refuses /\ n > Permitted /\ list' = list /\ max' = max
    BY <2>2, <2>3, SizeParsed
  <2>5. QED
    BY <2>2, <2>4
<1>14. CASE ~legal
  <2>1. Wrong(e, list)
    BY <1>14
  <2>2. QED
    BY <1>4, <1>11, <1>12, <1>13, <1>14, <2>1 DEF Wrong
<1>15. QED
  BY <1>10, <1>14

-----------------------------------------------------------------------------
(* The invariant: the bytes that are not decoded yet are the encodings of  *)
(* what is sent and not decoded yet, each behind the peer's table as it    *)
(* was then.                                                               *)
Pending == data \o coming

(* A representation r lies in the bytes p behind the first few.            *)
Lies(l, m, r, from, to, p) ==
  \E e \in Seq(BlockByte) :
    /\ r.legal => Stands(e, l, m, r.header, r.list, r.max)
    /\ ~r.legal => Wrong(e, l)
    /\ to = from + Len(e)
    /\ \A j \in 1..Len(e) : p[from + j] = e[j]

Coded(i) ==
  Lies(ListAfter(i - 1), MaxAfter(i - 1), fields[i],
       Upto(i - 1) - Upto(Len(got)), Upto(i) - Upto(Len(got)), Pending)

BlockInv ==
  /\ BlockTypeOK
  /\ InStep
  /\ OnlyIllegal
  /\ peerList = ListAfter(Len(fields)) /\ peerMax = MaxAfter(Len(fields))
  /\ \A i \in 1..(Len(fields) - 1) : fields[i].legal
  /\ \A i, j \in 0..Len(fields) : i <= j => Upto(i) <= Upto(j)
  /\ Len(Pending) = Upto(Len(fields)) - Upto(Len(got))
  /\ \A i \in (Len(got) + 1)..Len(fields) : Coded(i)

Rep == [header : Header \cup {Nothing}, upto : Nat, legal : BOOLEAN,
        list : Seq(Header), max : 0..Permitted]

LEMMA SentTypes ==
  ASSUME BlockTypeOK
  PROVE  /\ Len(fields) \in Nat /\ Len(got) \in Nat /\ Len(data) \in Nat /\ Len(coming) \in Nat
         /\ \A i \in 1..Len(fields) : fields[i] \in Rep
         /\ \A i \in 0..Len(fields) :
              Upto(i) \in Nat /\ ListAfter(i) \in Seq(Header) /\ MaxAfter(i) \in 0..Permitted
         /\ Pending \in Seq(BlockByte) /\ Len(Pending) = Len(data) + Len(coming)
         /\ \A j \in 1..Len(data) : Pending[j] = data[j]
         /\ \A j \in 1..Len(coming) : Pending[Len(data) + j] = coming[j]
<1>1. /\ fields \in Seq(Rep) /\ data \in Seq(BlockByte) /\ coming \in Seq(BlockByte)
      /\ earlier \in Seq(Header)
  BY DEF BlockTypeOK, Rep
<1>2. Len(fields) \in Nat /\ Len(got) \in Nat /\ Len(data) \in Nat /\ Len(coming) \in Nat
  BY <1>1, LenProperties DEF BlockTypeOK
<1>3. \A i \in 1..Len(fields) : fields[i] \in Rep
  BY <1>1, <1>2, ElementOfSeq
<1>4. Permitted \in 0..Permitted
  BY BlockAssumption
<1>5. ASSUME NEW i \in 0..Len(fields)
      PROVE  Upto(i) \in Nat /\ ListAfter(i) \in Seq(Header) /\ MaxAfter(i) \in 0..Permitted
  <2>1. CASE i = 0
    BY <1>1, <1>4, <2>1 DEF Upto, ListAfter, MaxAfter
  <2>2. CASE i # 0
    <3>1. i \in 1..Len(fields)
      BY <1>2, <2>2
    <3>2. /\ fields[i].upto \in Nat /\ fields[i].list \in Seq(Header)
          /\ fields[i].max \in 0..Permitted
      BY <1>3, <3>1 DEF Rep
    <3>3. QED
      BY <2>2, <3>2 DEF Upto, ListAfter, MaxAfter
  <2>3. QED
    BY <2>1, <2>2
<1>6. /\ Pending \in Seq(BlockByte) /\ Len(Pending) = Len(data) + Len(coming)
      /\ \A i \in 1..(Len(data) + Len(coming)) :
           Pending[i] = IF i <= Len(data) THEN data[i] ELSE coming[i - Len(data)]
  BY <1>1, ConcatProperties DEF Pending
<1>7. \A j \in 1..Len(data) : j \in 1..(Len(data) + Len(coming)) /\ j <= Len(data)
  BY <1>2
<1>8. \A j \in 1..Len(coming) : /\ Len(data) + j \in 1..(Len(data) + Len(coming))
                                /\ ~(Len(data) + j <= Len(data))
                                /\ (Len(data) + j) - Len(data) = j
  BY <1>2
<1>9. QED
  BY <1>2, <1>3, <1>5, <1>6, <1>7, <1>8

LEMMA BlockStart == BlockInit => BlockInv
<1> SUFFICES ASSUME BlockInit PROVE BlockInv
  OBVIOUS
<1>1. earlier \in Seq(Header)
  <2>1. PICK k \in 0..MaxEarlier : earlier \in [1..k -> Header]
    BY DEF BlockInit
  <2>2. k \in Nat
    BY BlockAssumption
  <2>3. QED
    BY <2>1, <2>2, SeqDef
<1>2. /\ fields = <<>> /\ coming = <<>> /\ data = <<>> /\ got = <<>>
      /\ list = earlier /\ peerList = earlier /\ max = Permitted /\ peerMax = Permitted
      /\ name = <<>> /\ value = <<>> /\ returned = "Ok"
  BY DEF BlockInit
<1>3. Len(fields) = 0 /\ Len(got) = 0
  BY <1>2, EmptySeq
<1>4. BlockTypeOK
  BY <1>1, <1>2, EmptySeq, BlockAssumption DEF BlockTypeOK
<1>5. Upto(0) = 0 /\ ListAfter(0) = earlier /\ MaxAfter(0) = Permitted
  BY DEF Upto, ListAfter, MaxAfter
<1>6. InStep
  BY <1>2, <1>3, <1>4, <1>5 DEF InStep
<1>7. OnlyIllegal
  BY <1>2, <1>3 DEF OnlyIllegal, Fatal
<1>8. Len(Pending) = 0
  BY <1>2, <1>4, EmptySeq, SentTypes
<1>9. \A i, j \in 0..Len(fields) : i <= j => Upto(i) <= Upto(j)
  <2>1. \A i \in 0..Len(fields) : i = 0
    BY <1>3
  <2>2. QED
    BY <1>5, <2>1
<1>10. (Len(got) + 1)..Len(fields) = {} /\ 1..(Len(fields) - 1) = {}
  BY <1>3
<1>11. QED
  BY <1>2, <1>3, <1>4, <1>5, <1>6, <1>7, <1>8, <1>9, <1>10 DEF BlockInv

(* What lies in some bytes lies there when more follow.                    *)
LEMMA LiesStill ==
  ASSUME NEW l, NEW m, NEW r, NEW from \in Nat, NEW to, NEW n \in Nat, to <= n,
         NEW p, NEW q, \A j \in 1..n : q[j] = p[j],
         Lies(l, m, r, from, to, p)
  PROVE  Lies(l, m, r, from, to, q)
<1>1. PICK e \in Seq(BlockByte) :
        /\ r.legal => Stands(e, l, m, r.header, r.list, r.max)
        /\ ~r.legal => Wrong(e, l)
        /\ to = from + Len(e)
        /\ \A j \in 1..Len(e) : p[from + j] = e[j]
  BY DEF Lies
<1>2. Len(e) \in Nat
  BY LenProperties
<1>3. \A j \in 1..Len(e) : from + j \in 1..n
  BY <1>1, <1>2
<1>4. \A j \in 1..Len(e) : q[from + j] = e[j]
  BY <1>1, <1>3
<1>5. QED
  BY <1>1, <1>4 DEF Lies

(* What lies behind some bytes lies before them when they are gone.        *)
LEMMA LiesNearer ==
  ASSUME NEW l, NEW m, NEW r, NEW from \in Nat, NEW to, NEW n \in Nat, NEW gone \in 0..from,
         NEW p, NEW q, \A j \in 1..(n - gone) : q[j] = p[gone + j], to <= n,
         Lies(l, m, r, from, to, p)
  PROVE  Lies(l, m, r, from - gone, to - gone, q)
<1>1. PICK e \in Seq(BlockByte) :
        /\ r.legal => Stands(e, l, m, r.header, r.list, r.max)
        /\ ~r.legal => Wrong(e, l)
        /\ to = from + Len(e)
        /\ \A j \in 1..Len(e) : p[from + j] = e[j]
  BY DEF Lies
<1>2. Len(e) \in Nat
  BY LenProperties
<1>3. \A j \in 1..Len(e) : /\ (from - gone) + j \in 1..(n - gone)
                           /\ gone + ((from - gone) + j) = from + j
  BY <1>1, <1>2
<1>4. \A j \in 1..Len(e) : q[(from - gone) + j] = e[j]
  <2>1. ASSUME NEW j \in 1..Len(e) PROVE q[(from - gone) + j] = e[j]
    <3>1. q[(from - gone) + j] = p[gone + ((from - gone) + j)]
      BY <1>3
    <3>2. QED
      BY <1>1, <1>3, <3>1
  <2>2. QED
    BY <2>1
<1>5. to - gone = (from - gone) + Len(e)
  BY <1>1, <1>2
<1>6. QED
  BY <1>1, <1>4, <1>5 DEF Lies

(* The peer sends something.                                               *)
LEMMA SendStep ==
  ASSUME BlockInv, NEW bytes, NEW header \in Header \cup {Nothing}, NEW legal \in BOOLEAN,
         Send(bytes, header, legal), peerList' \in Seq(Header), peerMax' \in 0..Permitted,
         legal => Stands(bytes, peerList, peerMax, header, peerList', peerMax'),
         ~legal => Wrong(bytes, peerList)
  PROVE  BlockInv'
<1>1. PICK n, k, rec : /\ n = Len(fields) /\ k = Len(got)
                       /\ rec = [header |-> header, upto |-> Upto(Len(fields)) + Len(bytes),
                                 legal |-> legal, list |-> peerList', max |-> peerMax']
  OBVIOUS
<1>2. /\ fields' = Append(fields, rec) /\ coming' = coming \o bytes
      /\ n > 0 => fields[n].legal
      /\ earlier' = earlier /\ data' = data /\ list' = list /\ max' = max
      /\ name' = name /\ value' = value /\ returned' = returned /\ got' = got
  BY <1>1 DEF Send, tableVars, outVars
<1>3. /\ BlockTypeOK /\ InStep /\ OnlyIllegal
      /\ peerList = ListAfter(n) /\ peerMax = MaxAfter(n)
      /\ \A i \in 1..(n - 1) : fields[i].legal
      /\ \A i, j \in 0..n : i <= j => Upto(i) <= Upto(j)
      /\ Len(Pending) = Upto(n) - Upto(k)
      /\ \A i \in (k + 1)..n : Coded(i)
  BY <1>1 DEF BlockInv
<1>4. /\ n \in Nat /\ k \in Nat /\ k <= n
      /\ \A i \in 1..n : fields[i] \in Rep
      /\ \A i \in 0..n :
            Upto(i) \in Nat /\ ListAfter(i) \in Seq(Header) /\ MaxAfter(i) \in 0..Permitted
      /\ Pending \in Seq(BlockByte)
  BY <1>1, <1>3, SentTypes DEF InStep
<1>5. bytes \in Seq(BlockByte)
  BY <1>3, SentBytes DEF BlockTypeOK
<1>6. Len(bytes) \in Nat /\ n \in 0..n
  BY <1>4, <1>5, LenProperties
<1>7. rec \in Rep
  BY <1>1, <1>4, <1>6 DEF Rep
<1>8. /\ fields \in Seq(Rep) /\ fields' \in Seq(Rep) /\ Len(fields') = n + 1
      /\ \A i \in 1..n : fields'[i] = fields[i]
      /\ fields'[n + 1] = rec
  <2>1. fields \in Seq(Rep)
    BY <1>3 DEF BlockTypeOK, Rep
  <2>2. QED
    BY <1>1, <1>2, <1>7, <2>1, AppendProperties
<1>9. BlockTypeOK'
  <2>1. coming' \in Seq(BlockByte)
    BY <1>2, <1>3, <1>5, ConcatProperties DEF BlockTypeOK
  <2>2. QED
    BY <1>2, <1>3, <1>8, <2>1 DEF BlockTypeOK, Rep
<1>10. /\ \A i \in 0..n : /\ Upto(i)' = Upto(i) /\ ListAfter(i)' = ListAfter(i)
                          /\ MaxAfter(i)' = MaxAfter(i)
       /\ Upto(n + 1)' = Upto(n) + Len(bytes) /\ ListAfter(n + 1)' = peerList'
       /\ MaxAfter(n + 1)' = peerMax'
  <2>1. ASSUME NEW i \in 0..n
        PROVE  Upto(i)' = Upto(i) /\ ListAfter(i)' = ListAfter(i) /\ MaxAfter(i)' = MaxAfter(i)
    <3>1. CASE i = 0
      BY <1>2, <3>1 DEF Upto, ListAfter, MaxAfter
    <3>2. CASE i # 0
      <4>1. i \in 1..n
        BY <1>4, <3>2
      <4>2. fields'[i] = fields[i]
        BY <1>8, <4>1
      <4>3. QED
        BY <3>2, <4>2 DEF Upto, ListAfter, MaxAfter
    <3>3. QED
      BY <3>1, <3>2
  <2>2. n + 1 # 0
    BY <1>4
  <2>3. /\ Upto(n + 1)' = rec.upto /\ ListAfter(n + 1)' = rec.list /\ MaxAfter(n + 1)' = rec.max
    BY <1>8, <2>2 DEF Upto, ListAfter, MaxAfter
  <2>4. QED
    BY <1>1, <2>1, <2>3
<1>11. Pending' = Pending \o bytes
  <2>1. data \in Seq(BlockByte) /\ coming \in Seq(BlockByte)
    BY <1>3 DEF BlockTypeOK
  <2>0. ASSUME NEW x \in Seq(BlockByte), NEW y \in Seq(BlockByte), NEW z \in Seq(BlockByte)
        PROVE  (x \o y) \o z = x \o (y \o z)
    BY ConcatAssociative, SMTT(30)
  <2>2. data \o (coming \o bytes) = (data \o coming) \o bytes
    BY <1>5, <2>0, <2>1
  <2>3. Pending' = data \o (coming \o bytes)
    BY <1>2 DEF Pending
  <2>4. QED
    BY <2>2, <2>3 DEF Pending
<1>12. /\ Len(Pending') = Len(Pending) + Len(bytes) /\ Len(Pending) \in Nat
       /\ \A j \in 1..Len(Pending) : Pending'[j] = Pending[j]
       /\ \A j \in 1..Len(bytes) : Pending'[Len(Pending) + j] = bytes[j]
  <2>1. PICK p, q : p = Pending /\ q = Pending'
    OBVIOUS
  <2>2. p \in Seq(BlockByte) /\ q = p \o bytes /\ Len(p) \in Nat
    BY <1>4, <1>11, <2>1, LenProperties
  <2>3. /\ Len(q) = Len(p) + Len(bytes)
        /\ \A j \in 1..(Len(p) + Len(bytes)) :
              q[j] = IF j <= Len(p) THEN p[j] ELSE bytes[j - Len(p)]
    BY <1>5, <2>2, ConcatProperties
  <2>4. \A j \in 1..Len(p) : j \in 1..(Len(p) + Len(bytes)) /\ j <= Len(p)
    BY <1>6, <2>2
  <2>5. \A j \in 1..Len(bytes) : /\ Len(p) + j \in 1..(Len(p) + Len(bytes))
                                 /\ ~(Len(p) + j <= Len(p)) /\ (Len(p) + j) - Len(p) = j
    BY <1>6, <2>2
  <2>6. QED
    BY <2>1, <2>2, <2>3, <2>4, <2>5
<1>13. InStep'
  <2>1. /\ \A i \in 1..k : got[i] = fields[i].header
        /\ list = ListAfter(k) /\ max = MaxAfter(k)
    BY <1>1, <1>3 DEF InStep
  <2>9. \A i \in 1..k : i \in 1..n
    BY <1>4
  <2>2. \A i \in 1..k : fields'[i] = fields[i]
    BY <1>8, <2>9
  <2>3. k \in 0..n
    BY <1>4
  <2>4. list' = ListAfter(k)' /\ max' = MaxAfter(k)'
    BY <1>2, <1>10, <2>1, <2>3
  <2>5. k = Len(got')
    BY <1>1, <1>2
  <2>10. k <= Len(fields')
    BY <1>4, <1>8
  <2>6. k <= Len(fields') /\ \A i \in 1..k : got'[i] = fields'[i].header
    BY <1>2, <2>1, <2>2, <2>10
  <2>7. ListAfter(Len(got))' = ListAfter(k)' /\ MaxAfter(Len(got))' = MaxAfter(k)'
    BY <2>5 DEF ListAfter, MaxAfter
  <2>8. QED
    BY <1>9, <2>4, <2>5, <2>6, <2>7 DEF InStep
<1>14. OnlyIllegal'
  <2>1. /\ \A i \in 1..k : fields[i].legal
        /\ returned \in Fatal => k < n /\ ~fields[k + 1].legal
    BY <1>1, <1>3 DEF OnlyIllegal
  <2>2. k = Len(got')
    BY <1>1, <1>2
  <2>9. \A i \in 1..k : i \in 1..n
    BY <1>4
  <2>3. \A i \in 1..k : fields'[i].legal
    BY <1>8, <2>1, <2>9
  <2>4. returned' \in Fatal => k < Len(fields') /\ ~fields'[k + 1].legal
    <3>1. ASSUME returned' \in Fatal PROVE k < Len(fields') /\ ~fields'[k + 1].legal
      <4>1. k < n /\ ~fields[k + 1].legal
        BY <1>2, <2>1, <3>1
      <4>2. k + 1 \in 1..n
        BY <1>4, <4>1
      <4>3. QED
        BY <1>4, <1>8, <4>1, <4>2
    <3>2. QED
      BY <3>1
  <2>5. QED
    BY <2>2, <2>3, <2>4 DEF OnlyIllegal, Fatal
<1>15. peerList' = ListAfter(Len(fields))' /\ peerMax' = MaxAfter(Len(fields))'
  <2>1. ListAfter(Len(fields))' = ListAfter(n + 1)' /\ MaxAfter(Len(fields))' = MaxAfter(n + 1)'
    BY <1>8 DEF ListAfter, MaxAfter
  <2>2. QED
    BY <1>10, <2>1
<1>16. \A i \in 1..(Len(fields') - 1) : fields'[i].legal
  <2>1. ASSUME NEW i \in 1..n PROVE fields[i].legal
    <3>1. CASE i = n
      BY <1>2, <1>4, <3>1
    <3>2. CASE i # n
      <4>1. i \in 1..(n - 1)
        BY <1>4, <3>2
      <4>2. QED
        BY <1>3, <4>1
    <3>3. QED
      BY <3>1, <3>2
  <2>2. Len(fields') - 1 = n
    BY <1>4, <1>8
  <2>3. QED
    BY <1>8, <2>1, <2>2
<1>17. \A i, j \in 0..Len(fields') : i <= j => Upto(i)' <= Upto(j)'
  <2>1. ASSUME NEW i \in 0..(n + 1), NEW j \in 0..(n + 1), i <= j PROVE Upto(i)' <= Upto(j)'
    <3>1. CASE j \in 0..n
      <4>1. i \in 0..n
        BY <1>4, <2>1, <3>1
      <4>2. QED
        BY <1>3, <1>10, <2>1, <3>1, <4>1
    <3>2. CASE j = n + 1 /\ i \in 0..n
      <4>1. Upto(i) <= Upto(n) /\ Upto(i) \in Nat /\ Upto(n) \in Nat
        BY <1>3, <1>4, <1>6, <3>2, SMTT(30)
      <4>2. Upto(i)' = Upto(i) /\ Upto(j)' = Upto(n) + Len(bytes)
        BY <1>10, <3>2
      <4>3. QED
        BY <1>6, <4>1, <4>2
    <3>3. CASE j = n + 1 /\ i = n + 1
      <4>1. /\ Upto(i)' = Upto(n) + Len(bytes) /\ Upto(j)' = Upto(n) + Len(bytes)
            /\ Upto(n) \in Nat
        BY <1>4, <1>6, <1>10, <3>3
      <4>2. QED
        BY <1>6, <4>1
    <3>4. QED
      BY <1>4, <3>1, <3>2, <3>3
  <2>2. QED
    BY <1>8, <2>1
<1>18. Upto(Len(got))' = Upto(k) /\ Upto(k) \in Nat
  <2>1. k \in 0..n /\ Len(got') = k
    BY <1>1, <1>2, <1>4
  <2>2. Upto(Len(got))' = Upto(k)'
    BY <2>1 DEF Upto
  <2>3. QED
    BY <1>4, <1>10, <2>1, <2>2
<1>19. Len(Pending') = Upto(Len(fields))' - Upto(Len(got))'
  <2>1. Upto(Len(fields))' = Upto(n + 1)'
    BY <1>8 DEF Upto
  <2>2. Upto(Len(fields))' = Upto(n) + Len(bytes) /\ Upto(n) \in Nat
    BY <1>4, <1>6, <1>10, <2>1
  <2>3. Len(Pending') = (Upto(n) - Upto(k)) + Len(bytes)
    BY <1>3, <1>12
  <2>4. QED
    BY <1>6, <1>18, <2>2, <2>3
<1>20. \A i \in (Len(got') + 1)..Len(fields') : Coded(i)'
  <2>1. ASSUME NEW i \in (k + 1)..n PROVE Coded(i)'
    <3>1. /\ i - 1 \in 0..n /\ i \in 0..n /\ i \in 1..n /\ k \in 0..n /\ k <= i - 1
          /\ i - 1 <= i /\ i <= n
      BY <1>4
    <3>2. PICK from, to : from = Upto(i - 1) - Upto(k) /\ to = Upto(i) - Upto(k)
      OBVIOUS
    <3>3. from \in Nat /\ to <= Len(Pending)
      <4>1. Upto(k) <= Upto(i - 1) /\ Upto(i) <= Upto(n)
        BY <1>3, <1>6, <3>1
      <4>2. Upto(k) \in Nat /\ Upto(i - 1) \in Nat /\ Upto(i) \in Nat /\ Upto(n) \in Nat
        BY <1>4, <1>6, <3>1
      <4>3. QED
        BY <1>3, <3>2, <4>1, <4>2
    <3>4. Lies(ListAfter(i - 1), MaxAfter(i - 1), fields[i], from, to, Pending)
      BY <1>1, <1>3, <3>2 DEF Coded
    <3>5. Lies(ListAfter(i - 1), MaxAfter(i - 1), fields[i], from, to, Pending')
      BY <1>12, <3>3, <3>4, LiesStill
    <3>6. /\ ListAfter(i - 1)' = ListAfter(i - 1) /\ MaxAfter(i - 1)' = MaxAfter(i - 1)
          /\ fields'[i] = fields[i] /\ Upto(i - 1)' = Upto(i - 1) /\ Upto(i)' = Upto(i)
      BY <1>8, <1>10, <3>1
    <3>7. QED
      BY <1>18, <3>2, <3>5, <3>6 DEF Coded
  <2>2. Coded(n + 1)'
    <3>1. PICK from, to : from = Upto(n) - Upto(k) /\ to = from + Len(bytes)
      OBVIOUS
    <3>2. from = Len(Pending)
      BY <1>3, <3>1
    <3>3. /\ rec.legal = legal /\ rec.header = header /\ rec.list = peerList'
          /\ rec.max = peerMax'
      BY <1>1
    <3>4. /\ rec.legal => Stands(bytes, peerList, peerMax, rec.header, rec.list, rec.max)
          /\ ~rec.legal => Wrong(bytes, peerList)
      BY <3>3
    <3>5. \A j \in 1..Len(bytes) : Pending'[from + j] = bytes[j]
      BY <1>12, <3>2
    <3>6. Lies(peerList, peerMax, rec, from, to, Pending')
      BY <1>5, <3>1, <3>4, <3>5 DEF Lies
    <3>7. (n + 1) - 1 = n
      BY <1>4
    <3>8. /\ ListAfter(n)' = peerList /\ MaxAfter(n)' = peerMax
          /\ fields'[n + 1] = rec /\ Upto(n)' = Upto(n) /\ Upto(n + 1)' = Upto(n) + Len(bytes)
      BY <1>3, <1>6, <1>8, <1>10
    <3>9. (Upto(n) + Len(bytes)) - Upto(k) = to
      <4>1. Upto(n) \in Nat
        BY <1>4, <1>6
      <4>2. QED
        BY <1>6, <1>18, <3>1, <4>1
    <3>10. QED
      BY <1>18, <3>1, <3>6, <3>7, <3>8, <3>9 DEF Coded
  <2>3. \A i \in (k + 1)..(n + 1) : i \in (k + 1)..n \/ i = n + 1
    BY <1>4
  <2>4. Len(got') = k /\ Len(fields') = n + 1
    BY <1>1, <1>2, <1>8
  <2>5. QED
    BY <2>1, <2>2, <2>3, <2>4
<1>21. QED
  BY <1>9, <1>13, <1>14, <1>15, <1>16, <1>17, <1>19, <1>20 DEF BlockInv

LEMMA PeerLooked ==
  ASSUME peerList \in Seq(Header), NEW i \in 1..(Len(Static) + Len(peerList))
  PROVE  PeerTable!Entry(i)[1] = EntryOf(peerList, i)
BY Entries DEF PeerTable!Entry, PeerTable!None, EntryOf

LEMMA FieldSent ==
  ASSUME BlockInv, SendIndexed \/ SendIncremental \/ SendPlain \/ SendSize \/ SendIllegal
  PROVE  BlockInv'
<1>1. peerList \in Seq(Header) /\ peerMax \in 0..Permitted
  BY DEF BlockInv, BlockTypeOK
<1>2. /\ Len(Static) \in Nat /\ Len(peerList) \in Nat /\ Permitted \in Nat
      /\ Sizes \subseteq 0..Permitted
  BY <1>1, Entries, BlockAssumption
<1>3. \A i \in 1..(Len(Static) + Len(peerList)) : /\ EntryOf(peerList, i) \in Header
                                                  /\ PeerTable!Entry(i)[1] = EntryOf(peerList, i)
  BY <1>1, Entries, PeerLooked
<1>4. CASE SendIndexed
  <2>1. PICK i \in 1..(Len(Static) + Len(peerList)) :
               /\ UNCHANGED <<peerList, peerMax>>
               /\ Send(IntBytes("indexed", i), PeerTable!Entry(i)[1], TRUE)
    BY <1>4 DEF SendIndexed
  <2>2. PICK e, h : e = IntBytes("indexed", i) /\ h = EntryOf(peerList, i)
    OBVIOUS
  <2>3. Send(e, h, TRUE) /\ h \in Header \cup {Nothing}
    BY <1>3, <2>1, <2>2
  <2>4. peerList' = peerList /\ peerMax' = peerMax
    BY <2>1
  <2>5. Stands(e, peerList, peerMax, h, peerList', peerMax')
    BY <2>2, <2>4 DEF Stands
  <2>6. QED
    BY <1>1, <2>3, <2>4, <2>5, SendStep
<1>5. CASE SendIncremental
  <2>1. PICK h \in Header : \E i \in {0} \cup Indices(h.name) :
               /\ peerList' = PeerTable!Fitting(<<h>> \o peerList, peerMax)
               /\ UNCHANGED peerMax
               /\ Send(Field("incremental", h, i), h, TRUE)
    BY <1>5 DEF SendIncremental
  <2>2. PICK i \in {0} \cup Indices(h.name) :
               /\ peerList' = PeerTable!Fitting(<<h>> \o peerList, peerMax)
               /\ UNCHANGED peerMax
               /\ Send(Field("incremental", h, i), h, TRUE)
    BY <2>1
  <2>3. i \in 0..(Len(Static) + Len(peerList)) /\ (i # 0 => EntryOf(peerList, i).name = h.name)
    BY <1>2, <1>3 DEF Indices
  <2>4. peerList' = Table!Fitting(<<h>> \o peerList, peerMax) /\ peerMax' = peerMax
    BY <2>2, SameFitting
  <2>5. <<h>> \o peerList \in Seq(Header) /\ peerMax \in Nat
    <3>1. <<h>> \in Seq(Header)
      OBVIOUS
    <3>2. QED
      BY <1>1, <1>2, <3>1, ConcatProperties
  <2>6. peerList' \in Seq(Header)
    BY <2>4, <2>5, FittingType
  <2>7. PICK e : e = Field("incremental", h, i)
    OBVIOUS
  <2>8. Stands(e, peerList, peerMax, h, peerList', peerMax')
    <3>1. \E g \in Header, tag \in {"incremental", "plain"}, j \in 0..(Len(Static) + Len(peerList)) :
            /\ e = Field(tag, g, j)
            /\ j # 0 => EntryOf(peerList, j).name = g.name
            /\ h = g /\ peerMax' = peerMax
            /\ peerList' = IF tag = "plain" THEN peerList
                           ELSE Table!Fitting(<<g>> \o peerList, peerMax)
      <4>1. "incremental" \in {"incremental", "plain"} /\ "incremental" # "plain"
        OBVIOUS
      <4>2. PICK tag \in {"incremental", "plain"} : tag = "incremental"
        OBVIOUS
      <4>3. /\ e = Field(tag, h, i) /\ tag # "plain"
        BY <2>7, <4>1, <4>2
      <4>4. peerList' = IF tag = "plain" THEN peerList ELSE Table!Fitting(<<h>> \o peerList, peerMax)
        BY <2>4, <4>3
      <4>5. QED
        BY <2>3, <2>4, <4>3, <4>4
    <3>2. QED
      BY <3>1 DEF Stands
  <2>9. QED
    BY <1>1, <2>2, <2>4, <2>6, <2>7, <2>8, SendStep
<1>6. CASE SendPlain
  <2>1. PICK h \in Header : \E i \in {0} \cup Indices(h.name) :
               /\ UNCHANGED <<peerList, peerMax>>
               /\ Send(Field("plain", h, i), h, TRUE)
    BY <1>6 DEF SendPlain
  <2>2. PICK i \in {0} \cup Indices(h.name) :
               /\ UNCHANGED <<peerList, peerMax>>
               /\ Send(Field("plain", h, i), h, TRUE)
    BY <2>1
  <2>3. i \in 0..(Len(Static) + Len(peerList)) /\ (i # 0 => EntryOf(peerList, i).name = h.name)
    BY <1>2, <1>3 DEF Indices
  <2>4. peerList' = peerList /\ peerMax' = peerMax
    BY <2>2
  <2>5. PICK e : e = Field("plain", h, i)
    OBVIOUS
  <2>6. Stands(e, peerList, peerMax, h, peerList', peerMax')
    <3>1. PICK tag \in {"incremental", "plain"} : tag = "plain"
      OBVIOUS
    <3>2. e = Field(tag, h, i)
      BY <2>5, <3>1
    <3>3. peerList' = IF tag = "plain" THEN peerList ELSE Table!Fitting(<<h>> \o peerList, peerMax)
      BY <2>4, <3>1
    <3>4. \E g \in Header, t \in {"incremental", "plain"}, j \in 0..(Len(Static) + Len(peerList)) :
            /\ e = Field(t, g, j)
            /\ j # 0 => EntryOf(peerList, j).name = g.name
            /\ h = g /\ peerMax' = peerMax
            /\ peerList' = IF t = "plain" THEN peerList
                           ELSE Table!Fitting(<<g>> \o peerList, peerMax)
      BY <2>3, <2>4, <3>2, <3>3
    <3>5. QED
      BY <3>4 DEF Stands
  <2>7. QED
    BY <1>1, <2>2, <2>4, <2>5, <2>6, SendStep
<1>7. CASE SendSize
  <2>1. PICK size \in Sizes :
               /\ peerList' = PeerTable!Fitting(peerList, size)
               /\ peerMax' = size
               /\ Send(IntBytes("size", size), Nothing, TRUE)
    BY <1>7 DEF SendSize
  <2>2. size \in 0..Permitted /\ size \in Nat
    BY <1>2
  <2>3. peerList' = Table!Fitting(peerList, size) /\ peerMax' \in 0..Permitted
    BY <2>1, <2>2, SameFitting
  <2>4. peerList' \in Seq(Header)
    BY <1>1, <2>2, <2>3, FittingType
  <2>5. PICK e : e = IntBytes("size", size)
    OBVIOUS
  <2>6. Stands(e, peerList, peerMax, Nothing, peerList', peerMax')
    BY <2>1, <2>3, <2>5 DEF Stands
  <2>7. QED
    BY <2>1, <2>3, <2>4, <2>5, <2>6, SendStep
<1>8. CASE SendIllegal
  <2>1. PICK beyond : beyond = Len(Static) + Len(peerList) + 1
    OBVIOUS
  <2>2. /\ peerList' = peerList /\ peerMax' = peerMax
        /\ \/ \E i \in {0, beyond} : Send(IntBytes("indexed", i), Nothing, FALSE)
           \/ Send(IntBytes("incremental", beyond) \o StrBytes(<<>>), Nothing, FALSE)
           \/ Send(IntBytes("size", Permitted + 1), Nothing, FALSE)
    BY <1>8, <2>1 DEF SendIllegal
  <2>3. PICK e : /\ Send(e, Nothing, FALSE)
                 /\ \/ \E i \in {0, beyond} : e = IntBytes("indexed", i)
                    \/ e = IntBytes("incremental", beyond) \o StrBytes(<<>>)
                    \/ e = IntBytes("size", Permitted + 1)
    BY <2>2
  <2>4. Wrong(e, peerList)
    BY <2>1, <2>3 DEF Wrong
  <2>5. QED
    BY <1>1, <2>2, <2>3, <2>4, SendStep
<1>9. QED
  BY <1>4, <1>5, <1>6, <1>7, <1>8

(* A step that leaves the peer, the table and what is decoded alone.       *)
LEMMA SameBlock ==
  ASSUME BlockInv, BlockTypeOK', Pending' = Pending,
         UNCHANGED <<encoderVars, tableVars, got>>,
         returned' \in Fatal => Len(got) < Len(fields) /\ ~fields[Len(got) + 1].legal
  PROVE  BlockInv'
<1>1. /\ earlier' = earlier /\ peerList' = peerList /\ peerMax' = peerMax /\ fields' = fields
      /\ list' = list /\ max' = max /\ got' = got
  BY DEF encoderVars, tableVars
<1>2. \A i : Upto(i)' = Upto(i) /\ ListAfter(i)' = ListAfter(i) /\ MaxAfter(i)' = MaxAfter(i)
  BY <1>1 DEF Upto, ListAfter, MaxAfter
<1>3. Len(got') = Len(got) /\ Len(fields') = Len(fields)
  BY <1>1
<1>4. /\ Upto(Len(got))' = Upto(Len(got)) /\ Upto(Len(fields))' = Upto(Len(fields))
      /\ ListAfter(Len(got))' = ListAfter(Len(got)) /\ MaxAfter(Len(got))' = MaxAfter(Len(got))
      /\ ListAfter(Len(fields))' = ListAfter(Len(fields))
      /\ MaxAfter(Len(fields))' = MaxAfter(Len(fields))
  BY <1>1 DEF Upto, ListAfter, MaxAfter
<1>5. /\ InStep /\ OnlyIllegal
      /\ peerList = ListAfter(Len(fields)) /\ peerMax = MaxAfter(Len(fields))
      /\ \A i \in 1..(Len(fields) - 1) : fields[i].legal
      /\ \A i, j \in 0..Len(fields) : i <= j => Upto(i) <= Upto(j)
      /\ Len(Pending) = Upto(Len(fields)) - Upto(Len(got))
      /\ \A i \in (Len(got) + 1)..Len(fields) : Coded(i)
  BY DEF BlockInv
<1>6. InStep'
  BY <1>1, <1>4, <1>5 DEF InStep
<1>7. OnlyIllegal'
  BY <1>1, <1>5 DEF OnlyIllegal
<1>8. \A i : Coded(i)' <=> Coded(i)
  BY <1>1, <1>2, <1>4 DEF Coded
<1>9. \A i, j \in 0..Len(fields') : i <= j => Upto(i)' <= Upto(j)'
  BY <1>2, <1>3, <1>5
<1>10. \A i \in (Len(got') + 1)..Len(fields') : Coded(i)'
  BY <1>3, <1>5, <1>8
<1>11. Len(Pending') = Upto(Len(fields))' - Upto(Len(got))'
  BY <1>4, <1>5
<1>12. /\ peerList' = ListAfter(Len(fields))' /\ peerMax' = MaxAfter(Len(fields))'
       /\ \A i \in 1..(Len(fields') - 1) : fields'[i].legal
  BY <1>1, <1>4, <1>5
<1>13. QED
  BY <1>6, <1>7, <1>9, <1>10, <1>11, <1>12 DEF BlockInv

LEMMA ReceiveStep == ASSUME BlockInv, Receive PROVE BlockInv'
<1>1. PICK n \in 1..Len(coming) : /\ data' = data \o SubSeq(coming, 1, n)
                                  /\ coming' = SubSeq(coming, n + 1, Len(coming))
  BY DEF Receive
<1>2. /\ returned \notin Fatal /\ UNCHANGED <<encoderVars, tableVars, outVars>>
  BY DEF Receive
<1>3. BlockTypeOK /\ data \in Seq(BlockByte) /\ coming \in Seq(BlockByte)
  BY DEF BlockInv, BlockTypeOK
<1>4. Len(coming) \in Nat
  BY <1>3, LenProperties
<1>5. PICK a, b : a = SubSeq(coming, 1, n) /\ b = SubSeq(coming, n + 1, Len(coming))
  OBVIOUS
<1>6. a \in Seq(BlockByte) /\ b \in Seq(BlockByte)
  <2>1. \A i \in 1..n : coming[i] \in BlockByte
    BY <1>3, <1>4, ElementOfSeq
  <2>2. \A i \in (n + 1)..Len(coming) : coming[i] \in BlockByte
    BY <1>3, <1>4, ElementOfSeq
  <2>3. 1 \in Int /\ n \in Int /\ n + 1 \in Int /\ Len(coming) \in Int
    BY <1>4
  <2>4. SubSeq(coming, 1, n) \in Seq(BlockByte)
    BY <2>1, <2>3, SubSeqProperties
  <2>5. SubSeq(coming, n + 1, Len(coming)) \in Seq(BlockByte)
    BY <2>2, <2>3, SubSeqProperties
  <2>6. QED
    BY <1>5, <2>4, <2>5
<1>7. a \o b = coming
  <2>1. /\ 1 \in 1..(Len(coming) + 1) /\ n \in (1 - 1)..Len(coming)
        /\ Len(coming) \in n..Len(coming)
    BY <1>4
  <2>2. SubSeq(coming, 1, n) \o SubSeq(coming, n + 1, Len(coming)) = SubSeq(coming, 1, Len(coming))
    BY <1>3, <2>1, ConcatAdjacentSubSeq
  <2>3. SubSeq(coming, 1, Len(coming)) = coming
    BY <1>3, SubSeqFull
  <2>4. QED
    BY <1>5, <2>2, <2>3
<1>8. data' = data \o a /\ coming' = b
  BY <1>1, <1>5
<1>9. Pending' = Pending
  <2>3. ASSUME NEW x \in Seq(BlockByte), NEW y \in Seq(BlockByte), NEW z \in Seq(BlockByte)
        PROVE  (x \o y) \o z = x \o (y \o z)
    BY ConcatAssociative
  <2>1. (data \o a) \o b = data \o (a \o b)
    BY <1>3, <1>6, <2>3
  <2>2. Pending' = (data \o a) \o b
    BY <1>8 DEF Pending
  <2>4. QED
    BY <1>7, <2>1, <2>2 DEF Pending
<1>10. BlockTypeOK'
  <2>1. data' \in Seq(BlockByte) /\ coming' \in Seq(BlockByte)
    BY <1>3, <1>6, <1>8, ConcatProperties
  <2>2. QED
    BY <1>2, <1>3, <2>1 DEF BlockTypeOK, encoderVars, tableVars, outVars
<1>11. UNCHANGED <<encoderVars, tableVars, got>> /\ returned' \notin Fatal
  BY <1>2 DEF outVars, Fatal
<1>12. QED
  BY <1>9, <1>10, <1>11, SameBlock

(* read_header: a step of it, and what TooSmall means.                     *)
LEMMA DecodeStep ==
  ASSUME BlockInv, read_header
  PROVE  /\ BlockInv'
         /\ returned' = "TooSmall" => Len(data) < Upto(Len(got) + 1) - Upto(Len(got))
<1>1. PICK n, k : n = Len(fields) /\ k = Len(got)
  OBVIOUS
<1>2. /\ BlockTypeOK /\ InStep /\ OnlyIllegal
      /\ peerList = ListAfter(n) /\ peerMax = MaxAfter(n)
      /\ \A i \in 1..(n - 1) : fields[i].legal
      /\ \A i, j \in 0..n : i <= j => Upto(i) <= Upto(j)
      /\ Len(Pending) = Upto(n) - Upto(k)
      /\ \A i \in (k + 1)..n : Coded(i)
  BY <1>1 DEF BlockInv
<1>3. /\ n \in Nat /\ k \in Nat /\ Len(data) \in Nat /\ Len(coming) \in Nat /\ k <= n
      /\ \A i \in 1..n : fields[i] \in Rep
      /\ \A i \in 0..n : /\ Upto(i) \in Nat /\ ListAfter(i) \in Seq(Header)
                         /\ MaxAfter(i) \in 0..Permitted
      /\ Pending \in Seq(BlockByte) /\ Len(Pending) = Len(data) + Len(coming)
      /\ \A j \in 1..Len(data) : Pending[j] = data[j]
  BY <1>1, <1>2, SentTypes DEF InStep
<1>4. /\ data # <<>> /\ (Indexed \/ Incremental \/ Resize \/ Plain)
      /\ earlier' = earlier /\ peerList' = peerList /\ peerMax' = peerMax /\ fields' = fields
      /\ coming' = coming
  BY DEF read_header, encoderVars
<1>5. /\ data \in Seq(BlockByte) /\ coming \in Seq(BlockByte) /\ list \in Seq(Header)
      /\ max \in 0..Permitted
      /\ got \in Seq(Header \cup {Nothing})
  BY <1>2 DEF BlockTypeOK
<1>6. Len(data) >= 1
  <2>1. Len(data) # 0
    BY <1>4, <1>5, EmptySeq
  <2>2. QED
    BY <1>3, <2>1
<1>7. k < n /\ k \in 0..n /\ n \in 0..n
  <2>1. k \in 0..n /\ n \in 0..n
    BY <1>3
  <2>2. Upto(k) \in Nat /\ Upto(n) \in Nat
    BY <1>3, <2>1
  <2>3. Upto(n) - Upto(k) >= 1
    BY <1>2, <1>3, <1>6
  <2>4. Upto(n) # Upto(k)
    BY <2>2, <2>3
  <2>5. n # k
    BY <2>4
  <2>6. QED
    BY <1>3, <2>1, <2>5
<1>8. /\ k + 1 \in (k + 1)..n /\ k + 1 \in 1..n /\ k + 1 \in 0..n /\ (k + 1) - 1 = k
  <2>1. \A x, y \in Nat : x < y => /\ x + 1 \in (x + 1)..y /\ x + 1 \in 1..y /\ x + 1 \in 0..y
                                   /\ (x + 1) - 1 = x
    OBVIOUS
  <2>2. n \in Nat /\ k \in Nat /\ k < n
    BY <1>3, <1>7
  <2>3. QED
    BY <2>1, <2>2
<1>9. PICK r : r = fields[k + 1]
  OBVIOUS
<1>10. r \in Rep
  BY <1>3, <1>8, <1>9
<1>11. list = ListAfter(k) /\ max = MaxAfter(k)
  BY <1>1, <1>2 DEF InStep
<1>12. PICK u, v : u = Upto(k) /\ v = Upto(k + 1)
  OBVIOUS
<1>13. u \in Nat /\ v \in Nat
  BY <1>3, <1>7, <1>8, <1>12
<1>14. Lies(list, max, r, u - u, v - u, Pending)
  <2>1. Coded(k + 1)
    BY <1>2, <1>8
  <2>2. Upto(Len(got)) = u
    BY <1>1, <1>12
  <2>3. QED
    BY <1>8, <1>9, <1>11, <1>12, <2>1, <2>2 DEF Coded
<1>15. PICK e \in Seq(BlockByte) :
         /\ r.legal => Stands(e, list, max, r.header, r.list, r.max)
         /\ ~r.legal => Wrong(e, list)
         /\ v - u = (u - u) + Len(e)
         /\ \A j \in 1..Len(e) : Pending[(u - u) + j] = e[j]
  BY <1>14 DEF Lies
<1>16. PICK size : size = Len(e)
  OBVIOUS
<1>17. size \in Nat /\ v - u = size /\ v = u + size
  BY <1>13, <1>15, <1>16, LenProperties
<1>18. \A j \in 1..size : Pending[j] = e[j]
  <2>1. \A j \in 1..size : (u - u) + j = j
    BY <1>13, <1>17
  <2>2. QED
    BY <1>15, <1>16, <2>1
<1>19. Begins(data, e)
  <2>1. ASSUME NEW j \in 1..Len(e), j <= Len(data) PROVE data[j] = e[j]
    <3>1. j \in 1..size /\ j \in 1..Len(data)
      BY <1>3, <1>16, <1>17, <2>1
    <3>2. QED
      BY <1>3, <1>18, <3>1
  <2>2. QED
    BY <2>1 DEF Begins
<1>20. /\ r.legal \in BOOLEAN /\ r.header \in Header \cup {Nothing}
       /\ r.list \in Seq(Header) /\ r.max \in 0..Permitted
  BY <1>10 DEF Rep
<1>21. \/ Len(data) < size /\ PutsOff /\ list' = list /\ max' = max
       \/ r.legal /\ Len(data) >= size /\ Takes(r.header, size) /\ list' = r.list /\ max' = r.max
       \/ ~r.legal /\ Refuses /\ list' = list /\ max' = max
  <2>1. PICK header, l2, m2, legal : /\ header = r.header /\ l2 = r.list /\ m2 = r.max
                                     /\ legal = r.legal
    OBVIOUS
  <2>2. /\ legal \in BOOLEAN
        /\ legal => Stands(e, list, max, header, l2, m2)
        /\ ~legal => Wrong(e, list)
    BY <1>15, <1>20, <2>1
  <2>3. \/ Len(data) < size /\ PutsOff /\ list' = list /\ max' = max
        \/ legal /\ Len(data) >= size /\ Takes(header, size) /\ list' = l2 /\ max' = m2
        \/ ~legal /\ Refuses /\ list' = list /\ max' = max
    BY <1>4, <1>5, <1>16, <1>19, <2>2, DecodeParsed
  <2>4. QED
    BY <2>1, <2>3
<1>22. Upto(Len(got) + 1) - Upto(Len(got)) = size
  <2>1. Upto(Len(got) + 1) = v /\ Upto(Len(got)) = u
    BY <1>1, <1>12
  <2>2. QED
    BY <1>17, <2>1
<1>23. CASE PutsOff /\ Len(data) < size /\ list' = list /\ max' = max
  <2>1. /\ returned' = "TooSmall" /\ name' \in Names \cup {<<>>} /\ value' = <<>>
        /\ data' = data /\ got' = got
    BY <1>23 DEF PutsOff
  <2>2. BlockTypeOK'
    BY <1>2, <1>4, <1>23, <2>1 DEF BlockTypeOK
  <2>3. Pending' = Pending
    BY <1>4, <2>1 DEF Pending
  <2>4. returned' \notin Fatal /\ UNCHANGED <<encoderVars, tableVars, got>>
    BY <1>4, <1>23, <2>1 DEF Fatal, encoderVars, tableVars
  <2>5. BlockInv'
    BY <2>2, <2>3, <2>4, SameBlock
  <2>6. QED
    BY <1>22, <1>23, <2>5
<1>24. CASE ~r.legal /\ Refuses /\ list' = list /\ max' = max
  <2>1. /\ returned' \in Fatal /\ name' = <<>> /\ value' = <<>>
        /\ data' = data /\ got' = got
    BY <1>24 DEF Refuses
  <2>2. BlockTypeOK'
    BY <1>2, <1>4, <1>24, <2>1 DEF BlockTypeOK
  <2>3. Pending' = Pending
    BY <1>4, <2>1 DEF Pending
  <2>4. UNCHANGED <<encoderVars, tableVars, got>>
    BY <1>4, <1>24, <2>1 DEF encoderVars, tableVars
  <2>5. Len(got) < Len(fields) /\ ~fields[Len(got) + 1].legal
    BY <1>1, <1>7, <1>9, <1>24
  <2>6. BlockInv'
    BY <2>2, <2>3, <2>4, <2>5, SameBlock
  <2>7. returned' # "TooSmall"
    BY <2>1 DEF Fatal
  <2>8. QED
    BY <2>6, <2>7
<1>25. CASE /\ r.legal /\ Len(data) >= size /\ Takes(r.header, size) /\ list' = r.list
            /\ max' = r.max
  <2>1. /\ returned' = "Ok" /\ name' = r.header.name /\ value' = r.header.value
        /\ got' = Append(got, r.header) /\ data' = After(data, size)
    BY <1>25 DEF Takes
  <2>2. /\ got' \in Seq(Header \cup {Nothing}) /\ Len(got') = k + 1
        /\ \A i \in 1..k : got'[i] = got[i]
        /\ got'[k + 1] = r.header
    BY <1>1, <1>5, <1>20, <2>1, AppendProperties
  <2>3. /\ data' \in Seq(BlockByte) /\ Len(data') = Len(data) - size
        /\ \A j \in 1..(Len(data) - size) : data'[j] = data[size + j]
    <3>1. size + 1 \in Int /\ Len(data) \in Int
      BY <1>3, <1>17
    <3>2. \A j \in (size + 1)..Len(data) : data[j] \in BlockByte
      BY <1>3, <1>5, <1>17, ElementOfSeq
    <3>3. /\ data' \in Seq(BlockByte)
          /\ Len(data') = IF size + 1 <= Len(data) THEN Len(data) - (size + 1) + 1 ELSE 0
          /\ \A j \in 1..(Len(data) - (size + 1) + 1) : data'[j] = data[(size + 1) + j - 1]
      BY <2>1, <3>1, <3>2, SubSeqProperties DEF After
    <3>4. Len(data) - (size + 1) + 1 = Len(data) - size
      BY <1>3, <1>17
    <3>5. Len(data') = Len(data) - size
      BY <1>3, <1>17, <1>25, <3>3
    <3>6. \A j \in 1..(Len(data) - size) : (size + 1) + j - 1 = size + j
      BY <1>3, <1>17
    <3>7. QED
      BY <3>3, <3>4, <3>5, <3>6
  <2>4. BlockTypeOK'
    <3>1. name' \in Names \cup {<<>>} /\ value' \in Values \cup {<<>>}
      BY <1>20, <2>1 DEF Header, Nothing
    <3>2. QED
      BY <1>2, <1>4, <1>20, <1>25, <2>1, <2>2, <2>3, <3>1 DEF BlockTypeOK
  <2>5. \A i : Upto(i)' = Upto(i) /\ ListAfter(i)' = ListAfter(i) /\ MaxAfter(i)' = MaxAfter(i)
    BY <1>4 DEF Upto, ListAfter, MaxAfter
  <2>6. /\ Upto(Len(got))' = v /\ Upto(Len(fields))' = Upto(n)
        /\ ListAfter(Len(got))' = ListAfter(k + 1) /\ MaxAfter(Len(got))' = MaxAfter(k + 1)
        /\ ListAfter(Len(fields))' = ListAfter(n) /\ MaxAfter(Len(fields))' = MaxAfter(n)
    BY <1>1, <1>4, <1>12, <2>2 DEF Upto, ListAfter, MaxAfter
  <2>7. InStep'
    <3>1. ListAfter(k + 1) = r.list /\ MaxAfter(k + 1) = r.max
      BY <1>3, <1>9 DEF ListAfter, MaxAfter
    <3>2. \A i \in 1..k : got[i] = fields[i].header
      BY <1>1, <1>2 DEF InStep
    <3>3. ASSUME NEW i \in 1..(k + 1) PROVE got'[i] = fields[i].header
      <4>1. i \in 1..k \/ i = k + 1
        BY <1>3
      <4>2. QED
        BY <1>9, <2>2, <3>2, <4>1
    <3>4. Len(got') <= Len(fields')
      BY <1>1, <1>4, <1>8, <2>2
    <3>5. \A i \in 1..Len(got') : got'[i] = fields'[i].header
      BY <1>4, <2>2, <3>3
    <3>6. list' = ListAfter(Len(got))' /\ max' = MaxAfter(Len(got))'
      BY <1>25, <2>6, <3>1
    <3>7. QED
      BY <2>4, <3>4, <3>5, <3>6 DEF InStep
  <2>8. OnlyIllegal'
    <3>1. \A i \in 1..k : fields[i].legal
      BY <1>1, <1>2 DEF OnlyIllegal
    <3>2. ASSUME NEW i \in 1..(k + 1) PROVE fields[i].legal
      <4>1. i \in 1..k \/ i = k + 1
        BY <1>3
      <4>2. QED
        BY <1>9, <1>25, <3>1, <4>1
    <3>3. returned' \notin Fatal
      BY <2>1 DEF Fatal
    <3>4. \A i \in 1..Len(got') : fields'[i].legal
      BY <1>4, <2>2, <3>2
    <3>5. QED
      BY <3>3, <3>4 DEF OnlyIllegal, Fatal
  <2>9. Len(fields') = n /\ fields' = fields
    BY <1>1, <1>4
  <2>10. PICK p, q : p = Pending /\ q = Pending'
    OBVIOUS
  <2>11. /\ q \in Seq(BlockByte) /\ Len(q) = Len(data') + Len(coming)
         /\ \A j \in 1..(Len(data') + Len(coming)) :
              q[j] = IF j <= Len(data') THEN data'[j] ELSE coming[j - Len(data')]
    <3>1. q = data' \o coming
      BY <1>4, <2>10 DEF Pending
    <3>2. QED
      BY <1>5, <2>3, <3>1, ConcatProperties
  <2>12. \A j \in 1..(Len(data) + Len(coming)) :
           p[j] = IF j <= Len(data) THEN data[j] ELSE coming[j - Len(data)]
    <3>1. p = data \o coming
      BY <2>10 DEF Pending
    <3>2. QED
      BY <1>5, <3>1, ConcatProperties
  <2>13. Len(p) = Len(data) + Len(coming) /\ Len(q) = Len(p) - size
    <3>1. \A x, y, z \in Nat : (x - z) + y = (x + y) - z
      OBVIOUS
    <3>2. Len(p) = Len(data) + Len(coming)
      BY <1>3, <2>10
    <3>3. Len(q) = (Len(data) - size) + Len(coming)
      BY <2>3, <2>11
    <3>4. Len(data) \in Nat /\ Len(coming) \in Nat /\ size \in Nat
      BY <1>3, <1>17
    <3>5. QED
      BY <3>1, <3>2, <3>3, <3>4
  <2>14. \A j \in 1..(Len(p) - size) : q[j] = p[size + j]
    <3>1. ASSUME NEW j \in 1..(Len(p) - size) PROVE q[j] = p[size + j]
      <4>1. /\ j \in 1..(Len(data') + Len(coming)) /\ size + j \in 1..(Len(data) + Len(coming))
            /\ j <= Len(data') <=> size + j <= Len(data)
            /\ j - Len(data') = (size + j) - Len(data)
        BY <1>3, <1>17, <2>3, <2>13
      <4>2. CASE j <= Len(data')
        <5>1. j \in 1..(Len(data) - size)
          BY <1>3, <1>17, <2>3, <2>13, <4>2
        <5>2. q[j] = data'[j] /\ p[size + j] = data[size + j]
          BY <2>11, <2>12, <4>1, <4>2
        <5>3. QED
          BY <2>3, <5>1, <5>2
      <4>3. CASE ~(j <= Len(data'))
        <5>1. q[j] = coming[j - Len(data')] /\ p[size + j] = coming[(size + j) - Len(data)]
          BY <2>11, <2>12, <4>1, <4>3
        <5>2. QED
          BY <4>1, <5>1
      <4>4. QED
        BY <4>2, <4>3
    <3>2. QED
      BY <3>1
  <2>15. Len(Pending') = Upto(Len(fields))' - Upto(Len(got))'
    <3>1. Upto(n) \in Nat
      BY <1>3, <1>7
    <3>2. Len(p) = Upto(n) - u
      BY <1>2, <1>12, <2>10
    <3>3. Len(q) = Upto(n) - v
      BY <1>13, <1>17, <2>13, <3>1, <3>2
    <3>4. QED
      BY <2>6, <2>10, <3>3
  <2>16. ASSUME NEW i \in ((k + 1) + 1)..n PROVE Coded(i)'
    <3>1. i \in (k + 1)..n /\ i \in 0..n /\ i - 1 \in 0..n /\ k + 1 <= i - 1 /\ i <= n
      BY <1>3
    <3>2. PICK from, to : from = Upto(i - 1) - u /\ to = Upto(i) - u
      OBVIOUS
    <3>3. Lies(ListAfter(i - 1), MaxAfter(i - 1), fields[i], from, to, p)
      <4>1. Coded(i)
        BY <1>2, <3>1
      <4>2. Upto(Len(got)) = u
        BY <1>1, <1>12
      <4>3. QED
        BY <2>10, <3>2, <4>1, <4>2 DEF Coded
    <3>4. Upto(i - 1) \in Nat /\ Upto(i) \in Nat /\ Upto(n) \in Nat
      BY <1>3, <1>7, <3>1
    <3>5. v <= Upto(i - 1) /\ Upto(i) <= Upto(n)
      BY <1>2, <1>7, <1>8, <1>12, <3>1
    <3>6. Len(p) = Upto(n) - u
      BY <1>2, <1>12, <2>10
    <3>7. from \in Nat /\ size \in 0..from /\ to <= Len(p) /\ Len(p) \in Nat
      BY <1>13, <1>17, <3>2, <3>4, <3>5, <3>6
    <3>8. Lies(ListAfter(i - 1), MaxAfter(i - 1), fields[i], from - size, to - size, q)
      BY <2>14, <3>3, <3>7, LiesNearer
    <3>9. from - size = Upto(i - 1) - v /\ to - size = Upto(i) - v
      BY <1>13, <1>17, <3>2, <3>4
    <3>10. /\ ListAfter(i - 1)' = ListAfter(i - 1) /\ MaxAfter(i - 1)' = MaxAfter(i - 1)
           /\ Upto(i - 1)' = Upto(i - 1) /\ Upto(i)' = Upto(i)
      BY <2>5
    <3>11. QED
      BY <2>6, <2>9, <2>10, <3>8, <3>9, <3>10 DEF Coded
  <2>17. \A i \in (Len(got') + 1)..Len(fields') : Coded(i)'
    BY <2>2, <2>9, <2>16
  <2>18. /\ peerList' = ListAfter(Len(fields))' /\ peerMax' = MaxAfter(Len(fields))'
         /\ \A i \in 1..(Len(fields') - 1) : fields'[i].legal
    BY <1>2, <1>4, <2>6, <2>9
  <2>19. \A i, j \in 0..Len(fields') : i <= j => Upto(i)' <= Upto(j)'
    BY <1>2, <2>5, <2>9
  <2>20. BlockInv'
    BY <2>4, <2>7, <2>8, <2>15, <2>17, <2>18, <2>19 DEF BlockInv
  <2>21. returned' # "TooSmall"
    BY <2>1
  <2>22. QED
    BY <2>20, <2>21
<1>26. QED
  BY <1>21, <1>23, <1>24, <1>25

LEMMA BlockStep == BlockInv /\ [BlockNext]_blockVars => BlockInv'
<1> SUFFICES ASSUME BlockInv, [BlockNext]_blockVars PROVE BlockInv'
  OBVIOUS
<1>1. CASE SendIndexed \/ SendIncremental \/ SendPlain \/ SendSize \/ SendIllegal
  BY <1>1, FieldSent
<1>2. CASE Receive
  BY <1>2, ReceiveStep
<1>3. CASE read_header
  BY <1>3, DecodeStep
<1>4. CASE UNCHANGED blockVars
  <2>1. UNCHANGED <<encoderVars, tableVars, got>> /\ returned' = returned
    BY <1>4 DEF blockVars, outVars
  <2>2. BlockTypeOK'
    BY <1>4 DEF BlockInv, BlockTypeOK, blockVars, encoderVars, tableVars, outVars
  <2>3. Pending' = Pending
    BY <1>4 DEF Pending, blockVars
  <2>4. returned' \in Fatal => Len(got) < Len(fields) /\ ~fields[Len(got) + 1].legal
    BY <2>1 DEF BlockInv, OnlyIllegal, Fatal
  <2>5. QED
    BY <2>1, <2>2, <2>3, <2>4, SameBlock
<1>5. QED
  BY <1>1, <1>2, <1>3, <1>4 DEF BlockNext

LEMMA BlockInvariant == BlockSpec => []BlockInv
BY BlockStart, BlockStep, PTL DEF BlockSpec

(* However the frames cut the block, what read_header has decoded is what  *)
(* the peer encoded, and its table is the peer's as it was at that field.  *)
THEOREM DecodedInStep == BlockSpec => []InStep
<1>1. BlockInv => InStep
  BY DEF BlockInv
<1>2. QED
  BY <1>1, BlockInvariant, PTL

(* Only a peer that breaks the rules is refused, at the field that does.   *)
THEOREM OnlyIllegalRefused == BlockSpec => []OnlyIllegal
<1>1. BlockInv => OnlyIllegal
  BY DEF BlockInv
<1>2. QED
  BY <1>1, BlockInvariant, PTL

(* A field that has come completely is not put off with TooSmall.          *)
THEOREM FieldNeverPutOff == BlockSpec => FieldNotPutOff
<1>1. BlockInv /\ [BlockNext]_blockVars =>
        [read_header /\ returned' = "TooSmall" =>
           Len(data) < Upto(Len(got) + 1) - Upto(Len(got))]_blockVars
  <2>1. ASSUME BlockInv, read_header, returned' = "TooSmall"
        PROVE  Len(data) < Upto(Len(got) + 1) - Upto(Len(got))
    BY <2>1, DecodeStep
  <2>2. QED
    BY <2>1
<1>2. QED
  BY <1>1, BlockInvariant, PTL DEF BlockSpec, FieldNotPutOff
=============================================================================
