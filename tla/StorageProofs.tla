---------------------------- MODULE StorageProofs ---------------------------
(***************************************************************************)
(* Proofs about what keeps bytes: about Buffer, for buffers and calls of   *)
(* every size, and about DynamicTable, for any headers, static table and   *)
(* sizes, which is shown to implement HeaderList.                          *)
(***************************************************************************)
EXTENDS Buffer, DynamicTable, SequenceTheorems, WellFoundedInduction, TLAPS

(* A block is a record, and its cells are a partial function. *)
IsBlock(r) ==
  /\ r = [size |-> r.size, cells |-> r.cells]
  /\ r.cells = [i \in DOMAIN r.cells |-> r.cells[i]]

Shape ==
  /\ heap = [b \in DOMAIN heap |-> heap[b]]
  /\ \A b \in DOMAIN heap : IsBlock(heap[b])

(* The capacity that the next write needs.                                 *)
Need == IF kind = "extend" THEN len + 1 ELSE at + Len(rest)

(* How far a call is, and how much room it has by then.                    *)
Stage ==
  /\ at <= len
  /\ kind # "read" => at = len
  /\ Len(expected) = at + Len(rest)
  /\ newbuf # Null <=> pc \in {"copy", "free"}
  /\ pc = "idle" => at = len /\ rest = <<>>
  /\ pc # "idle" /\ kind = "extend" => rest # <<>>
  /\ pc = "extend" => kind = "extend"
  /\ pc \in {"grow", "copy", "free"} => want >= Need \/ cap >= Need
  /\ pc = "grow" => /\ newcap >= cap
                    /\ newcap # cap => newcap >= 2 * cap /\ newcap < 2 * want
  /\ pc \in {"copy", "free"} => /\ newcap > cap /\ newcap >= 2 * cap
                                /\ newcap >= want /\ newcap < 2 * want
  /\ pc = "put" => cap >= Need
  /\ pc = "fill" => kind = "read" /\ len = at + Len(rest)

Safe == TypeOK /\ Shape /\ Owned /\ InBounds /\ Stage

Holds(b, n) ==
  \A i \in 1..n : i \in DOMAIN heap[b].cells /\ heap[b].cells[i] = expected[i]

(* What is there and what is to come are, in this order, what is expected. *)
Contents ==
  /\ \A i \in 1..Len(rest) : expected[at + i] = rest[i]
  /\ ~failed => Holds(buf, at)
  /\ ~failed /\ pc = "free" => Holds(newbuf, at)

-----------------------------------------------------------------------------
(* Lemmas.                                                                 *)

LEMMA BytesAreSequences == ASSUME NEW bytes \in Bytes PROVE bytes \in Seq(Byte)
<1>1. PICK n \in 0..MaxLen : bytes \in [1..n -> Byte]
  BY DEF Bytes
<1> QED BY <1>1, BufferAssumption

LEMMA FirstAndRest ==
  ASSUME NEW S, NEW s \in Seq(S), s # <<>>
  PROVE  /\ <<s[1]>> \in Seq(S) /\ Len(<<s[1]>>) = 1 /\ <<s[1]>> # <<>> /\ <<s[1]>>[1] = s[1]
         /\ Tail(s) \in Seq(S) /\ Len(Tail(s)) = Len(s) - 1
         /\ \A i \in 1..Len(Tail(s)) : Tail(s)[i] = s[i + 1]
         /\ Len(s) = 1 <=> Tail(s) = <<>>
<1>1. s[1] \in S /\ Len(s) \in Nat /\ Len(s) > 0
  OBVIOUS
<1>2. Tail(s) \in Seq(S) /\ Len(Tail(s)) = Len(s) - 1
  BY <1>1
<1>3. \A i \in 1..Len(Tail(s)) : Tail(s)[i] = s[i + 1]
  BY <1>1
<1>4. Tail(s) = <<>> <=> Len(Tail(s)) = 0
  <2> DEFINE t == Tail(s)
  <2>1. t \in Seq(S)
    BY <1>2
  <2> HIDE DEF t
  <2>2. t = <<>> <=> Len(t) = 0
    BY <2>1
  <2> QED BY <2>2 DEF t
<1>5. Len(s) = 1 <=> Tail(s) = <<>>
  BY <1>1, <1>2, <1>4
<1>6. <<s[1]>> \in Seq(S) /\ Len(<<s[1]>>) = 1 /\ <<s[1]>> # <<>> /\ <<s[1]>>[1] = s[1]
  BY <1>1
<1> QED BY <1>2, <1>3, <1>5, <1>6

LEMMA Joined ==
  ASSUME NEW S, NEW s \in Seq(S), NEW t \in Seq(S)
  PROVE  /\ s \o t \in Seq(S)
         /\ Len(s \o t) = Len(s) + Len(t)
         /\ \A i \in 1..Len(s) : (s \o t)[i] = s[i]
         /\ \A i \in 1..Len(t) : (s \o t)[Len(s) + i] = t[i]
OBVIOUS

(* A call starts with nothing done, and with what it should give.          *)
LEMMA Begins ==
  ASSUME TypeOK, Stage, NEW what \in {"slice", "extend", "read"}, NEW n \in {0, len},
         NEW bytes \in Seq(Byte), Begin(what, n, bytes)
  PROVE  /\ n \in Nat /\ n <= len /\ len = Len(expected)
         /\ expected' \in Seq(Byte)
         /\ Len(expected') = n + Len(bytes)
         /\ \A i \in 1..n : expected'[i] = expected[i]
         /\ \A i \in 1..Len(bytes) : expected'[n + i] = bytes[i]
         /\ failed' \in BOOLEAN
<1>1. n \in Nat /\ n <= len /\ len = Len(expected)
  BY DEF TypeOK, Stage, Begin
<1> DEFINE front == SubSeq(expected, 1, n)
<1>2. front \in Seq(Byte) /\ Len(front) = n /\ \A i \in 1..n : front[i] = expected[i]
  BY <1>1, SubSeqProperties DEF TypeOK
<1>3. expected' = front \o bytes
  BY DEF Begin
<1>4. /\ expected' \in Seq(Byte)
      /\ Len(expected') = n + Len(bytes)
      /\ \A i \in 1..n : expected'[i] = front[i]
      /\ \A i \in 1..Len(bytes) : expected'[n + i] = bytes[i]
  <2>1. /\ front \o bytes \in Seq(Byte)
        /\ Len(front \o bytes) = Len(front) + Len(bytes)
        /\ \A i \in 1..Len(front) : (front \o bytes)[i] = front[i]
        /\ \A i \in 1..Len(bytes) : (front \o bytes)[Len(front) + i] = bytes[i]
    BY <1>2, Joined
  <2> HIDE DEF front
  <2> QED BY <1>2, <1>3, <2>1
<1>5. failed' \in BOOLEAN
  BY DEF Begin
<1> QED BY <1>1, <1>2, <1>4, <1>5

(* Writing bytes changes them and nothing else.                            *)
LEMMA Writes ==
  ASSUME Shape, NEW b \in DOMAIN heap, NEW from \in Nat, NEW bytes \in Seq(Byte)
  PROVE  /\ DOMAIN Write(b, from, bytes) = DOMAIN heap
         /\ \A c \in DOMAIN heap \ {b} : Write(b, from, bytes)[c] = heap[c]
         /\ Write(b, from, bytes) = [c \in DOMAIN heap |-> Write(b, from, bytes)[c]]
         /\ IsBlock(Write(b, from, bytes)[b])
         /\ Write(b, from, bytes)[b].size = heap[b].size
         /\ DOMAIN Write(b, from, bytes)[b].cells =
              DOMAIN heap[b].cells \cup (from + 1)..(from + Len(bytes))
         /\ \A i \in 1..Len(bytes) : Write(b, from, bytes)[b].cells[from + i] = bytes[i]
         /\ \A i \in DOMAIN heap[b].cells :
              i <= from => i \notin (from + 1)..(from + Len(bytes))
                           /\ Write(b, from, bytes)[b].cells[i] = heap[b].cells[i]
<1> DEFINE new == Write(b, from, bytes)
           cells == [i \in DOMAIN heap[b].cells \cup (from + 1)..(from + Len(bytes)) |->
                       IF i \in (from + 1)..(from + Len(bytes)) THEN bytes[i - from]
                       ELSE heap[b].cells[i]]
           block == [size |-> heap[b].size, cells |-> cells]
<1>1. heap[b] = [size |-> heap[b].size, cells |-> heap[b].cells]
  BY DEF Shape, IsBlock
<1>2. [heap[b] EXCEPT !.cells = cells] = block
  <2> HIDE DEF cells
  <2> QED BY <1>1
<1>3. new = [heap EXCEPT ![b] = block]
  BY <1>2 DEF Write
<1>4. /\ DOMAIN new = DOMAIN heap
      /\ \A c \in DOMAIN heap \ {b} : new[c] = heap[c]
      /\ new = [c \in DOMAIN heap |-> new[c]]
      /\ new[b] = block
  <2> HIDE DEF block
  <2> QED BY <1>3 DEF Shape
<1>5. IsBlock(block)
  BY DEF IsBlock
<1>6. DOMAIN cells = DOMAIN heap[b].cells \cup (from + 1)..(from + Len(bytes))
  OBVIOUS
<1>7. \A i \in 1..Len(bytes) : cells[from + i] = bytes[i]
  OBVIOUS
<1>8. \A i \in DOMAIN heap[b].cells :
        i <= from => i \notin (from + 1)..(from + Len(bytes)) /\ cells[i] = heap[b].cells[i]
  <2> TAKE i \in DOMAIN heap[b].cells
  <2> HAVE i <= from
  <2>1. i \notin (from + 1)..(from + Len(bytes))
    OBVIOUS
  <2> QED BY <2>1
<1> QED
  <2> HIDE DEF cells
  <2>1. block.size = heap[b].size /\ block.cells = cells
    OBVIOUS
  <2> HIDE DEF new, block
  <2>2. /\ DOMAIN new[b].cells = DOMAIN heap[b].cells \cup (from + 1)..(from + Len(bytes))
        /\ \A i \in 1..Len(bytes) : new[b].cells[from + i] = bytes[i]
        /\ \A i \in DOMAIN heap[b].cells :
             i <= from => i \notin (from + 1)..(from + Len(bytes))
                          /\ new[b].cells[i] = heap[b].cells[i]
    BY <1>4, <1>6, <1>7, <1>8, <2>1
  <2>3. IsBlock(new[b]) /\ new[b].size = heap[b].size
    BY <1>4, <1>5, <2>1
  <2> QED BY <1>4, <2>2, <2>3 DEF new

(* A call leaves memory alone until it reserves room.                      *)
LEMMA MemoryKept ==
  ASSUME Shape, Owned, InBounds, newbuf = Null, UNCHANGED <<cap, buf, heap, newbuf>>
  PROVE  Shape' /\ Owned' /\ InBounds'
BY DEF Shape, Owned, InBounds, IsBlock

(* So does writing, within the block of the buffer.                        *)
LEMMA MemoryWritten ==
  ASSUME TypeOK, Shape, Owned, InBounds, newbuf = Null,
         NEW from \in Nat, NEW bytes \in Seq(Byte), bytes # <<>>, from + Len(bytes) <= cap,
         heap' = Write(buf, from, bytes), UNCHANGED <<cap, buf, newbuf>>
  PROVE  Shape' /\ Owned' /\ InBounds' /\ DOMAIN heap' = DOMAIN heap
<1>1. cap \in Nat /\ cap > 0
  BY DEF TypeOK
<1>2. buf # Null /\ buf \in DOMAIN heap /\ heap[buf].size = cap
  BY <1>1 DEF TypeOK, Owned
<1>3. /\ DOMAIN heap' = DOMAIN heap
      /\ \A c \in DOMAIN heap \ {buf} : heap'[c] = heap[c]
      /\ heap' = [c \in DOMAIN heap |-> heap'[c]]
      /\ IsBlock(heap'[buf])
      /\ heap'[buf].size = heap[buf].size
      /\ DOMAIN heap'[buf].cells = DOMAIN heap[buf].cells \cup (from + 1)..(from + Len(bytes))
  BY <1>2, Writes
<1>4. Shape'
  BY <1>3 DEF Shape, IsBlock
<1>5. Owned'
  BY <1>2, <1>3 DEF Owned
<1>6. InBounds'
  <2>1. (from + 1)..(from + Len(bytes)) \subseteq 1..cap
    BY <1>1
  <2>2. DOMAIN heap'[buf].cells \subseteq 1..heap'[buf].size
    BY <1>2, <1>3, <2>1 DEF InBounds
  <2> QED BY <1>3, <2>2 DEF InBounds
<1> QED BY <1>3, <1>4, <1>5, <1>6

-----------------------------------------------------------------------------
(* The memory of a buffer and the stage of a call are in step.             *)

LEMMA SafeInit == Init => Safe
<1> SUFFICES ASSUME Init PROVE Safe
  OBVIOUS
<1>1. cap \in Nat /\ (cap = 0 <=> buf = Null) /\ buf \in Block \cup {Null}
  BY BufferAssumption DEF Init
<1>2. DOMAIN heap = {buf} \ {Null} /\ \A b \in DOMAIN heap : heap[b] = Fresh(cap)
  BY DEF Init
<1>3. TypeOK
  <2>1. /\ len = 0 /\ pc = "idle" /\ want = 0 /\ newcap = 0 /\ newbuf = Null
        /\ kind = "slice" /\ rest = <<>> /\ at = 0 /\ failed \in BOOLEAN /\ expected = <<>>
    BY DEF Init
  <2>2. DOMAIN heap \subseteq Block
    BY <1>1, <1>2
  <2> QED BY <1>1, <2>1, <2>2 DEF TypeOK, Steps
<1>4. Shape
  BY <1>2 DEF Init, Shape, IsBlock, Fresh
<1>5. Owned
  BY <1>2 DEF Init, Owned, Fresh
<1>6. InBounds
  BY <1>2 DEF InBounds, Fresh
<1>7. Stage
  BY DEF Init, Stage
<1> QED BY <1>3, <1>4, <1>5, <1>6, <1>7 DEF Safe

LEMMA SafeCalls ==
  ASSUME Safe, NEW bytes \in Seq(Byte),
         \/ PushSlice(bytes)
         \/ CopySlice(bytes)
         \/ Extend(bytes)
         \/ \E n \in 0..MaxLen : ReadInto(n, bytes)
         \/ \E n \in 0..MaxLen : ReserveLen(n)
  PROVE  Safe'
<1> USE DEF Safe
<1>0. /\ len \in Nat /\ cap \in Nat /\ len <= cap /\ at \in Nat /\ want \in Nat
      /\ newcap \in Nat /\ pc \in Steps /\ newbuf \in Block \cup {Null}
      /\ (cap = 0 <=> buf = Null) /\ buf \in Block \cup {Null} /\ DOMAIN heap \subseteq Block
      /\ rest \in Seq(Byte) /\ expected \in Seq(Byte)
  BY DEF TypeOK
<1>1. pc = "idle" /\ newbuf = Null /\ at = len /\ Len(bytes) \in Nat
  BY DEF PushSlice, CopySlice, Extend, ReadInto, ReserveLen, Begin, Stage
<1>2. CASE PushSlice(bytes)
  <2>1. /\ expected' \in Seq(Byte) /\ Len(expected') = len + Len(bytes) /\ failed' \in BOOLEAN
    BY <1>2, <1>0, Begins DEF PushSlice
  <2>2. /\ kind' = "slice" /\ rest' = bytes /\ at' = len /\ pc' = "grow" /\ newcap' = cap
        /\ want' = len + Len(bytes) /\ UNCHANGED <<len, cap, buf, heap, newbuf>>
    BY <1>2 DEF PushSlice, Begin, Reserve, fields
  <2>3. TypeOK'
    BY <1>0, <1>1, <2>1, <2>2 DEF TypeOK, Steps
  <2>4. Stage'
    BY <1>0, <1>1, <2>1, <2>2 DEF Stage, Need
  <2> QED BY <1>1, <2>2, <2>3, <2>4, MemoryKept
<1>3. CASE CopySlice(bytes)
  <2>1. /\ expected' \in Seq(Byte) /\ Len(expected') = Len(bytes) /\ failed' \in BOOLEAN
    BY <1>3, <1>0, Begins DEF CopySlice
  <2>2. /\ kind' = "slice" /\ rest' = bytes /\ at' = 0 /\ len' = 0
        /\ UNCHANGED <<cap, buf, heap, newbuf>>
    BY <1>3 DEF CopySlice, Begin, Reserve, growing
  <2>3. \/ bytes = <<>> /\ pc' = "idle" /\ want' = want /\ newcap' = newcap
        \/ bytes # <<>> /\ pc' = "grow" /\ newcap' = cap /\ want' = Len(bytes)
    BY <1>3 DEF CopySlice, Reserve, growing
  <2>4. TypeOK'
    BY <1>0, <1>1, <2>1, <2>2, <2>3 DEF TypeOK, Steps
  <2>5. Stage'
    BY <1>0, <1>1, <2>1, <2>2, <2>3 DEF Stage, Need
  <2> QED BY <1>1, <2>2, <2>4, <2>5, MemoryKept
<1>4. CASE Extend(bytes)
  <2>1. /\ expected' \in Seq(Byte) /\ Len(expected') = len + Len(bytes) /\ failed' \in BOOLEAN
    BY <1>4, <1>0, Begins DEF Extend
  <2>2. /\ kind' = "extend" /\ rest' = bytes /\ at' = len /\ pc' = "extend" /\ bytes # <<>>
        /\ UNCHANGED <<len, cap, buf, heap, want, newcap, newbuf>>
    BY <1>4 DEF Extend, Begin, fields, growing
  <2>3. TypeOK'
    BY <1>0, <1>1, <2>1, <2>2 DEF TypeOK, Steps
  <2>4. Stage'
    BY <1>0, <1>1, <2>1, <2>2 DEF Stage, Need
  <2> QED BY <1>1, <2>2, <2>3, <2>4, MemoryKept
<1>5. ASSUME NEW n \in 0..MaxLen, ReadInto(n, bytes)
      PROVE  Safe'
  <2>1. /\ expected' \in Seq(Byte) /\ Len(expected') = n + Len(bytes) /\ failed' \in BOOLEAN
        /\ n \in Nat /\ n <= len
    BY <1>5, <1>0, Begins DEF ReadInto
  <2>2. /\ kind' = "read" /\ rest' = bytes /\ at' = n /\ pc' = "grow" /\ newcap' = cap
        /\ want' = n + Len(bytes) /\ UNCHANGED <<len, cap, buf, heap, newbuf>>
    BY <1>5 DEF ReadInto, Begin, Reserve, fields
  <2>3. TypeOK'
    BY <1>0, <1>1, <2>1, <2>2 DEF TypeOK, Steps
  <2>4. Stage'
    BY <1>0, <1>1, <2>1, <2>2 DEF Stage, Need
  <2> QED BY <1>1, <2>2, <2>3, <2>4, MemoryKept
<1>6. ASSUME NEW n \in 0..MaxLen, ReserveLen(n)
      PROVE  Safe'
  <2>1. /\ expected' \in Seq(Byte) /\ Len(expected') = len /\ failed' \in BOOLEAN
    <3>1. <<>> \in Seq(Byte) /\ Len(<<>>) = 0 /\ len + 0 = len
      BY <1>0
    <3>2. Begin("slice", len, <<>>)
      BY <1>6 DEF ReserveLen
    <3>3. expected' \in Seq(Byte) /\ Len(expected') = len + Len(<<>>) /\ failed' \in BOOLEAN
      BY <3>1, <3>2, Begins
    <3> QED BY <3>1, <3>3
  <2>2. /\ kind' = "slice" /\ rest' = <<>> /\ at' = len /\ pc' = "grow" /\ newcap' = cap
        /\ want' = n /\ UNCHANGED <<len, cap, buf, heap, newbuf>>
    BY <1>6 DEF ReserveLen, Begin, Reserve, fields
  <2>3. TypeOK'
    BY <1>0, <1>1, <2>1, <2>2, BufferAssumption DEF TypeOK, Steps
  <2>4. Stage'
    BY <1>0, <1>1, <2>1, <2>2 DEF Stage, Need
  <2> QED BY <1>1, <2>2, <2>3, <2>4, MemoryKept
<1> QED BY <1>2, <1>3, <1>4, <1>5, <1>6

LEMMA SafeClearBuffer == ASSUME Safe, ClearBuffer PROVE Safe'
<1> USE DEF Safe
<1>1. pc = "idle" /\ newbuf = Null
  BY DEF ClearBuffer, Begin, Stage
<1>2. DOMAIN heap = {buf} \ {Null} /\ heap' = Without(buf)
  BY <1>1 DEF ClearBuffer, Owned
<1>3. DOMAIN heap' = {} /\ heap' = [b \in DOMAIN heap' |-> heap'[b]]
  BY <1>2 DEF Without
<1>4. expected' = <<>>
  <2>1. SubSeq(expected, 1, 0) = <<>>
    BY SubSeqEmpty DEF TypeOK
  <2> QED BY <2>1 DEF ClearBuffer, Begin
<1>5. /\ kind' = "slice" /\ rest' = <<>> /\ at' = 0 /\ len' = 0 /\ cap' = 0 /\ buf' = Null
      /\ pc' = "idle" /\ failed' \in BOOLEAN /\ UNCHANGED <<want, newcap, newbuf>>
  BY <1>1 DEF ClearBuffer, Begin, growing
<1>6. TypeOK'
  BY <1>3, <1>4, <1>5 DEF TypeOK, Steps
<1>7. Shape' /\ Owned' /\ InBounds'
  BY <1>1, <1>3, <1>5 DEF Shape, Owned, InBounds
<1>8. Stage'
  BY <1>1, <1>4, <1>5 DEF Stage
<1> QED BY <1>6, <1>7, <1>8

LEMMA SafeGrow == ASSUME Safe, Double \/ Enough \/ Alloc \/ Copy \/ Free PROVE Safe'
<1> USE DEF Safe
<1>0. /\ len \in Nat /\ cap \in Nat /\ len <= cap /\ at \in Nat /\ want \in Nat
      /\ newcap \in Nat /\ pc \in Steps /\ newbuf \in Block \cup {Null}
      /\ (cap = 0 <=> buf = Null) /\ buf \in Block \cup {Null} /\ DOMAIN heap \subseteq Block
      /\ rest \in Seq(Byte) /\ expected \in Seq(Byte) /\ Need \in Nat
  <2>1. len \in Nat /\ at \in Nat /\ Len(rest) \in Nat
    BY DEF TypeOK
  <2> QED BY <2>1 DEF TypeOK, Need
<1>1. CASE Double
  <2>1. /\ pc = "grow" /\ newcap < want /\ newcap' = newcap + (IF newcap > 1 THEN newcap ELSE 1)
        /\ UNCHANGED <<len, cap, buf, heap, pc, want, newbuf, kind, rest, at, expected, failed>>
    BY <1>1 DEF Double, fields, call
  <2>2. Need' = Need
    BY <2>1 DEF Need
  <2>3. newbuf = Null
    BY <2>1 DEF Stage
  <2>4. newcap' \in Nat /\ newcap' > newcap /\ newcap' >= 2 * newcap /\ newcap' < 2 * want
    BY <1>0, <2>1
  <2>5. TypeOK'
    BY <2>1, <2>4 DEF TypeOK
  <2>6. newcap >= cap
    BY <2>1 DEF Stage
  <2>7. newcap' >= cap /\ newcap' >= 2 * cap
    BY <1>0, <2>4, <2>6
  <2>8. Stage'
    BY <1>0, <2>1, <2>2, <2>4, <2>7 DEF Stage
  <2> QED BY <2>1, <2>3, <2>5, <2>8, MemoryKept
<1>2. CASE Enough
  <2>1. /\ pc = "grow" /\ newcap >= want /\ newcap = cap /\ pc' = "put"
        /\ want' = 0 /\ newcap' = 0 /\ newbuf' = Null
        /\ UNCHANGED <<len, cap, buf, heap, kind, rest, at, expected, failed>>
    BY <1>2 DEF Enough, Over, fields, call
  <2>2. Need' = Need
    BY <2>1 DEF Need
  <2>3. newbuf = Null /\ cap >= Need
    BY <1>0, <2>1 DEF Stage
  <2>4. TypeOK'
    BY <2>1 DEF TypeOK, Steps
  <2>5. Stage'
    BY <1>0, <2>1, <2>2, <2>3 DEF Stage
  <2> QED BY <2>1, <2>3, <2>4, <2>5, MemoryKept
<1>3. CASE Alloc
  <2>1. PICK b \in Block \ DOMAIN heap :
          /\ newbuf' = b
          /\ heap' = [c \in DOMAIN heap \cup {b} |-> IF c = b THEN Fresh(newcap) ELSE heap[c]]
    BY <1>3 DEF Alloc
  <2>2. /\ pc = "grow" /\ newcap >= want /\ newcap # cap /\ pc' = "copy"
        /\ UNCHANGED <<len, cap, buf, want, newcap, kind, rest, at, expected, failed>>
    BY <1>3 DEF Alloc, fields, call
  <2>3. /\ newbuf = Null /\ newcap > cap /\ newcap >= 2 * cap /\ newcap < 2 * want
    BY <1>0, <2>2 DEF Stage
  <2>4. DOMAIN heap = {buf} \ {Null} /\ b # buf /\ b # Null
    <3>1. DOMAIN heap = {buf} \ {Null}
      BY <2>3 DEF Owned
    <3> QED BY <2>1, <3>1, BufferAssumption
  <2>5. DOMAIN heap' = {buf, b} \ {Null} /\ heap'[b] = Fresh(newcap)
        /\ \A c \in DOMAIN heap : heap'[c] = heap[c]
    BY <2>1, <2>4
  <2>6. TypeOK'
    <3>1. DOMAIN heap' \subseteq Block /\ newbuf' \in Block
      BY <1>0, <2>1, <2>5
    <3> QED BY <2>2, <3>1 DEF TypeOK, Steps
  <2>7. Shape'
    <3>1. IsBlock(Fresh(newcap))
      BY DEF IsBlock, Fresh
    <3> QED BY <2>1, <3>1 DEF Shape, IsBlock
  <2>8. Owned'
    <3>1. heap'[b].size = newcap
      BY <2>5 DEF Fresh
    <3>2. buf # Null => heap'[buf].size = cap
      BY <2>4, <2>5 DEF Owned
    <3> QED BY <2>1, <2>2, <2>4, <2>5, <3>1, <3>2 DEF Owned
  <2>9. InBounds'
    <3>1. DOMAIN heap'[b].cells = {}
      BY <2>5 DEF Fresh
    <3>2. \A c \in DOMAIN heap : DOMAIN heap'[c].cells \subseteq 1..heap'[c].size
      BY <2>5 DEF InBounds
    <3> QED BY <2>4, <2>5, <3>1, <3>2 DEF InBounds
  <2>10. Stage'
    <3>1. Need' = Need
      BY <2>2 DEF Need
    <3>2. newbuf' # Null
      BY <2>1, <2>4
    <3> QED BY <1>0, <2>2, <2>3, <3>1, <3>2 DEF Stage
  <2> QED BY <2>6, <2>7, <2>8, <2>9, <2>10
<1>4. CASE Copy
  <2>1. /\ pc = "copy" /\ pc' = "free"
        /\ UNCHANGED <<len, cap, buf, want, newcap, newbuf, kind, rest, at, expected, failed>>
    BY <1>4 DEF Copy, fields, growing, call
  <2>2. /\ newbuf # Null /\ newbuf # buf /\ newbuf \in DOMAIN heap
        /\ heap[newbuf].size = newcap /\ newcap > cap
    BY <2>1 DEF Stage, Owned
  <2>3. TypeOK' /\ Stage' /\ DOMAIN heap' = DOMAIN heap
    <3>1. DOMAIN heap' = DOMAIN heap
      BY <1>4 DEF Copy
    <3>2. Need' = Need
      BY <2>1 DEF Need
    <3>3. TypeOK'
      BY <2>1, <3>1 DEF TypeOK, Steps
    <3>4. Stage'
      BY <2>1, <3>2 DEF Stage
    <3> QED BY <3>1, <3>3, <3>4
  <2>4. CASE len = 0
    <3>1. heap' = heap
      BY <1>4, <2>4 DEF Copy
    <3> QED BY <2>1, <2>3, <3>1 DEF Shape, Owned, InBounds, IsBlock
  <2>5. CASE len # 0
    <3> DEFINE copied == [i \in DOMAIN heap[buf].cells \cap 1..len |-> heap[buf].cells[i]]
               block == [size |-> newcap, cells |-> copied]
    <3>1. heap' = [heap EXCEPT ![newbuf].cells = copied]
      BY <1>4, <2>5 DEF Copy
    <3>2. heap[newbuf] = [size |-> newcap, cells |-> heap[newbuf].cells]
      BY <2>2 DEF Shape, IsBlock
    <3>3. /\ heap'[newbuf] = block
          /\ \A c \in DOMAIN heap \ {newbuf} : heap'[c] = heap[c]
          /\ heap' = [c \in DOMAIN heap' |-> heap'[c]]
      <4> HIDE DEF copied
      <4> QED BY <2>2, <3>1, <3>2
    <3>4. IsBlock(block) /\ block.size = newcap /\ DOMAIN block.cells \subseteq 1..newcap
      <4>1. 1..len \subseteq 1..newcap
        BY <1>0, <2>2
      <4>2. IsBlock(block) /\ block.size = newcap /\ DOMAIN block.cells \subseteq 1..len
        BY DEF IsBlock
      <4> QED BY <4>1, <4>2
    <3> HIDE DEF block
    <3>5. Shape'
      BY <2>3, <3>3, <3>4 DEF Shape, IsBlock
    <3>6. Owned'
      BY <2>1, <2>2, <2>3, <3>3, <3>4 DEF Owned
    <3>7. InBounds'
      BY <2>3, <3>3, <3>4 DEF InBounds
    <3> QED BY <2>3, <3>5, <3>6, <3>7
  <2> QED BY <2>4, <2>5
<1>5. CASE Free
  <2>1. /\ pc = "free" /\ pc' = "put" /\ heap' = Without(buf) /\ buf' = newbuf /\ cap' = newcap
        /\ want' = 0 /\ newcap' = 0 /\ newbuf' = Null
        /\ UNCHANGED <<len, kind, rest, at, expected, failed>>
    BY <1>5 DEF Free, Over, call
  <2>2. /\ newbuf # Null /\ newbuf # buf /\ newbuf \in Block /\ DOMAIN heap = {buf, newbuf} \ {Null}
        /\ heap[newbuf].size = newcap /\ newcap > cap /\ newcap >= want
    BY <1>0, <2>1 DEF Stage, Owned
  <2>3. DOMAIN heap' = {newbuf} /\ heap'[newbuf] = heap[newbuf]
        /\ heap' = [b \in DOMAIN heap' |-> heap'[b]]
    BY <2>1, <2>2 DEF Without
  <2>4. TypeOK'
    BY <1>0, <2>1, <2>2, <2>3 DEF TypeOK, Steps
  <2>5. Shape' /\ Owned' /\ InBounds'
    <3>1. /\ IsBlock(heap[newbuf])
          /\ DOMAIN heap[newbuf].cells \subseteq 1..heap[newbuf].size
      BY <2>2 DEF Shape, InBounds
    <3>2. Shape'
      BY <2>3, <3>1 DEF Shape, IsBlock
    <3>3. Owned'
      BY <2>1, <2>2, <2>3 DEF Owned
    <3>4. InBounds'
      BY <2>3, <3>1 DEF InBounds
    <3> QED BY <3>2, <3>3, <3>4
  <2>6. Stage'
    <3>1. Need' = Need
      BY <2>1 DEF Need
    <3>2. newcap >= Need
      BY <1>0, <2>1, <2>2 DEF Stage
    <3> QED BY <2>1, <3>1, <3>2 DEF Stage
  <2> QED BY <2>4, <2>5, <2>6
<1> QED BY <1>1, <1>2, <1>3, <1>4, <1>5

LEMMA SafePut ==
  ASSUME Safe, PutSlice \/ ExtendFull \/ Push \/ SetLen \/ Fill
  PROVE  Safe'
<1> USE DEF Safe
<1>0. /\ len \in Nat /\ cap \in Nat /\ len <= cap /\ at \in Nat /\ want \in Nat
      /\ newcap \in Nat /\ pc \in Steps /\ newbuf \in Block \cup {Null}
      /\ (cap = 0 <=> buf = Null) /\ buf \in Block \cup {Null} /\ DOMAIN heap \subseteq Block
      /\ rest \in Seq(Byte) /\ expected \in Seq(Byte) /\ Len(rest) \in Nat
  BY DEF TypeOK
<1>1. newbuf = Null /\ Len(expected) = at + Len(rest) /\ at <= len
  BY DEF Stage, PutSlice, ExtendFull, Reserve, Push, SetLen, Fill
<1>2. CASE PutSlice
  <2>1. /\ pc = "put" /\ kind = "slice" /\ heap' = (IF rest = <<>> THEN heap ELSE Write(buf, len, rest))
        /\ len' = len + Len(rest) /\ rest' = <<>> /\ at' = at + Len(rest) /\ pc' = "idle"
        /\ UNCHANGED <<cap, buf, want, newcap, newbuf, kind, failed, expected>>
    BY <1>2 DEF PutSlice, growing
  <2>2. at = len /\ len + Len(rest) <= cap
    BY <1>0, <2>1 DEF Stage, Need
  <2>3. Shape' /\ Owned' /\ InBounds' /\ DOMAIN heap' = DOMAIN heap
    <3>1. CASE rest = <<>>
      BY <1>1, <2>1, <3>1, MemoryKept
    <3>2. CASE rest # <<>>
      BY <1>0, <1>1, <2>1, <2>2, <3>2, MemoryWritten
    <3> QED BY <3>1, <3>2
  <2>4. TypeOK'
    BY <1>0, <2>1, <2>2, <2>3 DEF TypeOK, Steps
  <2>5. Stage'
    BY <1>0, <1>1, <2>1, <2>2 DEF Stage
  <2> QED BY <2>3, <2>4, <2>5
<1>3. CASE ExtendFull
  <2>1. PICK lower \in 0..(Len(rest) - 1) : Reserve(len + lower + 1)
    BY <1>3 DEF ExtendFull
  <2>2. /\ pc = "extend" /\ len = cap /\ pc' = "grow" /\ want' = len + lower + 1 /\ newcap' = cap
        /\ UNCHANGED <<len, cap, buf, heap, newbuf, kind, rest, at, expected, failed>>
    BY <1>3, <2>1 DEF ExtendFull, Reserve, fields, call
  <2>3. kind = "extend" /\ at = len /\ rest # <<>>
    BY <2>2 DEF Stage
  <2>4. TypeOK'
    BY <1>0, <2>1, <2>2 DEF TypeOK, Steps
  <2>5. Stage'
    BY <1>0, <1>1, <2>1, <2>2, <2>3 DEF Stage, Need
  <2> QED BY <1>1, <2>2, <2>4, <2>5, MemoryKept
<1>4. CASE Push
  <2>1. /\ heap' = Write(buf, len, <<rest[1]>>) /\ len' = len + 1 /\ rest' = Tail(rest)
        /\ at' = at + 1 /\ pc' = (IF Len(rest) = 1 THEN "idle" ELSE "extend")
        /\ UNCHANGED <<cap, buf, want, newcap, newbuf, kind, failed, expected>>
    BY <1>4 DEF Push, growing
  <2>2. kind = "extend" /\ at = len /\ rest # <<>> /\ len + 1 <= cap
    BY <1>0, <1>4 DEF Push, Stage, Need
  <2>3. /\ <<rest[1]>> \in Seq(Byte) /\ Len(<<rest[1]>>) = 1 /\ <<rest[1]>> # <<>>
        /\ Tail(rest) \in Seq(Byte) /\ Len(Tail(rest)) = Len(rest) - 1
        /\ (Len(rest) = 1 <=> Tail(rest) = <<>>)
    BY <1>0, <2>2, FirstAndRest
  <2>4. Shape' /\ Owned' /\ InBounds' /\ DOMAIN heap' = DOMAIN heap
    BY <1>0, <1>1, <2>1, <2>2, <2>3, MemoryWritten
  <2>5. TypeOK'
    BY <1>0, <2>1, <2>2, <2>3, <2>4 DEF TypeOK, Steps
  <2>6. Stage'
    <3>1. /\ kind' = "extend" /\ at' = at + 1 /\ len' = at + 1 /\ newbuf' = Null
          /\ Len(expected') = at' + Len(rest')
      <4> DEFINE t == Tail(rest)
      <4>1. Len(t) = Len(rest) - 1
        BY <2>3
      <4>2. at' = at + 1 /\ len' = at + 1 /\ newbuf' = Null /\ kind' = "extend"
            /\ rest' = t /\ expected' = expected
        BY <1>1, <2>1, <2>2
      <4> HIDE DEF t
      <4> QED BY <1>0, <1>1, <4>1, <4>2
    <3>2. \/ pc' = "idle" /\ rest' = <<>>
          \/ pc' = "extend" /\ rest' # <<>>
      BY <2>1, <2>3
    <3>3. /\ at' <= len'
          /\ kind' # "read" => at' = len'
          /\ newbuf' # Null <=> pc' \in {"copy", "free"}
      BY <1>0, <3>1, <3>2
    <3>4. /\ pc' = "idle" => at' = len' /\ rest' = <<>>
          /\ pc' # "idle" /\ kind' = "extend" => rest' # <<>>
          /\ pc' = "extend" => kind' = "extend"
          /\ pc' \notin {"grow", "copy", "free", "put", "fill"}
      BY <3>1, <3>2
    <3> QED BY <3>1, <3>3, <3>4 DEF Stage
  <2> QED BY <2>4, <2>5, <2>6
<1>5. CASE SetLen
  <2>1. /\ pc = "put" /\ kind = "read" /\ len' = at + Len(rest) /\ pc' = "fill"
        /\ UNCHANGED <<cap, buf, heap, want, newcap, newbuf, kind, rest, at, expected, failed>>
    BY <1>5 DEF SetLen, growing, call
  <2>2. at + Len(rest) <= cap
    BY <1>0, <2>1 DEF Stage, Need
  <2>3. TypeOK'
    BY <1>0, <2>1, <2>2 DEF TypeOK, Steps
  <2>4. Stage'
    BY <1>0, <1>1, <2>1, <2>2 DEF Stage
  <2> QED BY <1>1, <2>1, <2>3, <2>4, MemoryKept
<1>6. CASE Fill
  <2>1. PICK n \in 0..Len(rest) :
          /\ heap' = IF n = 0 THEN heap ELSE Write(buf, at, SubSeq(rest, 1, n))
          /\ failed' = (failed \/ n # Len(rest))
    BY <1>6 DEF Fill
  <2>2. /\ pc = "fill" /\ rest' = <<>> /\ at' = len /\ pc' = "idle"
        /\ UNCHANGED <<len, cap, buf, want, newcap, newbuf, kind, expected>>
    BY <1>6 DEF Fill, fields, growing
  <2>3. len = at + Len(rest)
    BY <2>2 DEF Stage
  <2>4. n \in Nat /\ SubSeq(rest, 1, n) \in Seq(Byte) /\ Len(SubSeq(rest, 1, n)) = n
        /\ at + n <= cap
    BY <1>0, <2>3, SubSeqProperties
  <2>5. Shape' /\ Owned' /\ InBounds' /\ DOMAIN heap' = DOMAIN heap
    <3>1. CASE n = 0
      BY <1>1, <2>1, <2>2, <3>1, MemoryKept
    <3>2. CASE n # 0
      <4>1. heap' = Write(buf, at, SubSeq(rest, 1, n)) /\ SubSeq(rest, 1, n) # <<>>
        BY <2>1, <2>4, <3>2
      <4> QED BY <1>0, <1>1, <2>2, <2>4, <4>1, MemoryWritten
    <3> QED BY <3>1, <3>2
  <2>6. TypeOK'
    <3>1. failed' \in BOOLEAN
      BY <2>1
    <3> QED BY <1>0, <2>2, <2>5, <3>1 DEF TypeOK, Steps
  <2>7. Stage'
    BY <1>0, <1>1, <2>2, <2>3 DEF Stage
  <2> QED BY <2>5, <2>6, <2>7
<1> QED BY <1>2, <1>3, <1>4, <1>5, <1>6

-----------------------------------------------------------------------------
(* The bytes.                                                              *)

LEMMA CallContents ==
  ASSUME Safe, Contents, NEW what \in {"slice", "extend", "read"}, NEW n \in {0, len},
         NEW bytes \in Seq(Byte), Begin(what, n, bytes), UNCHANGED <<buf, heap>>, pc' # "free"
  PROVE  Contents'
<1>1. /\ n \in Nat /\ n <= len
      /\ \A i \in 1..n : expected'[i] = expected[i]
      /\ \A i \in 1..Len(bytes) : expected'[n + i] = bytes[i]
  BY Begins DEF Safe
<1>2. pc = "idle" /\ at = len /\ len \in Nat
  BY DEF Begin, Safe, Stage, TypeOK
<1>3. rest' = bytes /\ at' = n
  BY DEF Begin
<1>4. ASSUME ~failed' PROVE Holds(buf, at)'
  <2>1. CASE n = 0
    BY <1>3, <2>1 DEF Holds
  <2>2. CASE n # 0
    <3>1. n > 0
      BY <1>1, <2>2
    <3>2. ~failed
      BY <1>4, <3>1 DEF Begin
    <3>3. \A i \in 1..n : i \in 1..at
      BY <1>1, <1>2
    <3> QED BY <1>1, <1>3, <3>2, <3>3 DEF Contents, Holds
  <2> QED BY <2>1, <2>2
<1> QED BY <1>1, <1>3, <1>4 DEF Contents

(* As much of what is to come as is written is there as well.              *)
LEMMA WriteContents ==
  ASSUME Safe, Contents, ~failed, NEW bytes \in Seq(Byte), bytes # <<>>,
         Len(bytes) <= Len(rest), \A i \in 1..Len(bytes) : bytes[i] = rest[i],
         at + Len(bytes) <= cap, heap' = Write(buf, at, bytes), UNCHANGED <<buf, expected>>
  PROVE  \A i \in 1..(at + Len(bytes)) :
           i \in DOMAIN heap'[buf].cells /\ heap'[buf].cells[i] = expected[i]
<1>1. /\ at \in Nat /\ cap \in Nat /\ Len(bytes) \in Nat /\ Len(bytes) > 0 /\ Len(rest) \in Nat
      /\ (cap = 0 <=> buf = Null)
  BY DEF Safe, TypeOK
<1>2. buf \in DOMAIN heap
  BY <1>1 DEF Safe, Owned
<1>3. /\ DOMAIN heap'[buf].cells = DOMAIN heap[buf].cells \cup (at + 1)..(at + Len(bytes))
      /\ \A i \in 1..Len(bytes) : heap'[buf].cells[at + i] = bytes[i]
      /\ \A i \in DOMAIN heap[buf].cells : i <= at => heap'[buf].cells[i] = heap[buf].cells[i]
  BY <1>1, <1>2, Writes DEF Safe
<1> TAKE i \in 1..(at + Len(bytes))
<1>4. CASE i <= at
  <2>1. i \in 1..at
    BY <1>1, <1>4
  <2>2. i \in DOMAIN heap[buf].cells /\ heap[buf].cells[i] = expected[i]
    BY <2>1 DEF Contents, Holds
  <2> QED BY <1>3, <1>4, <2>2
<1>5. CASE ~(i <= at)
  <2>1. PICK k \in 1..Len(bytes) : i = at + k
    <3>1. i - at \in 1..Len(bytes) /\ i = at + (i - at)
      BY <1>1, <1>5
    <3> QED BY <3>1
  <2>2. i \in (at + 1)..(at + Len(bytes)) /\ k \in 1..Len(rest)
    BY <1>1, <2>1
  <2>3. heap'[buf].cells[i] = bytes[k] /\ bytes[k] = rest[k]
    BY <1>3, <2>1
  <2>4. expected[i] = rest[k]
    BY <2>1, <2>2 DEF Contents
  <2> QED BY <1>3, <2>2, <2>3, <2>4
<1> QED BY <1>4, <1>5

LEMMA WriteAll ==
  ASSUME Safe, Contents, ~failed, rest # <<>>, at + Len(rest) <= cap,
         heap' = Write(buf, at, rest), UNCHANGED <<buf, expected>>
  PROVE  \A i \in 1..(at + Len(rest)) :
           i \in DOMAIN heap'[buf].cells /\ heap'[buf].cells[i] = expected[i]
<1>1. rest \in Seq(Byte) /\ Len(rest) \in Nat
  BY DEF Safe, TypeOK
<1>2. Len(rest) <= Len(rest) /\ \A i \in 1..Len(rest) : rest[i] = rest[i]
  BY <1>1
<1> QED BY <1>1, <1>2, WriteContents

LEMMA ContentsStep == ASSUME Safe, Contents, [Next]_vars PROVE Contents'
<1>0. /\ len \in Nat /\ cap \in Nat /\ len <= cap /\ at \in Nat /\ at <= len
      /\ (cap = 0 <=> buf = Null) /\ buf \in Block \cup {Null}
      /\ rest \in Seq(Byte) /\ expected \in Seq(Byte) /\ Len(rest) \in Nat
  BY DEF Safe, TypeOK, Stage
<1>1. at > 0 => buf # Null /\ buf \in DOMAIN heap
  BY <1>0 DEF Safe, Owned
<1>2. ASSUME NEW bytes \in Bytes, PushSlice(bytes) PROVE Contents'
  <2>1. pc' # "free" /\ UNCHANGED <<buf, heap>> /\ Begin("slice", len, bytes)
    BY <1>2 DEF PushSlice, Reserve, fields
  <2> QED BY <2>1, BytesAreSequences, CallContents
<1>3. ASSUME NEW bytes \in Seq(Byte), CopySlice(bytes) PROVE Contents'
  <2>1. pc' # "free" /\ UNCHANGED <<buf, heap>> /\ Begin("slice", 0, bytes)
    BY <1>3 DEF CopySlice, Reserve
  <2> QED BY <2>1, CallContents
<1>4. ASSUME NEW bytes \in Bytes, Extend(bytes) PROVE Contents'
  <2>1. pc' # "free" /\ UNCHANGED <<buf, heap>> /\ Begin("extend", len, bytes)
    BY <1>4 DEF Extend, fields
  <2> QED BY <2>1, BytesAreSequences, CallContents
<1>5. ASSUME NEW bytes \in Bytes, NEW n \in 0..MaxLen, ReadInto(n, bytes) PROVE Contents'
  <2>1. pc' # "free" /\ UNCHANGED <<buf, heap>> /\ Begin("read", n, bytes) /\ n \in {0, len}
    BY <1>5 DEF ReadInto, Reserve, fields
  <2> QED BY <2>1, BytesAreSequences, CallContents
<1>6. ASSUME NEW n \in 0..MaxLen, ReserveLen(n) PROVE Contents'
  <2>1. pc' # "free" /\ UNCHANGED <<buf, heap>> /\ Begin("slice", len, <<>>)
    BY <1>6 DEF ReserveLen, Reserve, fields
  <2>2. <<>> \in Seq(Byte)
    OBVIOUS
  <2> QED BY <2>1, <2>2, CallContents
<1>7. CASE Clear
  <2>1. <<>> \in Seq(Byte)
    OBVIOUS
  <2> QED BY <1>3, <1>7, <2>1 DEF Clear
<1>8. CASE ClearBuffer
  <2>1. rest' = <<>> /\ at' = 0 /\ pc' = "idle"
    BY <1>8 DEF ClearBuffer, Begin
  <2> QED BY <2>1 DEF Contents, Holds
<1>9. CASE Double \/ Enough \/ ExtendFull \/ SetLen
  <2>1. UNCHANGED <<buf, heap, rest, at, expected, failed>> /\ pc' # "free"
    BY <1>9 DEF Double, Enough, ExtendFull, SetLen, Reserve, fields, call
  <2> QED BY <2>1 DEF Contents, Holds
<1>10. CASE Alloc
  <2>1. PICK b \in Block \ DOMAIN heap :
          heap' = [c \in DOMAIN heap \cup {b} |-> IF c = b THEN Fresh(newcap) ELSE heap[c]]
    BY <1>10 DEF Alloc
  <2>2. pc' = "copy" /\ UNCHANGED <<buf, rest, at, expected, failed>>
    BY <1>10 DEF Alloc, fields, call
  <2>3. at > 0 => heap'[buf] = heap[buf]
    BY <1>1, <2>1
  <2>4. ASSUME ~failed PROVE Holds(buf, at)'
    <3>1. CASE at > 0
      BY <2>2, <2>3, <2>4, <3>1 DEF Contents, Holds
    <3>2. CASE ~(at > 0)
      BY <1>0, <2>2, <3>2 DEF Holds
    <3> QED BY <3>1, <3>2
  <2> QED BY <2>2, <2>4 DEF Contents
<1>11. CASE Copy
  <2>1. pc = "copy" /\ pc' = "free" /\ UNCHANGED <<buf, newbuf, rest, at, expected, failed>>
    BY <1>11 DEF Copy, fields, growing, call
  <2>2. newbuf # buf /\ newbuf \in DOMAIN heap
    BY <2>1 DEF Safe, Stage, Owned
  <2>3. ASSUME ~failed PROVE Holds(buf, at)' /\ Holds(newbuf, at)'
    <3>1. CASE at = 0
      BY <2>1, <3>1 DEF Holds
    <3>2. CASE at # 0
      <4> DEFINE copied == [i \in DOMAIN heap[buf].cells \cap 1..len |-> heap[buf].cells[i]]
      <4>1. at > 0 /\ len # 0
        BY <1>0, <3>2
      <4>2. heap' = [heap EXCEPT ![newbuf].cells = copied]
        BY <1>11, <4>1 DEF Copy
      <4>3. heap[newbuf] = [size |-> heap[newbuf].size, cells |-> heap[newbuf].cells]
            /\ heap = [b \in DOMAIN heap |-> heap[b]]
        BY <2>2 DEF Safe, Shape, IsBlock
      <4>4. heap'[newbuf].cells = copied /\ heap'[buf] = heap[buf]
        <5> HIDE DEF copied
        <5> QED BY <1>1, <2>2, <4>1, <4>2, <4>3
      <4>5. Holds(buf, at)
        BY <2>3 DEF Contents
      <4>6. \A i \in 1..at : i \in 1..len
        BY <1>0
      <4> QED BY <2>1, <4>4, <4>5, <4>6 DEF Holds
    <3> QED BY <3>1, <3>2
  <2> QED BY <2>1, <2>3 DEF Contents
<1>12. CASE Free
  <2>1. /\ pc = "free" /\ pc' = "put" /\ heap' = Without(buf) /\ buf' = newbuf
        /\ UNCHANGED <<rest, at, expected, failed>>
    BY <1>12 DEF Free, call
  <2>2. newbuf # buf /\ newbuf \in DOMAIN heap
    BY <2>1 DEF Safe, Stage, Owned
  <2>3. heap'[newbuf] = heap[newbuf]
    BY <2>1, <2>2 DEF Without
  <2> QED BY <2>1, <2>3 DEF Contents, Holds
<1>13. CASE PutSlice
  <2>1. /\ pc = "put" /\ kind = "slice" /\ heap' = (IF rest = <<>> THEN heap ELSE Write(buf, len, rest))
        /\ rest' = <<>> /\ at' = at + Len(rest) /\ pc' = "idle"
        /\ UNCHANGED <<buf, failed, expected>>
    BY <1>13 DEF PutSlice
  <2>2. at = len /\ at + Len(rest) <= cap
    BY <1>0, <2>1 DEF Safe, Stage, Need
  <2>3. ASSUME ~failed PROVE Holds(buf, at)'
    <3>1. CASE rest = <<>>
      <4>1. heap' = heap /\ at' = at
        BY <1>0, <2>1, <3>1
      <4> QED BY <2>1, <2>3, <4>1 DEF Contents, Holds
    <3>2. CASE rest # <<>>
      <4>1. heap' = Write(buf, at, rest)
        BY <2>1, <2>2, <3>2
      <4>2. \A i \in 1..(at + Len(rest)) :
              i \in DOMAIN heap'[buf].cells /\ heap'[buf].cells[i] = expected[i]
        BY <2>1, <2>2, <2>3, <3>2, <4>1, WriteAll
      <4> QED BY <2>1, <4>2 DEF Holds
    <3> QED BY <3>1, <3>2
  <2> QED BY <2>1, <2>3 DEF Contents
<1>14. CASE Push
  <2>1. /\ heap' = Write(buf, len, <<rest[1]>>) /\ rest' = Tail(rest) /\ at' = at + 1
        /\ pc' \in {"idle", "extend"} /\ UNCHANGED <<buf, failed, expected>>
    BY <1>14 DEF Push
  <2>2. at = len /\ rest # <<>> /\ at + 1 <= cap
    BY <1>0, <1>14 DEF Push, Safe, Stage, Need
  <2>3. /\ <<rest[1]>> \in Seq(Byte) /\ Len(<<rest[1]>>) = 1 /\ <<rest[1]>> # <<>>
        /\ <<rest[1]>>[1] = rest[1]
        /\ Len(Tail(rest)) = Len(rest) - 1
        /\ \A i \in 1..Len(Tail(rest)) : Tail(rest)[i] = rest[i + 1]
    BY <1>0, <2>2, FirstAndRest
  <2>4. Len(rest) >= 1
    BY <1>0, <2>2
  <2>5. ASSUME ~failed PROVE Holds(buf, at)'
    <3> DEFINE one == <<rest[1]>>
    <3>1. one \in Seq(Byte) /\ Len(one) = 1 /\ one # <<>> /\ one[1] = rest[1]
          /\ heap' = Write(buf, at, one)
      BY <2>1, <2>2, <2>3
    <3> HIDE DEF one
    <3>2. Len(one) <= Len(rest) /\ (\A i \in 1..Len(one) : one[i] = rest[i])
          /\ at + Len(one) <= cap
      BY <2>2, <2>4, <3>1
    <3>3. \A i \in 1..(at + Len(one)) :
            i \in DOMAIN heap'[buf].cells /\ heap'[buf].cells[i] = expected[i]
      BY <2>1, <2>5, <3>1, <3>2, WriteContents
    <3> QED BY <2>1, <3>1, <3>3 DEF Holds
  <2>6. \A i \in 1..Len(rest') : expected'[at' + i] = rest'[i]
    <3> DEFINE t == Tail(rest)
    <3>1. rest' = t /\ Len(t) = Len(rest) - 1 /\ \A i \in 1..Len(t) : t[i] = rest[i + 1]
      BY <2>1, <2>3
    <3> HIDE DEF t
    <3>2. SUFFICES ASSUME NEW i \in 1..Len(t)
                   PROVE  expected[(at + 1) + i] = t[i]
      BY <2>1, <3>1
    <3>3. i + 1 \in 1..Len(rest) /\ (at + 1) + i = at + (i + 1)
      BY <1>0, <3>1
    <3>4. expected[at + (i + 1)] = rest[i + 1]
      BY <3>3 DEF Contents
    <3> QED BY <3>1, <3>3, <3>4
  <2> QED BY <2>1, <2>5, <2>6 DEF Contents
<1>15. CASE Fill
  <2>1. PICK n \in 0..Len(rest) :
          /\ heap' = IF n = 0 THEN heap ELSE Write(buf, at, SubSeq(rest, 1, n))
          /\ failed' = (failed \/ n # Len(rest))
    BY <1>15 DEF Fill
  <2>2. /\ pc = "fill" /\ rest' = <<>> /\ at' = len /\ pc' = "idle" /\ UNCHANGED <<buf, expected>>
    BY <1>15 DEF Fill, fields
  <2>3. len = at + Len(rest)
    BY <2>2 DEF Safe, Stage
  <2>4. ASSUME ~failed' PROVE Holds(buf, at)'
    <3>1. ~failed /\ n = Len(rest)
      BY <2>1, <2>4
    <3>2. CASE rest = <<>>
      <4>1. heap' = heap /\ at' = at
        BY <1>0, <2>1, <2>2, <2>3, <3>1, <3>2
      <4> QED BY <2>2, <3>1, <4>1 DEF Contents, Holds
    <3>3. CASE rest # <<>>
      <4>1. SubSeq(rest, 1, n) = rest
        BY <1>0, <3>1, SubSeqFull
      <4>2. heap' = Write(buf, at, rest)
        <5>1. n # 0
          BY <1>0, <3>1, <3>3
        <5> QED BY <2>1, <4>1, <5>1
      <4>3. \A i \in 1..(at + Len(rest)) :
              i \in DOMAIN heap'[buf].cells /\ heap'[buf].cells[i] = expected[i]
        <5>1. at + Len(rest) <= cap
          BY <1>0, <2>3
        <5> QED BY <2>2, <3>1, <3>3, <4>2, <5>1, WriteAll
      <4> QED BY <2>2, <2>3, <4>3 DEF Holds
    <3> QED BY <3>2, <3>3
  <2> QED BY <2>2, <2>4 DEF Contents
<1>16. CASE UNCHANGED vars
  BY <1>16 DEF Contents, Holds, vars, fields, growing, call
<1>17. CASE Step
  BY <1>9, <1>10, <1>11, <1>12, <1>13, <1>14, <1>15, <1>17 DEF Step
<1> QED
  <2>1. \A bytes \in Bytes : CopySlice(bytes) => Contents'
    BY <1>3, BytesAreSequences
  <2> QED BY <1>2, <1>4, <1>5, <1>6, <1>7, <1>8, <1>16, <1>17, <2>1 DEF Next

-----------------------------------------------------------------------------
LEMMA SafeStep == ASSUME Safe, [Next]_vars PROVE Safe'
<1>1. CASE UNCHANGED vars
  <2>1. UNCHANGED <<len, cap, buf, heap, pc, want, newcap, newbuf, kind, rest, at, failed,
                    expected>>
    BY <1>1 DEF vars, fields, growing, call
  <2>2. TypeOK'
    BY <2>1 DEF Safe, TypeOK
  <2>3. Shape' /\ Owned' /\ InBounds'
    BY <2>1 DEF Safe, Shape, IsBlock, Owned, InBounds
  <2>4. Stage'
    BY <2>1 DEF Safe, Stage, Need
  <2> QED BY <2>2, <2>3, <2>4 DEF Safe
<1>2. CASE Step
  BY <1>2, SafeGrow, SafePut DEF Step
<1>3. ASSUME NEW bytes \in Bytes,
             \/ PushSlice(bytes) \/ CopySlice(bytes) \/ Extend(bytes)
             \/ \E n \in 0..MaxLen : ReadInto(n, bytes)
      PROVE  Safe'
  <2>1. bytes \in Seq(Byte)
    BY BytesAreSequences
  <2> QED BY <1>3, <2>1, SafeCalls
<1>4. CASE (\E n \in 0..MaxLen : ReserveLen(n)) \/ Clear
  <2>1. <<>> \in Seq(Byte)
    OBVIOUS
  <2> QED BY <1>4, <2>1, SafeCalls DEF Clear
<1>5. CASE ClearBuffer
  BY <1>5, SafeClearBuffer
<1> QED BY <1>1, <1>2, <1>3, <1>4, <1>5 DEF Next

LEMMA ContentsInit == Init => Contents
BY DEF Init, Contents, Holds

LEMMA Invariant == Spec => [](Safe /\ Contents)
<1>1. Init => Safe /\ Contents
  BY SafeInit, ContentsInit
<1>2. Safe /\ Contents /\ [Next]_vars => (Safe /\ Contents)'
  BY SafeStep, ContentsStep
<1> QED BY <1>1, <1>2, PTL DEF Spec

(* The fields of a buffer keep their types, len stays within the capacity, *)
(* and buf is null just if the capacity is 0 (is_sane, buffer.rs), through *)
(* all calls and between the steps of a reallocation.                      *)
THEOREM TypeCorrect == Spec => []TypeOK
BY Invariant, PTL DEF Safe

(* The memory in use is the block of the buffer, with the size that free   *)
(* will be given, and during reserve_len the new one.                      *)
THEOREM NothingLeaks == Spec => []Owned
BY Invariant, PTL DEF Safe

(* No write of buffer.rs and no read into a buffer goes behind its block.  *)
THEOREM NeverOutOfBounds == Spec => []InBounds
BY Invariant, PTL DEF Safe

(* Between calls a buffer holds the bytes that the calls gave it, unless a *)
(* read failed.                                                            *)
THEOREM BytesKept == Spec => []KeepsBytes
<1>1. Safe /\ Contents => KeepsBytes
  <2> SUFFICES ASSUME Safe, Contents, pc = "idle", ~failed
               PROVE  /\ len = Len(expected)
                      /\ \A i \in 1..len : /\ i \in DOMAIN heap[buf].cells
                                           /\ heap[buf].cells[i] = expected[i]
    BY DEF KeepsBytes
  <2>1. at = len /\ rest = <<>> /\ Len(expected) = at + Len(rest) /\ len \in Nat
    BY DEF Safe, Stage, TypeOK
  <2>2. len = Len(expected)
    BY <2>1
  <2> QED BY <2>1, <2>2 DEF Contents, Holds
<1> QED BY <1>1, Invariant, PTL

(* When reserve_len allocates it at least doubles the capacity, to less    *)
(* than twice of what was asked for.                                       *)
THEOREM GrowsByDoubling == Spec => GrowthBounded
<1> DEFINE Bounded == cap' # cap => \/ cap' >= 2 * cap /\ cap' >= want /\ cap' < 2 * want
                                    \/ cap' = 0 /\ len' = 0
<1>1. ASSUME Safe, [Next]_vars PROVE [Bounded]_vars
  <2>1. CASE Free
    <3>1. cap' = newcap
      BY <2>1 DEF Free
    <3>2. newcap >= 2 * cap /\ newcap >= want /\ newcap < 2 * want
      BY <1>1, <2>1 DEF Free, Safe, Stage
    <3> QED BY <3>1, <3>2
  <2>2. CASE ClearBuffer
    BY <2>2 DEF ClearBuffer
  <2>3. CASE ~Free /\ ~ClearBuffer
    <3>1. cap' = cap
      BY <1>1, <2>3 DEF Next, Step, PushSlice, CopySlice, Extend, ReadInto, ReserveLen, Clear,
                        Double, Enough, Alloc, Copy, PutSlice, ExtendFull, Push, SetLen, Fill,
                        fields, vars
    <3> QED BY <3>1
  <2> QED BY <2>1, <2>2, <2>3
<1>2. Spec => []Safe
  BY Invariant, PTL
<1> QED BY <1>1, <1>2, PTL DEF Spec, GrowthBounded

-----------------------------------------------------------------------------
(* DynamicTable.                                                           *)

(* Lemmas about numbers and sequences.                                     *)

(* A set of numbers that has one has a least one.                          *)
LEMMA HasLeast ==
  ASSUME NEW S \in SUBSET Nat, S # {}
  PROVE  \E i \in S : \A j \in S : i <= j
<1> DEFINE less == {p \in Nat \X Nat : p[1] < p[2]}
<1>1. IsWellFoundedOn(OpToRel(<, Nat), Nat)
  BY NatLessThanWellFounded
<1>2. OpToRel(<, Nat) = less
  BY DEF OpToRel
<1>3. PICK i \in S : \A j \in S : ~(<<j, i>> \in less)
  <2> HIDE DEF less
  <2> QED
    BY <1>1, <1>2, WFMin
<1>4. ASSUME NEW j \in S PROVE i <= j
  <2>1. ~(j < i) /\ i \in Nat /\ j \in Nat
    BY <1>3
  <2>2. QED
    BY <2>1
<1>5. QED
  BY <1>3, <1>4

LEMMA JoinAt ==
  ASSUME NEW S, NEW s \in Seq(S), NEW t \in Seq(S)
  PROVE  /\ s \o t \in Seq(S)
         /\ Len(s) \in Nat /\ Len(t) \in Nat /\ Len(s \o t) = Len(s) + Len(t)
         /\ \A i \in 1..Len(s) : (s \o t)[i] = s[i]
         /\ \A i \in 1..Len(t) : (s \o t)[Len(s) + i] = t[i]
<1>1. Len(s) \in Nat /\ Len(t) \in Nat
  BY LenProperties
<1>2. /\ s \o t \in Seq(S)
      /\ Len(s \o t) = Len(s) + Len(t)
      /\ \A i \in 1..(Len(s) + Len(t)) :
            (s \o t)[i] = IF i <= Len(s) THEN s[i] ELSE t[i - Len(s)]
  BY ConcatProperties
<1>3. \A i \in 1..Len(s) : i \in 1..(Len(s) + Len(t)) /\ i <= Len(s)
  BY <1>1
<1>4. \A i \in 1..Len(t) : /\ Len(s) + i \in 1..(Len(s) + Len(t))
                           /\ ~(Len(s) + i <= Len(s)) /\ (Len(s) + i) - Len(s) = i
  BY <1>1
<1>5. QED
  BY <1>1, <1>2, <1>3, <1>4

(* The rest of a sequence.                                                 *)
LEMMA Rest ==
  ASSUME NEW S, NEW s \in Seq(S), NEW p \in 0..Len(s)
  PROVE  LET t == SubSeq(s, p + 1, Len(s))
         IN  /\ t \in Seq(S) /\ Len(t) = Len(s) - p
             /\ \A i \in 1..(Len(s) - p) : t[i] = s[p + i]
<1>1. Len(s) \in Nat /\ \A i \in 1..Len(s) : s[i] \in S
  BY LenProperties, ElementOfSeq
<1>2. p + 1 \in Int /\ Len(s) \in Int /\ \A i \in (p + 1)..Len(s) : s[i] \in S
  BY <1>1
<1>3. /\ SubSeq(s, p + 1, Len(s)) \in Seq(S)
      /\ Len(SubSeq(s, p + 1, Len(s))) =
           IF p + 1 <= Len(s) THEN Len(s) - (p + 1) + 1 ELSE 0
      /\ \A i \in 1..(Len(s) - (p + 1) + 1) : SubSeq(s, p + 1, Len(s))[i] = s[(p + 1) + i - 1]
  BY <1>2, SubSeqProperties
<1>4. /\ Len(s) - (p + 1) + 1 = Len(s) - p
      /\ ~(p + 1 <= Len(s)) => Len(s) - p = 0
      /\ \A i \in 1..(Len(s) - p) : (p + 1) + i - 1 = p + i
  BY <1>1
<1>5. QED
  BY <1>3, <1>4

-----------------------------------------------------------------------------
(* How an entry is encoded.                                                *)

EntrySize(h) == Len(h.name) + Len(h.value) + 32

Code(h) == Encoded(h.name, h.value, EntrySize(h))

SizeCell(n, i) == [byte |-> "u64", of |-> n, at |-> i]

TextCell(b) == [byte |-> b, of |-> 0, at |-> 0]

LEMMA HeaderTypes ==
  ASSUME NEW h \in Header
  PROVE  /\ h.name \in Names /\ h.value \in Values
         /\ h.name \in Seq(Range(h.name)) /\ h.value \in Seq(Range(h.value))
         /\ Len(h.name) \in Nat /\ Len(h.value) \in Nat
         /\ EntrySize(h) \in Nat /\ EntrySize(h) >= 32
<1>1. h.name \in Names /\ h.value \in Values
  BY DEF Header
<1>2. h.name \in Seq(Range(h.name)) /\ h.value \in Seq(Range(h.value))
  BY <1>1, TableAssumption
<1>3. Len(h.name) \in Nat /\ Len(h.value) \in Nat
  BY <1>2, LenProperties
<1>4. \A x, y \in Nat : x + y + 32 \in Nat /\ x + y + 32 >= 32
  OBVIOUS
<1>5. EntrySize(h) \in Nat /\ EntrySize(h) >= 32
  BY <1>3, <1>4 DEF EntrySize
<1>6. QED
  BY <1>1, <1>2, <1>3, <1>5

LEMMA U64Type ==
  ASSUME NEW n \in Nat
  PROVE  /\ U64(n) \in Seq(Cell) /\ Len(U64(n)) = 8
         /\ \A i \in 1..8 : U64(n)[i] = SizeCell(n, i)
<1>1. ASSUME NEW i \in 1..8 PROVE SizeCell(n, i) \in Cell
  BY DEF SizeCell, Cell
<1>2. U64(n) = [i \in 1..8 |-> SizeCell(n, i)]
  BY DEF U64, SizeCell
<1>3. [i \in 1..8 |-> SizeCell(n, i)] \in Seq(Cell)
  BY <1>1
<1>4. QED
  BY <1>2, <1>3

LEMMA TextType ==
  ASSUME NEW s \in Names \cup Values
  PROVE  /\ Text(s) \in Seq(Cell) /\ Len(Text(s)) = Len(s) /\ Len(s) \in Nat
         /\ \A i \in 1..Len(s) : Text(s)[i] = TextCell(s[i])
<1>1. s \in Seq(Range(s)) /\ Len(s) \in Nat
  BY TableAssumption, LenProperties
<1>2. ASSUME NEW i \in 1..Len(s) PROVE TextCell(s[i]) \in Cell
  <2>1. s[i] \in Range(s)
    BY <1>1, ElementOfSeq
  <2>2. s[i] \in UNION {Range(x) : x \in Names \cup Values}
    BY <2>1
  <2>3. QED
    BY <2>2 DEF TextCell, Cell
<1>3. Text(s) = [i \in 1..Len(s) |-> TextCell(s[i])]
  BY DEF Text, TextCell
<1>4. [i \in 1..Len(s) |-> TextCell(s[i])] \in Seq(Cell)
  BY <1>1, <1>2
<1>5. QED
  BY <1>1, <1>3, <1>4

IsJoined(r, s, t) ==
  /\ r \in Seq(Cell)
  /\ Len(s) \in Nat /\ Len(t) \in Nat /\ Len(r) = Len(s) + Len(t)
  /\ \A i \in 1..Len(s) : r[i] = s[i]
  /\ \A i \in 1..Len(t) : r[Len(s) + i] = t[i]

LEMMA JoinedCells ==
  ASSUME NEW s \in Seq(Cell), NEW t \in Seq(Cell)
  PROVE  IsJoined(s \o t, s, t)
BY JoinAt DEF IsJoined

(* The parts of a code, and where they are.                                *)
LEMMA CodeParts ==
  ASSUME NEW h \in Header
  PROVE  LET n == Len(h.name)
             v == Len(h.value)
         IN  /\ Code(h) \in Seq(Cell) /\ Len(Code(h)) = EntrySize(h)
             /\ \A i \in 1..8 : Code(h)[i] = SizeCell(EntrySize(h), i)
             /\ \A i \in 1..8 : Code(h)[8 + i] = SizeCell(n, i)
             /\ \A i \in 1..8 : Code(h)[16 + i] = SizeCell(v, i)
             /\ \A i \in 1..n : Code(h)[24 + i] = TextCell(h.name[i])
             /\ \A i \in 1..v : Code(h)[24 + n + i] = TextCell(h.value[i])
             /\ \A i \in 1..8 : Code(h)[24 + n + v + i] = SizeCell(EntrySize(h), i)
<1> DEFINE n == Len(h.name)
           v == Len(h.value)
           z == EntrySize(h)
<1>1. n \in Nat /\ v \in Nat /\ z \in Nat /\ z = n + v + 32
  BY HeaderTypes DEF EntrySize
<1>2. PICK a, b, c, d, e : /\ a = U64(z) /\ b = U64(n) /\ c = U64(v)
                           /\ d = Text(h.name) /\ e = Text(h.value)
  OBVIOUS
<1>3. Code(h) = ((((a \o b) \o c) \o d) \o e) \o a
  BY <1>2 DEF Code, Encoded
<1> HIDE DEF n, v, z
<1>4. /\ a \in Seq(Cell) /\ Len(a) = 8 /\ \A i \in 1..8 : a[i] = SizeCell(z, i)
      /\ b \in Seq(Cell) /\ Len(b) = 8 /\ \A i \in 1..8 : b[i] = SizeCell(n, i)
      /\ c \in Seq(Cell) /\ Len(c) = 8 /\ \A i \in 1..8 : c[i] = SizeCell(v, i)
  BY <1>1, <1>2, U64Type
<1>5. /\ d \in Seq(Cell) /\ Len(d) = n /\ \A i \in 1..n : d[i] = TextCell(h.name[i])
      /\ e \in Seq(Cell) /\ Len(e) = v /\ \A i \in 1..v : e[i] = TextCell(h.value[i])
  BY <1>2, HeaderTypes, TextType DEF n, v
<1>6. PICK ab : ab = a \o b
  OBVIOUS
<1>7. /\ ab \in Seq(Cell) /\ Len(ab) = 16
      /\ \A i \in 1..8 : ab[i] = a[i] /\ ab[8 + i] = b[i]
  <2>1. a \in Seq(Cell) /\ b \in Seq(Cell)
    BY <1>4
  <2>2. IsJoined(ab, a, b)
    BY <1>6, <2>1, JoinedCells
  <2>3. QED
    BY <1>4, <2>2 DEF IsJoined
<1>8. PICK abc : abc = ab \o c
  OBVIOUS
<1>9. /\ abc \in Seq(Cell) /\ Len(abc) = 24
      /\ \A i \in 1..16 : abc[i] = ab[i]
      /\ \A i \in 1..8 : abc[16 + i] = c[i]
  <2>1. ab \in Seq(Cell) /\ c \in Seq(Cell)
    BY <1>4, <1>7
  <2>2. IsJoined(abc, ab, c)
    BY <1>8, <2>1, JoinedCells
  <2>3. QED
    BY <1>4, <1>7, <2>2 DEF IsJoined
<1>10. PICK abcd : abcd = abc \o d
  OBVIOUS
<1>11. /\ abcd \in Seq(Cell) /\ Len(abcd) = 24 + n
       /\ \A i \in 1..24 : abcd[i] = abc[i]
       /\ \A i \in 1..n : abcd[24 + i] = d[i]
  <2>1. abc \in Seq(Cell) /\ d \in Seq(Cell)
    BY <1>1, <1>5, <1>9
  <2>2. IsJoined(abcd, abc, d)
    BY <1>10, <2>1, JoinedCells
  <2>3. QED
    BY <1>1, <1>5, <1>9, <2>2 DEF IsJoined
<1>12. PICK abcde : abcde = abcd \o e
  OBVIOUS
<1>13. /\ abcde \in Seq(Cell) /\ Len(abcde) = 24 + n + v
       /\ \A i \in 1..(24 + n) : abcde[i] = abcd[i]
       /\ \A i \in 1..v : abcde[24 + n + i] = e[i]
  <2>1. abcd \in Seq(Cell) /\ e \in Seq(Cell)
    BY <1>1, <1>5, <1>11
  <2>2. IsJoined(abcde, abcd, e)
    BY <1>12, <2>1, JoinedCells
  <2>3. QED
    BY <1>1, <1>5, <1>11, <2>2 DEF IsJoined
<1>14. /\ Code(h) \in Seq(Cell) /\ Len(Code(h)) = 24 + n + v + 8
       /\ \A i \in 1..(24 + n + v) : Code(h)[i] = abcde[i]
       /\ \A i \in 1..8 : Code(h)[24 + n + v + i] = a[i]
  <2>1. Code(h) = abcde \o a
    BY <1>3, <1>6, <1>8, <1>10, <1>12
  <2>2. IsJoined(abcde \o a, abcde, a)
    BY <1>4, <1>13, JoinedCells
  <2>3. QED
    BY <1>1, <1>4, <1>13, <2>1, <2>2 DEF IsJoined
<1>15. /\ \A i \in 1..24 : i \in 1..(24 + n) /\ i \in 1..(24 + n + v)
       /\ \A i \in 1..n : 24 + i \in 1..(24 + n) /\ 24 + i \in 1..(24 + n + v)
       /\ \A i \in 1..v : 24 + n + i \in 1..(24 + n + v)
  BY <1>1
<1>16. \A i \in 1..24 : Code(h)[i] = abc[i]
  BY <1>11, <1>13, <1>14, <1>15
<1>17. \A i \in 1..8 : /\ i \in 1..16 /\ 8 + i \in 1..16 /\ i \in 1..24 /\ 8 + i \in 1..24
                       /\ 16 + i \in 1..24
  OBVIOUS
<1>18. \A i \in 1..8 : /\ Code(h)[i] = SizeCell(z, i) /\ Code(h)[8 + i] = SizeCell(n, i)
                       /\ Code(h)[16 + i] = SizeCell(v, i)
  BY <1>4, <1>7, <1>9, <1>16, <1>17, SMTT(30)
<1>19. \A i \in 1..n : Code(h)[24 + i] = TextCell(h.name[i])
  <2>1. ASSUME NEW i \in 1..n PROVE Code(h)[24 + i] = TextCell(h.name[i])
    <3>1. 24 + i \in 1..(24 + n) /\ 24 + i \in 1..(24 + n + v)
      BY <1>15
    <3>2. Code(h)[24 + i] = abcde[24 + i] /\ abcde[24 + i] = abcd[24 + i]
      BY <1>13, <1>14, <3>1
    <3>3. QED
      BY <1>5, <1>11, <3>2
  <2>2. QED
    BY <2>1
<1>20. \A i \in 1..v : Code(h)[24 + n + i] = TextCell(h.value[i])
  BY <1>5, <1>13, <1>14, <1>15
<1>21. \A i \in 1..8 : Code(h)[24 + n + v + i] = SizeCell(z, i)
  BY <1>4, <1>14
<1>22. Len(Code(h)) = z
  BY <1>1, <1>14
<1>23. QED
  BY <1>14, <1>18, <1>19, <1>20, <1>21, <1>22 DEF n, v, z

-----------------------------------------------------------------------------
(* What is read from a ring that holds the codes of a list of headers, one *)
(* behind the other, the oldest first, the k-th before position pos[k].    *)

At(ring, p, e) ==
  /\ p + Len(e) <= Len(ring)
  /\ \A j \in 1..Len(e) : ring[p + j] = e[j]

Keeps(ring, h, pos) ==
  /\ ring \in Seq(Cell) /\ h \in Seq(Header)
  /\ \A k \in 0..Len(h) : pos[k] \in Nat
  /\ pos[0] = 0 /\ pos[Len(h)] = Len(ring)
  /\ \A k \in 1..Len(h) : /\ pos[k] = pos[k - 1] + EntrySize(h[k])
                          /\ At(ring, pos[k - 1], Code(h[k]))

LEMMA ReadSize ==
  ASSUME NEW ring \in Seq(Cell), NEW o \in Nat, NEW n \in Nat, o + 8 <= Len(ring),
         \A i \in 1..8 : ring[o + i] = SizeCell(n, i)
  PROVE  get_size(ring, o) = n
<1>1. Len(ring) \in Nat /\ DOMAIN ring = 1..Len(ring)
  BY LenProperties
<1>2. {o + 1, o + 8} \subseteq DOMAIN ring
  BY <1>1
<1>3. ring[o + 1].of = n
  <2>1. 1 \in 1..8
    OBVIOUS
  <2>2. ring[o + 1] = SizeCell(n, 1)
    BY <2>1
  <2>3. QED
    BY <2>2 DEF SizeCell
<1>4. SubSeq(ring, o + 1, o + 8) = U64(n)
  <2>1. \A i \in (o + 1)..(o + 8) : i \in 1..Len(ring)
    BY <1>1
  <2>2. \A i \in (o + 1)..(o + 8) : ring[i] \in Cell
    BY <2>1, ElementOfSeq
  <2>3. o + 1 \in Int /\ o + 8 \in Int
    OBVIOUS
  <2>4. /\ SubSeq(ring, o + 1, o + 8) \in Seq(Cell)
        /\ Len(SubSeq(ring, o + 1, o + 8)) = IF o + 1 <= o + 8 THEN (o + 8) - (o + 1) + 1 ELSE 0
        /\ \A i \in 1..((o + 8) - (o + 1) + 1) :
              SubSeq(ring, o + 1, o + 8)[i] = ring[(o + 1) + i - 1]
    BY <2>2, <2>3, SubSeqProperties
  <2>5. /\ (o + 8) - (o + 1) + 1 = 8 /\ o + 1 <= o + 8
        /\ \A i \in 1..8 : (o + 1) + i - 1 = o + i
    OBVIOUS
  <2>6. /\ Len(SubSeq(ring, o + 1, o + 8)) = 8
        /\ \A i \in 1..8 : SubSeq(ring, o + 1, o + 8)[i] = U64(n)[i]
    BY <2>4, <2>5, U64Type
  <2>7. QED
    BY <2>4, <2>6, U64Type, SeqEqual, ZenonT(30)
<1>5. QED
  BY <1>2, <1>3, <1>4 DEF get_size

LEMMA ReadText ==
  ASSUME NEW ring \in Seq(Cell), NEW o \in Nat, NEW s \in Names \cup Values,
         o + Len(s) <= Len(ring), \A i \in 1..Len(s) : ring[o + i] = TextCell(s[i])
  PROVE  Copied(ring, o, Len(s)) = s
<1>1. Len(ring) \in Nat /\ DOMAIN ring = 1..Len(ring)
  BY LenProperties
<1>2. s \in Seq(Range(s))
  BY TableAssumption
<1>3. Len(s) \in Nat /\ s \in [1..Len(s) -> Range(s)]
  BY <1>2, LenProperties
<1>4. ASSUME NEW i \in 1..Len(s)
      PROVE  (IF o + i \in DOMAIN ring THEN ring[o + i].byte ELSE "garbage") = s[i]
  <2>1. o + i \in DOMAIN ring
    BY <1>1, <1>3
  <2>2. ring[o + i].byte = s[i]
    <3>1. ring[o + i] = TextCell(s[i])
      OBVIOUS
    <3>2. TextCell(s[i]).byte = s[i]
      BY DEF TextCell
    <3>3. QED
      BY <3>1, <3>2
  <2>3. QED
    BY <2>1, <2>2
<1>5. s = [i \in 1..Len(s) |-> s[i]]
  BY <1>3
<1>6. QED
  BY <1>4, <1>5 DEF Copied

EntryIn(ring, o) ==
  LET name  == get_size(ring, o + 8)
      value == get_size(ring, o + 16)
  IN  [name |-> Copied(ring, o + 24, name), value |-> Copied(ring, o + 24 + name, value)]

LEMMA ReadEntry ==
  ASSUME NEW ring \in Seq(Cell), NEW p \in Nat, NEW h \in Header, At(ring, p, Code(h))
  PROVE  /\ get_size(ring, p) = EntrySize(h)
         /\ get_size(ring, p + EntrySize(h) - 8) = EntrySize(h)
         /\ EntryIn(ring, p) = h
<1> DEFINE n == Len(h.name)
           v == Len(h.value)
           z == EntrySize(h)
<1>1. /\ n \in Nat /\ v \in Nat /\ z \in Nat /\ z = n + v + 32
      /\ h.name \in Names \cup Values /\ h.value \in Names \cup Values
  BY HeaderTypes DEF EntrySize
<1> HIDE DEF n, v, z
<1>2. /\ Len(Code(h)) = z
      /\ \A i \in 1..8 : Code(h)[i] = SizeCell(z, i)
      /\ \A i \in 1..8 : Code(h)[8 + i] = SizeCell(n, i)
      /\ \A i \in 1..8 : Code(h)[16 + i] = SizeCell(v, i)
      /\ \A i \in 1..n : Code(h)[24 + i] = TextCell(h.name[i])
      /\ \A i \in 1..v : Code(h)[24 + n + i] = TextCell(h.value[i])
      /\ \A i \in 1..8 : Code(h)[24 + n + v + i] = SizeCell(z, i)
  BY CodeParts DEF n, v, z
<1>3. p + z <= Len(ring) /\ \A j \in 1..z : ring[p + j] = Code(h)[j]
  BY <1>2 DEF At
<1>4. Len(ring) \in Nat
  BY LenProperties
<1>5. /\ \A i \in 1..8 : /\ i \in 1..z /\ 8 + i \in 1..z /\ 16 + i \in 1..z
                         /\ 24 + n + v + i \in 1..z
                         /\ p + (8 + i) = (p + 8) + i /\ p + (16 + i) = (p + 16) + i
                         /\ p + (24 + n + v + i) = (p + z - 8) + i
      /\ \A i \in 1..n : 24 + i \in 1..z /\ p + (24 + i) = (p + 24) + i
      /\ \A i \in 1..v : 24 + n + i \in 1..z /\ p + (24 + n + i) = (p + 24 + n) + i
      /\ p + 8 \in Nat /\ p + 16 \in Nat /\ p + 24 \in Nat /\ p + 24 + n \in Nat
      /\ p + z - 8 \in Nat
      /\ p + 8 <= Len(ring) /\ (p + 8) + 8 <= Len(ring) /\ (p + 16) + 8 <= Len(ring)
      /\ (p + z - 8) + 8 <= Len(ring) /\ (p + 24) + n <= Len(ring) /\ (p + 24 + n) + v <= Len(ring)
  BY <1>1, <1>3, <1>4
<1>6. \A i \in 1..8 : /\ ring[p + i] = SizeCell(z, i)
                      /\ ring[(p + 8) + i] = SizeCell(n, i)
                      /\ ring[(p + 16) + i] = SizeCell(v, i)
                      /\ ring[(p + z - 8) + i] = SizeCell(z, i)
  <2>1. ASSUME NEW i \in 1..8
        PROVE  /\ ring[p + i] = SizeCell(z, i) /\ ring[(p + 8) + i] = SizeCell(n, i)
               /\ ring[(p + 16) + i] = SizeCell(v, i) /\ ring[(p + z - 8) + i] = SizeCell(z, i)
    <3>1. /\ i \in 1..z /\ 8 + i \in 1..z /\ 16 + i \in 1..z /\ 24 + n + v + i \in 1..z
          /\ p + (8 + i) = (p + 8) + i /\ p + (16 + i) = (p + 16) + i
          /\ p + (24 + n + v + i) = (p + z - 8) + i
      BY <1>5
    <3>2. /\ ring[p + i] = Code(h)[i] /\ ring[p + (8 + i)] = Code(h)[8 + i]
          /\ ring[p + (16 + i)] = Code(h)[16 + i]
          /\ ring[p + (24 + n + v + i)] = Code(h)[24 + n + v + i]
      BY <1>3, <3>1
    <3>3. /\ ring[p + i] = Code(h)[i] /\ ring[(p + 8) + i] = Code(h)[8 + i]
          /\ ring[(p + 16) + i] = Code(h)[16 + i]
          /\ ring[(p + z - 8) + i] = Code(h)[24 + n + v + i]
      BY <3>1, <3>2
    <3>4. QED
      BY <1>2, <3>3
  <2>2. QED
    BY <2>1
<1>7. /\ \A i \in 1..n : ring[(p + 24) + i] = TextCell(h.name[i])
      /\ \A i \in 1..v : ring[(p + 24 + n) + i] = TextCell(h.value[i])
  <2>1. ASSUME NEW i \in 1..n PROVE ring[(p + 24) + i] = TextCell(h.name[i])
    <3>1. 24 + i \in 1..z /\ p + (24 + i) = (p + 24) + i
      BY <1>5
    <3>2. ring[p + (24 + i)] = TextCell(h.name[i])
      BY <1>2, <1>3, <3>1
    <3>3. QED
      BY <3>1, <3>2
  <2>2. ASSUME NEW i \in 1..v PROVE ring[(p + 24 + n) + i] = TextCell(h.value[i])
    <3>1. 24 + n + i \in 1..z /\ p + (24 + n + i) = (p + 24 + n) + i
      BY <1>5
    <3>2. ring[p + (24 + n + i)] = TextCell(h.value[i])
      BY <1>2, <1>3, <3>1
    <3>3. QED
      BY <3>1, <3>2
  <2>3. QED
    BY <2>1, <2>2
<1>8. /\ get_size(ring, p) = z /\ get_size(ring, p + z - 8) = z
      /\ get_size(ring, p + 8) = n /\ get_size(ring, p + 16) = v
  <2>1. get_size(ring, p) = z
    BY <1>1, <1>5, <1>6, ReadSize, ZenonT(30)
  <2>2. get_size(ring, p + z - 8) = z
    BY <1>1, <1>5, <1>6, ReadSize, ZenonT(30)
  <2>3. get_size(ring, p + 8) = n
    BY <1>1, <1>5, <1>6, ReadSize, ZenonT(30)
  <2>4. get_size(ring, p + 16) = v
    BY <1>1, <1>5, <1>6, ReadSize, ZenonT(30)
  <2>5. QED
    BY <2>1, <2>2, <2>3, <2>4
<1>9. Copied(ring, p + 24, n) = h.name
  BY <1>1, <1>5, <1>7, ReadText DEF n
<1>10. Copied(ring, p + 24 + n, v) = h.value
  BY <1>1, <1>5, <1>7, ReadText DEF v
<1>11. EntryIn(ring, p) = [name |-> h.name, value |-> h.value]
  BY <1>8, <1>9, <1>10 DEF EntryIn
<1>12. h = [name |-> h.name, value |-> h.value]
  BY DEF Header
<1>13. QED
  BY <1>8, <1>11, <1>12 DEF z

(* Every entry takes 32 bytes or more, so that positions go up.            *)
LEMMA Spread ==
  ASSUME NEW ring, NEW h, NEW pos, Keeps(ring, h, pos), NEW i \in 0..Len(h), NEW j \in i..Len(h)
  PROVE  pos[i] + 32 * (j - i) <= pos[j]
<1> DEFINE Short == {m \in Nat : m \in i..Len(h) /\ ~(pos[i] + 32 * (m - i) <= pos[m])}
<1>1. Len(h) \in Nat /\ \A k \in 1..Len(h) : h[k] \in Header
  <2>1. h \in Seq(Header)
    BY DEF Keeps
  <2>2. QED
    BY <2>1, LenProperties, ElementOfSeq
<1>2. ASSUME NEW m \in Short, \A x \in Short : m <= x PROVE FALSE
  <2>1. m \in i..Len(h) /\ m \in Nat /\ ~(pos[i] + 32 * (m - i) <= pos[m]) /\ i \in Nat
    BY <1>1
  <2>2. pos[i] \in Nat
    BY DEF Keeps
  <2>3. CASE m = i
    <3>1. 32 * (m - i) = 0
      BY <2>1, <2>3
    <3>2. QED
      BY <2>1, <2>2, <2>3, <3>1
  <2>4. CASE m # i
    <3>1. m - 1 \in i..Len(h) /\ m - 1 \in Nat /\ m \in 1..Len(h) /\ ~(m <= m - 1)
          /\ m - 1 \in 0..Len(h) /\ m \in 0..Len(h)
      BY <1>1, <2>1, <2>4
    <3>2. pos[i] + 32 * ((m - 1) - i) <= pos[m - 1]
      BY <1>2, <3>1
    <3>3. pos[m] = pos[m - 1] + EntrySize(h[m]) /\ pos[m] \in Nat /\ pos[m - 1] \in Nat
      BY <3>1 DEF Keeps
    <3>4. EntrySize(h[m]) \in Nat /\ EntrySize(h[m]) >= 32
      BY <1>1, <3>1, HeaderTypes
    <3>5. 32 * (m - i) = 32 * ((m - 1) - i) + 32
      BY <2>1
    <3>6. QED
      BY <2>1, <2>2, <3>2, <3>3, <3>4, <3>5
  <2>5. QED
    BY <2>3, <2>4
<1>3. Short = {}
  <2>1. Short \in SUBSET Nat
    OBVIOUS
  <2> HIDE DEF Short
  <2>2. QED
    BY <1>2, <2>1, HasLeast
<1>4. QED
  BY <1>1, <1>3

LEMMA HeldTypes ==
  ASSUME NEW ring, NEW h, NEW pos, Keeps(ring, h, pos)
  PROVE  /\ Len(h) \in Nat /\ Len(ring) \in Nat
         /\ \A k \in 1..Len(h) : h[k] \in Header
         /\ \A i, j \in 0..Len(h) : i <= j => pos[i] <= pos[j]
         /\ \A i, j \in 0..Len(h) : i < j => pos[i] < pos[j]
         /\ \A k \in 0..Len(h) : pos[k] \in 0..Len(ring)
         /\ 32 * Len(h) <= Len(ring)
<1>1. /\ Len(h) \in Nat /\ Len(ring) \in Nat /\ \A k \in 1..Len(h) : h[k] \in Header
  <2>1. h \in Seq(Header) /\ ring \in Seq(Cell)
    BY DEF Keeps
  <2>2. QED
    BY <2>1, LenProperties, ElementOfSeq
<1>2. /\ pos[0] = 0 /\ pos[Len(h)] = Len(ring) /\ \A k \in 0..Len(h) : pos[k] \in Nat
  BY DEF Keeps
<1>3. ASSUME NEW i \in 0..Len(h), NEW j \in 0..Len(h), i <= j
      PROVE  pos[i] <= pos[j] /\ (i < j => pos[i] < pos[j])
  <2>1. j \in i..Len(h) /\ j - i \in Nat /\ (i < j => j - i > 0)
    BY <1>1, <1>3
  <2>2. pos[i] + 32 * (j - i) <= pos[j]
    BY <2>1, Spread
  <2>3. QED
    BY <1>2, <2>1, <2>2
<1>4. ASSUME NEW k \in 0..Len(h) PROVE pos[k] \in 0..Len(ring)
  <2>1. Len(h) \in 0..Len(h) /\ k <= Len(h)
    BY <1>1
  <2>2. pos[k] <= pos[Len(h)]
    BY <1>3, <2>1
  <2>3. QED
    BY <1>1, <1>2, <2>2
<1>5. 32 * Len(h) <= Len(ring)
  <2>1. 0 \in 0..Len(h) /\ Len(h) \in 0..Len(h)
    BY <1>1
  <2>2. pos[0] + 32 * (Len(h) - 0) <= pos[Len(h)]
    BY <2>1, Spread
  <2>3. QED
    BY <1>1, <1>2, <2>2
<1>6. ASSUME NEW i \in 0..Len(h), NEW j \in 0..Len(h), i < j PROVE pos[i] < pos[j]
  <2>1. i <= j
    BY <1>1, <1>6
  <2>2. QED
    BY <1>3, <1>6, <2>1
<1>7. QED
  BY <1>1, <1>3, <1>4, <1>5, <1>6

-----------------------------------------------------------------------------
(* Both walks over a ring find the positions of its entries.               *)

(* A walk is what its steps make of its start.                             *)
LEMMA Walked ==
  ASSUME NEW k \in Nat, NEW step, NEW f, NEW p, f[0] = p[0],
         \A j \in 1..k : f[j] = step[f[j - 1]] /\ p[j] = step[p[j - 1]]
  PROVE  f[k] = p[k]
<1> DEFINE Astray == {j \in Nat : j <= k /\ f[j] # p[j]}
<1>1. ASSUME NEW j \in Astray, \A i \in Astray : j <= i PROVE FALSE
  <2>1. j \in Nat /\ j <= k /\ f[j] # p[j]
    OBVIOUS
  <2>2. j # 0
    BY <2>1
  <2>3. j \in 1..k /\ j - 1 \in Nat /\ j - 1 <= k /\ ~(j <= j - 1)
    BY <2>1, <2>2
  <2>4. f[j - 1] = p[j - 1]
    BY <1>1, <2>3
  <2>5. QED
    BY <2>1, <2>3, <2>4
<1>2. Astray = {}
  <2>1. Astray \in SUBSET Nat
    OBVIOUS
  <2> HIDE DEF Astray
  <2>2. QED
    BY <1>1, <2>1, HasLeast
<1>3. QED
  BY <1>2

StartIn(ring, k) ==
  LET next == [offset \in Int |-> offset + get_size(ring, offset)]
      start[j \in 0..k] == IF j = 0 THEN 0 ELSE next[start[j - 1]]
  IN  start[k]

LEMMA StartIs ==
  ASSUME NEW ring, NEW h, NEW pos, Keeps(ring, h, pos), NEW k \in 0..Len(h)
  PROVE  StartIn(ring, k) = pos[k]
<1> DEFINE next == [offset \in Int |-> offset + get_size(ring, offset)]
           start == CHOOSE f : f = [j \in 0..k |-> IF j = 0 THEN 0 ELSE next[f[j - 1]]]
           g == [j \in 0..k |-> pos[j]]
<1>1. Len(h) \in Nat /\ k \in Nat /\ k <= Len(h)
  BY HeldTypes
<1>2. ASSUME NEW j \in 1..k PROVE pos[j] = next[pos[j - 1]]
  <2>1. j \in 1..Len(h) /\ j - 1 \in 0..Len(h)
    BY <1>1
  <2>2. h[j] \in Header /\ pos[j - 1] \in Nat /\ pos[j] = pos[j - 1] + EntrySize(h[j])
        /\ At(ring, pos[j - 1], Code(h[j])) /\ ring \in Seq(Cell)
    BY <2>1, HeldTypes DEF Keeps
  <2>3. get_size(ring, pos[j - 1]) = EntrySize(h[j])
    BY <2>2, ReadEntry
  <2>4. pos[j - 1] \in Int
    BY <2>2
  <2>5. next[pos[j - 1]] = pos[j - 1] + get_size(ring, pos[j - 1])
    BY <2>4
  <2>6. QED
    BY <2>2, <2>3, <2>5
<1>3. pos[0] = 0
  BY DEF Keeps
<1>4. g = [j \in 0..k |-> IF j = 0 THEN 0 ELSE next[g[j - 1]]]
  <2> HIDE DEF next
  <2>1. ASSUME NEW j \in 0..k PROVE pos[j] = IF j = 0 THEN 0 ELSE next[g[j - 1]]
    <3>1. CASE j = 0
      BY <1>3, <3>1
    <3>2. CASE j # 0
      <4>1. j \in 1..k /\ j - 1 \in 0..k
        BY <1>1, <3>2
      <4>2. g[j - 1] = pos[j - 1]
        BY <4>1
      <4>3. QED
        BY <1>2, <3>2, <4>1, <4>2
    <3>3. QED
      BY <3>1, <3>2
  <2>2. QED
    BY <2>1
<1>5. start = [j \in 0..k |-> IF j = 0 THEN 0 ELSE next[start[j - 1]]]
  <2> HIDE DEF next, g
  <2>1. \E f : f = [j \in 0..k |-> IF j = 0 THEN 0 ELSE next[f[j - 1]]]
    BY <1>4
  <2>2. QED
    BY <2>1
<1>6. start[0] = 0 /\ \A j \in 1..k : start[j] = next[start[j - 1]]
  <2> HIDE DEF next, start
  <2>1. 0 \in 0..k /\ \A j \in 1..k : j \in 0..k /\ j # 0
    BY <1>1
  <2>2. QED
    BY <1>5, <2>1
<1>7. start[k] = pos[k]
  <2> HIDE DEF next, start
  <2>1. QED
    BY <1>1, <1>2, <1>3, <1>6, Walked, SMTT(30)
<1>8. QED
  BY <1>7 DEF StartIn

OffsetIn(ring, index) ==
  LET previous == [offset \in Int |-> offset - get_size(ring, offset - 8)]
      offset[j \in 0..(index + 1)] == IF j = 0 THEN Len(ring) ELSE previous[offset[j - 1]]
  IN  offset[index + 1]

LEMMA OffsetIs ==
  ASSUME NEW ring, NEW h, NEW pos, Keeps(ring, h, pos), NEW index \in 0..(Len(h) - 1)
  PROVE  OffsetIn(ring, index) = pos[Len(h) - index - 1]
<1> DEFINE previous == [offset \in Int |-> offset - get_size(ring, offset - 8)]
           k == index + 1
           walk == CHOOSE f :
                     f = [j \in 0..(index + 1) |-> IF j = 0 THEN Len(ring) ELSE previous[f[j - 1]]]
           g == [j \in 0..(index + 1) |-> pos[Len(h) - j]]
<1>1. Len(h) \in Nat /\ index + 1 \in Nat /\ index + 1 <= Len(h) /\ index \in Nat
  BY HeldTypes
<1>2. ASSUME NEW j \in 1..(index + 1) PROVE pos[Len(h) - j] = previous[pos[Len(h) - (j - 1)]]
  <2>1. PICK m : m = Len(h) - (j - 1)
    OBVIOUS
  <2>2. m \in 1..Len(h) /\ m \in 0..Len(h) /\ m - 1 \in 0..Len(h) /\ m - 1 = Len(h) - j
    BY <1>1, <2>1
  <2>3. /\ h[m] \in Header /\ pos[m - 1] \in Nat /\ pos[m] \in Nat
        /\ pos[m] = pos[m - 1] + EntrySize(h[m])
        /\ At(ring, pos[m - 1], Code(h[m])) /\ ring \in Seq(Cell)
    BY <2>2, HeldTypes DEF Keeps
  <2>4. get_size(ring, pos[m - 1] + EntrySize(h[m]) - 8) = EntrySize(h[m])
    BY <2>3, ReadEntry
  <2>5. pos[m] \in Int /\ EntrySize(h[m]) \in Nat /\ pos[m] - 8 = pos[m - 1] + EntrySize(h[m]) - 8
    BY <2>3, HeaderTypes
  <2>6. previous[pos[m]] = pos[m] - get_size(ring, pos[m] - 8)
    BY <2>5
  <2>7. get_size(ring, pos[m] - 8) = EntrySize(h[m])
    BY <2>4, <2>5
  <2>8. pos[m] - EntrySize(h[m]) = pos[m - 1]
    BY <2>3, <2>5
  <2>9. previous[pos[m]] = pos[m - 1]
    BY <2>6, <2>7, <2>8
  <2>10. QED
    BY <2>1, <2>2, <2>9
<1>3. pos[Len(h)] = Len(ring) /\ Len(h) - 0 = Len(h)
  BY <1>1 DEF Keeps
<1>4. g = [j \in 0..(index + 1) |-> IF j = 0 THEN Len(ring) ELSE previous[g[j - 1]]]
  <2> HIDE DEF previous
  <2>1. ASSUME NEW j \in 0..(index + 1)
        PROVE  pos[Len(h) - j] = IF j = 0 THEN Len(ring) ELSE previous[g[j - 1]]
    <3>1. CASE j = 0
      BY <1>3, <3>1
    <3>2. CASE j # 0
      <4>1. j \in 1..(index + 1) /\ j - 1 \in 0..(index + 1)
        BY <1>1, <3>2
      <4>2. g[j - 1] = pos[Len(h) - (j - 1)]
        BY <4>1
      <4>3. QED
        BY <1>2, <3>2, <4>1, <4>2
    <3>3. QED
      BY <3>1, <3>2
  <2>2. QED
    BY <2>1
<1>5. walk = [j \in 0..(index + 1) |-> IF j = 0 THEN Len(ring) ELSE previous[walk[j - 1]]]
  <2> HIDE DEF previous, g
  <2>1. \E f : f = [j \in 0..(index + 1) |-> IF j = 0 THEN Len(ring) ELSE previous[f[j - 1]]]
    BY <1>4
  <2>2. QED
    BY <2>1
<1>6. walk[0] = Len(ring) /\ \A j \in 1..(index + 1) : walk[j] = previous[walk[j - 1]]
  <2> HIDE DEF previous, walk
  <2>1. 0 \in 0..(index + 1) /\ \A j \in 1..(index + 1) : j \in 0..(index + 1) /\ j # 0
    BY <1>1
  <2>2. QED
    BY <1>5, <2>1
<1>7. g[0] = Len(ring) /\ \A j \in 1..(index + 1) : g[j] = previous[g[j - 1]]
  <2> HIDE DEF previous, g
  <2>1. 0 \in 0..(index + 1) /\ \A j \in 1..(index + 1) : j \in 0..(index + 1) /\ j # 0
    BY <1>1
  <2>2. QED
    BY <1>4, <2>1
<1>8. walk[index + 1] = g[index + 1]
  <2> HIDE DEF previous, walk, g
  <2>1. QED
    BY <1>1, <1>6, <1>7, Walked
<1>9. g[index + 1] = pos[Len(h) - index - 1]
  <2>1. index + 1 \in 0..(index + 1) /\ Len(h) - (index + 1) = Len(h) - index - 1
    BY <1>1
  <2>2. QED
    BY <2>1
<1>10. QED
  BY <1>8, <1>9 DEF OffsetIn

-----------------------------------------------------------------------------
(* What evict and insert do to a ring that holds a list.                   *)

EvictionsIn(ring, num, size) ==
  LET enough == {k \in 0..num : Len(ring) - StartIn(ring, k) <= size}
  IN  IF enough = {} THEN num ELSE Min(enough)

(* Without k entries a ring has no more than size bytes, with one of them  *)
(* it has.                                                                 *)
Leaves(ring, pos, k, size) ==
  /\ Len(ring) - pos[k] <= size
  /\ \A j \in 0..(k - 1) : Len(ring) - pos[j] > size

LEMMA EvictionsAre ==
  ASSUME NEW ring, NEW h, NEW pos, Keeps(ring, h, pos), NEW size \in Nat
  PROVE  LET k == EvictionsIn(ring, Len(h), size)
         IN  k \in 0..Len(h) /\ Leaves(ring, pos, k, size)
<1> DEFINE enough == {k \in 0..Len(h) : Len(ring) - StartIn(ring, k) <= size}
           k == Min(enough)
<1>1. /\ Len(h) \in Nat /\ Len(ring) \in Nat /\ pos[Len(h)] = Len(ring)
      /\ \A j \in 0..Len(h) : pos[j] \in Nat
  BY HeldTypes DEF Keeps
<1>2. \A j \in 0..Len(h) : StartIn(ring, j) = pos[j]
  BY StartIs
<1>3. Len(h) \in 0..Len(h) /\ Len(ring) - Len(ring) <= size
  BY <1>1
<1>4. enough \in SUBSET Nat /\ enough # {}
  BY <1>1, <1>2, <1>3
<1>5. k \in enough /\ \A j \in enough : k <= j
  <2>1. \E i \in enough : \A j \in enough : i <= j
    <3> HIDE DEF enough
    <3>1. QED
      BY <1>4, HasLeast
  <2> HIDE DEF enough
  <2>2. QED
    BY <2>1 DEF Min
<1>6. k \in 0..Len(h) /\ Len(ring) - pos[k] <= size
  <2>1. k \in 0..Len(h) /\ Len(ring) - StartIn(ring, k) <= size
    <3> HIDE DEF k
    <3>1. QED
      BY <1>5
  <2> HIDE DEF k
  <2>2. QED
    BY <1>2, <2>1
<1>7. ASSUME NEW j \in 0..(k - 1) PROVE Len(ring) - pos[j] > size
  <2> HIDE DEF k
  <2>1. j \in 0..Len(h) /\ ~(k <= j)
    BY <1>1, <1>6
  <2>2. j \notin enough
    BY <1>5, <2>1
  <2>3. ~(Len(ring) - pos[j] <= size)
    BY <1>2, <2>1, <2>2
  <2>4. pos[j] \in Nat
    BY <1>1, <2>1
  <2>5. QED
    BY <1>1, <2>3, <2>4
<1>8. EvictionsIn(ring, Len(h), size) = k
  BY <1>4 DEF EvictionsIn
<1> HIDE DEF k
<1>9. QED
  BY <1>6, <1>7, <1>8 DEF Leaves

(* The bytes r behind k entries of a ring, and their list.                 *)
IsRest(r, left, ring, h, pos, k) ==
  /\ \E p : Keeps(r, left, p)
  /\ Len(left) = Len(h) - k /\ \A j \in 1..(Len(h) - k) : left[j] = h[k + j]
  /\ Len(r) = Len(ring) - pos[k]

LEMMA EvictedHolds ==
  ASSUME NEW ring, NEW h, NEW pos, Keeps(ring, h, pos), NEW k \in 0..Len(h)
  PROVE  IsRest(SubSeq(ring, pos[k] + 1, Len(ring)), SubSeq(h, k + 1, Len(h)), ring, h, pos, k)
<1>1. PICK n, m, r, left : /\ n = Len(h) /\ m = Len(h) - k /\ left = SubSeq(h, k + 1, Len(h))
                           /\ r = SubSeq(ring, pos[k] + 1, Len(ring))
  OBVIOUS
<1>2. /\ n \in Nat /\ Len(ring) \in Nat /\ k \in 0..n /\ m \in Nat /\ m = n - k
      /\ \A j \in 0..n : pos[j] \in Nat /\ pos[j] \in 0..Len(ring)
      /\ \A i, j \in 0..n : i <= j => pos[i] <= pos[j]
      /\ pos[n] = Len(ring)
  <2>1. /\ Len(h) \in Nat /\ Len(ring) \in Nat /\ \A j \in 0..Len(h) : pos[j] \in 0..Len(ring)
        /\ \A i, j \in 0..Len(h) : i <= j => pos[i] <= pos[j]
    BY HeldTypes
  <2>2. pos[Len(h)] = Len(ring) /\ \A j \in 0..Len(h) : pos[j] \in Nat
    BY DEF Keeps
  <2>3. k \in 0..n /\ n \in Nat
    BY <1>1, <2>1
  <2>4. m \in Nat /\ m = n - k
    BY <1>1, <2>3
  <2>5. QED
    BY <1>1, <2>1, <2>2, <2>3, <2>4
<1>3. /\ ring \in Seq(Cell) /\ h \in Seq(Header)
      /\ \A j \in 1..n : pos[j] = pos[j - 1] + EntrySize(h[j]) /\ At(ring, pos[j - 1], Code(h[j]))
  BY <1>1 DEF Keeps
<1>4. /\ left \in Seq(Header) /\ Len(left) = m /\ \A j \in 1..m : left[j] = h[k + j]
  BY <1>1, <1>3, Rest
<1>5. /\ r \in Seq(Cell) /\ Len(r) = Len(ring) - pos[k]
      /\ \A j \in 1..(Len(ring) - pos[k]) : r[j] = ring[pos[k] + j]
  <2>1. pos[k] \in 0..Len(ring)
    BY <1>2
  <2>2. QED
    BY <1>1, <1>3, <2>1, Rest
<1> DEFINE p == [j \in 0..m |-> pos[k + j] - pos[k]]
<1>6. \A j \in 0..m : p[j] = pos[k + j] - pos[k]
  OBVIOUS
<1> HIDE DEF p
<1>7. \A j \in 0..m : p[j] \in Nat
  <2>1. ASSUME NEW j \in 0..m PROVE p[j] \in Nat
    <3>1. k + j \in 0..n /\ k <= k + j /\ k \in 0..n
      BY <1>2
    <3>2. pos[k] <= pos[k + j] /\ pos[k] \in Nat /\ pos[k + j] \in Nat
      BY <1>2, <3>1
    <3>3. QED
      BY <1>6, <3>2
  <2>2. QED
    BY <2>1
<1>8. p[0] = 0 /\ p[m] = Len(r)
  <2>1. 0 \in 0..m /\ m \in 0..m /\ k + 0 = k /\ k + m = n /\ pos[k] \in Nat
    BY <1>2
  <2>2. p[0] = pos[k] - pos[k] /\ p[m] = pos[n] - pos[k]
    BY <1>6, <2>1
  <2>3. QED
    BY <1>2, <1>5, <2>1, <2>2
<1>9. ASSUME NEW j \in 1..m
      PROVE  p[j] = p[j - 1] + EntrySize(left[j]) /\ At(r, p[j - 1], Code(left[j]))
  <2>1. PICK i, x : i = k + j /\ x = left[j]
    OBVIOUS
  <2>2. /\ i \in 1..n /\ i \in 0..n /\ i - 1 \in 0..n /\ j \in 0..m /\ j - 1 \in 0..m
        /\ k + (j - 1) = i - 1 /\ k <= i - 1
    BY <1>2, <2>1
  <2>3. x = h[i] /\ x \in Header
    BY <1>1, <1>4, <2>1, <2>2, HeldTypes
  <2>4. p[j] = pos[i] - pos[k] /\ p[j - 1] = pos[i - 1] - pos[k]
    BY <1>6, <2>1, <2>2
  <2>5. /\ pos[i] = pos[i - 1] + EntrySize(x) /\ At(ring, pos[i - 1], Code(x))
        /\ pos[i] \in Nat /\ pos[i - 1] \in Nat /\ pos[k] \in Nat /\ pos[k] <= pos[i - 1]
        /\ pos[i] <= Len(ring)
    BY <1>2, <1>3, <2>2, <2>3
  <2>6. EntrySize(x) \in Nat /\ Len(Code(x)) = EntrySize(x)
    BY <2>3, HeaderTypes, CodeParts
  <2>7. p[j] = p[j - 1] + EntrySize(x)
    BY <2>4, <2>5, <2>6
  <2>8. p[j - 1] + Len(Code(x)) <= Len(r)
    BY <1>2, <1>5, <2>4, <2>5, <2>6, SMTT(30)
  <2>9. ASSUME NEW c \in 1..Len(Code(x)) PROVE r[p[j - 1] + c] = Code(x)[c]
    <3>1. /\ p[j - 1] + c \in 1..(Len(ring) - pos[k])
          /\ pos[k] + (p[j - 1] + c) = pos[i - 1] + c
      <4>1. \A a, b, y, l \in Nat : \A d \in 1..y : a <= b /\ b + y <= l =>
               (b - a) + d \in 1..(l - a) /\ a + ((b - a) + d) = b + d
        OBVIOUS
      <4>2. pos[i - 1] + EntrySize(x) <= Len(ring) /\ c \in 1..EntrySize(x)
        BY <2>5, <2>6
      <4>3. /\ (pos[i - 1] - pos[k]) + c \in 1..(Len(ring) - pos[k])
            /\ pos[k] + ((pos[i - 1] - pos[k]) + c) = pos[i - 1] + c
        BY <1>2, <2>5, <2>6, <4>1, <4>2, SMTT(30)
      <4>4. QED
        BY <2>4, <4>3
    <3>2. r[p[j - 1] + c] = ring[pos[i - 1] + c]
      BY <1>5, <3>1
    <3>3. QED
      BY <2>5, <3>2 DEF At
  <2>10. QED
    BY <2>1, <2>7, <2>8, <2>9 DEF At
<1>10. Keeps(r, left, p)
  BY <1>4, <1>5, <1>7, <1>8, <1>9 DEF Keeps
<1>11. QED
  BY <1>1, <1>4, <1>5, <1>10 DEF IsRest

(* A ring and its list with one entry more.                                *)
IsLonger(r, g, ring, h, x) ==
  /\ \E p : Keeps(r, g, p)
  /\ Len(r) = Len(ring) + EntrySize(x)
  /\ Len(g) = Len(h) + 1 /\ \A j \in 1..Len(h) : g[j] = h[j]
  /\ g[Len(h) + 1] = x

LEMMA AppendedHolds ==
  ASSUME NEW ring, NEW h, NEW pos, Keeps(ring, h, pos), NEW x \in Header
  PROVE  IsLonger(ring \o Code(x), Append(h, x), ring, h, x)
<1>1. PICK n, e, r, g, z : /\ n = Len(h) /\ e = Code(x) /\ r = ring \o Code(x) /\ g = Append(h, x)
                           /\ z = EntrySize(x)
  OBVIOUS
<1>2. /\ n \in Nat /\ Len(ring) \in Nat
      /\ \A j \in 0..n : pos[j] \in Nat /\ pos[j] \in 0..Len(ring)
      /\ pos[0] = 0 /\ pos[n] = Len(ring)
  BY <1>1, HeldTypes DEF Keeps
<1>3. /\ ring \in Seq(Cell) /\ h \in Seq(Header)
      /\ \A j \in 1..n : pos[j] = pos[j - 1] + EntrySize(h[j]) /\ At(ring, pos[j - 1], Code(h[j]))
  BY <1>1 DEF Keeps
<1>4. /\ e \in Seq(Cell) /\ Len(e) = z /\ z \in Nat
  BY <1>1, CodeParts, HeaderTypes
<1>5. /\ r \in Seq(Cell) /\ Len(r) = Len(ring) + z
      /\ \A j \in 1..Len(ring) : r[j] = ring[j]
      /\ \A j \in 1..z : r[Len(ring) + j] = e[j]
  <2>1. IsJoined(ring \o e, ring, e)
    BY <1>3, <1>4, JoinedCells
  <2>2. IsJoined(r, ring, e)
    BY <1>1, <2>1
  <2>3. QED
    BY <1>4, <2>2 DEF IsJoined
<1>6. /\ g \in Seq(Header) /\ Len(g) = n + 1 /\ \A j \in 1..n : g[j] = h[j]
      /\ g[n + 1] = x
  BY <1>1, <1>2, <1>3, AppendProperties
<1> DEFINE p == [j \in 0..(n + 1) |-> IF j = n + 1 THEN Len(ring) + z ELSE pos[j]]
<1>7. p[n + 1] = Len(ring) + z /\ \A j \in 0..n : p[j] = pos[j]
  <2>1. n + 1 \in 0..(n + 1) /\ \A j \in 0..n : j \in 0..(n + 1) /\ j # n + 1
    BY <1>2
  <2>2. QED
    BY <2>1
<1> HIDE DEF p
<1>8. \A j \in 0..(n + 1) : p[j] \in Nat
  <2>1. \A j \in 0..(n + 1) : j = n + 1 \/ j \in 0..n
    BY <1>2
  <2>2. QED
    BY <1>2, <1>4, <1>7, <2>1
<1>9. p[0] = 0
  BY <1>2, <1>7
<1>10. ASSUME NEW j \in 1..(n + 1)
       PROVE  p[j] = p[j - 1] + EntrySize(g[j]) /\ At(r, p[j - 1], Code(g[j]))
  <2>1. CASE j = n + 1
    <3>1. n \in 0..n /\ j - 1 = n
      BY <1>2, <2>1
    <3>2. p[j - 1] = Len(ring) /\ p[j] = Len(ring) + z /\ g[j] = x
      BY <1>2, <1>6, <1>7, <2>1, <3>1
    <3>3. At(r, Len(ring), e)
      BY <1>2, <1>4, <1>5 DEF At
    <3>4. QED
      BY <1>1, <3>2, <3>3
  <2>2. CASE j # n + 1
    <3>1. j \in 1..n /\ j \in 0..n /\ j - 1 \in 0..n
      BY <1>2, <2>2
    <3>2. p[j - 1] = pos[j - 1] /\ p[j] = pos[j] /\ g[j] = h[j]
      BY <1>6, <1>7, <3>1
    <3>3. At(ring, pos[j - 1], Code(h[j])) /\ pos[j - 1] \in Nat /\ h[j] \in Header
      BY <1>1, <1>2, <1>3, <3>1, HeldTypes
    <3>4. Len(Code(h[j])) \in Nat
      BY <3>3, CodeParts, HeaderTypes
    <3>5. \A c \in 1..Len(Code(h[j])) : pos[j - 1] + c \in 1..Len(ring)
      BY <1>2, <3>3, <3>4 DEF At
    <3>6. At(r, pos[j - 1], Code(h[j]))
      <4>1. pos[j - 1] + Len(Code(h[j])) <= Len(r)
        BY <1>2, <1>4, <1>5, <3>3, <3>4 DEF At
      <4>2. \A c \in 1..Len(Code(h[j])) : r[pos[j - 1] + c] = Code(h[j])[c]
        BY <1>5, <3>3, <3>5 DEF At
      <4>3. QED
        BY <4>1, <4>2 DEF At
    <3>7. QED
      BY <1>3, <3>1, <3>2, <3>6
  <2>3. QED
    BY <2>1, <2>2
<1>11. Keeps(r, g, p)
  BY <1>5, <1>6, <1>7, <1>8, <1>9, <1>10 DEF Keeps
<1>12. QED
  BY <1>1, <1>5, <1>6, <1>11 DEF IsLonger

LEMMA EmptyHolds == Keeps(<<>>, <<>>, [k \in 0..0 |-> 0])
<1>1. \A k \in 0..0 : [j \in 0..0 |-> 0][k] \in Nat
  OBVIOUS
<1>2. Len(<<>>) = 0 /\ 0 \in 0..0
  OBVIOUS
<1>3. \A k \in 1..0 : FALSE
  OBVIOUS
<1>4. QED
  BY <1>1, <1>2, <1>3 DEF Keeps

-----------------------------------------------------------------------------
(* The ring of every state holds a list.                                   *)

RingInv ==
  /\ TableTypeOK
  /\ Len(buffer) <= max_size /\ max_size <= permitted_size
  /\ \E h, pos : Keeps(buffer, h, pos) /\ Len(h) = num_elements

LEMMA OfBuffer ==
  /\ \A k : Start(k) = StartIn(buffer, k)
  /\ \A index : Offset(index) = OffsetIn(buffer, index)
  /\ \A size : Evictions(size) = EvictionsIn(buffer, num_elements, size)
<1>1. ASSUME NEW k PROVE Start(k) = StartIn(buffer, k)
  BY DEF Start, StartIn
<1>2. ASSUME NEW index PROVE Offset(index) = OffsetIn(buffer, index)
  BY DEF Offset, OffsetIn
<1>3. ASSUME NEW size PROVE Evictions(size) = EvictionsIn(buffer, num_elements, size)
  BY DEF Evictions, EvictionsIn, Start, StartIn
<1>4. QED
  BY <1>1, <1>2, <1>3

(* What is left when evict has made room.                                  *)
LEMMA RoomMade ==
  ASSUME NEW h, NEW pos, Keeps(buffer, h, pos), Len(h) = num_elements, NEW size \in Nat
  PROVE  \E k, left :
           /\ k \in 0..Len(h) /\ k = Evictions(size) /\ Leaves(buffer, pos, k, size)
           /\ IsRest(Evicted(k), left, buffer, h, pos, k)
<1>1. PICK k : k = Evictions(size)
  OBVIOUS
<1>2. k = EvictionsIn(buffer, Len(h), size)
  BY <1>1, OfBuffer
<1>3. k \in 0..Len(h) /\ Leaves(buffer, pos, k, size)
  BY <1>2, EvictionsAre
<1>4. Start(k) = pos[k]
  BY <1>3, OfBuffer, StartIs
<1>5. Evicted(k) = SubSeq(buffer, pos[k] + 1, Len(buffer))
  BY <1>4 DEF Evicted
<1>6. IsRest(SubSeq(buffer, pos[k] + 1, Len(buffer)), SubSeq(h, k + 1, Len(h)), buffer, h, pos, k)
  BY <1>3, EvictedHolds
<1>7. QED
  BY <1>1, <1>3, <1>5, <1>6

(* The list that insert leaves: h without its k oldest, and x behind it.   *)
Follows(h2, h, k, x) ==
  /\ Len(h2) = Len(h) - k + 1
  /\ \A j \in 1..(Len(h) - k) : h2[j] = h[k + j]
  /\ h2[Len(h) - k + 1] = x

LEMMA Inserted ==
  ASSUME RingInv, NEW h, NEW pos, Keeps(buffer, h, pos), Len(h) = num_elements,
         NEW name \in Names, NEW value \in Values, NEW x, x = [name |-> name, value |-> value],
         insert(name, value)
  PROVE  \E h2, p2 :
           /\ Keeps(buffer', h2, p2) /\ Len(h2) = num_elements' /\ Len(buffer') <= max_size
           /\ \/ EntrySize(x) > max_size /\ h2 = <<>>
              \/ \E k \in 0..Len(h) :
                   /\ EntrySize(x) <= max_size /\ Leaves(buffer, pos, k, max_size - EntrySize(x))
                   /\ Follows(h2, h, k, x)
<1>1. x \in Header /\ x.name = name /\ x.value = value
  BY DEF Header
<1>2. PICK size : size = Len(name) + Len(value) + 32
  OBVIOUS
<1>3. size = EntrySize(x) /\ size \in Nat /\ Code(x) = Encoded(name, value, size)
  BY <1>1, <1>2, HeaderTypes DEF EntrySize, Code
<1>4. max_size \in Nat /\ num_elements \in Nat /\ Len(h) \in Nat /\ Len(buffer) \in Nat
  BY HeldTypes DEF RingInv, TableTypeOK
<1>5. CASE size > max_size
  <2>1. buffer' = <<>> /\ num_elements' = 0
    BY <1>2, <1>5 DEF insert
  <2>2. Len(<<>>) = 0
    OBVIOUS
  <2>3. QED
    BY <1>3, <1>4, <1>5, <2>1, <2>2, EmptyHolds
<1>6. CASE ~(size > max_size)
  <2>1. PICK room : room = max_size - size
    OBVIOUS
  <2>2. room \in Nat
    BY <1>3, <1>4, <1>6, <2>1
  <2>3. PICK k, left : /\ k \in 0..Len(h) /\ k = Evictions(room)
                       /\ Leaves(buffer, pos, k, room)
                       /\ IsRest(Evicted(k), left, buffer, h, pos, k)
    BY <2>2, RoomMade
  <2>4. buffer' = Evicted(k) \o Code(x) /\ num_elements' = num_elements - k + 1
    BY <1>2, <1>3, <1>6, <2>1, <2>3 DEF insert
  <2>5. PICK r, h2 : r = Evicted(k) /\ h2 = Append(left, x)
    OBVIOUS
  <2>6. PICK p : Keeps(r, left, p)
    BY <2>3, <2>5 DEF IsRest
  <2>7. IsLonger(buffer', h2, r, left, x)
    BY <1>1, <2>4, <2>5, <2>6, AppendedHolds
  <2>8. Follows(h2, h, k, x)
    BY <2>3, <2>7 DEF Follows, IsRest, IsLonger
  <2>9. pos[k] \in 0..Len(buffer)
    BY <2>3, HeldTypes
  <2>10. Len(r) = Len(buffer) - pos[k] /\ Len(buffer) - pos[k] <= room
    BY <2>3, <2>5 DEF IsRest, Leaves
  <2>11. Len(buffer') <= max_size
    <3>1. Len(buffer') = Len(r) + EntrySize(x)
      BY <2>7 DEF IsLonger
    <3>2. QED
      BY <1>3, <1>4, <2>1, <2>9, <2>10, <3>1
  <2>12. Len(h2) = num_elements'
    BY <1>4, <2>3, <2>4, <2>7 DEF IsRest, IsLonger
  <2>13. EntrySize(x) <= max_size
    BY <1>3, <1>4, <1>6
  <2>14. Leaves(buffer, pos, k, max_size - EntrySize(x))
    BY <1>3, <2>1, <2>3
  <2>15. PICK p2 : Keeps(buffer', h2, p2)
    BY <2>7 DEF IsLonger
  <2>16. QED
    BY <2>3, <2>8, <2>11, <2>12, <2>13, <2>14, <2>15
<1>7. QED
  BY <1>5, <1>6

LEMMA Resized ==
  ASSUME RingInv, NEW h, NEW pos, Keeps(buffer, h, pos), Len(h) = num_elements,
         NEW size \in TableSizes, resize(size)
  PROVE  \E h2, p2 :
           /\ Keeps(buffer', h2, p2) /\ Len(h2) = num_elements' /\ Len(buffer') <= size
           /\ \E k \in 0..Len(h) :
                /\ Leaves(buffer, pos, k, size)
                /\ Len(h2) = Len(h) - k /\ \A j \in 1..(Len(h) - k) : h2[j] = h[k + j]
<1>1. size \in Nat
  BY TableAssumption
<1>2. PICK k, left : /\ k \in 0..Len(h) /\ k = Evictions(size)
                     /\ Leaves(buffer, pos, k, size)
                     /\ IsRest(Evicted(k), left, buffer, h, pos, k)
  BY <1>1, RoomMade
<1>3. buffer' = Evicted(k) /\ num_elements' = num_elements - k
  BY <1>2 DEF resize
<1>4. Len(buffer') <= size
  BY <1>2, <1>3 DEF IsRest, Leaves
<1>5. PICK p : Keeps(buffer', left, p)
  BY <1>2, <1>3 DEF IsRest
<1>6. /\ Len(left) = num_elements'
      /\ Len(left) = Len(h) - k /\ \A j \in 1..(Len(h) - k) : left[j] = h[k + j]
  BY <1>2, <1>3 DEF IsRest
<1>7. QED
  BY <1>2, <1>4, <1>5, <1>6

(* What get finds.                                                         *)
LEMMA DynamicIs ==
  ASSUME NEW h, NEW pos, Keeps(buffer, h, pos), Len(h) = num_elements, NEW index \in Nat
  PROVE  Dynamic(index) = IF index >= num_elements THEN None ELSE <<h[num_elements - index]>>
<1>1. CASE index >= num_elements
  BY <1>1 DEF Dynamic
<1>2. CASE ~(index >= num_elements)
  <2>1. PICK n, k : n = num_elements /\ k = n - index
    OBVIOUS
  <2>2. /\ n \in Nat /\ index \in 0..(Len(h) - 1) /\ k \in 1..Len(h) /\ k - 1 \in 0..Len(h)
        /\ Len(h) - index - 1 = k - 1
    BY <1>2, <2>1, HeldTypes
  <2>3. Offset(index) = pos[k - 1]
    BY <2>2, OfBuffer, OffsetIs
  <2>4. h[k] \in Header /\ buffer \in Seq(Cell) /\ pos[k - 1] \in Nat
        /\ At(buffer, pos[k - 1], Code(h[k]))
    BY <2>2, HeldTypes DEF Keeps
  <2>5. EntryIn(buffer, pos[k - 1]) = h[k]
    BY <2>4, ReadEntry
  <2>6. Dynamic(index) = <<EntryIn(buffer, Offset(index))>>
    BY <1>2 DEF Dynamic, EntryIn
  <2>7. QED
    BY <1>2, <2>1, <2>3, <2>5, <2>6
<1>3. QED
  BY <1>1, <1>2

LEMMA RingInit == TableInit => RingInv
<1> SUFFICES ASSUME TableInit PROVE RingInv
  OBVIOUS
<1>1. permitted_size \in Nat
  BY TableAssumption DEF TableInit
<1>2. Len(buffer) = 0 /\ Len(<<>>) = 0 /\ <<>> \in Seq(Cell)
  BY DEF TableInit
<1>3. Keeps(buffer, <<>>, [k \in 0..0 |-> 0])
  BY EmptyHolds DEF TableInit
<1>4. TableTypeOK
  BY <1>1, <1>2 DEF TableInit, TableTypeOK
<1>5. \E h, pos : Keeps(buffer, h, pos) /\ Len(h) = num_elements
  BY <1>2, <1>3 DEF TableInit
<1>6. Len(buffer) <= max_size /\ max_size <= permitted_size
  BY <1>1, <1>2 DEF TableInit
<1>7. QED
  BY <1>4, <1>5, <1>6 DEF RingInv

LEMMA RingInsert ==
  ASSUME RingInv, NEW name \in Names, NEW value \in Values, insert(name, value)
  PROVE  RingInv'
<1>1. PICK h, pos : Keeps(buffer, h, pos) /\ Len(h) = num_elements
  BY DEF RingInv
<1>2. PICK x : x = [name |-> name, value |-> value]
  OBVIOUS
<1>3. PICK h2, p2 :
         Keeps(buffer', h2, p2) /\ Len(h2) = num_elements' /\ Len(buffer') <= max_size
  BY <1>1, <1>2, Inserted
<1>4. UNCHANGED <<max_size, permitted_size, answer>>
  BY DEF insert
<1>5. buffer' \in Seq(Cell) /\ num_elements' \in Nat
  BY <1>3, HeldTypes DEF Keeps
<1>6. TableTypeOK'
  BY <1>4, <1>5 DEF RingInv, TableTypeOK
<1>7. QED
  BY <1>3, <1>4, <1>6 DEF RingInv

LEMMA RingResize ==
  ASSUME RingInv, NEW size \in TableSizes, resize(size)
  PROVE  RingInv'
<1>1. PICK h, pos : Keeps(buffer, h, pos) /\ Len(h) = num_elements
  BY DEF RingInv
<1>2. PICK h2, p2 : Keeps(buffer', h2, p2) /\ Len(h2) = num_elements' /\ Len(buffer') <= size
  BY <1>1, Resized
<1>3. UNCHANGED <<permitted_size, answer>> /\ max_size' = size /\ size <= permitted_size
      /\ size \in Nat
  BY TableAssumption DEF resize
<1>4. buffer' \in Seq(Cell) /\ num_elements' \in Nat
  BY <1>2, HeldTypes DEF Keeps
<1>5. TableTypeOK'
  BY <1>3, <1>4 DEF RingInv, TableTypeOK
<1>6. QED
  BY <1>2, <1>3, <1>5 DEF RingInv

LEMMA RingReset ==
  ASSUME RingInv, NEW size \in TableSizes, reset_permissible_size(size)
  PROVE  RingInv'
<1>1. /\ buffer' = <<>> /\ max_size' = size /\ permitted_size' = size /\ num_elements' = 0
      /\ answer' = answer /\ size \in Nat
  BY TableAssumption DEF reset_permissible_size
<1>2. Len(<<>>) = 0 /\ <<>> \in Seq(Cell)
  OBVIOUS
<1>3. Keeps(buffer', <<>>, [k \in 0..0 |-> 0]) /\ Len(<<>>) = num_elements'
  BY <1>1, <1>2, EmptyHolds
<1>4. TableTypeOK'
  BY <1>1, <1>2 DEF RingInv, TableTypeOK
<1>5. Len(buffer') <= max_size' /\ max_size' <= permitted_size'
  BY <1>1, <1>2
<1>6. QED
  BY <1>3, <1>4, <1>5 DEF RingInv

LEMMA RingGet ==
  ASSUME RingInv, NEW index \in 0..(Len(Static) + num_elements + 1), get(index)
  PROVE  RingInv'
<1>1. PICK h, pos : Keeps(buffer, h, pos) /\ Len(h) = num_elements
  BY DEF RingInv
<1>2. Static \in Seq(Header) /\ Len(Static) \in Nat /\ num_elements \in Nat
  BY TableAssumption, LenProperties DEF Header, RingInv, TableTypeOK
<1>3. index \in Nat
  BY <1>2
<1>4. PICK found : /\ answer' = <<index, found>>
                   /\ found = IF index = 0 THEN None
                              ELSE IF index <= Len(Static) THEN <<Static[index]>>
                              ELSE Dynamic(index - (Len(Static) + 1))
  BY DEF get
<1>5. found \in {None} \cup {<<y>> : y \in Header}
  <2>1. CASE index = 0
    BY <1>4, <2>1
  <2>2. CASE index # 0 /\ index <= Len(Static)
    <3>1. index \in 1..Len(Static)
      BY <1>2, <1>3, <2>2
    <3>2. Static[index] \in Header
      BY <1>2, <3>1, ElementOfSeq
    <3>3. QED
      BY <1>4, <2>2, <3>2
  <2>3. CASE index # 0 /\ ~(index <= Len(Static))
    <3>1. PICK i : i = index - (Len(Static) + 1)
      OBVIOUS
    <3>2. i \in Nat
      BY <1>2, <1>3, <2>3, <3>1
    <3>3. found = IF i >= num_elements THEN None ELSE <<h[num_elements - i]>>
      BY <1>1, <1>4, <2>3, <3>1, <3>2, DynamicIs
    <3>4. ~(i >= num_elements) => num_elements - i \in 1..Len(h)
      BY <1>1, <1>2, <3>2
    <3>5. ~(i >= num_elements) => h[num_elements - i] \in Header
      BY <1>1, <3>4, HeldTypes
    <3>6. QED
      BY <3>3, <3>5
  <2>4. QED
    BY <2>1, <2>2, <2>3
<1>6. UNCHANGED <<buffer, max_size, permitted_size, num_elements>>
  BY DEF get
<1>7. TableTypeOK'
  BY <1>3, <1>4, <1>5, <1>6 DEF RingInv, TableTypeOK
<1>8. QED
  BY <1>6, <1>7 DEF RingInv

LEMMA RingStep == RingInv /\ [TableNext]_tableVars => RingInv'
<1> SUFFICES ASSUME RingInv, [TableNext]_tableVars PROVE RingInv'
  OBVIOUS
<1>1. CASE \E name \in Names, value \in Values : insert(name, value)
  BY <1>1, RingInsert
<1>2. CASE \E size \in TableSizes : resize(size)
  BY <1>2, RingResize
<1>3. CASE \E size \in TableSizes : reset_permissible_size(size)
  BY <1>3, RingReset
<1>4. CASE \E index \in 0..(Len(Static) + num_elements + 1) : get(index)
  BY <1>4, RingGet
<1>5. CASE UNCHANGED tableVars
  BY <1>5 DEF tableVars, RingInv, TableTypeOK
<1>6. QED
  BY <1>1, <1>2, <1>3, <1>4, <1>5 DEF TableNext

LEMMA RingAlways == TableSpec => []RingInv
BY RingInit, RingStep, PTL DEF TableSpec

(* Both walks over the ring, that of evict by the sizes in front and that  *)
(* of get by the sizes behind, meet the same entries, as many as           *)
(* num_elements counts, after any sequence of calls.                       *)
THEOREM WalksMeet == TableSpec => []DoubleEnded
<1>1. ASSUME RingInv PROVE DoubleEnded
  <2>1. PICK h, pos : Keeps(buffer, h, pos) /\ Len(h) = num_elements
    BY <1>1 DEF RingInv
  <2>2. num_elements \in Nat /\ pos[num_elements] = Len(buffer)
    BY <2>1, HeldTypes DEF Keeps
  <2>3. ASSUME NEW k \in 0..(num_elements - 1) PROVE Start(k) = Offset(num_elements - k - 1)
    <3>1. PICK index : index = num_elements - k - 1
      OBVIOUS
    <3>2. k \in 0..Len(h) /\ index \in 0..(Len(h) - 1) /\ Len(h) - index - 1 = k
      BY <2>1, <2>2, <3>1
    <3>3. Start(k) = pos[k]
      BY <2>1, <3>2, OfBuffer, StartIs
    <3>4. Offset(index) = pos[k]
      BY <2>1, <3>2, OfBuffer, OffsetIs
    <3>5. QED
      BY <3>1, <3>3, <3>4
  <2>4. Start(num_elements) = Len(buffer)
    <3>1. num_elements \in 0..Len(h)
      BY <2>1, <2>2
    <3>2. QED
      BY <2>1, <2>2, <3>1, OfBuffer, StartIs
  <2>5. QED
    BY <1>1, <2>3, <2>4 DEF DoubleEnded, RingInv
<1>2. QED
  BY <1>1, RingAlways, PTL

(* The entries take the size that HPACK gives them, which never exceeds    *)
(* the table's, so that its ring never grows.                              *)
THEOREM WithinBudget == TableSpec => []Budget
<1>1. ASSUME RingInv PROVE Budget
  <2>1. PICK h, pos : Keeps(buffer, h, pos) /\ Len(h) = num_elements
    BY <1>1 DEF RingInv
  <2>2. /\ num_elements \in Nat /\ Len(buffer) \in Nat /\ 32 * num_elements <= Len(buffer)
        /\ pos[0] = 0 /\ pos[num_elements] = Len(buffer) /\ buffer \in Seq(Cell)
    BY <2>1, HeldTypes DEF Keeps
  <2>3. num_elements * 32 <= Len(buffer)
    BY <2>2
  <2>4. num_elements = 0 => buffer = <<>>
    <3>1. ASSUME num_elements = 0 PROVE buffer = <<>>
      <4>1. Len(buffer) = 0
        BY <2>2, <3>1
      <4>2. QED
        BY <2>2, <4>1, EmptySeq
    <3>2. QED
      BY <3>1
  <2>5. QED
    BY <1>1, <2>3, <2>4 DEF Budget, RingInv
<1>2. QED
  BY <1>1, RingAlways, PTL

-----------------------------------------------------------------------------
(* The ring as the list of HeaderList.                                     *)

(* A list the other way round, as HPACK counts its headers.                *)
Newest(h) == [k \in 1..Len(h) |-> h[Len(h) + 1 - k]]

LEMMA NewestType ==
  ASSUME NEW h \in Seq(Header)
  PROVE  /\ Newest(h) \in Seq(Header) /\ Len(Newest(h)) = Len(h) /\ Len(h) \in Nat
         /\ \A k \in 1..Len(h) : Newest(h)[k] = h[Len(h) + 1 - k]
<1>1. Len(h) \in Nat /\ \A k \in 1..Len(h) : h[k] \in Header
  BY LenProperties, ElementOfSeq
<1>2. \A k \in 1..Len(h) : Len(h) + 1 - k \in 1..Len(h)
  BY <1>1
<1>3. \A k \in 1..Len(h) : h[Len(h) + 1 - k] \in Header
  BY <1>1, <1>2
<1>4. [k \in 1..Len(h) |-> h[Len(h) + 1 - k]] \in Seq(Header)
  BY <1>1, <1>3
<1>5. QED
  BY <1>1, <1>4 DEF Newest

ListedIn(ring, n) ==
  LET entry == [offset \in Int |->
        LET name  == get_size(ring, offset + 8)
            value == get_size(ring, offset + 16)
        IN  [name  |-> Copied(ring, offset + 24, name),
             value |-> Copied(ring, offset + 24 + name, value)]]
  IN  [k \in 1..n |-> entry[StartIn(ring, n - k)]]

LEMMA ListedIs ==
  ASSUME NEW ring, NEW h, NEW pos, Keeps(ring, h, pos)
  PROVE  ListedIn(ring, Len(h)) = Newest(h)
<1> DEFINE entry == [offset \in Int |-> EntryIn(ring, offset)]
<1>1. Len(h) \in Nat
  BY HeldTypes
<1>2. ListedIn(ring, Len(h)) = [k \in 1..Len(h) |-> entry[StartIn(ring, Len(h) - k)]]
  BY DEF ListedIn, EntryIn
<1>3. ASSUME NEW k \in 1..Len(h) PROVE entry[StartIn(ring, Len(h) - k)] = h[Len(h) + 1 - k]
  <2>1. PICK m : m = Len(h) + 1 - k
    OBVIOUS
  <2>2. m \in 1..Len(h) /\ m - 1 \in 0..Len(h) /\ Len(h) - k = m - 1
    BY <1>1, <2>1
  <2>3. /\ h[m] \in Header /\ ring \in Seq(Cell) /\ pos[m - 1] \in Nat
        /\ At(ring, pos[m - 1], Code(h[m]))
    BY <2>2, HeldTypes DEF Keeps
  <2>4. StartIn(ring, m - 1) = pos[m - 1]
    BY <2>2, StartIs
  <2>5. EntryIn(ring, pos[m - 1]) = h[m]
    BY <2>3, ReadEntry
  <2>6. entry[pos[m - 1]] = EntryIn(ring, pos[m - 1])
    <3>1. pos[m - 1] \in Int
      BY <2>3
    <3>2. QED
      BY <3>1
  <2>7. QED
    BY <2>1, <2>2, <2>4, <2>5, <2>6
<1>4. QED
  BY <1>2, <1>3 DEF Newest

LEMMA ListedOf ==
  /\ \A h, pos : Keeps(buffer, h, pos) /\ Len(h) = num_elements => Listed = Newest(h)
  /\ \A h, pos : Keeps(buffer', h, pos) /\ Len(h) = num_elements' => Listed' = Newest(h)
<1>1. Listed = ListedIn(buffer, num_elements)
  BY DEF Listed, ListedIn, Start, StartIn
<1>2. Listed' = ListedIn(buffer', num_elements')
  BY DEF Listed, ListedIn, Start, StartIn
<1>3. QED
  BY <1>1, <1>2, ListedIs

(* Fitting keeps the m newest headers if the total t says so.              *)
LEMMA FittingIs ==
  ASSUME NEW l \in Seq(Header), NEW size \in Nat, NEW t, t[0] = 0,
         \A j \in 1..Len(l) : t[j] = t[j - 1] + EntrySize(l[j]),
         NEW m \in 0..Len(l), t[m] <= size, \A j \in (m + 1)..Len(l) : t[j] > size,
         \A j \in 0..Len(l) : t[j] \in Nat
  PROVE  List!Fitting(l, size) = SubSeq(l, 1, m)
<1> DEFINE n == Len(l)
           total == CHOOSE f :
                      f = [k \in 0..Len(l) |-> IF k = 0 THEN 0 ELSE f[k - 1] + EntrySize(l[k])]
           fits == {k \in 0..Len(l) : total[k] <= size}
           max1 == CHOOSE x \in fits : \A y \in fits : x >= y
           g == [j \in 0..Len(l) |-> t[j]]
<1>1. Len(l) \in Nat
  BY LenProperties
<1>2. g = [k \in 0..Len(l) |-> IF k = 0 THEN 0 ELSE g[k - 1] + EntrySize(l[k])]
  <2>1. ASSUME NEW k \in 0..Len(l) PROVE t[k] = IF k = 0 THEN 0 ELSE g[k - 1] + EntrySize(l[k])
    <3>1. CASE k = 0
      BY <3>1
    <3>2. CASE k # 0
      <4>1. k \in 1..Len(l) /\ k - 1 \in 0..Len(l)
        BY <1>1, <3>2
      <4>2. g[k - 1] = t[k - 1]
        BY <4>1
      <4>3. QED
        BY <3>2, <4>1, <4>2
    <3>3. QED
      BY <3>1, <3>2
  <2>2. QED
    BY <2>1
<1>3. total = [k \in 0..Len(l) |-> IF k = 0 THEN 0 ELSE total[k - 1] + EntrySize(l[k])]
  <2> HIDE DEF g
  <2>1. \E f : f = [k \in 0..Len(l) |-> IF k = 0 THEN 0 ELSE f[k - 1] + EntrySize(l[k])]
    BY <1>2
  <2>2. QED
    BY <2>1
<1>4. total[0] = 0 /\ \A k \in 1..Len(l) : total[k] = total[k - 1] + EntrySize(l[k])
  <2>1. 0 \in 0..Len(l) /\ \A k \in 1..Len(l) : k \in 0..Len(l) /\ k # 0
    BY <1>1
  <2> HIDE DEF total
  <2>2. QED
    BY <1>3, <2>1
<1>5. \A k \in 0..Len(l) : total[k] = t[k]
  <2> HIDE DEF total
  <2> DEFINE Off == {k \in Nat : k <= Len(l) /\ total[k] # t[k]}
  <2>1. ASSUME NEW k \in Off, \A i \in Off : k <= i PROVE FALSE
    <3>1. k \in Nat /\ k <= Len(l) /\ total[k] # t[k]
      OBVIOUS
    <3>2. k # 0
      BY <1>4, <3>1
    <3>3. k \in 1..Len(l) /\ k - 1 \in Nat /\ k - 1 <= Len(l) /\ ~(k <= k - 1)
      BY <1>1, <3>1, <3>2
    <3>4. total[k - 1] = t[k - 1]
      BY <2>1, <3>3
    <3>5. QED
      BY <1>4, <3>1, <3>3, <3>4
  <2>2. Off = {}
    <3>1. Off \in SUBSET Nat
      OBVIOUS
    <3> HIDE DEF Off
    <3>2. QED
      BY <2>1, <3>1, HasLeast
  <2>3. QED
    BY <1>1, <2>2
<1>6. fits = {k \in 0..Len(l) : t[k] <= size}
  <2> HIDE DEF total
  <2>1. QED
    BY <1>5
<1>7. m \in fits /\ \A y \in fits : m >= y
  <2> HIDE DEF fits
  <2>1. m \in fits
    BY <1>6
  <2>2. ASSUME NEW y \in fits PROVE m >= y
    <3>1. y \in 0..Len(l) /\ t[y] <= size /\ t[y] \in Nat
      BY <1>6
    <3>2. y \notin (m + 1)..Len(l)
      BY <3>1
    <3>3. QED
      BY <1>1, <3>1, <3>2
  <2>3. QED
    BY <2>1, <2>2
<1>8. max1 = m
  <2>1. fits \in SUBSET Nat
    <3> HIDE DEF fits
    <3>1. QED
      BY <1>1, <1>6
  <2> HIDE DEF fits
  <2>2. max1 \in fits /\ \A y \in fits : max1 >= y
    BY <1>7
  <2> HIDE DEF max1
  <2>3. max1 >= m /\ m >= max1 /\ max1 \in Nat /\ m \in Nat
    BY <1>7, <2>1, <2>2
  <2>4. QED
    BY <2>3
<1>9. List!Fitting(l, size) = SubSeq(l, 1, max1)
  BY DEF List!Fitting, List!SizeOf, List!Max, EntrySize
<1>10. QED
  <2> HIDE DEF max1
  <2>1. QED
    BY <1>8, <1>9

(* The m newest of a list.                                                 *)
LEMMA NewestFirst ==
  ASSUME NEW l \in Seq(Header), NEW g \in Seq(Header), Len(g) <= Len(l),
         \A j \in 1..Len(g) : l[j] = g[Len(g) + 1 - j]
  PROVE  SubSeq(l, 1, Len(g)) = Newest(g)
<1>1. Len(g) \in Nat /\ Len(l) \in Nat /\ \A j \in 1..Len(l) : l[j] \in Header
  BY LenProperties, ElementOfSeq
<1>2. PICK m : m = Len(g)
  OBVIOUS
<1>3. 1 \in Int /\ m \in Int /\ m \in Nat /\ \A j \in 1..m : j \in 1..Len(l)
  BY <1>1, <1>2
<1>4. \A j \in 1..m : l[j] \in Header
  BY <1>1, <1>3
<1>5. /\ SubSeq(l, 1, m) \in Seq(Header)
      /\ Len(SubSeq(l, 1, m)) = IF 1 <= m THEN m - 1 + 1 ELSE 0
      /\ \A j \in 1..(m - 1 + 1) : SubSeq(l, 1, m)[j] = l[1 + j - 1]
  BY <1>3, <1>4, SubSeqProperties
<1>6. m - 1 + 1 = m /\ (~(1 <= m) => m = 0) /\ \A j \in 1..m : 1 + j - 1 = j
  BY <1>3
<1>7. Len(SubSeq(l, 1, m)) = m /\ \A j \in 1..m : SubSeq(l, 1, m)[j] = Newest(g)[j]
  BY <1>2, <1>5, <1>6, NewestType
<1>8. QED
  BY <1>2, <1>5, <1>7, NewestType, SeqEqual

LEMMA ResizeFits ==
  ASSUME NEW ring, NEW h, NEW pos, Keeps(ring, h, pos), NEW size \in Nat,
         NEW k \in 0..Len(h), Leaves(ring, pos, k, size), NEW g \in Seq(Header),
         Len(g) = Len(h) - k, \A j \in 1..(Len(h) - k) : g[j] = h[k + j]
  PROVE  List!Fitting(Newest(h), size) = Newest(g)
<1>1. PICK n, m, l : n = Len(h) /\ m = n - k /\ l = Newest(h)
  OBVIOUS
<1>2. /\ n \in Nat /\ k \in 0..n /\ m \in 0..n /\ m = n - k /\ m \in Nat
      /\ h \in Seq(Header) /\ l \in Seq(Header) /\ Len(l) = n
      /\ \A j \in 1..n : l[j] = h[n + 1 - j]
      /\ Len(g) = m /\ \A j \in 1..m : g[j] = h[k + j]
  <2>1. h \in Seq(Header) /\ Len(h) \in Nat
    BY HeldTypes DEF Keeps
  <2>2. n \in Nat /\ k \in 0..n /\ m \in 0..n /\ m \in Nat
    BY <1>1, <2>1
  <2>3. QED
    BY <1>1, <2>1, <2>2, NewestType
<1> DEFINE t == [j \in 0..n |-> pos[n] - pos[n - j]]
<1>3. \A j \in 0..n : t[j] = pos[n] - pos[n - j]
  OBVIOUS
<1> HIDE DEF t
<1>4. /\ pos[n] = Len(ring) /\ \A j \in 0..n : pos[j] \in Nat /\ pos[j] <= pos[n]
      /\ \A j \in 1..n : pos[j] = pos[j - 1] + EntrySize(h[j]) /\ EntrySize(h[j]) \in Nat
  <2>1. pos[n] = Len(ring) /\ \A j \in 0..n : pos[j] \in Nat
    BY <1>1 DEF Keeps
  <2>2. \A j \in 0..n : pos[j] <= pos[n]
    <3>1. n \in 0..n /\ \A j \in 0..n : j <= n
      BY <1>2
    <3>2. QED
      BY <1>1, <3>1, HeldTypes
  <2>3. \A j \in 1..n : pos[j] = pos[j - 1] + EntrySize(h[j])
    BY <1>1 DEF Keeps
  <2>4. \A j \in 1..n : EntrySize(h[j]) \in Nat
    BY <1>1, HeldTypes, HeaderTypes
  <2>5. QED
    BY <2>1, <2>2, <2>3, <2>4
<1>5. \A j \in 0..n : n - j \in 0..n
  BY <1>2
<1>6. \A j \in 0..n : t[j] \in Nat
  <2>1. \A a, b \in Nat : b <= a => a - b \in Nat
    OBVIOUS
  <2>2. n \in 0..n
    BY <1>2
  <2>3. QED
    BY <1>3, <1>4, <1>5, <2>1, <2>2, ZenonT(30)
<1>7. t[0] = 0
  <2>1. 0 \in 0..n /\ n - 0 = n /\ n \in 0..n
    BY <1>2
  <2>2. t[0] = pos[n] - pos[n] /\ pos[n] \in Nat
    BY <1>3, <1>4, <2>1
  <2>3. QED
    BY <2>2
<1>8. ASSUME NEW j \in 1..n PROVE t[j] = t[j - 1] + EntrySize(l[j])
  <2>1. PICK i : i = n + 1 - j
    OBVIOUS
  <2>2. /\ i \in 1..n /\ i \in 0..n /\ i - 1 \in 0..n /\ j \in 0..n /\ j - 1 \in 0..n /\ n \in 0..n
        /\ n - j = i - 1 /\ n - (j - 1) = i
    BY <1>2, <2>1
  <2>3. t[j] = pos[n] - pos[i - 1] /\ t[j - 1] = pos[n] - pos[i] /\ l[j] = h[i]
    BY <1>2, <1>3, <2>1, <2>2
  <2>4. /\ pos[i] = pos[i - 1] + EntrySize(h[i]) /\ EntrySize(h[i]) \in Nat
        /\ pos[i] \in Nat /\ pos[i - 1] \in Nat /\ pos[n] \in Nat
    BY <1>4, <2>2
  <2>5. QED
    BY <2>3, <2>4
<1>9. t[m] <= size
  <2>1. n - m = k
    BY <1>2
  <2>2. QED
    BY <1>2, <1>3, <1>4, <2>1 DEF Leaves
<1>10. ASSUME NEW j \in (m + 1)..n PROVE t[j] > size
  <2>1. n - j \in 0..(k - 1) /\ j \in 0..n
    BY <1>2
  <2>2. Len(ring) - pos[n - j] > size
    BY <2>1 DEF Leaves
  <2>3. QED
    BY <1>3, <1>4, <2>1, <2>2
<1>11. List!Fitting(l, size) = SubSeq(l, 1, m)
  BY <1>2, <1>6, <1>7, <1>8, <1>9, <1>10, FittingIs
<1>12. \A j \in 1..Len(g) : l[j] = g[Len(g) + 1 - j]
  <2>1. ASSUME NEW j \in 1..m PROVE l[j] = g[m + 1 - j]
    <3>1. j \in 1..n /\ m + 1 - j \in 1..m /\ k + (m + 1 - j) = n + 1 - j
      BY <1>2
    <3>2. QED
      BY <1>2, <3>1
  <2>2. QED
    BY <1>2, <2>1
<1>13. Len(g) <= Len(l)
  BY <1>2
<1>14. SubSeq(l, 1, Len(g)) = Newest(g)
  BY <1>2, <1>12, <1>13, NewestFirst
<1>15. QED
  BY <1>1, <1>2, <1>11, <1>14

LEMMA InsertFits ==
  ASSUME NEW ring, NEW h, NEW pos, Keeps(ring, h, pos), NEW x \in Header, NEW size \in Nat,
         NEW g \in Seq(Header),
         \/ EntrySize(x) > size /\ g = <<>>
         \/ \E k \in 0..Len(h) : /\ EntrySize(x) <= size
                                 /\ Leaves(ring, pos, k, size - EntrySize(x))
                                 /\ Follows(g, h, k, x)
  PROVE  List!Fitting(<<x>> \o Newest(h), size) = Newest(g)
<1>1. PICK n, l, z : n = Len(h) /\ l = <<x>> \o Newest(h) /\ z = EntrySize(x)
  OBVIOUS
<1>2. /\ n \in Nat /\ z \in Nat /\ h \in Seq(Header) /\ Newest(h) \in Seq(Header)
      /\ Len(Newest(h)) = n /\ \A j \in 1..n : Newest(h)[j] = h[n + 1 - j]
  <2>1. h \in Seq(Header) /\ Len(h) \in Nat
    BY HeldTypes DEF Keeps
  <2>2. QED
    BY <1>1, <2>1, NewestType, HeaderTypes
<1>3. l \in Seq(Header) /\ Len(l) = n + 1 /\ l[1] = x /\ \A j \in 1..n : l[1 + j] = h[n + 1 - j]
  <2>1. <<x>> \in Seq(Header) /\ Len(<<x>>) = 1 /\ <<x>>[1] = x /\ 1 \in 1..1
    OBVIOUS
  <2>2. PICK a, b : a = <<x>> /\ b = Newest(h)
    OBVIOUS
  <2>3. /\ a \in Seq(Header) /\ b \in Seq(Header) /\ Len(a) = 1 /\ a[1] = x
        /\ Len(b) = n /\ \A j \in 1..n : b[j] = h[n + 1 - j]
    BY <1>2, <2>1, <2>2
  <2>4. /\ a \o b \in Seq(Header) /\ Len(a \o b) = Len(a) + Len(b)
        /\ \A i \in 1..Len(a) : (a \o b)[i] = a[i]
        /\ \A i \in 1..Len(b) : (a \o b)[Len(a) + i] = b[i]
    BY <2>3, JoinAt, SMTT(30)
  <2>5. l = a \o b
    BY <1>1, <2>2
  <2>6. l[1] = x
    BY <2>1, <2>3, <2>4, <2>5
  <2>7. \A j \in 1..n : l[1 + j] = h[n + 1 - j]
    BY <2>3, <2>4, <2>5
  <2>8. Len(l) = n + 1
    BY <1>2, <2>3, <2>4, <2>5
  <2>9. QED
    BY <2>4, <2>5, <2>6, <2>7, <2>8
<1> DEFINE t == [j \in 0..(n + 1) |-> IF j = 0 THEN 0 ELSE z + (pos[n] - pos[n + 1 - j])]
<1>4. t[0] = 0 /\ \A j \in 1..(n + 1) : t[j] = z + (pos[n] - pos[n + 1 - j])
  <2>1. 0 \in 0..(n + 1) /\ \A j \in 1..(n + 1) : j \in 0..(n + 1) /\ j # 0
    BY <1>2
  <2>2. QED
    BY <2>1
<1> HIDE DEF t
<1>5. /\ pos[n] = Len(ring) /\ \A j \in 0..n : pos[j] \in Nat /\ pos[j] <= pos[n]
      /\ \A j \in 1..n : pos[j] = pos[j - 1] + EntrySize(h[j]) /\ EntrySize(h[j]) \in Nat
  <2>1. pos[n] = Len(ring) /\ \A j \in 0..n : pos[j] \in Nat
    BY <1>1 DEF Keeps
  <2>2. \A j \in 0..n : pos[j] <= pos[n]
    <3>1. n \in 0..n /\ \A j \in 0..n : j <= n
      BY <1>2
    <3>2. QED
      BY <1>1, <3>1, HeldTypes
  <2>3. \A j \in 1..n : pos[j] = pos[j - 1] + EntrySize(h[j])
    BY <1>1 DEF Keeps
  <2>4. \A j \in 1..n : EntrySize(h[j]) \in Nat
    BY <1>1, HeldTypes, HeaderTypes
  <2>5. QED
    BY <2>1, <2>2, <2>3, <2>4
<1>6. ASSUME NEW j \in 1..(n + 1)
      PROVE  /\ t[j] \in Nat /\ z <= t[j]
             /\ n + 1 - j \in 0..n /\ pos[n + 1 - j] \in Nat /\ pos[n] \in Nat
  <2>1. n + 1 - j \in 0..n /\ n \in 0..n
    BY <1>2
  <2>2. pos[n + 1 - j] \in Nat /\ pos[n] \in Nat /\ pos[n + 1 - j] <= pos[n]
    BY <1>5, <2>1
  <2>3. t[j] = z + (pos[n] - pos[n + 1 - j])
    BY <1>4
  <2>4. QED
    BY <1>2, <2>1, <2>2, <2>3
<1>7. \A j \in 0..Len(l) : t[j] \in Nat
  <2>1. \A j \in 0..(n + 1) : j = 0 \/ j \in 1..(n + 1)
    BY <1>2
  <2>2. QED
    BY <1>3, <1>4, <1>6, <2>1
<1>8. ASSUME NEW j \in 1..(n + 1) PROVE t[j] = t[j - 1] + EntrySize(l[j])
  <2>1. CASE j = 1
    <3>1. t[1] = z + (pos[n] - pos[n]) /\ pos[n] \in Nat /\ j - 1 = 0
      <4>1. 1 \in 1..(n + 1) /\ n + 1 - 1 = n
        BY <1>2
      <4>2. QED
        BY <1>4, <1>6, <2>1, <4>1
    <3>2. t[1] = z
      BY <1>2, <3>1
    <3>3. QED
      BY <1>1, <1>2, <1>3, <1>4, <2>1, <3>1, <3>2
  <2>2. CASE j # 1
    <3>1. PICK i : i = n + 2 - j
      OBVIOUS
    <3>2. /\ i \in 1..n /\ i - 1 \in 0..n /\ i \in 0..n /\ n \in 0..n /\ j - 1 \in 1..(n + 1)
          /\ n + 1 - j = i - 1 /\ n + 1 - (j - 1) = i
          /\ j - 1 \in 1..n /\ 1 + (j - 1) = j
      BY <1>2, <2>2, <3>1
    <3>3. t[j] = z + (pos[n] - pos[i - 1]) /\ t[j - 1] = z + (pos[n] - pos[i]) /\ l[j] = h[i]
      BY <1>3, <1>4, <3>2
    <3>4. /\ pos[i] = pos[i - 1] + EntrySize(h[i]) /\ EntrySize(h[i]) \in Nat
          /\ pos[i] \in Nat /\ pos[i - 1] \in Nat /\ pos[n] \in Nat
      BY <1>5, <3>2
    <3>5. QED
      BY <1>2, <3>3, <3>4, SMTT(30)
  <2>3. QED
    BY <2>1, <2>2
<1>9. CASE EntrySize(x) > size /\ g = <<>>
  <2>1. Len(g) = 0 /\ 0 \in 0..Len(l) /\ 0 + 1 = 1
    BY <1>2, <1>3, <1>9
  <2>2. t[0] <= size
    BY <1>4
  <2>3. \A j \in 1..Len(l) : t[j] > size
    BY <1>1, <1>2, <1>3, <1>6, <1>9
  <2>4. List!Fitting(l, size) = SubSeq(l, 1, 0)
    BY <1>3, <1>4, <1>7, <1>8, <2>1, <2>2, <2>3, FittingIs, SMTT(30)
  <2>5. Len(g) <= Len(l) /\ \A j \in 1..Len(g) : l[j] = g[Len(g) + 1 - j]
    BY <1>2, <1>3, <2>1
  <2>6. SubSeq(l, 1, Len(g)) = Newest(g)
    BY <1>3, <2>5, NewestFirst
  <2>7. QED
    BY <1>1, <2>1, <2>4, <2>6
<1>10. ASSUME NEW k \in 0..Len(h), EntrySize(x) <= size, Leaves(ring, pos, k, size - EntrySize(x)),
              Follows(g, h, k, x)
       PROVE  List!Fitting(l, size) = Newest(g)
  <2>1. PICK m : m = n - k + 1
    OBVIOUS
  <2>2. /\ m \in 1..(n + 1) /\ m \in 0..Len(l) /\ n + 1 - m = k /\ k \in 0..n /\ m \in Nat
        /\ Len(g) = m /\ g[m] = x /\ \A j \in 1..(m - 1) : g[j] = h[k + j]
    <3>1. /\ k \in 0..n /\ m \in 1..(n + 1) /\ m \in 0..(n + 1) /\ n + 1 - m = k /\ m - 1 = n - k
          /\ m \in Nat
      BY <1>1, <1>2, <2>1
    <3>2. QED
      BY <1>1, <1>3, <1>10, <2>1, <3>1 DEF Follows
  <2>3. t[m] <= size
    <3>1. t[m] = z + (pos[n] - pos[k])
      BY <1>4, <2>2
    <3>2. pos[n] - pos[k] <= size - z
      BY <1>1, <1>5, <1>10 DEF Leaves
    <3>3. pos[n] \in Nat /\ pos[k] \in Nat
      BY <1>5, <1>6, <2>2
    <3>4. QED
      BY <1>2, <3>1, <3>2, <3>3
  <2>4. ASSUME NEW j \in (m + 1)..(n + 1) PROVE t[j] > size
    <3>1. j \in 1..(n + 1) /\ n + 1 - j \in 0..(k - 1)
      BY <1>2, <2>2
    <3>2. pos[n] - pos[n + 1 - j] > size - z
      BY <1>1, <1>5, <1>10, <3>1 DEF Leaves
    <3>3. t[j] = z + (pos[n] - pos[n + 1 - j]) /\ pos[n] \in Nat /\ pos[n + 1 - j] \in Nat
      BY <1>4, <1>6, <3>1
    <3>4. QED
      BY <1>2, <3>2, <3>3
  <2>5. List!Fitting(l, size) = SubSeq(l, 1, m)
    <3>1. \A j \in (m + 1)..Len(l) : t[j] > size
      BY <1>3, <2>4
    <3>2. \A j \in 1..Len(l) : t[j] = t[j - 1] + EntrySize(l[j])
      BY <1>3, <1>8
    <3>3. t[0] = 0 /\ l \in Seq(Header) /\ m \in 0..Len(l)
      BY <1>3, <1>4, <2>2
    <3>4. QED
      BY <1>7, <2>3, <3>1, <3>2, <3>3, FittingIs
  <2>6. ASSUME NEW j \in 1..m PROVE l[j] = g[m + 1 - j]
    <3>1. CASE j = 1
      <4>1. m + 1 - j = m
        BY <2>2, <3>1
      <4>2. QED
        BY <1>3, <2>2, <3>1, <4>1
    <3>2. CASE j # 1
      <4>1. /\ j - 1 \in 1..n /\ 1 + (j - 1) = j /\ m + 1 - j \in 1..(m - 1)
            /\ k + (m + 1 - j) = n + 1 - (j - 1)
        BY <1>2, <2>2, <3>2
      <4>2. l[j] = h[n + 1 - (j - 1)] /\ g[m + 1 - j] = h[k + (m + 1 - j)]
        BY <1>3, <2>2, <4>1
      <4>3. QED
        BY <4>1, <4>2
    <3>3. QED
      BY <3>1, <3>2
  <2>7. Len(g) <= Len(l) /\ \A j \in 1..Len(g) : l[j] = g[Len(g) + 1 - j]
    BY <1>2, <1>3, <2>2, <2>6
  <2>8. SubSeq(l, 1, Len(g)) = Newest(g)
    BY <1>3, <2>7, NewestFirst
  <2>9. QED
    BY <2>2, <2>5, <2>8
<1>11. QED
  BY <1>1, <1>9, <1>10

LEMMA ListInit == TableInit => List!Init
<1> SUFFICES ASSUME TableInit PROVE List!Init
  OBVIOUS
<1>1. Keeps(buffer, <<>>, [k \in 0..0 |-> 0]) /\ Len(<<>>) = num_elements
  BY EmptyHolds DEF TableInit
<1>2. Listed = Newest(<<>>)
  BY <1>1, ListedOf
<1>3. Newest(<<>>) = <<>>
  <2>1. <<>> \in Seq(Header) /\ Len(<<>>) = 0
    OBVIOUS
  <2>2. Newest(<<>>) \in Seq(Header) /\ Len(Newest(<<>>)) = 0
    BY <2>1, NewestType
  <2>3. QED
    BY <2>2, EmptySeq
<1>4. QED
  BY <1>2, <1>3 DEF TableInit, List!Init, List!None, None

LEMMA ListInsert ==
  ASSUME RingInv, NEW name \in Names, NEW value \in Values, insert(name, value)
  PROVE  List!Next
<1>1. PICK h, pos : Keeps(buffer, h, pos) /\ Len(h) = num_elements
  BY DEF RingInv
<1>2. PICK x : x = [name |-> name, value |-> value]
  OBVIOUS
<1>3. x \in Header /\ x \in List!Header
  BY <1>2 DEF Header, List!Header
<1>4. PICK h2, p2 :
         /\ Keeps(buffer', h2, p2) /\ Len(h2) = num_elements' /\ Len(buffer') <= max_size
         /\ \/ EntrySize(x) > max_size /\ h2 = <<>>
            \/ \E k \in 0..Len(h) :
                 /\ EntrySize(x) <= max_size /\ Leaves(buffer, pos, k, max_size - EntrySize(x))
                 /\ Follows(h2, h, k, x)
  BY <1>1, <1>2, Inserted
<1>5. max_size \in Nat /\ h2 \in Seq(Header)
  BY <1>4 DEF RingInv, TableTypeOK, Keeps
<1>6. List!Fitting(<<x>> \o Newest(h), max_size) = Newest(h2)
  BY <1>1, <1>3, <1>4, <1>5, InsertFits
<1>7. Listed = Newest(h) /\ Listed' = Newest(h2)
  BY <1>1, <1>4, ListedOf
<1>8. UNCHANGED <<max_size, permitted_size, answer>>
  BY DEF insert
<1>9. List!Insert(x)
  BY <1>6, <1>7, <1>8 DEF List!Insert
<1>10. QED
  BY <1>3, <1>9 DEF List!Next

LEMMA ListResize ==
  ASSUME RingInv, NEW size \in TableSizes, resize(size)
  PROVE  List!Next
<1>1. PICK h, pos : Keeps(buffer, h, pos) /\ Len(h) = num_elements
  BY DEF RingInv
<1>2. PICK h2, p2 : /\ Keeps(buffer', h2, p2) /\ Len(h2) = num_elements'
                    /\ \E k \in 0..Len(h) :
                         /\ Leaves(buffer, pos, k, size)
                         /\ Len(h2) = Len(h) - k /\ \A j \in 1..(Len(h) - k) : h2[j] = h[k + j]
  BY <1>1, Resized, SMTT(30)
<1>3. size \in Nat /\ h2 \in Seq(Header)
  BY <1>2, TableAssumption DEF Keeps
<1>4. List!Fitting(Newest(h), size) = Newest(h2)
  BY <1>1, <1>2, <1>3, ResizeFits, SMTT(30)
<1>5. Listed = Newest(h) /\ Listed' = Newest(h2)
  BY <1>1, <1>2, ListedOf
<1>6. UNCHANGED <<permitted_size, answer>> /\ max_size' = size /\ size <= permitted_size
  BY DEF resize
<1>7. List!Resize(size)
  BY <1>4, <1>5, <1>6 DEF List!Resize
<1>8. QED
  BY <1>7 DEF List!Next

LEMMA ListReset ==
  ASSUME RingInv, NEW size \in TableSizes, reset_permissible_size(size)
  PROVE  List!Next
<1>1. /\ buffer' = <<>> /\ max_size' = size /\ permitted_size' = size /\ num_elements' = 0
      /\ answer' = answer /\ num_elements = 0
  BY DEF reset_permissible_size
<1>2. Listed = <<>> /\ Listed' = <<>>
  <2>1. PICK h, pos : Keeps(buffer, h, pos) /\ Len(h) = num_elements
    BY DEF RingInv
  <2>2. h \in Seq(Header) /\ Len(h) = 0
    BY <1>1, <2>1 DEF Keeps
  <2>3. Newest(h) \in Seq(Header) /\ Len(Newest(h)) = 0
    BY <2>2, NewestType
  <2>4. Listed = <<>>
    BY <2>1, <2>3, ListedOf, EmptySeq
  <2>5. <<>> \in Seq(Header) /\ Len(<<>>) = 0
    OBVIOUS
  <2>6. Newest(<<>>) \in Seq(Header) /\ Len(Newest(<<>>)) = 0
    BY <2>5, NewestType
  <2>7. Keeps(buffer', <<>>, [k \in 0..0 |-> 0]) /\ Len(<<>>) = num_elements'
    BY <1>1, <2>5, EmptyHolds
  <2>8. Listed' = <<>>
    BY <2>6, <2>7, ListedOf, EmptySeq
  <2>9. QED
    BY <2>4, <2>8
<1>3. List!Permit(size)
  BY <1>1, <1>2 DEF List!Permit
<1>4. QED
  BY <1>3 DEF List!Next

LEMMA ListGet ==
  ASSUME RingInv, NEW index \in 0..(Len(Static) + num_elements + 1), get(index)
  PROVE  List!Next
<1>1. PICK h, pos : Keeps(buffer, h, pos) /\ Len(h) = num_elements
  BY DEF RingInv
<1>2. PICK l, n, s : l = Newest(h) /\ n = num_elements /\ s = Len(Static)
  OBVIOUS
<1>3. /\ Static \in Seq(Header) /\ s \in Nat /\ n \in Nat /\ h \in Seq(Header)
      /\ l \in Seq(Header) /\ Len(l) = n /\ \A k \in 1..n : l[k] = h[n + 1 - k]
  <2>1. Static \in Seq(Header)
    BY TableAssumption DEF Header
  <2>2. h \in Seq(Header) /\ Len(h) = n
    BY <1>1, <1>2 DEF Keeps
  <2>3. QED
    BY <1>2, <2>1, <2>2, NewestType, LenProperties
<1>4. index \in Nat /\ index \in 0..(s + n + 1)
  BY <1>2, <1>3
<1>5. PICK found : /\ answer' = <<index, found>>
                   /\ found = IF index = 0 THEN None
                              ELSE IF index <= s THEN <<Static[index]>>
                              ELSE Dynamic(index - (s + 1))
  BY <1>2 DEF get
<1>6. UNCHANGED <<buffer, max_size, permitted_size, num_elements>>
  BY DEF get
<1>7. Listed = l /\ Listed' = l
  <2>1. Keeps(buffer', h, pos) /\ Len(h) = num_elements'
    BY <1>1, <1>6
  <2>2. QED
    BY <1>1, <1>2, <2>1, ListedOf
<1>8. PICK all : all = Static \o l
  OBVIOUS
<1>9. /\ all \in Seq(Header) /\ Len(all) = s + n /\ DOMAIN all = 1..(s + n)
      /\ \A i \in 1..s : all[i] = Static[i]
      /\ \A i \in 1..n : all[s + i] = l[i]
  <2>1. /\ Static \o l \in Seq(Header) /\ Len(Static \o l) = s + n
        /\ \A i \in 1..s : (Static \o l)[i] = Static[i]
        /\ \A i \in 1..n : (Static \o l)[s + i] = l[i]
    BY <1>2, <1>3, JoinAt
  <2>2. QED
    BY <1>8, <2>1, LenProperties
<1>10. List!Entry(index) = IF index \in 1..(s + n) THEN <<all[index]>> ELSE <<>>
  BY <1>7, <1>8, <1>9 DEF List!Entry, List!None
<1>11. found = List!Entry(index)
  <2>1. CASE index = 0
    BY <1>5, <1>10, <2>1 DEF None
  <2>2. CASE index # 0 /\ index <= s
    <3>1. index \in 1..s /\ index \in 1..(s + n)
      BY <1>3, <1>4, <2>2
    <3>2. QED
      BY <1>5, <1>9, <1>10, <2>2, <3>1
  <2>3. CASE index # 0 /\ ~(index <= s)
    <3>1. PICK i : i = index - (s + 1)
      OBVIOUS
    <3>2. i \in Nat /\ index = s + (i + 1)
      BY <1>3, <1>4, <2>3, <3>1
    <3>3. found = IF i >= n THEN None ELSE <<h[n - i]>>
      BY <1>1, <1>2, <1>5, <2>3, <3>1, <3>2, DynamicIs
    <3>4. CASE i >= n
      <4>1. index \notin 1..(s + n)
        BY <1>3, <3>2, <3>4
      <4>2. QED
        BY <1>10, <3>3, <3>4, <4>1 DEF None
    <3>5. CASE ~(i >= n)
      <4>1. index \in 1..(s + n) /\ i + 1 \in 1..n /\ n + 1 - (i + 1) = n - i
        BY <1>3, <3>2, <3>5
      <4>2. all[index] = l[i + 1] /\ l[i + 1] = h[n - i]
        BY <1>3, <1>9, <3>2, <4>1
      <4>3. QED
        BY <1>10, <3>3, <3>5, <4>1, <4>2
    <3>6. QED
      BY <3>4, <3>5
  <2>4. QED
    BY <2>1, <2>2, <2>3
<1>12. List!LookUp(index)
  BY <1>5, <1>6, <1>7, <1>11 DEF List!LookUp
<1>13. Len(Listed) = num_elements
  BY <1>2, <1>3, <1>7
<1>14. QED
  BY <1>12, <1>13 DEF List!Next

LEMMA ListStep ==
  ASSUME RingInv, [TableNext]_tableVars
  PROVE  [List!Next]_(List!vars)
<1>1. CASE \E name \in Names, value \in Values : insert(name, value)
  BY <1>1, ListInsert
<1>2. CASE \E size \in TableSizes : resize(size)
  BY <1>2, ListResize
<1>3. CASE \E size \in TableSizes : reset_permissible_size(size)
  BY <1>3, ListReset
<1>4. CASE \E index \in 0..(Len(Static) + num_elements + 1) : get(index)
  BY <1>4, ListGet
<1>5. CASE UNCHANGED tableVars
  <2>1. Listed' = Listed
    <3>1. Listed = ListedIn(buffer, num_elements) /\ Listed' = ListedIn(buffer', num_elements')
      BY DEF Listed, ListedIn, Start, StartIn
    <3>2. QED
      BY <1>5, <3>1 DEF tableVars
  <2>2. QED
    BY <1>5, <2>1 DEF tableVars, List!vars
<1>6. QED
  BY <1>1, <1>2, <1>3, <1>4, <1>5 DEF TableNext

(* The ring of bytes is a list that keeps the newest headers that fit, and *)
(* get finds in it what HPACK's index means: HeaderTable implements        *)
(* HeaderList.                                                             *)
THEOREM ImplementsList == TableSpec => IsList
<1>1. TableInit => List!Init
  BY ListInit
<1>2. ASSUME RingInv, [TableNext]_tableVars PROVE [List!Next]_(List!vars)
  BY <1>2, ListStep
<1>3. QED
  BY <1>1, <1>2, RingAlways, PTL DEF TableSpec, IsList, List!Spec
=============================================================================
