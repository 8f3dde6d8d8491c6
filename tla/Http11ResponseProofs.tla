------------------------ MODULE Http11ResponseProofs ------------------------
(***************************************************************************)
(* Proofs about Http11Response for every set of headers, capacity of the   *)
(* BufWriter and number of failures: the order of what is put on the       *)
(* connection, how it is counted, what fails without a fault, and which    *)
(* headers a head lists.                                                   *)
(***************************************************************************)
EXTENDS Http11Response, SequenceTheorems, FiniteSetTheorems, TLAPS

Calling == pc \in {"head", "flush", "direct", "drop"}

(* How far the call is, its result and written agree.                      *)
Outcomes ==
  /\ Len(results) = Current
  /\ \A a \in 1..(Current - 1) : results[a] = "err"
  /\ Calling => Current > 0 /\ ~written
  /\ pc \in {"head", "flush", "direct"} => results[Current] = "busy"
  /\ pc = "drop" => results[Current] \in {"err", "ok"}
  /\ pc = "body" => written
  /\ Idle /\ ~written => \A a \in 1..Current : results[a] = "err"
  /\ written => Current > 0 /\ results[Current] = "ok"

(* The BufWriter holds a piece of the current head and no more.            *)
Buffered ==
  /\ Calling => flushed <= pushed /\ pushed + piece <= Size(Current)
  /\ ~Calling => flushed = 0 /\ pushed = 0
  /\ pc \notin {"flush", "direct"} => piece = 0
  /\ pc = "direct" => flushed = pushed
  /\ pc = "drop" /\ results[Current] = "ok" => pushed = Size(Current)

(* What was told of the body, and what the current http_write may add.     *)
BodyCount ==
  /\ ~written => told = 0
  /\ ~Idle /\ len # StatusOnly => told + len <= MaxBody
  /\ pc = "body" => len # StatusOnly

(* The last cell on the connection is where the state says it is.          *)
LastCell ==
  LET last == wire[Len(wire)]
  IN  IF wire = <<>>
      THEN ~written /\ flushed = 0
      ELSE CASE Calling -> IF flushed > 0 THEN last.of = Current /\ last.at = flushed
                           ELSE last.of \in 1..(Current - 1)
             [] ~Calling /\ ~written -> last.of \in 1..Current
             [] ~Calling /\ written ->
                  IF told > 0 THEN last.of = 0 /\ last.at = told
                  ELSE last.of = Current /\ last.at = Size(Current)

OfHeads == \A i \in 1..Len(wire) : wire[i].of <= Current

IInv ==
  /\ TypeOK
  /\ Outcomes
  /\ OfHeads
  /\ Buffered
  /\ BodyCount
  /\ WireInOrder
  /\ ~torn => LastCell
-----------------------------------------------------------------------------
OnWire == [of : Nat, at : Nat]

(* The connection after n more cells of one head or of the body.           *)
LEMMA Grown ==
  ASSUME NEW w \in Seq(OnWire), NEW n \in Nat, NEW o \in Nat, NEW f \in Nat,
         NEW v, v = w \o [i \in 1..n |-> [of |-> o, at |-> f + i]]
  PROVE  /\ v \in Seq(OnWire)
         /\ Len(w) \in Nat /\ Len(v) = Len(w) + n
         /\ \A i \in 1..Len(w) : v[i] = w[i]
         /\ \A j \in 1..n : v[Len(w) + j] = [of |-> o, at |-> f + j]
<1> DEFINE more == [i \in 1..n |-> [of |-> o, at |-> f + i]]
<1>1. more \in Seq(OnWire) /\ Len(more) = n
  BY DEF OnWire
<1>2. Len(w) \in Nat
  BY LenProperties
<1>3. /\ v \in Seq(OnWire) /\ Len(v) = Len(w) + n
      /\ \A i \in 1..(Len(w) + n) : v[i] = IF i <= Len(w) THEN w[i] ELSE more[i - Len(w)]
  <2> HIDE DEF more
  <2>1. v = w \o more
    BY DEF more
  <2>2. /\ w \o more \in Seq(OnWire) /\ Len(w \o more) = Len(w) + Len(more)
        /\ \A i \in 1..(Len(w) + Len(more)) :
             (w \o more)[i] = IF i <= Len(w) THEN w[i] ELSE more[i - Len(w)]
    BY <1>1, ConcatProperties
  <2>3. QED
    BY <1>1, <2>1, <2>2
<1>4. ASSUME NEW i \in 1..Len(w) PROVE v[i] = w[i]
  BY <1>2, <1>3
<1>5. ASSUME NEW j \in 1..n PROVE v[Len(w) + j] = [of |-> o, at |-> f + j]
  <2>1. Len(w) + j \in 1..(Len(w) + n) /\ ~(Len(w) + j <= Len(w)) /\ (Len(w) + j) - Len(w) = j
    BY <1>2
  <2>2. QED
    BY <1>3, <2>1
<1>6. QED
  BY <1>2, <1>3, <1>4, <1>5

(* What TypeOK says of a cell on the connection.                           *)
LEMMA CellType ==
  ASSUME TypeOK, NEW i \in 1..Len(wire)
  PROVE  wire[i].of \in Nat /\ wire[i].at \in Nat
<1>1. wire \in Seq(OnWire)
  BY DEF TypeOK, OnWire
<1>2. wire[i] \in OnWire
  BY <1>1, ElementOfSeq
<1>3. QED
  BY <1>2 DEF OnWire

LEMMA LenTypes ==
  ASSUME TypeOK
  PROVE  Len(wire) \in Nat /\ Current \in Nat /\ Len(results) \in Nat /\ Len(calls) \in Nat
BY LenProperties DEF TypeOK, Current

LEMMA SizeType ==
  ASSUME TypeOK, NEW a \in 1..Current
  PROVE  Size(a) \in Nat /\ Size(a) >= 2
<1> DEFINE HeadRecord == [code : Code, lines : Seq(Name \X Value), asked : Nat]
<1>1. heads[a].lines \in Seq(Name \X Value)
  <2>1. heads \in Seq(HeadRecord) /\ a \in 1..Len(heads)
    BY DEF TypeOK, Current
  <2>2. heads[a] \in HeadRecord
    BY <2>1, ElementOfSeq
  <2>3. QED
    BY <2>2
<1>2. Len(heads[a].lines) \in Nat
  BY <1>1, LenProperties
<1>3. QED
  BY <1>2 DEF Size

(* The order is kept by a step that puts nothing on the connection and     *)
(* changes no result but "busy".                                           *)
LEMMA KeepOrder ==
  ASSUME IInv, wire' = wire, torn' = torn,
         \A a \in 1..Current : /\ results[a] \in {"err", "ok"} => results'[a] = results[a]
                               /\ heads'[a] = heads[a]
  PROVE  WireInOrder'
<1> SUFFICES ASSUME ~torn PROVE WireInOrder'
  BY DEF WireInOrder
<1>1. TypeOK /\ OfHeads /\ WireInOrder /\ Len(wire) \in Nat /\ Current \in Nat
  BY LenTypes DEF IInv
<1>2. ASSUME wire # <<>>
      PROVE  /\ wire[1].at = 1 /\ wire[1].of > 0
             /\ \A a \in 1..(wire[1].of - 1) : results'[a] = "err"
  <2>1. Len(wire) > 0
    BY <1>1, <1>2, EmptySeq DEF TypeOK
  <2>2. wire[1].of \in Nat /\ wire[1].of <= Current
    BY <1>1, <2>1, CellType DEF OfHeads
  <2>3. /\ wire[1].at = 1 /\ wire[1].of > 0
        /\ \A a \in 1..(wire[1].of - 1) : results[a] = "err"
    BY <1>1, <1>2 DEF WireInOrder
  <2>4. ASSUME NEW a \in 1..(wire[1].of - 1) PROVE results'[a] = "err"
    <3>1. a \in 1..Current
      BY <1>1, <2>2
    <3>2. QED
      BY <2>3, <3>1
  <2>5. QED
    BY <2>3, <2>4
<1>3. ASSUME NEW i \in 1..(Len(wire) - 1)
      PROVE  Follows(wire[i], wire[i + 1])'
  <2> DEFINE c == wire[i]
             d == wire[i + 1]
  <2>1. i \in 1..Len(wire) /\ i + 1 \in 1..Len(wire)
    BY <1>1
  <2>2. c.of \in Nat /\ d.of \in Nat /\ c.of <= Current /\ d.of <= Current
    BY <1>1, <2>1, CellType DEF OfHeads
  <2>3. Follows(c, d)
    BY <1>1 DEF WireInOrder
  <2>4. CASE d.of = c.of /\ d.at = c.at + 1
    BY <2>4 DEF Follows
  <2>5. CASE /\ d.of > c.of /\ c.of > 0 /\ d.at = 1
             /\ \A a \in c.of..(d.of - 1) : results[a] = "err"
    <3>1. ASSUME NEW a \in c.of..(d.of - 1) PROVE results'[a] = "err"
      <4>1. a \in 1..Current
        BY <1>1, <2>2, <2>5
      <4>2. QED
        BY <2>5, <4>1
    <3>2. QED
      BY <2>5, <3>1 DEF Follows
  <2>6. CASE /\ d.of = 0 /\ c.of > 0 /\ d.at = 1
             /\ results[c.of] = "ok" /\ c.at = Size(c.of)
    <3>1. c.of \in 1..Current
      BY <1>1, <2>2, <2>6
    <3>2. results'[c.of] = "ok" /\ heads'[c.of] = heads[c.of]
      BY <2>6, <3>1
    <3>3. QED
      BY <2>6, <3>2 DEF Follows, Size
  <2>7. QED
    BY <2>3, <2>4, <2>5, <2>6 DEF Follows
<1>4. QED
  BY <1>2, <1>3 DEF WireInOrder

(* The order is kept by n more cells, the first of which may follow.       *)
LEMMA GrowOrder ==
  ASSUME IInv, torn' = torn, UNCHANGED <<heads, results>>,
         NEW n \in Nat \ {0}, NEW o \in Nat, NEW f \in Nat,
         wire' = wire \o [i \in 1..n |-> [of |-> o, at |-> f + i]],
         ~torn /\ wire = <<>> => f = 0 /\ o > 0 /\ \A a \in 1..(o - 1) : results[a] = "err",
         ~torn /\ wire # <<>> => Follows(wire[Len(wire)], [of |-> o, at |-> f + 1])
  PROVE  WireInOrder'
<1> SUFFICES ASSUME ~torn PROVE WireInOrder'
  BY DEF WireInOrder
<1>1. TypeOK /\ WireInOrder /\ Len(wire) \in Nat /\ n \in Nat
  BY LenTypes DEF IInv
<1>2. /\ Len(wire') = Len(wire) + n
      /\ \A i \in 1..Len(wire) : wire'[i] = wire[i]
      /\ \A j \in 1..n : wire'[Len(wire) + j] = [of |-> o, at |-> f + j]
  BY <1>1, Grown DEF TypeOK, OnWire
<1>3. /\ wire'[1].at = 1 /\ wire'[1].of > 0
      /\ \A a \in 1..(wire'[1].of - 1) : results[a] = "err"
  <2>1. CASE wire = <<>>
    <3>1. Len(wire) = 0
      BY <2>1
    <3>2. wire'[1] = [of |-> o, at |-> 0 + 1]
      BY <1>2, <2>1, <3>1
    <3>3. QED
      BY <2>1, <3>2
  <2>2. CASE wire # <<>>
    <3>1. Len(wire) > 0
      BY <1>1, <2>2, EmptySeq DEF TypeOK
    <3>2. wire'[1] = wire[1]
      BY <1>1, <1>2, <3>1
    <3>3. QED
      BY <1>1, <2>2, <3>2 DEF WireInOrder
  <2>3. QED
    BY <2>1, <2>2
<1>4. ASSUME NEW i \in 1..(Len(wire') - 1) PROVE Follows(wire'[i], wire'[i + 1])
  <2>1. CASE i < Len(wire)
    <3>1. i \in 1..(Len(wire) - 1) /\ i \in 1..Len(wire) /\ i + 1 \in 1..Len(wire)
      BY <1>1, <1>2, <2>1
    <3>2. QED
      BY <1>1, <1>2, <3>1 DEF WireInOrder
  <2>2. CASE i = Len(wire)
    <3>1. wire # <<>> /\ i \in 1..Len(wire) /\ 1 \in 1..n
      BY <1>1, <1>2, <2>2
    <3>2. wire'[i] = wire[Len(wire)] /\ wire'[i + 1] = [of |-> o, at |-> f + 1]
      BY <1>2, <2>2, <3>1
    <3>3. QED
      BY <3>1, <3>2
  <2>3. CASE i > Len(wire)
    <3>1. PICK j \in 1..n : i = Len(wire) + j /\ j + 1 \in 1..n
      <4>1. i - Len(wire) \in 1..n /\ i = Len(wire) + (i - Len(wire))
            /\ (i - Len(wire)) + 1 \in 1..n
        BY <1>1, <1>2, <2>3
      <4>2. QED
        BY <4>1
    <3>2. wire'[i] = [of |-> o, at |-> f + j]
      BY <1>2, <3>1
    <3>3. wire'[i + 1] = [of |-> o, at |-> f + (j + 1)]
      <4>1. i + 1 = Len(wire) + (j + 1)
        BY <1>1, <3>1
      <4>2. QED
        BY <1>2, <3>1, <4>1
    <3>4. f + (j + 1) = (f + j) + 1
      BY <3>1
    <3>5. QED
      BY <3>2, <3>3, <3>4 DEF Follows
  <2>4. QED
    BY <1>1, <1>2, <2>1, <2>2, <2>3
<1>5. QED
  BY <1>3, <1>4 DEF WireInOrder, Follows, Size
-----------------------------------------------------------------------------
LEMMA InitIInv == Init => IInv
<1> SUFFICES ASSUME Init PROVE IInv
  OBVIOUS
<1>1. Len(heads) = 0 /\ Len(results) = 0 /\ Len(wire) = 0
  BY DEF Init
<1>2. TypeOK
  <2>1. headers \in [Name -> Seq(Value)]
    BY DEF Init
  <2>2. /\ heads \in Seq([code : Code, lines : Seq(Name \X Value), asked : Nat])
        /\ calls \in Seq([op : {"add", "remove"}, name : Name, value : Value])
        /\ wire \in Seq([of : Nat, at : Nat])
        /\ results \in Seq({"busy", "err", "ok"})
    BY EmptySeq DEF Init
  <2>3. len \in {StatusOnly} \cup 0..MaxWrite /\ faults \in 0..MaxFaults /\ told \in 0..MaxBody
    BY BoundsAssumption DEF Init
  <2>4. QED
    BY <2>1, <2>2, <2>3 DEF Init, TypeOK
<1>3. Outcomes /\ OfHeads
  BY <1>1 DEF Init, Outcomes, OfHeads, Current, Calling, Idle
<1>4. Buffered /\ BodyCount
  BY DEF Init, Buffered, BodyCount, Calling, Idle
<1>5. WireInOrder /\ LastCell
  BY <1>1 DEF Init, WireInOrder, LastCell
<1>6. QED
  BY <1>2, <1>3, <1>4, <1>5 DEF IInv

(* A change of the headers leaves the rest of the state alone.             *)
LEMMA ChangeStep ==
  ASSUME IInv, NEW op \in {"add", "remove"}, NEW name \in Name, NEW value \in Value,
         ChangeHeaders(op, name, value), headers' \in [Name -> Seq(Value)]
  PROVE  IInv'
<1> USE DEF headVars, bufVars
<1>1. /\ calls' = Append(calls, [op |-> op, name |-> name, value |-> value])
      /\ UNCHANGED <<written, pc, len, heads, results, pushed, flushed, piece, wire, told,
                     torn, faults>>
  BY DEF ChangeHeaders
<1>2. calls' \in Seq([op : {"add", "remove"}, name : Name, value : Value])
  BY <1>1, AppendProperties DEF IInv, TypeOK
<1>3. TypeOK'
  BY <1>1, <1>2 DEF IInv, TypeOK
<1>4. Outcomes' /\ OfHeads' /\ Buffered' /\ BodyCount' /\ (torn' <=> torn)
      /\ (LastCell' <=> LastCell)
  BY <1>1 DEF IInv, Outcomes, OfHeads, Buffered, BodyCount, LastCell, Calling, Idle,
              Current, Size
<1>5. WireInOrder'
  BY <1>1, KeepOrder
<1>6. QED
  BY <1>3, <1>4, <1>5 DEF IInv

LEMMA AddHeaderStep ==
  ASSUME IInv, NEW name \in Name, NEW value \in Value, AddHeader(name, value)
  PROVE  IInv'
<1>1. headers' \in [Name -> Seq(Value)]
  <2>1. headers \in [Name -> Seq(Value)] /\ Lower[name] \in Name
    BY NamesAssumption DEF IInv, TypeOK
  <2>2. Append(headers[Lower[name]], value) \in Seq(Value)
    BY <2>1, AppendProperties
  <2>3. \/ headers' = [headers EXCEPT ![Lower[name]] = Append(headers[Lower[name]], value)]
        \/ headers' = headers
    BY <2>1 DEF AddHeader
  <2>4. QED
    BY <2>1, <2>2, <2>3
<1>2. QED
  BY <1>1, ChangeStep DEF AddHeader

LEMMA RemoveHeaderStep ==
  ASSUME IInv, NEW name \in Name, RemoveHeader(name)
  PROVE  IInv'
<1>1. headers' \in [Name -> Seq(Value)]
  BY DEF IInv, TypeOK, RemoveHeader
<1>2. QED
  BY <1>1, NamesAssumption, ChangeStep DEF RemoveHeader

(* The header lines of a head are names and values.                        *)
LEMMA LinesType ==
  ASSUME TypeOK, NEW lines \in Lines
  PROVE  lines \in Seq(Name \X Value)
<1> DEFINE entries == {e \in Name \X (1..MaxOps) : e[2] <= Len(headers[e[1]])}
           K == Cardinality(entries)
<1>1. K \in Nat
  <2>1. IsFiniteSet(1..MaxOps)
    BY BoundsAssumption, FS_Interval
  <2>2. IsFiniteSet(Name \X (1..MaxOps))
    BY <2>1, NamesAssumption, FS_Product
  <2>3. IsFiniteSet(entries)
    BY <2>2, FS_Subset
  <2>4. QED
    BY <2>3, FS_CardinalityType
<1>2. PICK s \in [1..K -> entries] :
        lines = [i \in DOMAIN s |-> <<s[i][1], headers[s[i][1]][s[i][2]]>>]
  BY DEF Lines
<1>3. lines = [i \in 1..K |-> <<s[i][1], headers[s[i][1]][s[i][2]]>>]
  BY <1>2
<1>4. ASSUME NEW i \in 1..K
      PROVE  <<s[i][1], headers[s[i][1]][s[i][2]]>> \in Name \X Value
  <2>1. s[i] \in entries
    BY <1>2, <1>4
  <2>2. s[i][1] \in Name /\ s[i][2] \in 1..Len(headers[s[i][1]])
    <3>1. s[i][1] \in Name /\ s[i][2] \in 1..MaxOps /\ s[i][2] <= Len(headers[s[i][1]])
      BY <2>1
    <3>2. headers[s[i][1]] \in Seq(Value)
      BY <3>1 DEF TypeOK
    <3>3. Len(headers[s[i][1]]) \in Nat
      BY <3>2, LenProperties
    <3>4. QED
      BY <3>1, <3>3, BoundsAssumption
  <2>3. headers[s[i][1]] \in Seq(Value)
    BY <2>2 DEF TypeOK
  <2>4. headers[s[i][1]][s[i][2]] \in Value
    BY <2>2, <2>3, ElementOfSeq
  <2>5. QED
    BY <2>2, <2>4
<1> HIDE DEF K
<1>5. lines \in [1..K -> Name \X Value]
  BY <1>3, <1>4
<1>6. QED
  BY <1>1, <1>5, SeqDef

LEMMA BeginStep ==
  ASSUME IInv, NEW code \in Code, BeginHead(code),
         len' \in {StatusOnly} \cup 0..MaxWrite,
         len' # StatusOnly => told + len' <= MaxBody
  PROVE  IInv'
<1> USE DEF headVars, bufVars, headerVars
<1>1. /\ TypeOK /\ Outcomes /\ OfHeads /\ Buffered /\ BodyCount
      /\ Len(wire) \in Nat /\ Current \in Nat
  BY LenTypes DEF IInv
<1>2. /\ pc = "idle" /\ ~written /\ pc' = "head"
      /\ results' = Append(results, "busy")
      /\ UNCHANGED <<headers, calls, written, pushed, flushed, piece, wire, told, torn, faults>>
  BY DEF BeginHead, Idle
<1>3. PICK lines \in Lines :
        heads' = Append(heads, [code |-> code, lines |-> lines, asked |-> Len(calls)])
  BY DEF BeginHead
<1> DEFINE HeadRecord == [code : Code, lines : Seq(Name \X Value), asked : Nat]
           h == [code |-> code, lines |-> lines, asked |-> Len(calls)]
<1>4. h \in HeadRecord /\ heads \in Seq(HeadRecord)
  BY <1>1, LinesType, LenTypes DEF TypeOK
<1>5. /\ heads' \in Seq(HeadRecord) /\ Len(heads') = Current + 1
      /\ \A a \in 1..Current : heads'[a] = heads[a]
      /\ heads'[Current + 1].lines = lines
  <2> HIDE DEF HeadRecord, h
  <2>1. heads' = Append(heads, h)
    BY <1>3 DEF h
  <2>2. /\ Append(heads, h) \in Seq(HeadRecord) /\ Len(Append(heads, h)) = Len(heads) + 1
        /\ \A a \in 1..Len(heads) : Append(heads, h)[a] = heads[a]
        /\ Append(heads, h)[Len(heads) + 1] = h
    BY <1>4, AppendProperties
  <2>3. h.lines = lines
    BY DEF h
  <2>4. QED
    BY <2>1, <2>2, <2>3 DEF Current
<1>6. /\ results' \in Seq({"busy", "err", "ok"}) /\ Len(results') = Current + 1
      /\ \A a \in 1..Current : results'[a] = results[a]
      /\ results'[Current + 1] = "busy"
  BY <1>1, <1>2, AppendProperties DEF TypeOK, Outcomes
<1>7. Current' = Current + 1 /\ (Current + 1) - 1 = Current
  BY <1>1, <1>5 DEF Current
<1>8. pushed = 0 /\ flushed = 0 /\ piece = 0 /\ \A a \in 1..Current : results[a] = "err"
  BY <1>1, <1>2 DEF Buffered, Outcomes, Calling, Idle
<1>9. TypeOK'
  BY <1>1, <1>2, <1>5, <1>6 DEF TypeOK
<1>10. Outcomes'
  BY <1>1, <1>2, <1>6, <1>7, <1>8 DEF Outcomes, Calling, Idle
<1>11. OfHeads'
  <2>1. ASSUME NEW i \in 1..Len(wire) PROVE wire[i].of <= Current + 1
    <3>1. wire[i].of \in Nat /\ wire[i].of <= Current
      BY <1>1, CellType DEF OfHeads
    <3>2. QED
      BY <1>1, <3>1
  <2>2. QED
    BY <1>2, <1>7, <2>1 DEF OfHeads
<1>12. Buffered'
  <2>1. Len(lines) \in Nat
    BY <1>1, LinesType, LenProperties
  <2>2. Size(Current)' = Len(lines) + 2
    BY <1>5, <1>7 DEF Size
  <2>3. QED
    BY <1>2, <1>8, <2>1, <2>2 DEF Buffered, Calling
<1>13. BodyCount'
  BY <1>1, <1>2 DEF BodyCount, Idle
<1>14. WireInOrder'
  BY <1>2, <1>5, <1>6, KeepOrder
<1>15. ASSUME ~torn' PROVE LastCell'
  <2>1. LastCell
    BY <1>2, <1>15 DEF IInv
  <2>2. wire # <<>> => wire[Len(wire)].of \in 1..Current
    BY <1>2, <2>1 DEF LastCell, Calling
  <2>3. QED
    BY <1>2, <1>7, <1>8, <2>2 DEF LastCell, Calling
<1>16. QED
  BY <1>9, <1>10, <1>11, <1>12, <1>13, <1>14, <1>15 DEF IInv

LEMMA WriteStatusStep ==
  ASSUME IInv, NEW code \in Code, WriteStatus(code)
  PROVE  IInv'
BY BeginStep DEF WriteStatus

LEMMA WriteStep ==
  ASSUME IInv, NEW n \in 0..MaxWrite, Write(n)
  PROVE  IInv'
<1> USE DEF headVars, bufVars, headerVars
<1>1. len' = n /\ told + n <= MaxBody
  BY DEF Write
<1>2. CASE BeginHead(OK)
  BY <1>1, <1>2, BeginStep, NamesAssumption
<1>3. CASE /\ Idle /\ written /\ pc' = "body"
           /\ UNCHANGED <<headerVars, written, headVars, bufVars, wire, told, torn, faults>>
  <2>1. TypeOK' /\ n # StatusOnly
    BY <1>1, <1>3, BoundsAssumption DEF IInv, TypeOK, StatusOnly
  <2>2. Outcomes' /\ OfHeads'
    BY <1>3 DEF IInv, Outcomes, OfHeads, Calling, Idle, Current
  <2>3. Buffered' /\ BodyCount'
    BY <1>1, <1>3, <2>1 DEF IInv, Buffered, BodyCount, Calling, Idle
  <2>4. WireInOrder'
    BY <1>3, KeepOrder
  <2>5. ~torn' => LastCell'
    BY <1>3 DEF IInv, LastCell, Calling, Idle, Current, Size
  <2>6. QED
    BY <2>1, <2>2, <2>3, <2>4, <2>5 DEF IInv
<1>4. QED
  BY <1>2, <1>3 DEF Write
-----------------------------------------------------------------------------
(* The steps of a call that put nothing on the connection.                 *)
LEMMA PushStep == ASSUME IInv, Push PROVE IInv'
<1> USE DEF headVars, bufVars, headerVars
<1>1. /\ TypeOK /\ Outcomes /\ OfHeads /\ Buffered /\ BodyCount
      /\ Current \in Nat
  BY LenTypes DEF IInv
<1>2. /\ pc = "head"
      /\ UNCHANGED <<headers, calls, written, pc, len, heads, results, flushed, piece, wire,
                     told, torn, faults>>
  BY DEF Push
<1>3. PICK k \in 1..(Size(Current) - pushed) : pushed' = pushed + k
  BY DEF Push
<1>4. Size(Current) \in Nat /\ pushed \in Nat /\ flushed \in Nat /\ piece = 0
      /\ flushed <= pushed
  BY <1>1, <1>2, SizeType DEF Outcomes, Buffered, Calling, TypeOK
<1>5. pushed + k \in Nat /\ pushed + k <= Size(Current) /\ flushed <= pushed + k
  BY <1>3, <1>4
<1>6. TypeOK'
  BY <1>1, <1>2, <1>3, <1>5 DEF TypeOK
<1>7. Outcomes' /\ OfHeads' /\ BodyCount'
  BY <1>1, <1>2 DEF Outcomes, OfHeads, BodyCount, Calling, Idle, Current
<1>8. Buffered'
  <2>1. Size(Current)' = Size(Current)
    BY <1>2 DEF Size, Current
  <2>2. pushed' + piece' <= Size(Current)
    BY <1>2, <1>3, <1>4, <1>5
  <2>3. flushed' <= pushed'
    BY <1>2, <1>3, <1>5
  <2>4. QED
    BY <1>2, <1>4, <2>1, <2>2, <2>3 DEF Buffered, Calling
<1>9. WireInOrder'
  BY <1>2, KeepOrder
<1>10. ~torn' => LastCell'
  BY <1>2 DEF IInv, LastCell, Calling, Current
<1>11. QED
  BY <1>6, <1>7, <1>8, <1>9, <1>10 DEF IInv

LEMMA OverflowStep == ASSUME IInv, Overflow PROVE IInv'
<1> USE DEF headVars, bufVars, headerVars
<1>1. /\ TypeOK /\ Outcomes /\ OfHeads /\ Buffered /\ BodyCount
      /\ Current \in Nat
  BY LenTypes DEF IInv
<1>2. /\ pc = "head"
      /\ UNCHANGED <<headers, calls, written, len, heads, results, pushed, flushed, wire,
                     told, torn, faults>>
  BY DEF Overflow
<1>3. PICK k \in 1..(Size(Current) - pushed) :
        /\ k > Spare \/ k >= Capacity
        /\ piece' = k
        /\ pc' = IF k > Spare THEN "flush" ELSE "direct"
  BY DEF Overflow
<1>4. Size(Current) \in Nat /\ pushed \in Nat /\ flushed \in Nat /\ flushed <= pushed
  BY <1>1, <1>2, SizeType DEF Outcomes, Buffered, Calling, TypeOK
<1>5. k \in Nat /\ pushed + k <= Size(Current)
  BY <1>4
<1>6. TypeOK'
  BY <1>1, <1>2, <1>3, <1>5 DEF TypeOK
<1>7. Outcomes' /\ OfHeads' /\ BodyCount'
  BY <1>1, <1>2, <1>3 DEF Outcomes, OfHeads, BodyCount, Calling, Idle, Current
<1>8. Buffered'
  <2>1. Size(Current)' = Size(Current)
    BY <1>2 DEF Size, Current
  <2>2. pc' = "direct" => flushed = pushed
    <3>1. pc' = "direct" => k <= Capacity - (pushed - flushed) /\ k >= Capacity
      BY <1>3, <1>4, <1>5, BoundsAssumption DEF Spare
    <3>2. QED
      BY <1>4, <1>5, <3>1, BoundsAssumption
  <2>3. pushed + piece' <= Size(Current)
    BY <1>3, <1>5
  <2>4. QED
    BY <1>2, <1>3, <1>4, <2>1, <2>2, <2>3 DEF Buffered, Calling
<1>9. WireInOrder'
  BY <1>2, KeepOrder
<1>10. ~torn' => LastCell'
  BY <1>2, <1>3 DEF IInv, LastCell, Calling, Current
<1>11. QED
  BY <1>6, <1>7, <1>8, <1>9, <1>10 DEF IInv

LEMMA FlushDoneStep == ASSUME IInv, FlushDone PROVE IInv'
<1> USE DEF headVars, bufVars, headerVars
<1>1. /\ TypeOK /\ Outcomes /\ OfHeads /\ Buffered /\ BodyCount
      /\ Current \in Nat
  BY LenTypes DEF IInv
<1>2. /\ pc = "flush" /\ flushed = pushed
      /\ UNCHANGED <<headers, calls, written, len, heads, results, flushed, wire, told, torn,
                     faults>>
  BY DEF FlushDone
<1>3. \/ pc' = "direct" /\ pushed' = pushed /\ piece' = piece
      \/ pc' = "head" /\ pushed' = pushed + piece /\ piece' = 0
  BY DEF FlushDone
<1>4. Size(Current) \in Nat /\ pushed \in Nat /\ flushed \in Nat /\ piece \in Nat
      /\ pushed + piece <= Size(Current)
  BY <1>1, <1>2, SizeType DEF Outcomes, Buffered, Calling, TypeOK
<1>5. pushed + piece \in Nat /\ flushed <= pushed + piece /\ (pushed + piece) + 0 <= Size(Current)
      /\ flushed <= pushed
  BY <1>2, <1>4
<1>6. TypeOK'
  BY <1>1, <1>2, <1>3, <1>5 DEF TypeOK
<1>7. Outcomes' /\ OfHeads' /\ BodyCount'
  BY <1>1, <1>2, <1>3 DEF Outcomes, OfHeads, BodyCount, Calling, Idle, Current
<1>8. Buffered'
  <2>1. Size(Current)' = Size(Current)
    BY <1>2 DEF Size, Current
  <2>2. CASE pc' = "direct" /\ pushed' = pushed /\ piece' = piece
    BY <1>2, <1>4, <1>5, <2>1, <2>2 DEF Buffered, Calling
  <2>3. CASE pc' = "head" /\ pushed' = pushed + piece /\ piece' = 0
    BY <1>2, <1>5, <2>1, <2>3 DEF Buffered, Calling
  <2>4. QED
    BY <1>3, <2>2, <2>3
<1>9. WireInOrder'
  BY <1>2, KeepOrder
<1>10. ~torn' => LastCell'
  BY <1>2, <1>3 DEF IInv, LastCell, Calling, Current
<1>11. QED
  BY <1>6, <1>7, <1>8, <1>9, <1>10 DEF IInv

(* The result of the current head is set.                                  *)
LEMMA SetResult ==
  ASSUME IInv, pc \in {"head", "flush", "direct"}, NEW r \in {"err", "ok"},
         results' = [results EXCEPT ![Current] = r]
  PROVE  /\ results' \in Seq({"busy", "err", "ok"}) /\ Len(results') = Current
         /\ \A a \in 1..(Current - 1) : results'[a] = "err"
         /\ results'[Current] = r
         /\ \A a \in 1..Current : results[a] \in {"err", "ok"} => results'[a] = results[a]
<1>1. /\ results \in Seq({"busy", "err", "ok"}) /\ Len(results) = Current
      /\ Current \in Nat /\ Current > 0 /\ results[Current] = "busy"
      /\ \A a \in 1..(Current - 1) : results[a] = "err"
  BY LenTypes DEF IInv, TypeOK, Outcomes, Calling
<1>2. /\ results' \in Seq({"busy", "err", "ok"}) /\ Len(results') = Len(results)
      /\ \A j \in 1..Len(results) : results'[j] = IF j = Current THEN r ELSE results[j]
  BY <1>1, ExceptSeq
<1>3. QED
  BY <1>1, <1>2

LEMMA FailStep == ASSUME IInv, Fail PROVE IInv'
<1> USE DEF headVars, bufVars, headerVars
<1>1. /\ TypeOK /\ Outcomes /\ OfHeads /\ Buffered /\ BodyCount
      /\ Current \in Nat
  BY LenTypes DEF IInv
<1>2. /\ pc \in {"flush", "direct"} /\ pc' = "drop" /\ piece' = 0
      /\ results' = [results EXCEPT ![Current] = "err"]
      /\ faults < MaxFaults /\ faults' = faults + 1
      /\ UNCHANGED <<headers, calls, written, len, heads, pushed, flushed, wire, told, torn>>
  BY DEF Fail, Fault
<1>3. /\ results' \in Seq({"busy", "err", "ok"}) /\ Len(results') = Current
      /\ \A a \in 1..(Current - 1) : results'[a] = "err"
      /\ results'[Current] = "err"
      /\ \A a \in 1..Current : results[a] \in {"err", "ok"} => results'[a] = results[a]
  BY <1>2, SetResult
<1>4. Size(Current) \in Nat /\ pushed \in Nat /\ piece \in Nat
      /\ flushed <= pushed /\ pushed + piece <= Size(Current)
  BY <1>1, <1>2, SizeType DEF Outcomes, Buffered, Calling, TypeOK
<1>5. faults' \in 0..MaxFaults
  BY <1>1, <1>2, BoundsAssumption DEF TypeOK
<1>6. TypeOK'
  BY <1>1, <1>2, <1>3, <1>5 DEF TypeOK
<1>7. Current' = Current /\ Size(Current)' = Size(Current)
  BY <1>2 DEF Current, Size
<1>8. Outcomes' /\ OfHeads' /\ BodyCount'
  BY <1>1, <1>2, <1>3, <1>7 DEF Outcomes, OfHeads, BodyCount, Calling, Idle
<1>9. Buffered'
  <2>1. pushed + 0 <= Size(Current)
    BY <1>4
  <2>2. results[Current]' = "err"
    BY <1>3, <1>7
  <2>3. QED
    BY <1>2, <1>4, <1>7, <2>1, <2>2 DEF Buffered, Calling
<1>10. WireInOrder'
  BY <1>2, <1>3, KeepOrder
<1>11. ~torn' => LastCell'
  BY <1>2, <1>7 DEF IInv, LastCell, Calling
<1>12. QED
  BY <1>6, <1>8, <1>9, <1>10, <1>11 DEF IInv

LEMMA FinishStep == ASSUME IInv, Finish PROVE IInv'
<1> USE DEF headVars, bufVars, headerVars
<1>1. /\ TypeOK /\ Outcomes /\ OfHeads /\ Buffered /\ BodyCount
      /\ Current \in Nat
  BY LenTypes DEF IInv
<1>2. /\ pc = "head" /\ pc' = "drop" /\ pushed = Size(Current)
      /\ results' = [results EXCEPT ![Current] = "ok"]
      /\ UNCHANGED <<headers, calls, written, len, heads, pushed, flushed, piece, wire, told,
                     torn, faults>>
  BY DEF Finish
<1>3. /\ results' \in Seq({"busy", "err", "ok"}) /\ Len(results') = Current
      /\ \A a \in 1..(Current - 1) : results'[a] = "err"
      /\ results'[Current] = "ok"
      /\ \A a \in 1..Current : results[a] \in {"err", "ok"} => results'[a] = results[a]
  BY <1>2, SetResult
<1>4. Current' = Current /\ Size(Current)' = Size(Current)
  BY <1>2 DEF Current, Size
<1>5. TypeOK'
  BY <1>1, <1>2, <1>3 DEF TypeOK
<1>6. Outcomes' /\ OfHeads' /\ BodyCount'
  BY <1>1, <1>2, <1>3, <1>4 DEF Outcomes, OfHeads, BodyCount, Calling, Idle
<1>7. Buffered'
  BY <1>1, <1>2, <1>4 DEF Buffered, Calling
<1>8. WireInOrder'
  BY <1>2, <1>3, KeepOrder
<1>9. ~torn' => LastCell'
  BY <1>2, <1>4 DEF IInv, LastCell, Calling
<1>10. QED
  BY <1>5, <1>6, <1>7, <1>8, <1>9 DEF IInv

-----------------------------------------------------------------------------
(* The connection takes more cells of the current head.                    *)
LEMMA SendStep ==
  ASSUME IInv, Calling, NEW n \in Nat \ {0}, Send(n),
         pc' = pc \/ (pc = "direct" /\ pc' = "head")
  PROVE  /\ wire' \in Seq(OnWire)
         /\ Outcomes' /\ OfHeads' /\ BodyCount' /\ WireInOrder'
         /\ ~torn' => LastCell'
<1> USE DEF headVars, headerVars
<1>1. /\ TypeOK /\ Outcomes /\ OfHeads /\ BodyCount /\ Buffered
      /\ Current \in Nat /\ Len(wire) \in Nat /\ n \in Nat /\ flushed \in Nat
      /\ wire \in Seq(OnWire)
  BY LenTypes DEF IInv, TypeOK, OnWire
<1>2. /\ wire' = wire \o [i \in 1..n |-> [of |-> Current, at |-> flushed + i]]
      /\ flushed' = flushed + n
      /\ UNCHANGED <<headers, calls, written, len, heads, results, told, torn, faults>>
  BY DEF Send
<1>3. Current > 0 /\ Current' = Current /\ \A a \in 1..(Current - 1) : results[a] = "err"
  BY <1>1, <1>2 DEF Outcomes, Current
<1>4. /\ wire' \in Seq(OnWire) /\ Len(wire') = Len(wire) + n
      /\ \A i \in 1..Len(wire) : wire'[i] = wire[i]
      /\ \A j \in 1..n : wire'[Len(wire) + j] = [of |-> Current, at |-> flushed + j]
  <2>1. PICK o \in Nat, f \in Nat : o = Current /\ f = flushed
    BY <1>1
  <2>2. wire' = wire \o [i \in 1..n |-> [of |-> o, at |-> f + i]]
    BY <1>2, <2>1
  <2>3. /\ wire' \in Seq(OnWire) /\ Len(wire') = Len(wire) + n
        /\ \A i \in 1..Len(wire) : wire'[i] = wire[i]
        /\ \A j \in 1..n : wire'[Len(wire) + j] = [of |-> o, at |-> f + j]
    BY <1>1, <2>2, Grown DEF OnWire
  <2>4. QED
    BY <2>1, <2>3
<1>5. Outcomes' /\ BodyCount'
  BY <1>1, <1>2, <1>3 DEF Outcomes, BodyCount, Calling, Idle
<1>6. OfHeads'
  <2>1. ASSUME NEW i \in 1..(Len(wire) + n) PROVE wire'[i].of <= Current
    <3>1. CASE i \in 1..Len(wire)
      BY <1>1, <1>4, <3>1 DEF OfHeads
    <3>2. CASE i \notin 1..Len(wire)
      <4>1. i - Len(wire) \in 1..n /\ i = Len(wire) + (i - Len(wire))
        BY <1>1, <3>2
      <4>2. wire'[i] = [of |-> Current, at |-> flushed + (i - Len(wire))]
        BY <1>4, <4>1
      <4>3. QED
        BY <1>1, <4>2
    <3>3. QED
      BY <3>1, <3>2
  <2>2. QED
    BY <1>3, <1>4, <2>1 DEF OfHeads
<1>7. WireInOrder'
  <2>1. ~torn /\ wire = <<>> => flushed = 0
    BY DEF IInv, LastCell
  <2>2. ASSUME ~torn, wire # <<>>
        PROVE  Follows(wire[Len(wire)], [of |-> Current, at |-> flushed + 1])
    <3>1. LastCell
      BY <2>2 DEF IInv
    <3>2. CASE flushed > 0
      <4>1. wire[Len(wire)].of = Current /\ wire[Len(wire)].at = flushed
        BY <2>2, <3>1, <3>2 DEF LastCell
      <4>2. QED
        BY <4>1 DEF Follows
    <3>3. CASE flushed = 0
      <4>1. wire[Len(wire)].of \in 1..(Current - 1)
        BY <2>2, <3>1, <3>3 DEF LastCell
      <4>2. \A a \in wire[Len(wire)].of..(Current - 1) : results[a] = "err"
        BY <1>1, <1>3, <4>1
      <4>3. Current > wire[Len(wire)].of /\ wire[Len(wire)].of > 0
        BY <1>1, <4>1
      <4>4. QED
        BY <3>3, <4>2, <4>3 DEF Follows
    <3>4. QED
      BY <1>1, <3>2, <3>3
  <2>3. UNCHANGED <<heads, results>> /\ torn' = torn
    BY <1>2
  <2>4. QED
    BY <1>1, <1>2, <1>3, <2>1, <2>2, <2>3, GrowOrder
<1>8. LastCell'
  <2>1. wire'[Len(wire')] = [of |-> Current, at |-> flushed + n]
    BY <1>1, <1>4
  <2>2. Len(wire') > 0
    BY <1>1, <1>4
  <2>3. wire' # <<>>
    BY <2>2
  <2>4. flushed' > 0 /\ Calling'
    BY <1>1, <1>2 DEF Calling
  <2>5. QED
    BY <1>2, <1>3, <2>1, <2>3, <2>4 DEF LastCell
<1>9. QED
  BY <1>4, <1>5, <1>6, <1>7, <1>8

LEMMA FlushStep == ASSUME IInv, Flush PROVE IInv'
<1> USE DEF headVars, headerVars
<1>1. /\ pc \in {"flush", "drop"} /\ Calling /\ TypeOK /\ Buffered
      /\ UNCHANGED <<pc, pushed, piece>>
  BY DEF Flush, Calling, IInv
<1>2. PICK n \in 1..(pushed - flushed) : Send(n)
  BY DEF Flush
<1>3. /\ pushed \in Nat /\ flushed \in Nat /\ n \in Nat \ {0}
      /\ flushed + n \in Nat /\ flushed + n <= pushed
  BY <1>1 DEF TypeOK
<1>4. /\ wire' \in Seq(OnWire)
      /\ Outcomes' /\ OfHeads' /\ BodyCount' /\ WireInOrder'
      /\ ~torn' => LastCell'
  BY <1>1, <1>2, <1>3, SendStep
<1>5. /\ flushed' = flushed + n
      /\ UNCHANGED <<headers, calls, written, len, heads, results, told, torn, faults>>
  BY <1>2 DEF Send
<1>6. TypeOK'
  BY <1>1, <1>3, <1>4, <1>5 DEF TypeOK, OnWire
<1>7. Buffered'
  BY <1>1, <1>3, <1>5 DEF Buffered, Calling, Current, Size
<1>8. QED
  BY <1>4, <1>6, <1>7 DEF IInv

LEMMA DirectStep == ASSUME IInv, Direct PROVE IInv'
<1> USE DEF headVars, headerVars
<1>1. /\ pc = "direct" /\ Calling /\ TypeOK /\ Buffered
      /\ pc' \in {"head", "direct"} /\ (piece' # 0 => pc' = "direct")
      /\ (pc' = "head" => piece' = 0)
  BY DEF Direct, Calling, IInv
<1>2. PICK n \in 1..piece : Send(n) /\ pushed' = pushed + n /\ piece' = piece - n
  BY DEF Direct
<1>3. /\ Current \in Nat /\ Current > 0
  BY <1>1, LenTypes DEF IInv, Outcomes
<1>4. /\ pushed \in Nat /\ flushed = pushed /\ piece \in Nat /\ n \in Nat \ {0}
      /\ Size(Current) \in Nat /\ pushed + piece <= Size(Current)
  BY <1>1, <1>3, SizeType DEF TypeOK, Buffered
<1>5. /\ pushed + n \in Nat /\ piece - n \in Nat
      /\ (pushed + n) + (piece - n) <= Size(Current)
  BY <1>4
<1>6. /\ wire' \in Seq(OnWire)
      /\ Outcomes' /\ OfHeads' /\ BodyCount' /\ WireInOrder'
      /\ ~torn' => LastCell'
  BY <1>1, <1>2, <1>4, SendStep
<1>7. /\ flushed' = pushed + n
      /\ UNCHANGED <<headers, calls, written, len, heads, results, told, torn, faults>>
  BY <1>2, <1>4 DEF Send
<1>8. TypeOK'
  BY <1>1, <1>2, <1>5, <1>6, <1>7 DEF TypeOK, OnWire
<1>9. Buffered'
  <2>1. Size(Current)' = Size(Current)
    BY <1>7 DEF Current, Size
  <2>2. flushed' <= pushed' /\ pushed' + piece' <= Size(Current) /\ flushed' = pushed'
    BY <1>2, <1>5, <1>7
  <2>3. QED
    BY <1>1, <2>1, <2>2 DEF Buffered, Calling
<1>10. QED
  BY <1>6, <1>8, <1>9 DEF IInv
-----------------------------------------------------------------------------
(* A BufWriter is gone, and http11_write_status has returned.  What it did *)
(* not flush of a head that succeeded makes torn true.                     *)
LEMMA ReturnStep ==
  ASSUME IInv, pc = "drop", Return,
         faults' \in 0..MaxFaults, torn' \in BOOLEAN, torn => torn',
         ~torn' /\ results[Current] = "ok" => flushed = pushed
  PROVE  IInv'
<1> USE DEF headVars, headerVars
<1>1. /\ TypeOK /\ Outcomes /\ OfHeads /\ Buffered /\ BodyCount
      /\ Current \in Nat /\ Current > 0
      /\ Calling /\ ~Idle /\ ~written /\ piece = 0
      /\ results[Current] \in {"err", "ok"}
      /\ \A a \in 1..(Current - 1) : results[a] = "err"
  BY LenTypes DEF IInv, Outcomes, Buffered, Calling, Idle
<1>2. /\ (written' <=> results[Current] = "ok") /\ written' \in BOOLEAN
      /\ pc' = IF results[Current] = "ok" /\ len # StatusOnly THEN "body" ELSE "idle"
      /\ pushed' = 0 /\ flushed' = 0
      /\ UNCHANGED <<headers, calls, len, heads, results, piece, wire, told>>
  BY DEF Return
<1>3. /\ Current' = Current /\ Size(Current)' = Size(Current) /\ ~Calling'
      /\ pc' \in {"body", "idle"}
      /\ (pc' = "body" => results[Current] = "ok" /\ len # StatusOnly)
  BY <1>2 DEF Current, Size, Calling
<1>4. TypeOK'
  BY <1>1, <1>2, <1>3 DEF TypeOK
<1>5. Outcomes'
  <2>1. results[Current] = "err" => \A a \in 1..Current : results[a] = "err"
    BY <1>1
  <2>2. QED
    BY <1>1, <1>2, <1>3, <2>1 DEF Outcomes, Idle
<1>6. OfHeads'
  BY <1>1, <1>2, <1>3 DEF OfHeads
<1>7. Buffered'
  BY <1>1, <1>2, <1>3 DEF Buffered
<1>8. BodyCount'
  BY <1>1, <1>2, <1>3 DEF BodyCount, Idle
<1>9. WireInOrder'
  <2>1. CASE torn'
    BY <2>1 DEF WireInOrder
  <2>2. CASE ~torn'
    <3>1. torn' = torn
      BY <1>1, <2>2 DEF TypeOK
    <3>2. QED
      BY <1>2, <3>1, KeepOrder
  <2>3. QED
    BY <2>1, <2>2
<1>10. ASSUME ~torn' PROVE LastCell'
  <2> DEFINE last == wire[Len(wire)]
  <2>1. LastCell /\ told = 0
    BY <1>1, <1>10 DEF IInv, BodyCount
  <2>2. CASE results[Current] = "ok"
    <3>1. flushed = Size(Current) /\ Size(Current) >= 2 /\ Size(Current) \in Nat
      BY <1>1, <1>10, <2>2, SizeType DEF Buffered
    <3>2. wire # <<>> /\ last.of = Current /\ last.at = Size(Current)
      BY <1>1, <2>1, <3>1 DEF LastCell
    <3>3. wire' = wire /\ told' = 0 /\ written'
      BY <1>2, <2>1, <2>2
    <3>4. QED
      BY <1>3, <3>2, <3>3 DEF LastCell
  <2>3. CASE results[Current] = "err"
    <3>1. ~written'
      BY <1>2, <2>3
    <3>2. wire # <<>> => last.of \in 1..Current
      BY <1>1, <2>1 DEF LastCell
    <3>3. QED
      BY <1>2, <1>3, <3>1, <3>2 DEF LastCell
  <2>4. QED
    BY <1>1, <2>2, <2>3
<1>11. QED
  BY <1>4, <1>5, <1>6, <1>7, <1>8, <1>9, <1>10 DEF IInv

LEMMA DroppedStep == ASSUME IInv, Dropped PROVE IInv'
BY ReturnStep DEF Dropped, IInv, TypeOK

LEMMA DropFailsStep == ASSUME IInv, DropFails PROVE IInv'
<1>1. /\ TypeOK /\ pc = "drop" /\ Return
      /\ faults < MaxFaults /\ faults' = faults + 1
      /\ torn' = (torn \/ results[Current] = "ok")
  BY DEF IInv, DropFails, Fault
<1>2. faults' \in 0..MaxFaults
  BY <1>1, BoundsAssumption DEF TypeOK
<1>3. torn' \in BOOLEAN /\ (torn => torn') /\ (results[Current] = "ok" => torn')
  BY <1>1
<1>4. QED
  BY <1>1, <1>2, <1>3, ReturnStep

LEMMA WriteBodyStep == ASSUME IInv, WriteBody PROVE IInv'
<1> USE DEF headVars, headerVars, bufVars
<1>1. /\ TypeOK /\ Outcomes /\ OfHeads /\ Buffered /\ BodyCount
      /\ Current \in Nat /\ Len(wire) \in Nat /\ wire \in Seq(OnWire)
      /\ told \in Nat /\ told \in 0..MaxBody
  BY LenTypes DEF IInv, TypeOK, OnWire
<1>2. /\ pc = "body" /\ pc' = "idle"
      /\ UNCHANGED <<headers, calls, written, len, heads, results, pushed, flushed, piece,
                     torn, faults>>
  BY DEF WriteBody
<1>3. PICK n \in 0..len :
        /\ wire' = wire \o [i \in 1..n |-> [of |-> 0, at |-> told + i]]
        /\ told' = told + n
  BY DEF WriteBody
<1>4. /\ written /\ ~Calling /\ ~Idle /\ Current > 0 /\ results[Current] = "ok"
      /\ len \in 0..MaxWrite /\ told + len <= MaxBody
  BY <1>1, <1>2 DEF Outcomes, BodyCount, Calling, Idle, TypeOK
<1>5. n \in Nat /\ told + n \in 0..MaxBody
  BY <1>1, <1>4, BoundsAssumption
<1>6. /\ wire' \in Seq(OnWire) /\ Len(wire') = Len(wire) + n
      /\ \A i \in 1..Len(wire) : wire'[i] = wire[i]
      /\ \A j \in 1..n : wire'[Len(wire) + j] = [of |-> 0, at |-> told + j]
  BY <1>1, <1>3, <1>5, Grown DEF OnWire
<1>7. Current' = Current /\ Size(Current)' = Size(Current) /\ ~Calling' /\ Idle' /\ written'
  BY <1>2, <1>4 DEF Current, Size, Calling, Idle
<1>8. TypeOK'
  BY <1>1, <1>2, <1>3, <1>5, <1>6 DEF TypeOK, OnWire
<1>9. Outcomes' /\ Buffered' /\ BodyCount'
  BY <1>1, <1>2, <1>4, <1>7 DEF Outcomes, Buffered, BodyCount
<1>10. OfHeads'
  <2>1. ASSUME NEW i \in 1..(Len(wire) + n) PROVE wire'[i].of <= Current
    <3>1. CASE i \in 1..Len(wire)
      BY <1>1, <1>6, <3>1 DEF OfHeads
    <3>2. CASE i \notin 1..Len(wire)
      <4>1. i - Len(wire) \in 1..n /\ i = Len(wire) + (i - Len(wire))
        BY <1>1, <3>2
      <4>2. wire'[i] = [of |-> 0, at |-> told + (i - Len(wire))]
        BY <1>6, <4>1
      <4>3. QED
        BY <1>1, <4>2
    <3>3. QED
      BY <3>1, <3>2
  <2>2. QED
    BY <1>6, <1>7, <2>1 DEF OfHeads
<1>11. WireInOrder' /\ (~torn' => LastCell')
  <2>1. CASE n = 0
    <3>1. Len(wire') = Len(wire) /\ \A i \in 1..Len(wire) : wire'[i] = wire[i]
      BY <1>1, <1>6, <2>1
    <3>2. wire' = wire
      BY <1>1, <1>6, <3>1, SeqEqual
    <3>3. told' = told
      BY <1>1, <1>3, <2>1
    <3>4. WireInOrder'
      BY <1>2, <3>2, KeepOrder
    <3>5. ~torn' => LastCell'
      BY <1>2, <1>4, <1>7, <3>2, <3>3 DEF IInv, LastCell
    <3>6. QED
      BY <3>4, <3>5
  <2>2. CASE n # 0
    <3>1. ASSUME ~torn
          PROVE  wire # <<>> /\ Follows(wire[Len(wire)], [of |-> 0, at |-> told + 1])
      <4>1. LastCell /\ wire # <<>>
        BY <1>4, <3>1 DEF IInv, LastCell
      <4>2. CASE told > 0
        <5>1. wire[Len(wire)].of = 0 /\ wire[Len(wire)].at = told
          BY <1>4, <4>1, <4>2 DEF LastCell
        <5>2. QED
          BY <4>1, <5>1 DEF Follows
      <4>3. CASE told = 0
        <5>1. wire[Len(wire)].of = Current /\ wire[Len(wire)].at = Size(Current)
          BY <1>4, <4>1, <4>3 DEF LastCell
        <5>2. QED
          BY <1>4, <4>1, <4>3, <5>1 DEF Follows
      <4>4. QED
        BY <1>1, <4>2, <4>3
    <3>2. WireInOrder'
      <4>1. n \in Nat \ {0} /\ 0 \in Nat /\ UNCHANGED <<heads, results>> /\ torn' = torn
        BY <1>2, <1>5, <2>2
      <4>2. QED
        BY <1>1, <1>3, <3>1, <4>1, GrowOrder
    <3>3. LastCell'
      <4>1. wire'[Len(wire')] = [of |-> 0, at |-> told + n] /\ Len(wire') > 0
        BY <1>1, <1>5, <1>6, <2>2
      <4>2. wire' # <<>>
        BY <4>1
      <4>3. told + n > 0
        BY <1>1, <1>5, <2>2
      <4>4. told' = told + n
        BY <1>3
      <4>5. told' > 0 /\ ~(told' = 0)
        BY <4>3, <4>4, <1>1, <1>5
      <4>6. wire'[Len(wire')].of = 0 /\ wire'[Len(wire')].at = told'
        BY <4>1, <4>4
      <4>7. QED
        BY <1>7, <4>2, <4>5, <4>6 DEF LastCell
    <3>4. QED
      BY <3>2, <3>3
  <2>3. QED
    BY <2>1, <2>2
<1>12. QED
  BY <1>8, <1>9, <1>10, <1>11 DEF IInv

LEMMA WriteBodyFailsStep == ASSUME IInv, WriteBodyFails PROVE IInv'
<1> USE DEF headVars, headerVars, bufVars
<1>1. /\ TypeOK /\ Outcomes /\ OfHeads /\ Buffered /\ BodyCount
  BY DEF IInv
<1>2. /\ pc = "body" /\ pc' = "idle"
      /\ faults < MaxFaults /\ faults' = faults + 1
      /\ UNCHANGED <<headers, calls, written, len, heads, results, pushed, flushed, piece,
                     wire, told, torn>>
  BY DEF WriteBodyFails, Fault
<1>3. faults' \in 0..MaxFaults
  BY <1>1, <1>2, BoundsAssumption DEF TypeOK
<1>4. TypeOK'
  BY <1>1, <1>2, <1>3 DEF TypeOK
<1>5. Outcomes' /\ OfHeads' /\ Buffered' /\ BodyCount' /\ (~torn' => LastCell')
  BY <1>1, <1>2 DEF IInv, Outcomes, OfHeads, Buffered, BodyCount, LastCell, Calling, Idle,
                    Current, Size
<1>6. WireInOrder'
  BY <1>2, KeepOrder
<1>7. QED
  BY <1>4, <1>5, <1>6 DEF IInv
-----------------------------------------------------------------------------
(* IInv is inductive: every action keeps it.                               *)
LEMMA NextIInv == IInv /\ [Next]_vars => IInv'
<1> SUFFICES ASSUME IInv, [Next]_vars PROVE IInv'
  OBVIOUS
<1>1. CASE \E name \in Name, value \in Value : AddHeader(name, value)
  BY <1>1, AddHeaderStep
<1>2. CASE \E name \in Name : RemoveHeader(name)
  BY <1>2, RemoveHeaderStep
<1>3. CASE \E code \in Code : WriteStatus(code)
  BY <1>3, WriteStatusStep
<1>4. CASE \E n \in 0..MaxWrite : Write(n)
  BY <1>4, WriteStep
<1>5. CASE Step
  BY <1>5, PushStep, OverflowStep, FinishStep, FlushStep, FlushDoneStep, DirectStep,
     DroppedStep, WriteBodyStep DEF Step
<1>6. CASE Fail
  BY <1>6, FailStep
<1>7. CASE DropFails
  BY <1>7, DropFailsStep
<1>8. CASE WriteBodyFails
  BY <1>8, WriteBodyFailsStep
<1>9. CASE UNCHANGED vars
  <2>1. UNCHANGED <<headers, calls, written, pc, len, heads, results, pushed, flushed, piece,
                    wire, told, torn, faults>>
    BY <1>9 DEF vars, headerVars, headVars, bufVars
  <2>2. TypeOK' /\ Outcomes' /\ OfHeads' /\ Buffered' /\ BodyCount' /\ (~torn' => LastCell')
    BY <2>1 DEF IInv, TypeOK, Outcomes, OfHeads, Buffered, BodyCount, LastCell, Calling,
                Idle, Current, Size
  <2>3. WireInOrder'
    BY <2>1, KeepOrder
  <2>4. QED
    BY <2>2, <2>3 DEF IInv
<1>10. QED
  BY <1>1, <1>2, <1>3, <1>4, <1>5, <1>6, <1>7, <1>8, <1>9 DEF Next

LEMMA AlwaysIInv == Spec => []IInv
BY InitIInv, NextIInv, PTL DEF Spec

(* The state of the response writer keeps its types for every capacity of  *)
(* the BufWriter and number of headers, bytes and failures: no count of    *)
(* what it holds goes below zero, and the count that the plugin was told   *)
(* of never goes back below zero or beyond what it wrote                   *)
(* (http_write, http11_write_status).                                      *)
THEOREM ResponseTypeCorrect == Spec => []TypeOK
<1>1. IInv => TypeOK
  BY DEF IInv
<1>2. QED
  BY <1>1, AlwaysIInv, PTL

(* Whatever the plugin calls and whichever writes fail or are short, the   *)
(* connection carries its heads and its body whole, in order and without a *)
(* gap, as far as no BufWriter lost part of a head that was reported sent  *)
(* (http_write, http_write_status, http11_write_status).                   *)
THEOREM WireAlwaysInOrder == Spec => []WireInOrder
<1>1. IInv => WireInOrder
  BY DEF IInv
<1>2. QED
  BY <1>1, AlwaysIInv, PTL
-----------------------------------------------------------------------------
(* How many cells of each kind the connection has: those of the body that  *)
(* the plugin was told of, those of the current head that the BufWriter    *)
(* has flushed, and all of a head that succeeded.                          *)
Counts ==
  /\ Cardinality(Sent(0)) = told
  /\ Calling => Cardinality(Sent(Current)) = flushed
  /\ written /\ ~torn => Cardinality(Sent(Current)) = Size(Current)

(* Until a write fails, the first head is the only one, and with the body  *)
(* it is all that the connection has.                                      *)
Untroubled ==
  faults = 0 =>
    /\ ~torn
    /\ Current <= 1
    /\ \A a \in 1..Current : results[a] # "err"
    /\ Len(wire) = IF Calling THEN flushed ELSE IF written THEN Size(1) + told ELSE 0

CInv == IInv /\ Counts /\ Untroubled

Of(w, a) == {i \in 1..Len(w) : w[i].of = a}

(* n more cells are n more of their kind, and no more of any other.        *)
LEMMA SentGrows ==
  ASSUME NEW w, NEW v, NEW n \in Nat, NEW o \in Nat,
         Len(w) \in Nat, Len(v) = Len(w) + n,
         \A i \in 1..Len(w) : v[i] = w[i],
         \A i \in (Len(w) + 1)..(Len(w) + n) : v[i].of = o
  PROVE  /\ Cardinality(Of(v, o)) = Cardinality(Of(w, o)) + n
         /\ \A a \in Nat \ {o} : Of(v, a) = Of(w, a)
<1>1. \A i \in 1..Len(v) : i \in 1..Len(w) \/ i \in (Len(w) + 1)..(Len(w) + n)
  OBVIOUS
<1>2. ASSUME NEW a \in Nat \ {o} PROVE Of(v, a) = Of(w, a)
  BY <1>1 DEF Of
<1>3. Cardinality(Of(v, o)) = Cardinality(Of(w, o)) + n
  <2> DEFINE more == (Len(w) + 1)..(Len(w) + n)
  <2>1. Of(v, o) = Of(w, o) \cup more
    BY <1>1 DEF Of
  <2>2. Of(w, o) \cap more = {}
    BY DEF Of
  <2>3. IsFiniteSet(more) /\ Cardinality(more) = n
    <3>1. Len(w) + 1 \in Int /\ Len(w) + n \in Int
      OBVIOUS
    <3>2. /\ IsFiniteSet(more)
          /\ Cardinality(more) = IF Len(w) + 1 > Len(w) + n THEN 0
                                 ELSE (Len(w) + n) - (Len(w) + 1) + 1
      BY <3>1, FS_Interval
    <3>3. QED
      BY <3>2
  <2>4. IsFiniteSet(Of(w, o)) /\ Cardinality(Of(w, o)) \in Nat
    <3>1. IsFiniteSet(1..Len(w)) /\ Of(w, o) \in SUBSET (1..Len(w))
      BY FS_Interval DEF Of
    <3>2. IsFiniteSet(Of(w, o))
      BY <3>1, FS_Subset
    <3>3. QED
      BY <3>2, FS_CardinalityType
  <2> HIDE DEF more
  <2>5. Cardinality(Of(w, o) \cup more)
          = Cardinality(Of(w, o)) + Cardinality(more) - Cardinality(Of(w, o) \cap more)
    BY <2>3, <2>4, FS_Union
  <2>6. Cardinality(Of(w, o) \cap more) = 0
    BY <2>2, FS_EmptySet
  <2>7. Cardinality(Of(v, o)) = Cardinality(Of(w, o)) + n - 0
    BY <2>1, <2>3, <2>5, <2>6
  <2> QED
    BY <2>4, <2>7
<1>4. QED
  BY <1>2, <1>3

LEMMA InitCounts == Init => Counts /\ Untroubled
<1> SUFFICES ASSUME Init PROVE Counts /\ Untroubled
  OBVIOUS
<1>1. Len(heads) = 0 /\ Len(wire) = 0
  BY DEF Init
<1>2. Sent(0) = {}
  BY <1>1 DEF Sent
<1>3. Counts
  BY <1>2, FS_EmptySet DEF Init, Counts, Calling
<1>4. Untroubled
  BY <1>1 DEF Init, Untroubled, Calling, Current
<1>5. QED
  BY <1>3, <1>4

(* A step that puts nothing on the connection and neither begins nor ends  *)
(* a head keeps the counts.                                                *)
LEMMA QuietCounts ==
  ASSUME CInv, UNCHANGED <<wire, told, flushed, written, heads, torn>>, Calling' <=> Calling,
         faults' = 0 =>
           /\ faults = 0
           /\ \A a \in 1..Current : results[a] # "err" => results'[a] # "err"
  PROVE  Counts' /\ Untroubled'
<1>1. Counts'
  BY DEF CInv, Counts, Sent, Size, Current
<1>2. Untroubled'
  BY DEF CInv, Untroubled, Size, Current
<1>3. QED
  BY <1>1, <1>2

LEMMA BeginCounts ==
  ASSUME CInv, IInv', NEW code \in Code, BeginHead(code)
  PROVE  Counts' /\ Untroubled'
<1> USE DEF headVars, bufVars, headerVars
<1>1. /\ TypeOK /\ Outcomes /\ OfHeads /\ Buffered /\ Counts /\ Untroubled /\ Current \in Nat
  BY LenTypes DEF CInv, IInv
<1>2. /\ pc = "idle" /\ ~written /\ pc' = "head"
      /\ results' = Append(results, "busy")
      /\ UNCHANGED <<written, flushed, wire, told, torn, faults>>
  BY DEF BeginHead, Idle
<1>3. flushed = 0 /\ \A a \in 1..Current : results[a] = "err"
  BY <1>1, <1>2 DEF Buffered, Outcomes, Calling, Idle
<1>4. Current' = Current + 1
  <2>1. Len(results') = Len(results) + 1
    BY <1>1, <1>2, AppendProperties DEF TypeOK
  <2>2. QED
    BY <1>1, <2>1 DEF IInv, Outcomes
<1>5. Sent(Current + 1) = {}
  <2>1. ASSUME NEW i \in 1..Len(wire) PROVE wire[i].of # Current + 1
    <3>1. wire[i].of \in Nat /\ wire[i].of <= Current
      BY <1>1, CellType DEF OfHeads
    <3>2. QED
      BY <1>1, <3>1
  <2>2. QED
    BY <2>1 DEF Sent
<1>6. Counts'
  <2>1. Sent(Current)' = {} /\ Sent(0)' = Sent(0)
    BY <1>2, <1>4, <1>5 DEF Sent
  <2>2. Cardinality(Sent(Current)') = 0
    BY <2>1, FS_EmptySet
  <2>3. QED
    BY <1>1, <1>2, <1>3, <2>1, <2>2 DEF Counts
<1>7. ASSUME faults' = 0 PROVE Untroubled'
  <2>1. /\ ~torn /\ \A a \in 1..Current : results[a] # "err"
        /\ Len(wire) = 0
    BY <1>1, <1>2, <1>7 DEF Untroubled, Calling
  <2>2. Current = 0
    BY <1>1, <1>3, <2>1
  <2>3. Current' = 1 /\ results'[1] = "busy"
    <3>1. Len(results) = 0 /\ results'[Len(results) + 1] = "busy"
      BY <1>1, <1>2, <2>2, AppendProperties DEF TypeOK, Outcomes
    <3>2. QED
      BY <1>4, <2>2, <3>1
  <2>4. QED
    BY <1>2, <1>3, <2>1, <2>3 DEF Untroubled, Calling
<1>8. QED
  BY <1>6, <1>7 DEF Untroubled

(* The connection takes n more cells of the current head.                  *)
LEMMA SendCounts ==
  ASSUME CInv, Calling, Calling', NEW n \in Nat, Send(n)
  PROVE  Counts' /\ Untroubled'
<1> USE DEF headVars, headerVars
<1>1. /\ TypeOK /\ Outcomes /\ Counts /\ Untroubled /\ Current \in Nat /\ Current > 0 /\ ~written
      /\ flushed \in Nat /\ Len(wire) \in Nat
  BY LenTypes DEF CInv, IInv, TypeOK, Outcomes
<1>2. /\ wire' = wire \o [i \in 1..n |-> [of |-> Current, at |-> flushed + i]]
      /\ flushed' = flushed + n
      /\ UNCHANGED <<written, heads, results, told, torn, faults>>
  BY DEF Send
<1>3. /\ Len(wire') = Len(wire) + n
      /\ Cardinality(Sent(Current)') = Cardinality(Sent(Current)) + n
      /\ Sent(0)' = Sent(0)
  <2>1. wire \in Seq(OnWire) /\ Current' = Current
    BY <1>1, <1>2 DEF TypeOK, OnWire, Current
  <2>2. /\ Len(wire') = Len(wire) + n
        /\ \A i \in 1..Len(wire) : wire'[i] = wire[i]
        /\ \A j \in 1..n : wire'[Len(wire) + j] = [of |-> Current, at |-> flushed + j]
    BY <1>1, <1>2, <2>1, Grown DEF OnWire
  <2>3. /\ Cardinality(Of(wire', Current)) = Cardinality(Of(wire, Current)) + n
        /\ \A a \in Nat \ {Current} : Of(wire', a) = Of(wire, a)
    <3>1. ASSUME NEW i \in (Len(wire) + 1)..(Len(wire) + n) PROVE wire'[i].of = Current
      <4>1. i - Len(wire) \in 1..n /\ i = Len(wire) + (i - Len(wire))
        BY <1>1
      <4>2. wire'[i] = [of |-> Current, at |-> flushed + (i - Len(wire))]
        BY <2>2, <4>1
      <4>3. QED
        BY <4>2
    <3>2. /\ Current \in Nat /\ Len(wire) \in Nat /\ Len(wire') = Len(wire) + n
          /\ \A i \in 1..Len(wire) : wire'[i] = wire[i]
          /\ \A i \in (Len(wire) + 1)..(Len(wire) + n) : wire'[i].of = Current
      BY <1>1, <2>2, <3>1
    <3>3. QED
      BY <3>2, SentGrows, ZenonT(30)
  <2>4. /\ Sent(Current) = Of(wire, Current) /\ Sent(Current)' = Of(wire', Current)
        /\ Sent(0) = Of(wire, 0) /\ Sent(0)' = Of(wire', 0)
    BY <2>1 DEF Sent, Of
  <2>5. QED
    BY <1>1, <2>2, <2>3, <2>4
<1>4. Counts'
  BY <1>1, <1>2, <1>3 DEF Counts
<1>5. Untroubled'
  <2>1. Current' = Current
    BY <1>2 DEF Current
  <2>2. QED
    BY <1>1, <1>2, <1>3, <2>1 DEF Untroubled
<1>6. QED
  BY <1>4, <1>5

(* The BufWriter of a head is gone; if no write failed the head succeeded. *)
LEMMA ReturnCounts ==
  ASSUME CInv, pc = "drop", Return,
         ~torn' /\ results[Current] = "ok" => flushed = pushed,
         torn => torn', torn' \in BOOLEAN,
         faults' = 0 => faults = 0 /\ torn' = torn
  PROVE  Counts' /\ Untroubled'
<1> USE DEF headVars, headerVars
<1>1. /\ TypeOK /\ Outcomes /\ Buffered /\ BodyCount /\ Counts /\ Untroubled
      /\ Current \in Nat /\ Current > 0 /\ Calling /\ ~written
      /\ results[Current] \in {"err", "ok"} /\ told = 0
  BY LenTypes DEF CInv, IInv, Outcomes, Calling, BodyCount
<1>2. /\ (written' <=> results[Current] = "ok") /\ ~Calling'
      /\ UNCHANGED <<heads, results, wire, told>>
  BY DEF Return, Calling
<1>3. Current' = Current /\ Size(Current)' = Size(Current) /\ Sent(0)' = Sent(0)
      /\ Sent(Current)' = Sent(Current) /\ Size(1)' = Size(1)
  BY <1>2 DEF Current, Size, Sent
<1>4. results[Current] = "ok" /\ ~torn' => flushed = Size(Current)
  BY <1>1 DEF Buffered
<1>5. Counts'
  BY <1>1, <1>2, <1>3, <1>4 DEF Counts
<1>6. ASSUME faults' = 0 PROVE Untroubled'
  <2>1. /\ ~torn' /\ Current = 1 /\ \A a \in 1..Current : results[a] # "err"
        /\ Len(wire) = flushed
    BY <1>1, <1>6 DEF Untroubled
  <2>2. results[Current] = "ok" /\ flushed = Size(1)
    BY <1>1, <1>4, <2>1
  <2>3. Size(1) \in Nat
    BY <1>1, <2>1, SizeType
  <2>4. Len(wire) = Size(1) + told
    BY <1>1, <2>1, <2>2, <2>3
  <2>5. QED
    BY <1>2, <1>3, <2>1, <2>2, <2>4 DEF Untroubled
<1>7. QED
  BY <1>5, <1>6 DEF Untroubled

LEMMA WriteBodyCounts == ASSUME CInv, WriteBody PROVE Counts' /\ Untroubled'
<1> USE DEF headVars, headerVars, bufVars
<1>1. /\ TypeOK /\ Outcomes /\ Counts /\ Untroubled /\ Current \in Nat /\ Len(wire) \in Nat
      /\ told \in Nat /\ BodyCount
  BY LenTypes DEF CInv, IInv, TypeOK
<1>2. /\ pc = "body" /\ pc' = "idle" /\ written /\ Current > 0 /\ ~Calling /\ ~Calling'
      /\ len \in 0..MaxWrite
      /\ UNCHANGED <<written, heads, results, flushed, torn, faults>>
  BY <1>1 DEF WriteBody, Outcomes, Calling, TypeOK, BodyCount
<1>3. PICK n \in 0..len :
        /\ wire' = wire \o [i \in 1..n |-> [of |-> 0, at |-> told + i]]
        /\ told' = told + n
  BY DEF WriteBody
<1>4. n \in Nat
  BY <1>2
<1>5. Current' = Current /\ Size(Current)' = Size(Current) /\ Size(1)' = Size(1)
  BY <1>2 DEF Current, Size
<1>6. /\ Len(wire') = Len(wire) + n
      /\ Cardinality(Sent(0)') = Cardinality(Sent(0)) + n
      /\ Sent(Current)' = Sent(Current)
  <2>1. wire \in Seq(OnWire)
    BY <1>1 DEF TypeOK, OnWire
  <2>2. /\ Len(wire') = Len(wire) + n
        /\ \A i \in 1..Len(wire) : wire'[i] = wire[i]
        /\ \A j \in 1..n : wire'[Len(wire) + j] = [of |-> 0, at |-> told + j]
    BY <1>1, <1>3, <1>4, <2>1, Grown DEF OnWire
  <2>3. /\ Cardinality(Of(wire', 0)) = Cardinality(Of(wire, 0)) + n
        /\ \A a \in Nat \ {0} : Of(wire', a) = Of(wire, a)
    <3>1. ASSUME NEW i \in (Len(wire) + 1)..(Len(wire) + n) PROVE wire'[i].of = 0
      <4>1. i - Len(wire) \in 1..n /\ i = Len(wire) + (i - Len(wire))
        BY <1>1
      <4>2. wire'[i] = [of |-> 0, at |-> told + (i - Len(wire))]
        BY <2>2, <4>1
      <4>3. QED
        BY <4>2
    <3>2. QED
      BY <1>1, <1>4, <2>2, <3>1, SentGrows
  <2>4. /\ Sent(Current) = Of(wire, Current) /\ Sent(Current)' = Of(wire', Current)
        /\ Sent(0) = Of(wire, 0) /\ Sent(0)' = Of(wire', 0)
    BY <1>5 DEF Sent, Of
  <2>5. QED
    BY <1>1, <1>2, <2>2, <2>3, <2>4
<1>7. Counts'
  BY <1>1, <1>2, <1>3, <1>5, <1>6 DEF Counts
<1>8. ASSUME faults' = 0 PROVE Untroubled'
  <2>1. /\ ~torn /\ Current = 1 /\ \A a \in 1..Current : results[a] # "err"
        /\ Len(wire) = Size(1) + told
    BY <1>1, <1>2, <1>8 DEF Untroubled
  <2>2. Size(1) \in Nat
    BY <1>1, <2>1, SizeType
  <2>3. Len(wire') = Size(1) + told'
    BY <1>1, <1>3, <1>4, <1>6, <2>1, <2>2
  <2>4. QED
    BY <1>2, <1>5, <2>1, <2>3 DEF Untroubled
<1>9. QED
  BY <1>7, <1>8 DEF Untroubled

LEMMA NextCInv == CInv /\ [Next]_vars => CInv'
<1> SUFFICES ASSUME CInv, [Next]_vars PROVE CInv'
  OBVIOUS
<1> USE DEF headVars, headerVars, bufVars
<1>1. IInv' /\ TypeOK
  BY NextIInv DEF CInv, IInv
<1> SUFFICES Counts' /\ Untroubled'
  BY <1>1 DEF CInv
<1>2. CASE \/ \E name \in Name, value \in Value : AddHeader(name, value)
           \/ \E name \in Name : RemoveHeader(name)
  <2>1. UNCHANGED <<pc, wire, told, flushed, written, heads, results, torn, faults>>
    BY <1>2 DEF AddHeader, RemoveHeader, ChangeHeaders
  <2>2. QED
    BY <2>1, QuietCounts DEF Calling
<1>3. CASE \E code \in Code : WriteStatus(code)
  BY <1>1, <1>3, BeginCounts DEF WriteStatus
<1>4. CASE \E n \in 0..MaxWrite : Write(n)
  <2>1. CASE BeginHead(OK)
    BY <1>1, <2>1, BeginCounts, NamesAssumption
  <2>2. CASE ~BeginHead(OK)
    <3>1. /\ pc = "idle" /\ pc' = "body"
          /\ UNCHANGED <<wire, told, flushed, written, heads, results, torn, faults>>
      BY <1>4, <2>2 DEF Write, Idle
    <3>2. QED
      BY <3>1, QuietCounts DEF Calling
  <2>3. QED
    BY <2>1, <2>2
<1>5. CASE Push \/ Overflow \/ FlushDone
  <2>1. UNCHANGED <<wire, told, flushed, written, heads, results, torn, faults>>
    BY <1>5 DEF Push, Overflow, FlushDone
  <2>2. Calling /\ Calling'
    BY <1>5 DEF Push, Overflow, FlushDone, Calling
  <2>3. QED
    BY <2>1, <2>2, QuietCounts
<1>6. CASE Finish
  <2>1. /\ UNCHANGED <<wire, told, flushed, written, heads, torn, faults>>
        /\ Calling /\ Calling' /\ pc = "head"
        /\ results' = [results EXCEPT ![Current] = "ok"]
    BY <1>6 DEF Finish, Calling
  <2>2. /\ results'[Current] = "ok" /\ \A a \in 1..(Current - 1) : results'[a] = "err"
        /\ \A a \in 1..Current : results[a] \in {"err", "ok"} => results'[a] = results[a]
        /\ \A a \in 1..(Current - 1) : results[a] = "err" /\ Current \in Nat
    BY <2>1, SetResult, LenTypes DEF CInv, IInv, Outcomes
  <2>3. \A a \in 1..Current : results[a] # "err" => results'[a] # "err"
    BY <1>1, <2>2, LenTypes
  <2>4. QED
    BY <2>1, <2>3, QuietCounts
<1>7. CASE Fail \/ WriteBodyFails
  <2>1. UNCHANGED <<wire, told, flushed, written, heads, torn>> /\ faults' = faults + 1
        /\ (Calling' <=> Calling)
    BY <1>7 DEF Fail, WriteBodyFails, Fault, Calling
  <2>2. faults' # 0
    BY <1>1, <2>1 DEF TypeOK
  <2>3. QED
    BY <2>1, <2>2, QuietCounts
<1>8. CASE Flush
  <2>1. PICK n \in 1..(pushed - flushed) : Send(n)
    BY <1>8 DEF Flush
  <2>2. n \in Nat /\ Calling /\ Calling'
    BY <1>1, <1>8 DEF Flush, Calling, TypeOK
  <2>3. QED
    BY <2>1, <2>2, SendCounts
<1>9. CASE Direct
  <2>1. PICK n \in 1..piece : Send(n)
    BY <1>9 DEF Direct
  <2>2. n \in Nat /\ Calling /\ Calling'
    BY <1>1, <1>9 DEF Direct, Calling, TypeOK
  <2>3. QED
    BY <2>1, <2>2, SendCounts
<1>10. CASE Dropped
  BY <1>1, <1>10, ReturnCounts DEF Dropped, TypeOK
<1>11. CASE DropFails
  <2>1. /\ pc = "drop" /\ Return /\ faults' = faults + 1
        /\ torn' = (torn \/ results[Current] = "ok")
    BY <1>11 DEF DropFails, Fault
  <2>2. faults' # 0
    BY <1>1, <2>1 DEF TypeOK
  <2>3. (torn => torn') /\ torn' \in BOOLEAN /\ (results[Current] = "ok" => torn')
    BY <2>1
  <2>4. QED
    BY <2>1, <2>2, <2>3, ReturnCounts
<1>12. CASE WriteBody
  BY <1>12, WriteBodyCounts
<1>13. CASE UNCHANGED vars
  <2>1. UNCHANGED <<pc, wire, told, flushed, written, heads, results, torn, faults>>
    BY <1>13 DEF vars
  <2>2. QED
    BY <2>1, QuietCounts DEF Calling
<1>14. QED
  BY <1>2, <1>3, <1>4, <1>5, <1>6, <1>7, <1>8, <1>9, <1>10, <1>11, <1>12, <1>13 DEF Next, Step

LEMMA AlwaysCInv == Spec => []CInv
<1>1. Init => CInv
  BY InitIInv, InitCounts DEF CInv
<1>2. QED
  BY <1>1, NextCInv, PTL DEF Spec

(* Between two calls the plugin's counts are right, for every capacity of  *)
(* the BufWriter and however often writes fail or are short: the           *)
(* connection has as many body cells as it was told were written, and all  *)
(* of a head whose result was Ok, unless the drop of its BufWriter failed  *)
(* (http_bio_write, http11_write_status).                                  *)
THEOREM CountsAreRight == Spec => []Accounted
<1>1. CInv => Accounted
  <2> SUFFICES ASSUME CInv, Idle PROVE Accounted
    BY DEF Accounted
  <2>1. Cardinality(Sent(0)) = told /\ TypeOK /\ Outcomes /\ Current \in Nat
    BY LenTypes DEF CInv, Counts, IInv
  <2>2. ASSUME NEW a \in 1..Current, results[a] = "ok", ~torn
        PROVE  Cardinality(Sent(a)) = Size(a)
    <3>1. a = Current /\ written
      BY <2>1, <2>2 DEF Outcomes
    <3>2. QED
      BY <2>2, <3>1 DEF CInv, Counts
  <2>3. QED
    BY <2>1, <2>2 DEF Accounted
<1>2. QED
  BY <1>1, AlwaysCInv, PTL

(* Without a failed write every head succeeds, so that there is one at     *)
(* most, and it and the body are whole on the connection: however short    *)
(* the writes are and whatever overflows the BufWriter, nothing is lost    *)
(* (http11_write_status).                                                  *)
THEOREM OnlyFaultsLose == Spec => []FaultsOnly
<1>1. CInv => FaultsOnly
  <2> SUFFICES ASSUME CInv, faults = 0 PROVE Current <= 1 /\ (Idle /\ Current = 1 => Len(wire) = Size(1) + told)
    BY DEF FaultsOnly
  <2>1. Current <= 1 /\ ~torn /\ \A a \in 1..Current : results[a] # "err"
    BY DEF CInv, Untroubled
  <2>2. ASSUME Idle, Current = 1 PROVE Len(wire) = Size(1) + told
    <3>1. ~Calling /\ written
      BY <2>1, <2>2 DEF Idle, Calling, CInv, IInv, Outcomes
    <3>2. QED
      BY <3>1 DEF CInv, Untroubled
  <2>3. QED
    BY <2>1, <2>2
<1>2. QED
  BY <1>1, AlwaysCInv, PTL
-----------------------------------------------------------------------------
(* The calls whose values the table holds: http_remove_header takes names  *)
(* as they are spelled, so only a removal in lower case ends a value.      *)
Stays(i, k, n) ==
  Adds(i, n) /\ \A j \in i..k : ~(calls[j].op = "remove" /\ calls[j].name = n)

Stored(k, n) ==
  {i \in 1..k : /\ Stays(i, k, n)
                /\ \/ calls[i].value # EmptyValue
                   \/ \A j \in 1..(i - 1) : ~Stays(j, i, n)}

HeadAsStored ==
  \A a \in 1..Current, n \in Name :
    LET lines  == heads[a].lines
        ofName == {p \in 1..Len(lines) : lines[p][1] = n}
    IN  \E call \in InOrder(ofName, Stored(heads[a].asked, n)) :
          \A p \in ofName : lines[p][2] = calls[call[p]].value

(* The values of a name are those that the calls so far ask for, in their  *)
(* order.                                                                  *)
KeptOf(n) ==
  /\ Len(headers[n]) <= Len(calls)
  /\ \E call \in InOrder(1..Len(headers[n]), Stored(Len(calls), n)) :
       \A j \in 1..Len(headers[n]) : headers[n][j] = calls[call[j]].value

Kept == \A n \in Name : KeptOf(n)

(* No head asks for calls that are still to come.                          *)
AskedBefore == \A a \in 1..Current : heads[a].asked <= Len(calls)

(* The lines of a name pair with the calls in asked.                       *)
Lists(lines, asked, all, n) ==
  LET ofName == {p \in 1..Len(lines) : lines[p][1] = n}
  IN  \E call \in InOrder(ofName, asked) :
        \A p \in ofName : lines[p][2] = all[call[p]].value

FaithfulIn(a, n) == Lists(heads[a].lines, Stored(heads[a].asked, n), calls, n)

HInv ==
  /\ TypeOK
  /\ Len(calls) <= MaxOps
  /\ AskedBefore
  /\ Kept
  /\ HeadAsStored

(* A set of positive numbers has a least one.                              *)
LEMMA HasFirst ==
  ASSUME NEW S \in SUBSET Nat, S # {}
  PROVE  \E i \in S : \A j \in S : i <= j
<1> DEFINE less == {p \in Nat \X Nat : p[1] < p[2]}
<1>1. IsWellFoundedOn(OpToRel(<, Nat), Nat)
  BY NatLessThanWellFounded
<1>2. OpToRel(<, Nat) = less
  BY DEF OpToRel
<1>3. PICK i \in S : \A j \in S : ~(<<j, i>> \in less)
  <2> HIDE DEF less
  <2> QED
    BY <1>1, <1>2, WFMin
<1>4. ASSUME NEW j \in S PROVE i <= j
  <2>1. ~(j < i) /\ i \in Nat /\ j \in Nat
    BY <1>3
  <2>2. QED
    BY <2>1
<1>5. QED
  BY <1>3, <1>4

(* What calls are, those before a further one unchanged by it.             *)
CallRecord == [op : {"add", "remove"}, name : Name, value : Value]

LEMMA Called ==
  ASSUME calls \in Seq(CallRecord), NEW c \in CallRecord, calls' = Append(calls, c)
  PROVE  /\ Len(calls) \in Nat /\ Len(calls') = Len(calls) + 1
         /\ \A i \in 1..Len(calls) : calls'[i] = calls[i]
         /\ calls'[Len(calls) + 1] = c
<1>1. Len(calls) \in Nat
  BY LenProperties
<1>2. QED
  BY <1>1, AppendProperties

(* Later calls do not change what the first k asked for.                   *)
LEMMA StillStored ==
  ASSUME NEW k \in Nat, \A i \in 1..k : calls'[i] = calls[i], NEW n
  PROVE  /\ \A i \in 1..k : Adds(i, n)' <=> Adds(i, n)
         /\ \A l \in 0..k : \A i \in 1..l : Stays(i, l, n)' <=> Stays(i, l, n)
         /\ Stored(k, n)' = Stored(k, n)
<1>1. ASSUME NEW i \in 1..k PROVE Adds(i, n)' <=> Adds(i, n)
  BY <1>1 DEF Adds
<1>2. ASSUME NEW l \in 0..k, NEW i \in 1..l PROVE Stays(i, l, n)' <=> Stays(i, l, n)
  <2>1. i \in 1..k /\ \A j \in i..l : j \in 1..k
    OBVIOUS
  <2>2. QED
    BY <1>1, <2>1 DEF Stays
<1>3. ASSUME NEW i \in 1..k
      PROVE  /\ \A j \in 1..(i - 1) : Stays(j, i, n)' <=> Stays(j, i, n)
             /\ Stays(i, k, n)' <=> Stays(i, k, n)
             /\ calls'[i].value = calls[i].value
  <2>1. i \in 0..k /\ k \in 0..k /\ \A j \in 1..(i - 1) : j \in 1..i
    OBVIOUS
  <2>2. QED
    BY <1>2, <2>1
<1>4. Stored(k, n)' = Stored(k, n)
  BY <1>3 DEF Stored
<1>5. QED
  BY <1>1, <1>2, <1>4

(* A name has been given a value if some call that adds one still stands.  *)
LEMMA SomeStored ==
  ASSUME NEW k \in Nat, NEW n, NEW j \in 1..k, Stays(j, k, n)
  PROVE  Stored(k, n) # {}
<1> DEFINE S == {i \in 1..k : Stays(i, k, n)}
<1>1. PICK i \in S : \A h \in S : i <= h
  <2>1. S \in SUBSET Nat /\ S # {}
    OBVIOUS
  <2> HIDE DEF S
  <2>2. QED
    BY <2>1, HasFirst
<1>2. i \in 1..k /\ Stays(i, k, n)
  OBVIOUS
<1>3. ASSUME NEW h \in 1..(i - 1), Stays(h, i, n) PROVE FALSE
  <2>1. h \in 1..k /\ ~(i <= h) /\ i \in h..i
    BY <1>2
  <2>2. Adds(h, n) /\ \A g \in h..i : ~(calls[g].op = "remove" /\ calls[g].name = n)
    BY <1>3 DEF Stays
  <2>3. \A g \in i..k : ~(calls[g].op = "remove" /\ calls[g].name = n)
    BY <1>2 DEF Stays
  <2>4. \A g \in h..k : g \in h..i \/ g \in i..k
    BY <1>2, <2>1
  <2>5. Stays(h, k, n)
    BY <2>2, <2>3, <2>4 DEF Stays
  <2>6. QED
    BY <1>1, <2>1, <2>5
<1>4. i \in Stored(k, n)
  BY <1>2, <1>3 DEF Stored
<1>5. QED
  BY <1>4

(* Sets that agree up to k and have nothing beyond it are equal.           *)
LEMMA WithoutMore ==
  ASSUME NEW k \in Nat, NEW V \in SUBSET (1..(k + 1)), NEW W \in SUBSET (1..k),
         \A i \in 1..k : i \in V <=> i \in W,
         k + 1 \notin V
  PROVE  V = W
<1>1. \A i \in V : i \in 1..k \/ i = k + 1
  OBVIOUS
<1>2. QED
  BY <1>1

(* What one more call, the first of those it is asked for, adds to them.   *)
LEMMA StoredAdded ==
  ASSUME TypeOK, NEW name \in Name, NEW value \in Value,
         calls' = Append(calls, [op |-> "add", name |-> name, value |-> value]),
         NEW n \in Name, NEW k, k = Len(calls)
  PROVE  Stored(k + 1, n)' =
           IF /\ name # EmptyName /\ Lower[name] = n
              /\ value # EmptyValue \/ Stored(k, n) = {}
           THEN Stored(k, n) \cup {k + 1}
           ELSE Stored(k, n)
<1> DEFINE c == [op |-> "add", name |-> name, value |-> value]
<1>1. /\ k \in Nat
      /\ \A i \in 1..k : calls'[i] = calls[i]
      /\ calls'[k + 1] = c
  <2>1. calls \in Seq(CallRecord) /\ c \in CallRecord
    BY DEF TypeOK, CallRecord
  <2>2. QED
    BY <2>1, Called
<1>2. c.op = "add" /\ c.name = name /\ c.value = value
  OBVIOUS
<1> HIDE DEF c
<1>3. /\ \A i \in 1..k : Adds(i, n)' <=> Adds(i, n)
      /\ \A l \in 0..k : \A i \in 1..l : Stays(i, l, n)' <=> Stays(i, l, n)
      /\ Stored(k, n)' = Stored(k, n)
  BY <1>1, StillStored
<1>4. ASSUME NEW i \in 1..k PROVE Stays(i, k + 1, n)' <=> Stays(i, k, n)
  <2>1. \A j \in i..k : j \in 1..k
    OBVIOUS
  <2>2. i..(k + 1) = (i..k) \cup {k + 1}
    BY <1>1
  <2>3. calls'[k + 1].op # "remove"
    BY <1>1, <1>2
  <2>4. QED
    BY <1>1, <1>3, <2>1, <2>2, <2>3 DEF Stays
<1>5. Stays(k + 1, k + 1, n)' <=> name # EmptyName /\ Lower[name] = n
  <2>1. calls'[k + 1].op = "add" /\ calls'[k + 1].name = name
    BY <1>1, <1>2
  <2>2. (k + 1)..(k + 1) = {k + 1}
    BY <1>1
  <2>3. QED
    BY <2>1, <2>2 DEF Stays, Adds
<1>6. (\A j \in 1..k : ~Stays(j, k + 1, n)') <=> Stored(k, n) = {}
  <2>1. ASSUME NEW j \in 1..k, Stays(j, k, n) PROVE Stored(k, n) # {}
    BY <1>1, <2>1, SomeStored
  <2>2. Stored(k, n) # {} => \E j \in 1..k : Stays(j, k, n)
    BY DEF Stored
  <2>3. QED
    BY <1>4, <2>1, <2>2
<1>7. ASSUME NEW i \in 1..k PROVE i \in Stored(k + 1, n)' <=> i \in Stored(k, n)
  <2>1. i \in 0..k /\ \A j \in 1..(i - 1) : j \in 1..i
    BY <1>1
  <2>2. \A j \in 1..(i - 1) : Stays(j, i, n)' <=> Stays(j, i, n)
    BY <1>3, <2>1
  <2>3. calls'[i].value = calls[i].value /\ i \in 1..(k + 1)
    BY <1>1
  <2>4. QED
    BY <1>4, <2>2, <2>3 DEF Stored
<1>8. k + 1 \in Stored(k + 1, n)' <=> /\ name # EmptyName /\ Lower[name] = n
                                      /\ value # EmptyValue \/ Stored(k, n) = {}
  <2>1. calls'[k + 1].value = value
    BY <1>1, <1>2
  <2>2. k + 1 \in 1..(k + 1) /\ (k + 1) - 1 = k
    BY <1>1
  <2>3. QED
    BY <1>5, <1>6, <2>1, <2>2 DEF Stored
<1>9. Stored(k + 1, n)' \in SUBSET (1..(k + 1)) /\ Stored(k, n) \in SUBSET (1..k)
  BY DEF Stored
<1>10. /\ k + 1 \in Stored(k + 1, n)' => Stored(k + 1, n)' = Stored(k, n) \cup {k + 1}
       /\ k + 1 \notin Stored(k + 1, n)' => Stored(k + 1, n)' = Stored(k, n)
  <2> DEFINE V == Stored(k + 1, n)'
             W == Stored(k, n)
  <2>1. V \in SUBSET (1..(k + 1)) /\ W \in SUBSET (1..k) /\ \A i \in 1..k : i \in V <=> i \in W
    BY <1>7, <1>9
  <2> HIDE DEF V, W
  <2>2. ASSUME k + 1 \in V PROVE V = W \cup {k + 1}
    <3>1. \A x \in 1..(k + 1) : x \in 1..k \/ x = k + 1
      BY <1>1
    <3>2. \A x \in V : x \in W \cup {k + 1}
      BY <2>1, <3>1
    <3>3. \A x \in W \cup {k + 1} : x \in V
      BY <2>1, <2>2
    <3>4. QED
      BY <3>2, <3>3
  <2>3. ASSUME k + 1 \notin V PROVE V = W
    BY <1>1, <2>1, <2>3, WithoutMore
  <2>4. QED
    BY <2>2, <2>3 DEF V, W
<1>11. QED
  BY <1>8, <1>10

(* A removal takes all values of its name, and no others.                  *)
LEMMA StoredRemoved ==
  ASSUME TypeOK, NEW name \in Name,
         calls' = Append(calls, [op |-> "remove", name |-> name, value |-> EmptyValue]),
         NEW n \in Name, NEW k, k = Len(calls)
  PROVE  Stored(k + 1, n)' = IF name = n THEN {} ELSE Stored(k, n)
<1> DEFINE c == [op |-> "remove", name |-> name, value |-> EmptyValue]
<1>1. /\ k \in Nat
      /\ \A i \in 1..k : calls'[i] = calls[i]
      /\ calls'[k + 1] = c
  <2>1. calls \in Seq(CallRecord) /\ c \in CallRecord
    BY NamesAssumption DEF TypeOK, CallRecord
  <2>2. QED
    BY <2>1, Called
<1>2. c.op = "remove" /\ c.name = name
  OBVIOUS
<1> HIDE DEF c
<1>3. /\ \A i \in 1..k : Adds(i, n)' <=> Adds(i, n)
      /\ \A l \in 0..k : \A i \in 1..l : Stays(i, l, n)' <=> Stays(i, l, n)
  BY <1>1, StillStored
<1>4. ASSUME NEW i \in 1..k PROVE Stays(i, k + 1, n)' <=> Stays(i, k, n) /\ name # n
  <2>1. \A j \in i..k : j \in 1..k
    OBVIOUS
  <2>2. i..(k + 1) = (i..k) \cup {k + 1}
    BY <1>1
  <2>3. calls'[k + 1].op = "remove" /\ calls'[k + 1].name = name
    BY <1>1, <1>2
  <2>4. QED
    BY <1>1, <1>3, <2>1, <2>2, <2>3 DEF Stays
<1>5. ~Adds(k + 1, n)'
  <2>1. calls'[k + 1].op # "add"
    BY <1>1, <1>2
  <2>2. QED
    BY <2>1 DEF Adds
<1>6. ASSUME NEW i \in 1..k PROVE i \in Stored(k + 1, n)' <=> i \in Stored(k, n) /\ name # n
  <2>1. i \in 0..k /\ \A j \in 1..(i - 1) : j \in 1..i
    BY <1>1
  <2>2. \A j \in 1..(i - 1) : Stays(j, i, n)' <=> Stays(j, i, n)
    BY <1>3, <2>1
  <2>3. calls'[i].value = calls[i].value /\ i \in 1..(k + 1)
    BY <1>1
  <2>4. QED
    BY <1>4, <2>2, <2>3 DEF Stored
<1>7. k + 1 \notin Stored(k + 1, n)'
  BY <1>5 DEF Stored, Stays
<1>8. Stored(k + 1, n)' \in SUBSET (1..(k + 1)) /\ Stored(k, n) \in SUBSET (1..k)
  BY DEF Stored
<1>9. ASSUME NEW W \in SUBSET (1..k),
             \A i \in 1..k : i \in Stored(k + 1, n)' <=> i \in W
      PROVE  Stored(k + 1, n)' = W
  <2> DEFINE V == Stored(k + 1, n)'
  <2>1. V \in SUBSET (1..(k + 1)) /\ k + 1 \notin V /\ \A i \in 1..k : i \in V <=> i \in W
    BY <1>7, <1>8, <1>9
  <2> HIDE DEF V
  <2>2. V = W
    BY <1>1, <2>1, WithoutMore
  <2>3. QED
    BY <2>2 DEF V
<1>10. CASE name = n
  <2>1. {} \in SUBSET (1..k) /\ \A i \in 1..k : i \in Stored(k + 1, n)' <=> i \in {}
    BY <1>6, <1>10
  <2>2. QED
    BY <1>9, <1>10, <2>1
<1>11. CASE name # n
  BY <1>6, <1>8, <1>9, <1>11
<1>12. QED
  BY <1>10, <1>11

(* Pairings of a first part of the places and calls go on with one more of *)
(* each, and one with places is one with what these stand for.             *)
LEMMA OneMore ==
  ASSUME NEW m \in Nat, NEW k \in Nat, NEW W \in SUBSET (1..k),
         NEW call \in InOrder(1..m, W), NEW more \in [1..(m + 1) -> Nat],
         more[m + 1] = k + 1, \A j \in 1..m : more[j] = call[j]
  PROVE  more \in InOrder(1..(m + 1), W \cup {k + 1})
<1>1. /\ call \in [1..m -> W]
      /\ \A i \in W : \E p \in 1..m : call[p] = i
      /\ \A p, q \in 1..m : p < q => call[p] < call[q]
  BY DEF InOrder
<1>2. /\ m + 1 \in 1..(m + 1)
      /\ \A p \in 1..m : p \in 1..(m + 1)
      /\ \A p \in 1..(m + 1) : p \in 1..m \/ p = m + 1
  OBVIOUS
<1>3. more \in [1..(m + 1) -> W \cup {k + 1}]
  BY <1>1, <1>2
<1>4. \A i \in W \cup {k + 1} : \E p \in 1..(m + 1) : more[p] = i
  BY <1>1, <1>2
<1>5. ASSUME NEW p \in 1..(m + 1), NEW q \in 1..(m + 1), p < q PROVE more[p] < more[q]
  <2>1. p \in 1..m
    BY <1>5
  <2>2. more[p] = call[p] /\ call[p] \in 1..k
    BY <1>1, <1>2, <2>1
  <2>3. CASE q = m + 1
    BY <1>2, <2>2, <2>3
  <2>4. CASE q \in 1..m
    BY <1>1, <1>2, <1>5, <2>1, <2>4
  <2>5. QED
    BY <1>2, <2>3, <2>4
<1>6. QED
  BY <1>3, <1>4, <1>5 DEF InOrder

LEMMA Through ==
  ASSUME NEW A, NEW B, NEW C, NEW place \in InOrder(A, B), NEW call \in InOrder(B, C),
         NEW both, both = [p \in A |-> call[place[p]]]
  PROVE  both \in InOrder(A, C)
<1>1. /\ place \in [A -> B] /\ call \in [B -> C]
      /\ \A i \in B : \E p \in A : place[p] = i
      /\ \A p, q \in A : p < q => place[p] < place[q]
      /\ \A i \in C : \E p \in B : call[p] = i
      /\ \A p, q \in B : p < q => call[p] < call[q]
  BY DEF InOrder
<1>2. \A p \in A : place[p] \in B /\ both[p] = call[place[p]] /\ both[p] \in C
  BY <1>1
<1>3. both \in [A -> C]
  BY <1>1
<1>4. \A i \in C : \E p \in A : both[p] = i
  BY <1>1, <1>2
<1>5. \A p, q \in A : p < q => both[p] < both[q]
  BY <1>1, <1>2
<1>6. QED
  BY <1>3, <1>4, <1>5 DEF InOrder

(* A call that asks for no value of a name, and one that asks for one more.*)
LEMMA KeptSame ==
  ASSUME TypeOK, NEW n \in Name, KeptOf(n), NEW k, k = Len(calls), Len(calls') = k + 1,
         \A i \in 1..k : calls'[i] = calls[i],
         headers'[n] = headers[n], Stored(k + 1, n)' = Stored(k, n)
  PROVE  KeptOf(n)'
<1> DEFINE m == Len(headers[n])
<1>1. k \in Nat /\ m \in Nat /\ m <= k
  <2>1. headers[n] \in Seq(Value) /\ calls \in Seq(CallRecord)
    BY DEF TypeOK, CallRecord
  <2>2. QED
    BY <2>1, LenProperties DEF KeptOf
<1>2. PICK call \in InOrder(1..m, Stored(k, n)) :
        \A j \in 1..m : headers[n][j] = calls[call[j]].value
  BY DEF KeptOf
<1>3. call \in [1..m -> 1..k]
  BY DEF InOrder, Stored
<1>4. Stored(Len(calls), n)' = Stored(k, n)
  <2>1. Stored(Len(calls), n)' = Stored(k + 1, n)'
    BY DEF Stored
  <2>2. QED
    BY <2>1
<1>5. Len(headers'[n]) = m /\ \A j \in 1..m : headers'[n][j] = calls'[call[j]].value
  BY <1>2, <1>3
<1>6. m <= k + 1
  BY <1>1
<1>7. QED
  BY <1>2, <1>4, <1>5, <1>6 DEF KeptOf

LEMMA KeptMore ==
  ASSUME TypeOK, NEW n \in Name, KeptOf(n), NEW k, k = Len(calls), Len(calls') = k + 1,
         \A i \in 1..k : calls'[i] = calls[i], NEW value \in Value,
         calls'[k + 1].value = value,
         headers'[n] = Append(headers[n], value),
         Stored(k + 1, n)' = Stored(k, n) \cup {k + 1}
  PROVE  KeptOf(n)'
<1> DEFINE m == Len(headers[n])
           W == Stored(k, n)
<1>1. k \in Nat /\ m \in Nat /\ m <= k
  <2>1. headers[n] \in Seq(Value) /\ calls \in Seq(CallRecord)
    BY DEF TypeOK, CallRecord
  <2>2. QED
    BY <2>1, LenProperties DEF KeptOf
<1>2. PICK call \in InOrder(1..m, W) :
        \A j \in 1..m : headers[n][j] = calls[call[j]].value
  BY DEF KeptOf
<1>3. call \in [1..m -> 1..k] /\ W \in SUBSET (1..k)
  BY DEF InOrder, Stored
<1>4. Stored(Len(calls), n)' = W \cup {k + 1}
  <2>1. Stored(Len(calls), n)' = Stored(k + 1, n)'
    BY DEF Stored
  <2>2. QED
    BY <2>1
<1>5. /\ Len(headers'[n]) = m + 1
      /\ \A j \in 1..m : headers'[n][j] = headers[n][j]
      /\ headers'[n][m + 1] = value
  <2>1. headers[n] \in Seq(Value)
    BY DEF TypeOK
  <2>2. QED
    BY <1>1, <2>1, AppendProperties
<1> DEFINE more == [j \in 1..(m + 1) |-> IF j = m + 1 THEN k + 1 ELSE call[j]]
<1>6. /\ more \in [1..(m + 1) -> Nat]
      /\ more[m + 1] = k + 1
      /\ \A j \in 1..m : more[j] = call[j]
  <2> HIDE DEF m, W
  <2>1. m + 1 \in 1..(m + 1) /\ \A j \in 1..m : j \in 1..(m + 1) /\ j # m + 1
    BY <1>1
  <2>2. ASSUME NEW j \in 1..(m + 1), j # m + 1 PROVE call[j] \in Nat
    BY <1>1, <1>3, <2>2
  <2>3. QED
    BY <1>1, <2>1, <2>2
<1> HIDE DEF m, W, more
<1>7. more \in InOrder(1..(m + 1), W \cup {k + 1})
  BY <1>1, <1>2, <1>3, <1>6, OneMore
<1>8. ASSUME NEW j \in 1..(m + 1) PROVE headers'[n][j] = calls'[more[j]].value
  <2>1. CASE j = m + 1
    BY <1>5, <1>6, <2>1
  <2>2. CASE j \in 1..m
    <3>1. call[j] \in 1..k /\ more[j] = call[j]
      BY <1>3, <1>6, <2>2
    <3>2. QED
      BY <1>2, <1>5, <2>2, <3>1
  <2>3. j = m + 1 \/ j \in 1..m
    BY <1>1
  <2>4. QED
    BY <2>1, <2>2, <2>3
<1>9. m + 1 <= k + 1
  BY <1>1
<1>10. /\ Len(headers'[n]) <= Len(calls')
       /\ more \in InOrder(1..Len(headers'[n]), Stored(Len(calls), n)')
       /\ \A j \in 1..Len(headers'[n]) : headers'[n][j] = calls'[more[j]].value
  BY <1>4, <1>5, <1>7, <1>8, <1>9
<1>11. QED
  BY <1>10 DEF KeptOf

LEMMA AddKept ==
  ASSUME TypeOK, Kept, NEW name \in Name, NEW value \in Value, AddHeader(name, value)
  PROVE  Kept'
<1> DEFINE c == [op |-> "add", name |-> name, value |-> value]
           low == Lower[name]
<1>1. /\ calls' = Append(calls, c)
      /\ IF name # EmptyName /\ (headers[low] = <<>> \/ value # EmptyValue)
         THEN headers' = [headers EXCEPT ![low] = Append(headers[low], value)]
         ELSE headers' = headers
  BY NamesAssumption DEF AddHeader, ChangeHeaders, TypeOK
<1>2. calls \in Seq(CallRecord) /\ c \in CallRecord /\ low \in Name
      /\ headers \in [Name -> Seq(Value)]
  BY NamesAssumption DEF TypeOK, CallRecord
<1>3. c.value = value
  OBVIOUS
<1>4. PICK k : k = Len(calls)
  OBVIOUS
<1>5. /\ k \in Nat /\ Len(calls') = k + 1
      /\ \A i \in 1..k : calls'[i] = calls[i]
      /\ calls'[k + 1] = c
  <2> HIDE DEF c
  <2>1. QED
    BY <1>1, <1>2, <1>4, Called
<1>6. ASSUME NEW n \in Name PROVE KeptOf(n)'
  <2>1. KeptOf(n)
    BY DEF Kept
  <2>2. Stored(k + 1, n)' =
          IF name # EmptyName /\ low = n /\ (value # EmptyValue \/ Stored(k, n) = {})
          THEN Stored(k, n) \cup {k + 1}
          ELSE Stored(k, n)
    BY <1>1, <1>4, StoredAdded
  <2>3. Stored(k, n) = {} <=> headers[n] = <<>>
    <3>1. PICK call \in InOrder(1..Len(headers[n]), Stored(k, n)) : TRUE
      BY <1>4, <2>1 DEF KeptOf
    <3>2. /\ call \in [1..Len(headers[n]) -> Stored(k, n)]
          /\ \A i \in Stored(k, n) : \E p \in 1..Len(headers[n]) : call[p] = i
      BY DEF InOrder
    <3>3. Len(headers[n]) \in Nat /\ (Len(headers[n]) = 0 <=> headers[n] = <<>>)
      BY <1>2, LenProperties, EmptySeq
    <3>4. CASE headers[n] = <<>>
      BY <3>2, <3>3, <3>4
    <3>5. CASE headers[n] # <<>>
      <4>1. 1 \in 1..Len(headers[n])
        BY <3>3, <3>5
      <4>2. QED
        BY <3>2, <3>5, <4>1
    <3>6. QED
      BY <3>4, <3>5
  <2>4. CASE name # EmptyName /\ low = n /\ (headers[n] = <<>> \/ value # EmptyValue)
    <3>1. headers'[n] = Append(headers[n], value) /\ Stored(k + 1, n)' = Stored(k, n) \cup {k + 1}
      BY <1>1, <1>2, <2>2, <2>3, <2>4
    <3>2. QED
      BY <1>3, <1>4, <1>5, <2>1, <3>1, KeptMore
  <2>5. CASE ~(name # EmptyName /\ low = n /\ (headers[n] = <<>> \/ value # EmptyValue))
    <3>1. headers'[n] = headers[n] /\ Stored(k + 1, n)' = Stored(k, n)
      BY <1>1, <1>2, <2>2, <2>3, <2>5
    <3>2. QED
      BY <1>4, <1>5, <2>1, <3>1, KeptSame
  <2>6. QED
    BY <2>4, <2>5
<1>7. QED
  BY <1>6 DEF Kept

LEMMA RemoveKept ==
  ASSUME TypeOK, Kept, NEW name \in Name, RemoveHeader(name)
  PROVE  Kept'
<1> DEFINE c == [op |-> "remove", name |-> name, value |-> EmptyValue]
<1>1. calls' = Append(calls, c) /\ headers' = [headers EXCEPT ![name] = <<>>]
  BY DEF RemoveHeader, ChangeHeaders
<1>2. calls \in Seq(CallRecord) /\ c \in CallRecord /\ headers \in [Name -> Seq(Value)]
  BY NamesAssumption DEF TypeOK, CallRecord
<1>3. PICK k : k = Len(calls)
  OBVIOUS
<1>4. /\ k \in Nat /\ Len(calls') = k + 1
      /\ \A i \in 1..k : calls'[i] = calls[i]
  <2> HIDE DEF c
  <2>1. QED
    BY <1>1, <1>2, <1>3, Called
<1>5. ASSUME NEW n \in Name PROVE KeptOf(n)'
  <2>1. KeptOf(n)
    BY DEF Kept
  <2>2. Stored(k + 1, n)' = IF name = n THEN {} ELSE Stored(k, n)
    BY <1>1, <1>3, StoredRemoved
  <2>3. CASE name = n
    <3>1. headers'[n] = <<>> /\ Len(headers'[n]) = 0 /\ Stored(k + 1, n)' = {}
      BY <1>1, <1>2, <2>2, <2>3, EmptySeq
    <3>2. Stored(Len(calls), n)' = {}
      <4>1. Stored(Len(calls), n)' = Stored(k + 1, n)'
        BY <1>4 DEF Stored
      <4>2. QED
        BY <3>1, <4>1
    <3>3. PICK none : none \in InOrder(1..0, {})
      <4>1. <<>> \in InOrder(1..0, {})
        BY DEF InOrder
      <4>2. QED
        BY <4>1
    <3>4. /\ Len(headers'[n]) <= Len(calls')
          /\ none \in InOrder(1..Len(headers'[n]), Stored(Len(calls), n)')
          /\ \A j \in 1..Len(headers'[n]) : headers'[n][j] = calls'[none[j]].value
      <4>1. Len(headers'[n]) <= Len(calls')
        BY <1>4, <3>1
      <4>2. none \in InOrder(1..Len(headers'[n]), Stored(Len(calls), n)')
        BY <3>1, <3>2, <3>3
      <4>3. 1..Len(headers'[n]) = {}
        BY <3>1
      <4>4. QED
        BY <4>1, <4>2, <4>3
    <3>5. QED
      BY <3>4 DEF KeptOf
  <2>4. CASE name # n
    <3>1. headers'[n] = headers[n] /\ Stored(k + 1, n)' = Stored(k, n)
      BY <1>1, <1>2, <2>2, <2>4
    <3>2. QED
      BY <1>3, <1>4, <2>1, <3>1, KeptSame
  <2>5. QED
    BY <2>3, <2>4
<1>6. QED
  BY <1>5 DEF Kept
-----------------------------------------------------------------------------
(* The entries that http11_write_status lists, and an order of them.       *)
Entries == {e \in Name \X (1..MaxOps) : e[2] <= Len(headers[e[1]])}

NextEntry(d, e) ==
  \/ e = <<d[1], d[2] + 1>>
  \/ e[2] = 1 /\ d[2] = Len(headers[d[1]])

Listing(K, s) ==
  /\ K \in Nat
  /\ s \in [1..K -> Entries]
  /\ \A e \in Entries : \E i \in 1..K : s[i] = e
  /\ \A i, j \in 1..K : s[i] = s[j] => i = j
  /\ \A i \in 1..K : IF i = 1 THEN s[i][2] = 1 ELSE NextEntry(s[i - 1], s[i])

(* The lines of a head are a listing of all entries, none of them twice.   *)
LEMMA LinesListed ==
  ASSUME NEW lines \in Lines
  PROVE  \E K, s : /\ Listing(K, s)
                   /\ Len(lines) = K
                   /\ \A i \in 1..K : lines[i] = <<s[i][1], headers[s[i][1]][s[i][2]]>>
<1> DEFINE K == Cardinality(Entries)
<1>1. IsFiniteSet(Entries) /\ K \in Nat
  <2>1. IsFiniteSet(1..MaxOps)
    BY BoundsAssumption, FS_Interval
  <2>2. IsFiniteSet(Name \X (1..MaxOps))
    BY <2>1, NamesAssumption, FS_Product
  <2>3. IsFiniteSet(Entries)
    BY <2>2, FS_Subset DEF Entries
  <2>4. QED
    BY <2>3, FS_CardinalityType
<1>2. PICK s \in [1..K -> Entries] :
        /\ \A e \in Entries : \E i \in DOMAIN s : s[i] = e
        /\ \A i \in DOMAIN s : IF i = 1 THEN s[i][2] = 1 ELSE NextEntry(s[i - 1], s[i])
        /\ lines = [i \in DOMAIN s |-> <<s[i][1], headers[s[i][1]][s[i][2]]>>]
  BY DEF Lines, Entries, NextEntry
<1> HIDE DEF K
<1>3. DOMAIN s = 1..K
  BY <1>2
<1>4. \A i, j \in 1..K : s[i] = s[j] => i = j
  <2>1. s \in Surjection(1..K, Entries)
    BY <1>2, <1>3 DEF Surjection
  <2>2. IsFiniteSet(1..K) /\ Cardinality(1..K) = K
    BY <1>1, FS_Interval
  <2>3. s \in Injection(1..K, Entries)
    BY <2>1, <2>2, FS_SurjSameCardinalityImpliesInj DEF K
  <2>4. QED
    BY <2>3 DEF Injection, IsInjective
<1>5. /\ Len(lines) = K
      /\ \A i \in 1..K : lines[i] = <<s[i][1], headers[s[i][1]][s[i][2]]>>
  BY <1>1, <1>2, <1>3
<1>6. Listing(K, s)
  BY <1>1, <1>2, <1>3, <1>4 DEF Listing
<1>7. QED
  BY <1>5, <1>6

(* Before the entry with a name's value number m come those with smaller   *)
(* numbers, one after the other.                                           *)
LEMMA Preceded ==
  ASSUME NEW K, NEW s, Listing(K, s), NEW i \in 1..K, NEW d \in Nat, d < s[i][2]
  PROVE  i - d \in 1..K /\ s[i - d] = <<s[i][1], s[i][2] - d>>
<1> DEFINE Right(c) == i - c \in 1..K /\ s[i - c] = <<s[i][1], s[i][2] - c>>
           Wrong == {c \in Nat : c < s[i][2] /\ ~Right(c)}
<1>1. \A j \in 1..K : s[j] = <<s[j][1], s[j][2]>> /\ s[j][2] \in Nat \ {0}
  BY DEF Listing, Entries
<1>2. ASSUME NEW c \in Wrong, \A b \in Wrong : c <= b PROVE FALSE
  <2>1. c # 0
    <3>1. i - 0 = i /\ s[i][2] - 0 = s[i][2]
      BY <1>1 DEF Listing
    <3>2. Right(0)
      BY <1>1, <3>1
    <3>3. QED
      BY <3>2
  <2>2. c \in Nat /\ c - 1 \in Nat /\ c < s[i][2] /\ c - 1 < s[i][2] /\ ~(c <= c - 1)
    BY <1>1, <2>1
  <2>3. Right(c - 1)
    BY <1>2, <2>2
  <2> DEFINE j == i - (c - 1)
  <2>4. j \in 1..K /\ s[j] = <<s[i][1], s[i][2] - (c - 1)>>
    BY <2>3
  <2>5. s[j][1] = s[i][1] /\ s[j][2] = s[i][2] - (c - 1)
    BY <2>4
  <2>6. s[j][2] > 1 /\ j - 1 = i - c
    BY <1>1, <2>2, <2>5 DEF Listing
  <2>7. j # 1 /\ NextEntry(s[j - 1], s[j])
    <3> HIDE DEF j
    <3>1. IF j = 1 THEN s[j][2] = 1 ELSE NextEntry(s[j - 1], s[j])
      BY <2>4 DEF Listing
    <3>2. s[j][2] # 1
      BY <1>1, <2>4, <2>6
    <3>3. QED
      BY <3>1, <3>2
  <2>8. j - 1 \in 1..K
    BY <2>4, <2>7 DEF Listing
  <2>9. s[j] = <<s[j - 1][1], s[j - 1][2] + 1>>
    BY <2>6, <2>7 DEF NextEntry
  <2>10. s[j - 1][1] = s[i][1] /\ s[j - 1][2] + 1 = s[i][2] - (c - 1)
    BY <2>5, <2>9
  <2>11. s[j - 1][2] = s[i][2] - c
    BY <1>1, <2>2, <2>8, <2>10
  <2>12. s[i - c] = <<s[i][1], s[i][2] - c>>
    BY <1>1, <2>6, <2>8, <2>10, <2>11
  <2>13. QED
    BY <2>6, <2>8, <2>12
<1>3. Wrong = {}
  <2>1. Wrong \in SUBSET Nat
    OBVIOUS
  <2> HIDE DEF Wrong
  <2>2. QED
    BY <1>2, <2>1, HasFirst
<1>4. Right(d)
  BY <1>3
<1>5. QED
  BY <1>4

(* So the lines of a name are in the order of its values.                  *)
LEMMA Listed ==
  ASSUME TypeOK, Len(calls) <= MaxOps, NEW lines \in Lines, NEW n \in Name, KeptOf(n),
         NEW ofName, \A p : p \in ofName <=> p \in 1..Len(lines) /\ lines[p][1] = n
  PROVE  \E place \in InOrder(ofName, 1..Len(headers[n])) :
           \A p \in ofName : lines[p][2] = headers[n][place[p]]
<1>1. PICK K, s : /\ Listing(K, s)
                  /\ Len(lines) = K
                  /\ \A i \in 1..K : lines[i] = <<s[i][1], headers[s[i][1]][s[i][2]]>>
  BY LinesListed
<1> DEFINE place == [p \in ofName |-> s[p][2]]
<1>2. \A p \in ofName : /\ p \in 1..K /\ s[p] = <<n, s[p][2]>> /\ s[p][2] \in Nat \ {0}
                        /\ s[p][2] <= Len(headers[n]) /\ lines[p][2] = headers[n][s[p][2]]
  <2>1. \A p \in 1..K : /\ s[p] = <<s[p][1], s[p][2]>> /\ s[p][2] \in Nat \ {0}
                        /\ s[p][2] <= Len(headers[s[p][1]])
    BY <1>1 DEF Listing, Entries
  <2>2. \A p \in ofName : p \in 1..K /\ s[p][1] = n /\ lines[p][2] = headers[n][s[p][2]]
    BY <1>1
  <2>3. QED
    BY <2>1, <2>2
<1>3. Len(headers[n]) \in Nat /\ Len(headers[n]) <= MaxOps
  <2>1. headers[n] \in Seq(Value) /\ calls \in Seq(CallRecord)
    BY DEF TypeOK, CallRecord
  <2>2. Len(headers[n]) \in Nat /\ Len(calls) \in Nat /\ Len(headers[n]) <= Len(calls)
    BY <2>1, LenProperties DEF KeptOf
  <2>3. QED
    BY <2>2, BoundsAssumption
<1>4. place \in [ofName -> 1..Len(headers[n])]
  BY <1>2, <1>3
<1>5. ASSUME NEW m \in 1..Len(headers[n]) PROVE \E p \in ofName : place[p] = m
  <2>1. <<n, m>> \in Entries
    BY <1>3, BoundsAssumption DEF Entries
  <2>2. PICK p \in 1..K : s[p] = <<n, m>>
    BY <1>1, <2>1 DEF Listing
  <2>3. s[p][1] = n /\ s[p][2] = m
    BY <2>2
  <2>4. p \in ofName
    BY <1>1, <2>3
  <2>5. QED
    BY <2>3, <2>4
<1>6. ASSUME NEW p \in ofName, NEW q \in ofName, p < q PROVE s[p][2] < s[q][2]
  <2>1. /\ p \in 1..K /\ q \in 1..K /\ K \in Nat
        /\ s[p] = <<n, s[p][2]>> /\ s[q] = <<n, s[q][2]>>
        /\ s[p][2] \in Nat \ {0} /\ s[q][2] \in Nat \ {0}
        /\ s[p][1] = n /\ s[q][1] = n
    BY <1>1, <1>2 DEF Listing
  <2>2. CASE s[p][2] >= s[q][2]
    <3> DEFINE d == s[p][2] - s[q][2]
    <3>1. d \in Nat /\ d < s[p][2] /\ s[p][2] - d = s[q][2]
      BY <2>1, <2>2
    <3>2. p - d \in 1..K /\ s[p - d] = <<n, s[q][2]>>
      <4>1. p - d \in 1..K /\ s[p - d] = <<s[p][1], s[p][2] - d>>
        <5> HIDE DEF d
        <5>1. QED
          BY <1>1, <2>1, <3>1, Preceded
      <4>2. QED
        BY <2>1, <3>1, <4>1
    <3>3. p - d = q
      BY <1>1, <2>1, <3>2, ZenonT(30) DEF Listing
    <3>4. QED
      BY <1>6, <2>1, <3>1, <3>3
  <2>3. QED
    BY <2>1, <2>2
<1>7. place \in InOrder(ofName, 1..Len(headers[n]))
  BY <1>4, <1>5, <1>6 DEF InOrder
<1>8. \A p \in ofName : lines[p][2] = headers[n][place[p]]
  BY <1>2
<1>9. QED
  BY <1>7, <1>8

(* A head that begins lists the values asked for by then.                  *)
LEMMA BeginFaithful ==
  ASSUME HInv, NEW code \in Code, BeginHead(code)
  PROVE  HeadAsStored' /\ AskedBefore'
<1>1. PICK lines \in Lines :
        heads' = Append(heads, [code |-> code, lines |-> lines, asked |-> Len(calls)])
  BY DEF BeginHead
<1> DEFINE h == [code |-> code, lines |-> lines, asked |-> Len(calls)]
           OneHead == [code : Code, lines : Seq(Name \X Value), asked : Nat]
<1>2. UNCHANGED <<calls, headers>>
  BY DEF BeginHead, headerVars
<1>3. h \in OneHead
  <2>1. lines \in Seq(Name \X Value)
    BY LinesType DEF HInv
  <2>2. Len(calls) \in Nat
    BY LenTypes DEF HInv
  <2>3. QED
    BY <2>1, <2>2
<1>4. /\ Current \in Nat /\ Current' = Current + 1
      /\ \A a \in 1..Current : heads'[a] = heads[a]
      /\ heads'[Current + 1] = h
  <2>1. heads \in Seq(OneHead)
    BY DEF HInv, TypeOK
  <2> HIDE DEF h, OneHead
  <2>2. heads' = Append(heads, h)
    BY <1>1 DEF h
  <2>3. QED
    BY <1>3, <2>1, <2>2, AppendProperties, LenProperties DEF Current
<1>5. h.lines = lines /\ h.asked = Len(calls)
  OBVIOUS
<1> HIDE DEF h
<1>6. \A a \in 1..Current' : a \in 1..Current \/ a = Current + 1
  BY <1>4
<1>7. AskedBefore'
  <2>1. Len(calls) \in Nat
    BY LenTypes DEF HInv
  <2>2. ASSUME NEW a \in 1..Current' PROVE heads'[a].asked <= Len(calls')
    <3>1. CASE a \in 1..Current
      BY <1>2, <1>4, <3>1 DEF HInv, AskedBefore
    <3>2. CASE a = Current + 1
      BY <1>2, <1>4, <1>5, <2>1, <3>2
    <3>3. QED
      BY <1>6, <3>1, <3>2
  <2>3. QED
    BY <2>2 DEF AskedBefore
<1>8. ASSUME NEW a \in 1..Current', NEW n \in Name PROVE FaithfulIn(a, n)'
  <2>1. CASE a \in 1..Current
    <3>1. FaithfulIn(a, n)
      BY <2>1 DEF HInv, HeadAsStored, FaithfulIn, Lists
    <3>2. heads'[a] = heads[a] /\ calls' = calls
      BY <1>2, <1>4, <2>1
    <3>3. Stored(heads[a].asked, n)' = Stored(heads[a].asked, n)
      BY <3>2 DEF Stored, Stays, Adds
    <3>4. QED
      BY <3>1, <3>2, <3>3 DEF FaithfulIn
  <2>2. CASE a = Current + 1
    <3> DEFINE ofName == {p \in 1..Len(lines) : lines[p][1] = n}
    <3>1. PICK place \in InOrder(ofName, 1..Len(headers[n])) :
            \A p \in ofName : lines[p][2] = headers[n][place[p]]
      <4>1. TypeOK /\ Len(calls) <= MaxOps /\ KeptOf(n)
        BY DEF HInv, Kept
      <4>2. \A p : p \in ofName <=> p \in 1..Len(lines) /\ lines[p][1] = n
        OBVIOUS
      <4> HIDE DEF ofName
      <4>3. QED
        BY <4>1, <4>2, Listed
    <3>2. PICK call \in InOrder(1..Len(headers[n]), Stored(Len(calls), n)) :
            \A j \in 1..Len(headers[n]) : headers[n][j] = calls[call[j]].value
      BY DEF HInv, Kept, KeptOf
    <3> DEFINE both == [p \in ofName |-> call[place[p]]]
    <3>3. both \in InOrder(ofName, Stored(Len(calls), n))
      <4> HIDE DEF ofName
      <4>1. QED
        BY <3>1, <3>2, Through
    <3>4. \A p \in ofName : lines[p][2] = calls[both[p]].value
      BY <3>1, <3>2 DEF InOrder
    <3>5. heads'[a].lines = lines /\ heads'[a].asked = Len(calls)
      BY <1>4, <1>5, <2>2
    <3>6. Stored(heads[a].asked, n)' = Stored(Len(calls), n)
      BY <1>2, <3>5 DEF Stored, Stays, Adds
    <3> HIDE DEF both
    <3>7. Lists(lines, Stored(Len(calls), n), calls, n)
      BY <3>3, <3>4 DEF Lists
    <3>8. QED
      BY <1>2, <3>5, <3>6, <3>7 DEF FaithfulIn
  <2>3. QED
    BY <1>6, <2>1, <2>2
<1>9. HeadAsStored'
  BY <1>8 DEF HeadAsStored, FaithfulIn, Lists
<1>10. QED
  BY <1>7, <1>9

(* A call after a head changes nothing of what it should have.             *)
LEMMA CallFaithful ==
  ASSUME HInv, NEW c \in CallRecord, calls' = Append(calls, c), heads' = heads
  PROVE  HeadAsStored' /\ AskedBefore'
<1>1. /\ Len(calls) \in Nat /\ Len(calls') = Len(calls) + 1
      /\ \A i \in 1..Len(calls) : calls'[i] = calls[i]
  <2>1. calls \in Seq(CallRecord)
    BY DEF HInv, TypeOK, CallRecord
  <2>2. QED
    BY <2>1, Called
<1>2. ASSUME NEW a \in 1..Current
      PROVE  heads[a].asked \in Nat /\ heads[a].asked <= Len(calls)
  <2>1. heads \in Seq([code : Code, lines : Seq(Name \X Value), asked : Nat])
    BY DEF HInv, TypeOK
  <2>2. a \in 1..Len(heads)
    BY DEF Current
  <2>3. heads[a] \in [code : Code, lines : Seq(Name \X Value), asked : Nat]
    BY <2>1, <2>2, ElementOfSeq
  <2>4. QED
    BY <2>3 DEF HInv, AskedBefore
<1>3. AskedBefore'
  BY <1>1, <1>2 DEF AskedBefore, Current
<1>4. ASSUME NEW a \in 1..Current, NEW n \in Name PROVE FaithfulIn(a, n)'
  <2>1. PICK k : k = heads[a].asked
    OBVIOUS
  <2>2. k \in Nat /\ \A i \in 1..k : calls'[i] = calls[i]
    BY <1>1, <1>2, <2>1
  <2>3. Stored(k, n)' = Stored(k, n)
    BY <2>2, StillStored
  <2>4. Stored(heads[a].asked, n)' = Stored(k, n)
    <3>1. heads'[a].asked = k
      BY <2>1
    <3>2. Stored(heads[a].asked, n)' = Stored(k, n)'
      BY <3>1 DEF Stored
    <3>3. QED
      BY <2>3, <3>2
  <2> DEFINE ofName == {p \in 1..Len(heads[a].lines) : heads[a].lines[p][1] = n}
  <2>5. PICK call \in InOrder(ofName, Stored(k, n)) :
          \A p \in ofName : heads[a].lines[p][2] = calls[call[p]].value
    BY <2>1 DEF HInv, HeadAsStored
  <2>6. \A p \in ofName : call[p] \in 1..k
    BY <2>5 DEF InOrder, Stored
  <2>7. \A p \in ofName : heads[a].lines[p][2] = calls'[call[p]].value
    BY <2>2, <2>5, <2>6
  <2>8. Lists(heads[a].lines, Stored(k, n), calls', n)
    BY <2>5, <2>7 DEF Lists
  <2>9. heads'[a].lines = heads[a].lines
    OBVIOUS
  <2>10. QED
    BY <2>4, <2>8, <2>9 DEF FaithfulIn
<1>5. HeadAsStored'
  BY <1>4 DEF HeadAsStored, FaithfulIn, Lists, Current
<1>6. QED
  BY <1>3, <1>5

LEMMA InitHInv == Init => HInv
<1> SUFFICES ASSUME Init PROVE HInv
  OBVIOUS
<1>1. TypeOK
  BY InitIInv DEF IInv
<1>2. Len(calls) = 0 /\ Current = 0 /\ calls = <<>>
  BY DEF Init, Current
<1>3. Len(calls) <= MaxOps
  BY <1>2, BoundsAssumption
<1>4. AskedBefore /\ HeadAsStored
  <2>1. 1..Current = {}
    BY <1>2
  <2>2. QED
    BY <2>1 DEF AskedBefore, HeadAsStored
<1>5. ASSUME NEW n \in Name PROVE KeptOf(n)
  <2>1. headers[n] = <<>> /\ Len(headers[n]) = 0 /\ 1..Len(headers[n]) = {}
    BY DEF Init
  <2>2. Stored(Len(calls), n) = {}
    BY <1>2 DEF Stored
  <2>3. PICK none : none \in InOrder(1..Len(headers[n]), {})
    <3>1. <<>> \in InOrder(1..0, {})
      BY DEF InOrder
    <3>2. QED
      BY <2>1, <3>1
  <2>4. QED
    BY <1>2, <2>1, <2>2, <2>3 DEF KeptOf
<1>6. QED
  BY <1>1, <1>3, <1>4, <1>5 DEF HInv, Kept

LEMMA NextHInv == (IInv /\ HInv) /\ [Next]_vars => (IInv /\ HInv)'
<1> SUFFICES ASSUME IInv, HInv, [Next]_vars PROVE IInv' /\ HInv'
  OBVIOUS
<1>1. IInv' /\ TypeOK'
  BY NextIInv DEF IInv
<1> SUFFICES (Len(calls') <= MaxOps) /\ AskedBefore' /\ Kept' /\ HeadAsStored'
  BY <1>1 DEF HInv
<1>2. Len(calls) \in Nat
  BY LenTypes DEF HInv
<1>3. ASSUME NEW name \in Name, NEW value \in Value, AddHeader(name, value)
      PROVE  (Len(calls') <= MaxOps) /\ AskedBefore' /\ Kept' /\ HeadAsStored'
  <2> DEFINE c == [op |-> "add", name |-> name, value |-> value]
  <2>1. calls' = Append(calls, c) /\ heads' = heads /\ Len(calls) < MaxOps
    BY <1>3 DEF AddHeader, ChangeHeaders, headVars
  <2>2. c \in CallRecord
    BY DEF CallRecord
  <2> HIDE DEF c
  <2>3. Len(calls') <= MaxOps
    <3>1. Len(calls') = Len(calls) + 1
      BY <2>1, <2>2, Called DEF HInv, TypeOK, CallRecord
    <3>2. QED
      BY <1>2, <2>1, <3>1, BoundsAssumption
  <2>4. AskedBefore' /\ HeadAsStored'
    BY <2>1, <2>2, CallFaithful
  <2>5. Kept'
    BY <1>3, AddKept DEF HInv
  <2>6. QED
    BY <2>3, <2>4, <2>5
<1>4. ASSUME NEW name \in Name, RemoveHeader(name)
      PROVE  (Len(calls') <= MaxOps) /\ AskedBefore' /\ Kept' /\ HeadAsStored'
  <2> DEFINE c == [op |-> "remove", name |-> name, value |-> EmptyValue]
  <2>1. calls' = Append(calls, c) /\ heads' = heads /\ Len(calls) < MaxOps
    BY <1>4 DEF RemoveHeader, ChangeHeaders, headVars
  <2>2. c \in CallRecord
    BY NamesAssumption DEF CallRecord
  <2> HIDE DEF c
  <2>3. Len(calls') <= MaxOps
    <3>1. Len(calls') = Len(calls) + 1
      BY <2>1, <2>2, Called DEF HInv, TypeOK, CallRecord
    <3>2. QED
      BY <1>2, <2>1, <3>1, BoundsAssumption
  <2>4. AskedBefore' /\ HeadAsStored'
    BY <2>1, <2>2, CallFaithful
  <2>5. Kept'
    BY <1>4, RemoveKept DEF HInv
  <2>6. QED
    BY <2>3, <2>4, <2>5
<1>5. ASSUME UNCHANGED <<headers, calls>>
      PROVE  (Len(calls') <= MaxOps) /\ Kept'
  <2>1. Len(calls') <= MaxOps
    BY <1>5 DEF HInv
  <2>2. ASSUME NEW n \in Name PROVE KeptOf(n)'
    <3>1. KeptOf(n)
      BY DEF HInv, Kept
    <3>2. Stored(Len(calls), n)' = Stored(Len(calls), n)
      BY <1>5 DEF Stored, Stays, Adds
    <3>3. QED
      BY <1>5, <3>1, <3>2 DEF KeptOf
  <2>3. QED
    BY <2>1, <2>2 DEF Kept
<1>6. ASSUME UNCHANGED <<headers, calls, heads>>
      PROVE  (Len(calls') <= MaxOps) /\ AskedBefore' /\ Kept' /\ HeadAsStored'
  <2>1. AskedBefore'
    BY <1>6 DEF HInv, AskedBefore, Current
  <2>2. ASSUME NEW a \in 1..Current, NEW n \in Name PROVE FaithfulIn(a, n)'
    <3>1. FaithfulIn(a, n)
      BY DEF HInv, HeadAsStored, FaithfulIn, Lists
    <3>2. Stored(heads[a].asked, n)' = Stored(heads[a].asked, n)
      BY <1>6 DEF Stored, Stays, Adds
    <3>3. heads'[a] = heads[a] /\ calls' = calls
      BY <1>6
    <3>4. QED
      BY <3>1, <3>2, <3>3 DEF FaithfulIn
  <2>3. HeadAsStored'
    BY <1>6, <2>2 DEF HeadAsStored, FaithfulIn, Lists, Current
  <2>4. QED
    BY <1>5, <1>6, <2>1, <2>3
<1>7. ASSUME NEW code \in Code, BeginHead(code)
      PROVE  (Len(calls') <= MaxOps) /\ AskedBefore' /\ Kept' /\ HeadAsStored'
  <2>1. UNCHANGED <<headers, calls>>
    BY <1>7 DEF BeginHead, headerVars
  <2>2. QED
    BY <1>5, <1>7, <2>1, BeginFaithful
<1>8. CASE \E code \in Code : WriteStatus(code)
  BY <1>7, <1>8 DEF WriteStatus
<1>9. CASE \E n \in 0..MaxWrite : Write(n)
  <2>1. PICK n \in 0..MaxWrite : Write(n)
    BY <1>9
  <2>2. CASE BeginHead(OK)
    BY <1>7, <2>2, NamesAssumption
  <2>3. CASE UNCHANGED <<headerVars, headVars>>
    BY <1>6, <2>3 DEF headerVars, headVars
  <2>4. QED
    BY <2>1, <2>2, <2>3 DEF Write
<1>10. CASE Step \/ Fail \/ DropFails \/ WriteBodyFails
  <2>1. UNCHANGED <<headers, calls, heads>>
    BY <1>10 DEF Step, Push, Overflow, Finish, Flush, FlushDone, Direct, Dropped, WriteBody,
                 Fail, DropFails, WriteBodyFails, Send, Return, headerVars, headVars
  <2>2. QED
    BY <1>6, <2>1
<1>11. CASE UNCHANGED vars
  BY <1>6, <1>11 DEF vars, headerVars, headVars
<1>12. QED
  BY <1>3, <1>4, <1>8, <1>9, <1>10, <1>11 DEF Next

(* With names as http_remove_header takes them there is no exception: a    *)
(* head carries, for each name, what was added since its last removal in   *)
(* lower case, in that order, however often the plugin added and removed   *)
(* headers and in whatever order the hash map lists the names; what it     *)
(* asks for after a failed head does not change that head                  *)
(* (http_add_header, http_remove_header, http11_write_status).             *)
THEOREM HeadsAsSpelled == Spec => []HeadAsStored
<1>1. HInv => HeadAsStored
  BY DEF HInv
<1>2. Init => IInv /\ HInv
  BY InitIInv, InitHInv
<1>3. QED
  BY <1>1, <1>2, NextHInv, PTL DEF Spec

(* What stands stays: a removal in lower case is a removal.                *)
LEMMA StandsStays ==
  ASSUME TypeOK, NEW n \in Name, NEW k \in 0..Len(calls), NEW i \in 1..k, Stands(i, k, n)
  PROVE  Stays(i, k, n)
<1>1. Adds(i, n) /\ \A j \in i..k : ~Removes(j, n)
  BY DEF Stands
<1>2. calls \in Seq(CallRecord)
  BY DEF TypeOK, CallRecord
<1>3. calls[i].name \in Name /\ Lower[calls[i].name] = n
  <2>1. i \in 1..Len(calls)
    BY <1>2, LenProperties
  <2>2. calls[i] \in CallRecord
    BY <1>2, <2>1, ElementOfSeq
  <2>3. QED
    BY <1>1, <2>2 DEF Adds, CallRecord
<1>4. Lower[n] = n
  BY <1>3, NamesAssumption
<1>5. QED
  BY <1>1, <1>4 DEF Stays, Removes

(* What stays stands, unless a removal was missed: the first of those that *)
(* followed it found it standing.                                          *)
LEMMA StaysStands ==
  ASSUME NEW n, NEW k \in Nat, ~Missed(k, n),
         NEW l \in 1..k, NEW i \in 1..l, Stays(i, l, n),
         \A g \in l..k : ~(calls[g].op = "remove" /\ calls[g].name = n)
  PROVE  Stands(i, l, n)
<1> SUFFICES ASSUME ~Stands(i, l, n) PROVE FALSE
  OBVIOUS
<1> DEFINE S == {j \in i..l : Removes(j, n)}
<1>1. Adds(i, n) /\ \A j \in i..l : ~(calls[j].op = "remove" /\ calls[j].name = n)
  BY DEF Stays
<1>2. PICK j \in S : \A h \in S : j <= h
  <2>1. S # {}
    BY <1>1 DEF Stands
  <2>2. S \in SUBSET Nat
    OBVIOUS
  <2> HIDE DEF S
  <2>3. QED
    BY <2>1, <2>2, HasFirst
<1>3. j \in i..l /\ Removes(j, n)
  OBVIOUS
<1>4. \A h \in i..(j - 1) : ~Removes(h, n)
  <2>1. ASSUME NEW h \in i..(j - 1), Removes(h, n) PROVE FALSE
    <3>1. h \in i..l /\ ~(j <= h)
      BY <1>3
    <3>2. QED
      BY <1>2, <2>1, <3>1
  <2>2. QED
    BY <2>1
<1>5. i # j
  BY <1>1, <1>3 DEF Adds, Removes
<1>6. Stands(i, j - 1, n)
  BY <1>1, <1>4 DEF Stands
<1>7. calls[j].name # n
  BY <1>1, <1>3 DEF Removes
<1>8. i \in 1..(j - 1) /\ j \in 1..k
  BY <1>3, <1>5
<1>9. \A h \in j..k : ~(Removes(h, n) /\ calls[h].name = n)
  <2>1. \A h \in j..k : h \in i..l \/ h \in l..k
    BY <1>3
  <2>2. QED
    BY <1>1, <2>1 DEF Removes
<1>10. QED
  BY <1>3, <1>6, <1>7, <1>8, <1>9 DEF Missed

(* Where no removal was missed, a head carries what it should.             *)
LEMMA WantedStored ==
  ASSUME TypeOK, NEW n \in Name, NEW k \in 0..Len(calls), ~Missed(k, n)
  PROVE  Wanted(k, n) = Stored(k, n)
<1>1. k \in Nat
  OBVIOUS
<1>2. ASSUME NEW i \in 1..k PROVE Stands(i, k, n) <=> Stays(i, k, n)
  <2>1. ASSUME Stays(i, k, n) PROVE Stands(i, k, n)
    <3>1. k \in 1..k /\ i \in 1..k /\ i \in Nat /\ k \in i..k /\ \A g \in k..k : g = k
      BY <1>1
    <3>2. \A g \in k..k : ~(calls[g].op = "remove" /\ calls[g].name = n)
      BY <2>1, <3>1 DEF Stays
    <3>3. QED
      BY <1>1, <2>1, <3>1, <3>2, StaysStands
  <2>2. QED
    BY <2>1, StandsStays
<1>3. ASSUME NEW i \in 1..k, Stays(i, k, n), NEW j \in 1..(i - 1)
      PROVE  Stands(j, i, n) <=> Stays(j, i, n)
  <2>1. i \in 0..Len(calls) /\ i \in 1..k /\ j \in 1..i
    BY <1>1
  <2>2. \A g \in i..k : ~(calls[g].op = "remove" /\ calls[g].name = n)
    BY <1>3 DEF Stays
  <2>3. QED
    BY <1>1, <2>1, <2>2, StandsStays, StaysStands
<1>4. QED
  BY <1>2, <1>3 DEF Wanted, Stored

(* A head carries, for each name, exactly the values the plugin asked for  *)
(* by then, in its order, whatever the spelling of the names: the map      *)
(* loses, reorders and revives nothing.  The one exception is a removal    *)
(* that was Missed, which http_remove_header looks up as it is spelled     *)
(* (http_add_header, http_remove_header, http11_write_status).             *)
THEOREM HeadsAreFaithful == Spec => []HeadFaithful
<1>1. HInv => HeadFaithful
  <2> SUFFICES ASSUME HInv, NEW a \in 1..Current, NEW n \in Name, ~Missed(heads[a].asked, n)
               PROVE  LET lines  == heads[a].lines
                          ofName == {p \in 1..Len(lines) : lines[p][1] = n}
                      IN  \E call \in InOrder(ofName, Wanted(heads[a].asked, n)) :
                            \A p \in ofName : lines[p][2] = calls[call[p]].value
    BY DEF HeadFaithful
  <2>1. heads[a].asked \in 0..Len(calls)
    <3>1. heads[a].asked \in Nat /\ Len(calls) \in Nat
      <4>1. /\ heads \in Seq([code : Code, lines : Seq(Name \X Value), asked : Nat])
            /\ calls \in Seq(CallRecord)
        BY DEF HInv, TypeOK, CallRecord
      <4>2. heads[a] \in [code : Code, lines : Seq(Name \X Value), asked : Nat]
        BY <4>1, ElementOfSeq DEF Current
      <4>3. QED
        BY <4>1, <4>2, LenProperties
    <3>2. heads[a].asked <= Len(calls)
      BY DEF HInv, AskedBefore
    <3>3. QED
      BY <3>1, <3>2
  <2>2. Wanted(heads[a].asked, n) = Stored(heads[a].asked, n)
    BY <2>1, WantedStored DEF HInv
  <2>3. QED
    BY <2>2 DEF HInv, HeadAsStored
<1>2. QED
  <2>1. Init => IInv /\ HInv
    BY InitIInv, InitHInv
  <2>2. QED
    BY <1>1, <2>1, NextHInv, PTL DEF Spec
=============================================================================
