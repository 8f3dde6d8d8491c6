------------------------- MODULE Http11RequestProofs -------------------------
(***************************************************************************)
(* What is proved of HTTP/1.1 requests.  Of their bodies, the safety of    *)
(* Body::read for every request a peer can frame, every buffer length,     *)
(* every way the connection splits or fails reads, and that Http11Body     *)
(* implements BodyStream.  Of their heads, that what a plugin is handed    *)
(* and is told is what was sent, for every request of every length and     *)
(* every place where the connection may be closed.                         *)
(***************************************************************************)
EXTENDS Http11Body, Http11Head, SequenceTheorems, FiniteSetTheorems, WellFoundedInduction, TLAPS

(***************************************************************************)
(* Where the stream is while the framing is not lost.  The last disjunct   *)
(* of InChunks is a chunked body that was cut off by a close: then nothing *)
(* of the payload is left, and content_length may hold anything, because   *)
(* the size line it was parsed from may have been cut, too.                *)
(***************************************************************************)
NumChunks == Len(msg.chunks)

CutOff == pos = msg.eof /\ msg.eof < End(msg)

AtChunk(k) ==
  /\ pos \in msg.chunks[k].first..msg.chunks[k].last
  /\ content_length = msg.chunks[k].last - pos
  /\ chunked_encoding <=> NumChunks > 1
  /\ ended => pos = msg.eof \/ k = NumChunks
  /\ k = NumChunks /\ chunked_encoding => ended

InChunks == CutOff \/ \E k \in 1..NumChunks : AtChunk(k)

InCounted ==
  /\ ~chunked_encoding
  /\ pos + content_length = msg.length
  /\ ended => pos = msg.eof \/ content_length = 0

Sync ==
  /\ body = "headers" =>
       /\ pos = 0 /\ content_length = 0 /\ delivered = {} /\ broken = "no"
       /\ ~ended /\ ~chunked_encoding
  /\ body = "refused" => ~ended
  /\ body = "open" /\ broken = "no" =>
       IF msg.chunked THEN InChunks ELSE InCounted

IInv == TypeOK /\ BodyIntact /\ LossHasCause /\ Sync

-----------------------------------------------------------------------------
(* What WellFramed says of the chunks of a request, in one place.          *)
LEMMA Chunks ==
  ASSUME NEW m \in Messages, m.chunked
  PROVE  /\ Len(m.chunks) \in Nat \ {0}
         /\ m.chunks[1].size = 0
         /\ Len(m.wire) \in Nat
         /\ \A k \in 1..Len(m.chunks) :
              /\ m.chunks[k].size \in Nat
              /\ m.chunks[k].first \in Nat
              /\ m.chunks[k].last \in Nat
              /\ m.chunks[k].size < m.chunks[k].first
              /\ m.chunks[k].first <= m.chunks[k].last
              /\ m.chunks[k].last <= Len(m.wire)
              /\ Line(m, m.chunks[k].size, m.chunks[k].first)
              /\ ChunkSize(m, m.chunks[k].size, m.chunks[k].first)
                   = m.chunks[k].last - m.chunks[k].first
              /\ (m.chunks[k].last = m.chunks[k].first) <=> (k = Len(m.chunks))
         /\ \A k \in 1..(Len(m.chunks) - 1) :
              Line(m, m.chunks[k].last, m.chunks[k + 1].size)
         /\ \A j, k \in 1..Len(m.chunks) :
              j < k => m.chunks[j].last < m.chunks[k].size
<1>1. WellFramed(m)
  BY MessagesAssumption
<1>2. /\ m.chunks \in Seq([size : Nat, first : Nat, last : Nat])
      /\ m.wire \in Seq(Byte)
      /\ Len(m.chunks) > 0
  BY <1>1 DEF WellFramed
<1>3. /\ Len(m.chunks) \in Nat \ {0}
      /\ Len(m.wire) \in Nat
      /\ \A k \in 1..Len(m.chunks) :
           m.chunks[k] \in [size : Nat, first : Nat, last : Nat]
  <2>1. Len(m.chunks) \in Nat \ {0}
    BY <1>2
  <2>2. Len(m.wire) \in Nat
    BY <1>2
  <2>3. \A k \in 1..Len(m.chunks) :
          m.chunks[k] \in [size : Nat, first : Nat, last : Nat]
    BY <1>2, ElementOfSeq
  <2>4. QED
    BY <2>1, <2>2, <2>3
<1>4. ASSUME NEW k \in 1..Len(m.chunks)
      PROVE  /\ m.chunks[k].size \in Nat
             /\ m.chunks[k].first \in Nat
             /\ m.chunks[k].last \in Nat
             /\ m.chunks[k].size < m.chunks[k].first
             /\ m.chunks[k].first <= m.chunks[k].last
             /\ m.chunks[k].last <= Len(m.wire)
             /\ Line(m, m.chunks[k].size, m.chunks[k].first)
             /\ ChunkSize(m, m.chunks[k].size, m.chunks[k].first)
                  = m.chunks[k].last - m.chunks[k].first
             /\ (m.chunks[k].last = m.chunks[k].first) <=> (k = Len(m.chunks))
  <2>1. /\ Line(m, m.chunks[k].size, m.chunks[k].first)
        /\ m.chunks[k].last \in m.chunks[k].first..Len(m.wire)
        /\ ChunkSize(m, m.chunks[k].size, m.chunks[k].first)
             = m.chunks[k].last - m.chunks[k].first
        /\ (m.chunks[k].last = m.chunks[k].first) <=> (k = Len(m.chunks))
    BY <1>1 DEF WellFramed
  <2>2. m.chunks[k].size < m.chunks[k].first
    BY <2>1 DEF Line
  <2>3. QED
    BY <1>3, <2>1, <2>2
<1>5. QED
  BY <1>1, <1>3, <1>4 DEF WellFramed

(* The payload lies in the data of the chunks and nowhere else.            *)
LEMMA PayloadInside ==
  ASSUME NEW m \in Messages, m.chunked,
         NEW k \in 1..Len(m.chunks),
         NEW i \in (m.chunks[k].first + 1)..m.chunks[k].last
  PROVE  i \in Payload(m)
BY DEF Payload

LEMMA PayloadGap ==
  ASSUME NEW m \in Messages, m.chunked,
         NEW k \in 1..Len(m.chunks),
         NEW i \in Int, i <= m.chunks[k].first,
         k > 1 => i > m.chunks[k - 1].last
  PROVE  i \notin Payload(m)
<1> SUFFICES ASSUME i \in Payload(m) PROVE FALSE
  OBVIOUS
<1>1. PICK j \in 1..Len(m.chunks) : i \in (m.chunks[j].first + 1)..m.chunks[j].last
  BY DEF Payload
<1>2. /\ m.chunks[j].first \in Nat /\ m.chunks[j].last \in Nat
      /\ m.chunks[k].first \in Nat /\ m.chunks[k].last \in Nat
  BY Chunks
<1>3. CASE j = k
  BY <1>1, <1>2, <1>3
<1>4. CASE j > k
  <2>1. m.chunks[k].last < m.chunks[j].size /\ m.chunks[j].size < m.chunks[j].first
        /\ m.chunks[k].first <= m.chunks[k].last /\ m.chunks[j].size \in Nat
    BY <1>4, Chunks
  <2>2. QED
    BY <1>1, <1>2, <2>1
<1>5. CASE j < k
  <2>1. Len(m.chunks) \in Nat
    BY Chunks
  <2>2. k - 1 \in 1..Len(m.chunks) /\ k > 1
    BY <1>5, <2>1
  <2>3. i > m.chunks[k - 1].last /\ m.chunks[k - 1].last \in Nat
    BY <2>2, Chunks
  <2>4. CASE j = k - 1
    BY <1>1, <1>2, <2>3, <2>4
  <2>5. CASE j < k - 1
    <3>1. /\ m.chunks[j].last < m.chunks[k - 1].size
          /\ m.chunks[k - 1].size < m.chunks[k - 1].first
          /\ m.chunks[k - 1].first <= m.chunks[k - 1].last
          /\ m.chunks[k - 1].size \in Nat /\ m.chunks[k - 1].first \in Nat
      BY <2>2, <2>5, Chunks
    <3>2. m.chunks[j].last < i
      BY <1>2, <2>3, <3>1, SMTT(30)
    <3>3. QED
      BY <1>1, <1>2, <3>2
  <2>6. QED
    BY <1>5, <2>1, <2>4, <2>5
<1>6. QED
  BY <1>3, <1>4, <1>5, Chunks

(* The payload ends before the final size line does.                       *)
LEMMA PayloadEnd ==
  ASSUME NEW m \in Messages, m.chunked
  PROVE  /\ End(m) \in Nat
         /\ \A k \in 1..Len(m.chunks) : m.chunks[k].last <= End(m)
<1> DEFINE n == Len(m.chunks)
<1>1. n \in 1..n /\ n \in Nat
  BY Chunks
<1>2. ASSUME NEW k \in 1..n PROVE m.chunks[k].last <= m.chunks[n].first
  <2>1. CASE k = n
    BY <1>1, <2>1, Chunks
  <2>2. CASE k < n
    <3>1. /\ m.chunks[k].last < m.chunks[n].size /\ m.chunks[n].size < m.chunks[n].first
          /\ m.chunks[k].last \in Nat /\ m.chunks[n].size \in Nat /\ m.chunks[n].first \in Nat
      BY <1>1, <2>2, Chunks
    <3>2. QED
      BY <3>1
  <2>3. QED
    BY <1>1, <2>1, <2>2
<1>3. QED
  BY <1>1, <1>2, Chunks DEF End

(* A line of the wire is what read_line returns, unless it was cut off.    *)
LEMMA ReadLineUnique ==
  ASSUME NEW p \in Nat, NEW q \in Nat, NEW r \in Nat,
         msg.eof \in Nat,
         p <= q, q <= msg.eof, Line(msg, p, r), ReadLine(p, q)
  PROVE  q = r \/ (q = msg.eof /\ q < r)
<1>1. p < r /\ msg.wire[r] = LineFeed
      /\ \A i \in (p + 1)..(r - 1) : msg.wire[i] # LineFeed
  BY DEF Line
<1>2. CASE Line(msg, p, q)
  BY <1>1, <1>2 DEF Line
<1>3. CASE q = msg.eof /\ \A i \in (p + 1)..q : msg.wire[i] # LineFeed
  BY <1>1, <1>3
<1>4. QED
  BY <1>2, <1>3 DEF ReadLine

(* At the end of the stream read_line finds nothing, and nothing is not a  *)
(* size.                                                                   *)
LEMMA ReadLineAtEof ==
  ASSUME msg.eof \in Nat, NEW q \in msg.eof..msg.eof
  PROVE  q = msg.eof /\ ChunkSize(msg, msg.eof, q) = Malformed
BY DEF ChunkSize

LEMMA ChunkSizeType ==
  ASSUME NEW m, NEW p, NEW q
  PROVE  ChunkSize(m, p, q) \in {Malformed} \cup 0..UsizeMax
BY DEF ChunkSize

-----------------------------------------------------------------------------
THEOREM InitIInv == Init => IInv
<1> SUFFICES ASSUME Init PROVE IInv
  OBVIOUS
<1>1. WellFramed(msg)
  BY MessagesAssumption DEF Init
<1>2. msg.eof \in Nat
  <2>1. Len(msg.wire) \in Nat
    BY <1>1, LenProperties DEF WellFramed
  <2>2. QED
    BY <1>1, <2>1 DEF WellFramed
<1>3. TypeOK
  <2>1. /\ pos \in 0..msg.eof /\ content_length \in 0..UsizeMax
        /\ faults \in 0..MaxFaults
    BY <1>2, BoundsAssumption DEF Init
  <2>2. QED
    BY <2>1 DEF Init, TypeOK
<1>4. BodyIntact
  BY DEF Init, BodyIntact
<1>5. LossHasCause
  BY DEF Init, LossHasCause
<1>6. Sync
  BY DEF Init, Sync
<1>7. QED
  BY <1>3, <1>4, <1>5, <1>6 DEF IInv

(* What is left of a chunk from first to last after n more bytes.          *)
LEMMA Advance ==
  ASSUME NEW first \in Int, NEW last \in Int, NEW p \in first..last,
         NEW rest \in Int, rest = last - p, NEW n \in Nat, n <= rest
  PROVE  p + n \in first..last /\ rest - n = last - (p + n)
OBVIOUS

LEMMA EofType ==
  ASSUME msg \in Messages
  PROVE  msg.eof \in Nat
<1>1. WellFramed(msg)
  BY MessagesAssumption
<1>2. Len(msg.wire) \in Nat
  BY <1>1, LenProperties DEF WellFramed
<1>3. QED
  BY <1>1, <1>2 DEF WellFramed

(* What the end of Body::read does, whatever is read.                      *)
LEMMA ReadDataEffect ==
  ASSUME msg.eof \in Nat, ended \in BOOLEAN, delivered \subseteq 1..msg.eof,
         NEW p \in 0..msg.eof, NEW rest \in 0..UsizeMax, NEW len \in 0..MaxBuf,
         ReadData(p, rest, len)
  PROVE  \E n \in 0..rest :
           /\ p + n \in p..msg.eof
           /\ rest - n \in 0..UsizeMax
           /\ pos' = p + n
           /\ content_length' = rest - n
           /\ delivered' = delivered \cup (p + 1)..(p + n)
           /\ delivered' \subseteq 1..msg.eof
           /\ ended' \in BOOLEAN
           /\ ended' => ended \/ p + n = msg.eof
<1>1. PICK n \in 0..Smaller(Smaller(len, rest), msg.eof - p) :
        /\ n = 0 => len = 0 \/ p = msg.eof
        /\ pos' = p + n
        /\ delivered' = delivered \cup (p + 1)..(p + n)
        /\ content_length' = rest - n
        /\ ended' = (ended \/ (n = 0 /\ len > 0))
  BY DEF ReadData
<1>2. n \in 0..rest /\ p + n \in p..msg.eof /\ rest - n \in 0..UsizeMax
  BY BoundsAssumption DEF Smaller
<1>3. delivered' \subseteq 1..msg.eof
  BY <1>1, <1>2
<1>4. ended' \in BOOLEAN /\ (ended' => ended \/ p + n = msg.eof)
  BY <1>1, <1>2
<1>5. QED
  BY <1>1, <1>2, <1>3, <1>4

(* If all that is left of a chunk is payload, nothing else is delivered.   *)
LEMMA MorePayload ==
  ASSUME NEW p \in Nat, NEW rest \in Nat, NEW n \in 0..rest,
         \A i \in (p + 1)..(p + rest) : i \in Payload(msg)
  PROVE  (Payload(msg) \cap 1..p) \cup (p + 1)..(p + n) = Payload(msg) \cap 1..(p + n)
<1>1. 1..(p + n) = 1..p \cup (p + 1)..(p + n)
  OBVIOUS
<1>2. (p + 1)..(p + n) \subseteq Payload(msg)
  OBVIOUS
<1>3. QED
  BY <1>1, <1>2

-----------------------------------------------------------------------------
(* get_body_reader.                                                        *)
LEMMA OpenWithLengthStep == IInv /\ OpenWithLength => IInv'
<1> SUFFICES ASSUME IInv, OpenWithLength PROVE IInv'
  OBVIOUS
<1> USE DEF IInv, OpenWithLength
<1>1. WellFramed(msg) /\ msg \in Messages
  BY MessagesAssumption DEF TypeOK
<1>2. TypeOK'
  BY <1>1 DEF TypeOK, WellFramed
<1>3. BodyIntact'
  BY DEF BodyIntact, Sync
<1>4. LossHasCause'
  BY DEF LossHasCause
<1>5. Sync'
  <2>1. msg.length \in {Malformed} \cup 0..UsizeMax
    BY <1>1 DEF WellFramed
  <2>2. ASSUME body' = "open" PROVE InCounted'
    <3>1. pos = 0 /\ content_length' = msg.length /\ msg.length \in Nat
          /\ ~ended /\ ~chunked_encoding
      BY <2>1, <2>2, BoundsAssumption DEF Sync, Malformed
    <3>2. QED
      BY <3>1 DEF InCounted
  <2>3. QED
    BY <2>2 DEF Sync
<1>6. QED
  BY <1>2, <1>3, <1>4, <1>5

LEMMA OpenChunkedStep == IInv /\ OpenChunked => IInv'
<1> SUFFICES ASSUME IInv, OpenChunked PROVE IInv'
  OBVIOUS
<1>1. /\ msg \in Messages /\ msg.eof \in Nat /\ body = "headers" /\ msg.chunked
      /\ pos = 0 /\ content_length = 0 /\ delivered = {} /\ broken = "no"
      /\ ~ended /\ ~chunked_encoding /\ faults \in 0..MaxFaults
  BY EofType DEF IInv, TypeOK, Sync, OpenChunked
<1>2. PICK q \in 0..msg.eof :
        /\ ReadLine(0, q)
        /\ pos' = q
        /\ LET size == ChunkSize(msg, 0, q)
           IN  IF size = Malformed
               THEN body' = "refused" /\ UNCHANGED <<content_length, chunked_encoding>>
               ELSE /\ body' = "open"
                    /\ content_length' = size
                    /\ chunked_encoding' = (size # 0)
  BY <1>1 DEF OpenChunked
<1>3. UNCHANGED <<msg, delivered, ended, broken, faults>>
  BY DEF OpenChunked
<1>4. ChunkSize(msg, 0, q) \in {Malformed} \cup 0..UsizeMax
  BY ChunkSizeType
<1> DEFINE c == msg.chunks[1]
<1>5. /\ NumChunks \in Nat \ {0}
      /\ c.first \in Nat /\ c.last \in Nat /\ c.first <= c.last
      /\ Line(msg, 0, c.first)
      /\ ChunkSize(msg, 0, c.first) = c.last - c.first
      /\ (c.last = c.first) <=> (1 = NumChunks)
      /\ End(msg) \in Nat /\ c.last <= End(msg)
  <2>1. NumChunks \in Nat \ {0} /\ 1 \in 1..NumChunks
    BY <1>1, Chunks DEF NumChunks
  <2>2. /\ c.first \in Nat /\ c.last \in Nat /\ c.first <= c.last
        /\ Line(msg, 0, c.first)
        /\ ChunkSize(msg, 0, c.first) = c.last - c.first
        /\ (c.last = c.first) <=> (1 = NumChunks)
    BY <1>1, <2>1, Chunks DEF NumChunks
  <2>3. End(msg) \in Nat /\ c.last <= End(msg)
    BY <1>1, <2>1, Chunks, PayloadEnd DEF NumChunks
  <2>4. QED
    BY <2>1, <2>2, <2>3
<1>6. q = c.first \/ (q = msg.eof /\ q < c.first)
  BY <1>1, <1>2, <1>5, ReadLineUnique
<1>7. Payload(msg) \cap 1..q = {}
  <2>1. ASSUME NEW i \in 1..q PROVE i \notin Payload(msg)
    <3>1. 1 \in 1..Len(msg.chunks) /\ i <= msg.chunks[1].first /\ i \in Int
      BY <1>5, <1>6 DEF NumChunks
    <3>2. QED
      BY <1>1, <3>1, PayloadGap
  <2>2. QED
    BY <2>1
<1>8. TypeOK'
  BY <1>1, <1>2, <1>3, <1>4, BoundsAssumption DEF IInv, TypeOK
<1>9. BodyIntact'
  BY <1>1, <1>2, <1>3, <1>7 DEF BodyIntact
<1>10. LossHasCause'
  <2>1. ASSUME body' = "refused" PROVE msg.eof < End(msg)
    <3>1. ChunkSize(msg, 0, q) = Malformed
      BY <1>2, <2>1
    <3>2. q # c.first
      BY <1>5, <3>1 DEF Malformed
    <3>3. QED
      BY <1>1, <1>5, <1>6, <3>2
  <2>2. QED
    BY <1>1, <1>3, <2>1 DEF LossHasCause
<1>11. Sync'
  <2>1. ASSUME body' = "open" PROVE InChunks'
    <3>1. content_length' = ChunkSize(msg, 0, q) /\ (chunked_encoding' <=> content_length' # 0)
      BY <1>2, <2>1
    <3>2. CASE q = c.first
      <4>1. content_length' = c.last - pos' /\ pos' = c.first
        BY <1>2, <1>5, <3>1, <3>2
      <4>2. AtChunk(1)'
        <5>1. chunked_encoding' <=> NumChunks > 1
          BY <1>5, <3>1, <4>1
        <5>2. pos' \in c.first..c.last
          BY <1>5, <4>1
        <5>3. 1 = NumChunks => ~chunked_encoding'
          BY <1>5, <5>1
        <5>4. QED
          BY <1>1, <1>3, <4>1, <5>1, <5>2, <5>3 DEF AtChunk, NumChunks
      <4>3. 1 \in 1..NumChunks
        BY <1>5
      <4>4. QED
        BY <1>3, <4>2, <4>3 DEF InChunks, NumChunks
    <3>3. CASE q = msg.eof /\ q < c.first
      <4>1. pos' = msg.eof /\ msg.eof < End(msg)
        BY <1>1, <1>2, <1>5, <3>3
      <4>2. QED
        BY <1>3, <4>1 DEF InChunks, CutOff
    <3>4. QED
      BY <1>6, <3>2, <3>3
  <2>2. body' # "headers"
    BY <1>2
  <2>3. QED
    BY <1>1, <1>3, <2>1, <2>2 DEF Sync
<1>12. QED
  BY <1>8, <1>9, <1>10, <1>11 DEF IInv

LEMMA OpenChunkedFailsStep == IInv /\ OpenChunkedFails => IInv'
<1> SUFFICES ASSUME IInv, OpenChunkedFails PROVE IInv'
  OBVIOUS
<1>1. /\ msg \in Messages /\ msg.eof \in Nat /\ body = "headers" /\ msg.chunked
      /\ pos = 0 /\ delivered = {} /\ broken = "no" /\ ~ended /\ faults \in 0..MaxFaults
  BY EofType DEF IInv, TypeOK, Sync, OpenChunkedFails
<1>2. PICK q \in 0..msg.eof : ReadLineFails(0, q) /\ pos' = q
  BY <1>1 DEF OpenChunkedFails
<1>3. /\ UNCHANGED <<msg, content_length, chunked_encoding, delivered, ended, broken>>
      /\ body' = "refused" /\ faults < MaxFaults /\ faults' = faults + 1
  BY DEF OpenChunkedFails, Fault
<1>4. TypeOK'
  BY <1>1, <1>2, <1>3, BoundsAssumption DEF IInv, TypeOK
<1>5. Payload(msg) \cap 1..q = {}
  <2> DEFINE c == msg.chunks[1]
  <2>1. 1 \in 1..Len(msg.chunks) /\ c.first \in Nat /\ Line(msg, 0, c.first)
    <3>1. 1 \in 1..Len(msg.chunks)
      BY <1>1, Chunks
    <3>2. QED
      BY <1>1, <3>1, Chunks
  <2>2. q < c.first
    BY <1>2, <2>1 DEF Line, ReadLineFails
  <2>3. ASSUME NEW i \in 1..q PROVE i \notin Payload(msg)
    BY <1>1, <2>1, <2>2, PayloadGap
  <2>4. QED
    BY <2>3
<1>6. BodyIntact'
  BY <1>1, <1>2, <1>3, <1>5 DEF BodyIntact
<1>7. LossHasCause'
  BY <1>1, <1>3, BoundsAssumption DEF LossHasCause
<1>8. Sync'
  BY <1>1, <1>3 DEF Sync
<1>9. QED
  BY <1>4, <1>6, <1>7, <1>8 DEF IInv

-----------------------------------------------------------------------------
(* Body::read.  Once the framing is lost only the types matter.            *)
LEMMA BrokenStep ==
  ASSUME IInv, TypeOK', body = "open", UNCHANGED <<msg, body>>,
         broken' # "no", broken' = "malformed" => broken = "malformed" \/ msg.eof < End(msg)
  PROVE  IInv'
<1>1. BodyIntact' /\ Sync'
  BY DEF BodyIntact, Sync
<1>2. LossHasCause'
  BY DEF IInv, LossHasCause
<1>3. QED
  BY <1>1, <1>2 DEF IInv

LEMMA ReadInsideStep ==
  ASSUME IInv, NEW len \in 0..MaxBuf, ReadInside(len)
  PROVE  IInv'
<1>1. /\ msg \in Messages /\ msg.eof \in Nat /\ body = "open" /\ content_length > 0
      /\ pos \in 0..msg.eof /\ content_length \in 0..UsizeMax
      /\ ended \in BOOLEAN /\ delivered \subseteq 1..msg.eof /\ faults \in 0..MaxFaults
      /\ ReadData(pos, content_length, len)
      /\ UNCHANGED <<msg, chunked_encoding, body, broken, faults>>
  BY EofType DEF IInv, TypeOK, ReadInside
<1>2. PICK n \in 0..content_length :
        /\ pos + n \in pos..msg.eof
        /\ content_length - n \in 0..UsizeMax
        /\ pos' = pos + n
        /\ content_length' = content_length - n
        /\ delivered' = delivered \cup (pos + 1)..(pos + n)
        /\ delivered' \subseteq 1..msg.eof
        /\ ended' \in BOOLEAN
        /\ ended' => ended \/ pos + n = msg.eof
  BY <1>1, ReadDataEffect
<1>3. TypeOK'
  BY <1>1, <1>2, BoundsAssumption DEF IInv, TypeOK
<1>4. CASE broken # "no"
  BY <1>1, <1>3, <1>4, BrokenStep DEF IInv
<1>5. LossHasCause'
  BY <1>1 DEF IInv, LossHasCause
<1>6. ASSUME broken = "no",
             \A i \in (pos + 1)..(pos + content_length) : i \in Payload(msg)
      PROVE  BodyIntact'
  <2>1. delivered = Payload(msg) \cap 1..pos
    BY <1>6 DEF IInv, BodyIntact
  <2>2. delivered' = Payload(msg) \cap 1..(pos + n)
    BY <1>1, <1>2, <1>6, <2>1, MorePayload, BoundsAssumption
  <2>3. QED
    BY <1>1, <1>2, <2>2 DEF BodyIntact
<1>7. CASE broken = "no" /\ msg.chunked /\ CutOff
  <2>1. n = 0
    BY <1>1, <1>2, <1>7 DEF CutOff
  <2>2. pos' = pos /\ delivered' = delivered
    BY <1>1, <1>2, <2>1
  <2>3. BodyIntact'
    BY <1>1, <2>2 DEF IInv, BodyIntact
  <2>4. CutOff'
    BY <1>1, <1>7, <2>2 DEF CutOff
  <2>5. Sync'
    BY <1>1, <1>7, <2>4 DEF Sync, InChunks
  <2>6. QED
    BY <1>3, <1>5, <2>3, <2>5 DEF IInv
<1>8. ASSUME broken = "no", msg.chunked, NEW k \in 1..NumChunks, AtChunk(k)
      PROVE  IInv'
  <2> DEFINE c == msg.chunks[k]
  <2>1. /\ k \in 1..Len(msg.chunks) /\ NumChunks \in Nat
        /\ c.first \in Nat /\ c.last \in Nat
        /\ (c.last = c.first) <=> (k = NumChunks)
    BY <1>1, <1>8, Chunks DEF NumChunks
  <2>2. /\ pos \in c.first..c.last /\ content_length = c.last - pos
        /\ chunked_encoding <=> NumChunks > 1
        /\ ended => pos = msg.eof \/ k = NumChunks
    BY <1>8 DEF AtChunk
  <2>3. BodyIntact'
    <3>1. ASSUME NEW i \in (pos + 1)..(pos + content_length) PROVE i \in (c.first + 1)..c.last
      BY <1>1, <2>1, <2>2, SMTT(30)
    <3>2. QED
      BY <1>1, <1>6, <1>8, <2>1, <3>1, PayloadInside
  <2>4. AtChunk(k)'
    <3>1. k # NumChunks
      BY <1>1, <2>1, <2>2
    <3>2. pos + n \in c.first..c.last /\ content_length - n = c.last - (pos + n)
      <4>1. pos \in Int /\ n \in Nat /\ n <= content_length /\ content_length \in Int
        BY <1>1, <1>2, BoundsAssumption
      <4>2. c.first \in Int /\ c.last \in Int /\ pos \in c.first..c.last
            /\ content_length = c.last - pos
        BY <2>1, <2>2
      <4> HIDE DEF c
      <4>3. QED
        BY <4>1, <4>2, Advance
    <3>3. ended' => pos + n = msg.eof
      BY <1>1, <1>2, <2>2, <3>1
    <3>4. QED
      BY <1>1, <1>2, <2>2, <3>1, <3>2, <3>3 DEF AtChunk, NumChunks
  <2>5. Sync'
    BY <1>1, <1>8, <2>4 DEF Sync, InChunks, NumChunks
  <2>6. QED
    BY <1>3, <1>5, <2>3, <2>5 DEF IInv
<1>9. CASE broken = "no" /\ ~msg.chunked
  <2>1. ~chunked_encoding /\ pos + content_length = msg.length
        /\ (ended => pos = msg.eof \/ content_length = 0)
    BY <1>1, <1>9 DEF IInv, Sync, InCounted
  <2>2. BodyIntact'
    BY <1>1, <1>6, <1>9, <2>1 DEF Payload
  <2>3. InCounted'
    <3>1. (pos + n) + (content_length - n) = msg.length
      BY <1>1, <2>1
    <3>2. ended' => pos + n = msg.eof
      BY <1>1, <1>2, <2>1
    <3>3. QED
      BY <1>1, <1>2, <2>1, <3>1, <3>2 DEF InCounted
  <2>4. Sync'
    BY <1>1, <1>9, <2>3 DEF Sync
  <2>5. QED
    BY <1>3, <1>5, <2>2, <2>4 DEF IInv
<1>10. QED
  BY <1>1, <1>4, <1>7, <1>8, <1>9 DEF IInv, Sync, InChunks

LEMMA ReadInsideFailsStep ==
  ASSUME IInv, ReadInsideFails
  PROVE  IInv'
<1>1. /\ body = "open" /\ faults < MaxFaults /\ faults' = faults + 1
      /\ UNCHANGED <<msg, pos, content_length, chunked_encoding, body, delivered,
                     ended, broken>>
  BY DEF ReadInsideFails, Fault
<1>2. TypeOK'
  BY <1>1, BoundsAssumption DEF IInv, TypeOK
<1>3. BodyIntact' /\ LossHasCause'
  BY <1>1, BoundsAssumption DEF IInv, BodyIntact, LossHasCause
<1>4. Sync'
  BY <1>1 DEF IInv, Sync, InChunks, InCounted, CutOff, AtChunk, NumChunks
<1>5. QED
  BY <1>2, <1>3, <1>4 DEF IInv

LEMMA ReadNothingStep ==
  ASSUME IInv, NEW len \in 0..MaxBuf, ReadNothing(len)
  PROVE  IInv'
<1>1. /\ body = "open" /\ content_length = 0 /\ ~chunked_encoding
      /\ ended' = (ended \/ len > 0)
      /\ UNCHANGED <<msg, pos, content_length, chunked_encoding, body, delivered,
                     broken, faults>>
  BY DEF ReadNothing
<1>2. TypeOK'
  BY <1>1 DEF IInv, TypeOK
<1>3. BodyIntact' /\ LossHasCause'
  BY <1>1 DEF IInv, BodyIntact, LossHasCause
<1>4. CASE msg.chunked /\ broken = "no"
  <2>1. CutOff' \/ \E k \in 1..NumChunks : AtChunk(k)'
    <3>1. CASE CutOff
      BY <1>1, <3>1 DEF CutOff
    <3>2. ASSUME NEW k \in 1..NumChunks, AtChunk(k) PROVE AtChunk(k)'
      <4>1. NumChunks = 1 /\ k = NumChunks
        <5>1. NumChunks \in Nat \ {0}
          BY <1>4, Chunks DEF IInv, TypeOK, NumChunks
        <5>2. QED
          BY <1>1, <3>2, <5>1 DEF AtChunk
      <4>2. QED
        BY <1>1, <3>2, <4>1 DEF AtChunk, NumChunks
    <3>3. InChunks
      BY <1>1, <1>4 DEF IInv, Sync
    <3>4. QED
      BY <3>1, <3>2, <3>3 DEF InChunks
  <2>2. Sync'
    BY <1>1, <1>4, <2>1 DEF Sync, InChunks, NumChunks
  <2>3. QED
    BY <1>2, <1>3, <2>2 DEF IInv
<1>5. CASE ~msg.chunked /\ broken = "no"
  <2>1. InCounted'
    BY <1>1, <1>5 DEF IInv, Sync, InCounted
  <2>2. QED
    BY <1>1, <1>2, <1>3, <1>5, <2>1 DEF IInv, Sync
<1>6. CASE broken # "no"
  BY <1>1, <1>2, <1>3, <1>6 DEF IInv, Sync
<1>7. QED
  BY <1>4, <1>5, <1>6

-----------------------------------------------------------------------------
(* Between two chunks, what the two lines read next can be.                *)
LEMMA ReadLineForward ==
  ASSUME msg.eof \in Nat, NEW p \in 0..msg.eof, NEW q \in 0..msg.eof, ReadLine(p, q)
  PROVE  p <= q
BY DEF ReadLine, Line

LEMMA NoPayloadBetween ==
  ASSUME msg \in Messages, msg.chunked, NEW k \in 1..NumChunks, k # NumChunks,
         NEW q \in Nat, msg.chunks[k].last <= q, q <= msg.chunks[k + 1].first
  PROVE  Payload(msg) \cap 1..q = Payload(msg) \cap 1..msg.chunks[k].last
<1>1. /\ NumChunks \in Nat /\ k + 1 \in 1..NumChunks
      /\ msg.chunks[k].last \in Nat
  BY Chunks DEF NumChunks
<1>2. (k + 1) - 1 = k
  OBVIOUS
<1>3. ASSUME NEW i \in 1..q, i \notin 1..msg.chunks[k].last
      PROVE  i \notin Payload(msg)
  <2>1. msg.chunks[k + 1].first \in Nat
    BY <1>1, Chunks DEF NumChunks
  <2>2. i \in Int /\ i <= msg.chunks[k + 1].first /\ i > msg.chunks[(k + 1) - 1].last
    BY <1>1, <1>2, <1>3, <2>1
  <2>3. k + 1 \in 1..Len(msg.chunks)
    BY <1>1 DEF NumChunks
  <2>4. QED
    BY <2>2, <2>3, PayloadGap
<1>4. 1..msg.chunks[k].last \subseteq 1..q
  BY <1>1
<1>5. QED
  BY <1>3, <1>4

LEMMA BoundaryLines ==
  ASSUME IInv, AtBoundary, broken = "no", ~ended,
         NEW p \in pos..msg.eof, NEW q \in pos..msg.eof,
         ReadLine(pos, p), ReadLine(p, q)
  PROVE  /\ msg.chunked
         /\ \/ q = msg.eof /\ msg.eof < End(msg) /\ ChunkSize(msg, p, q) = Malformed
            \/ \E k \in 1..NumChunks :
                 /\ AtChunk(k) /\ k # NumChunks /\ pos = msg.chunks[k].last
                 /\ p = msg.chunks[k + 1].size
                 /\ \/ q = msg.chunks[k + 1].first
                    \/ q = msg.eof /\ q < msg.chunks[k + 1].first
<1>1. /\ msg \in Messages /\ msg.eof \in Nat /\ body = "open" /\ content_length = 0
      /\ chunked_encoding /\ pos \in 0..msg.eof
  BY EofType DEF IInv, TypeOK, AtBoundary
<1>2. msg.chunked /\ InChunks
  BY <1>1 DEF IInv, Sync, InCounted
<1>3. /\ p \in Nat /\ q \in Nat /\ pos \in Nat /\ pos <= p /\ p <= msg.eof
      /\ q <= msg.eof /\ p <= q
  BY <1>1, ReadLineForward
<1>4. CASE p = msg.eof /\ msg.eof < End(msg)
  <2>1. q \in msg.eof..msg.eof
    BY <1>3, <1>4
  <2>2. QED
    BY <1>1, <1>2, <1>4, <2>1, ReadLineAtEof
<1>5. CASE CutOff
  <2>1. p = msg.eof /\ msg.eof < End(msg)
    BY <1>3, <1>5 DEF CutOff
  <2>2. QED
    BY <1>4, <2>1
<1>6. ASSUME NEW k \in 1..NumChunks, AtChunk(k)
      PROVE  \/ p = msg.eof /\ msg.eof < End(msg)
             \/ /\ k # NumChunks /\ pos = msg.chunks[k].last
                /\ p = msg.chunks[k + 1].size
                /\ \/ q = msg.chunks[k + 1].first
                   \/ q = msg.eof /\ q < msg.chunks[k + 1].first
  <2> DEFINE c == msg.chunks[k]
             d == msg.chunks[k + 1]
  <2>1. k # NumChunks
    BY <1>1, <1>6 DEF AtChunk
  <2>2. /\ k \in 1..Len(msg.chunks) /\ k \in 1..(Len(msg.chunks) - 1)
        /\ k + 1 \in 1..Len(msg.chunks)
    BY <1>1, <1>2, <2>1, Chunks DEF NumChunks
  <2>3. /\ c.first \in Nat /\ c.last \in Nat
        /\ d.size \in Nat /\ d.first \in Nat /\ d.last \in Nat
        /\ d.size < d.first /\ d.first <= d.last
        /\ Line(msg, c.last, d.size) /\ Line(msg, d.size, d.first)
    BY <1>1, <1>2, <2>2, Chunks
  <2>4. End(msg) \in Nat /\ d.last <= End(msg)
    BY <1>1, <1>2, <2>2, PayloadEnd
  <2>5. pos = c.last
    BY <1>1, <1>6, <2>3 DEF AtChunk
  <2>6. p = d.size \/ (p = msg.eof /\ p < d.size)
    BY <1>1, <1>3, <2>3, <2>5, ReadLineUnique
  <2>7. CASE p = msg.eof /\ p < d.size
    BY <1>1, <2>3, <2>4, <2>7
  <2>8. CASE p = d.size
    <3>1. q = d.first \/ (q = msg.eof /\ q < d.first)
      <4>1. Line(msg, p, d.first) /\ d.first \in Nat
        BY <2>3, <2>8
      <4>2. QED
        BY <1>1, <1>3, <4>1, ReadLineUnique
    <3>2. QED
      BY <2>1, <2>5, <2>8, <3>1
  <2>9. QED
    BY <2>6, <2>7, <2>8
<1>7. QED
  BY <1>2, <1>4, <1>5, <1>6 DEF InChunks

-----------------------------------------------------------------------------
LEMMA ReadBoundaryStep ==
  ASSUME IInv, NEW len \in 0..MaxBuf, ReadBoundary(len)
  PROVE  IInv'
<1>1. /\ msg \in Messages /\ msg.eof \in Nat /\ body = "open" /\ content_length = 0
      /\ chunked_encoding /\ pos \in 0..msg.eof /\ AtBoundary
      /\ ended \in BOOLEAN /\ delivered \subseteq 1..msg.eof /\ faults \in 0..MaxFaults
      /\ broken \in {"no", "fault", "malformed", "overrun"}
      /\ UNCHANGED <<msg, chunked_encoding, body, faults>>
  BY EofType DEF IInv, TypeOK, ReadBoundary, AtBoundary
<1>2. PICK p \in pos..msg.eof, q \in pos..msg.eof :
        ReadLine(pos, p) /\ ReadLine(p, q) /\ NextChunk(p, q, len)
  BY DEF ReadBoundary
<1> DEFINE size == ChunkSize(msg, p, q)
<1>3. size \in {Malformed} \cup 0..UsizeMax
  BY ChunkSizeType
<1>4. q \in 0..msg.eof /\ q \in Nat
  BY <1>1
<1>5. CASE size = Malformed
  <2>1. /\ pos' = q /\ UNCHANGED <<content_length, delivered, ended>>
        /\ broken' = IF broken = "no" THEN (IF ended THEN "overrun" ELSE "malformed")
                     ELSE broken
    BY <1>2, <1>5 DEF NextChunk, Break, Malformed
  <2>2. TypeOK'
    BY <1>1, <1>4, <2>1 DEF IInv, TypeOK
  <2>3. broken' # "no"
    BY <2>1
  <2>4. ASSUME broken' = "malformed" PROVE broken = "malformed" \/ msg.eof < End(msg)
    <3>1. CASE broken = "no" /\ ~ended
      <4>1. SUFFICES ASSUME NEW k \in 1..NumChunks, k # NumChunks, msg.chunked,
                            p = msg.chunks[k + 1].size,
                            \/ q = msg.chunks[k + 1].first
                            \/ q = msg.eof /\ q < msg.chunks[k + 1].first
                     PROVE  msg.eof < End(msg)
        BY <1>1, <1>2, <3>1, BoundaryLines
      <4> DEFINE d == msg.chunks[k + 1]
      <4>2. k + 1 \in 1..Len(msg.chunks)
        BY <1>1, <4>1, Chunks DEF NumChunks
      <4>3. /\ d.first \in Nat /\ d.last \in Nat /\ d.first <= d.last
            /\ ChunkSize(msg, d.size, d.first) = d.last - d.first
            /\ End(msg) \in Nat /\ d.last <= End(msg)
        BY <1>1, <4>1, <4>2, Chunks, PayloadEnd
      <4>4. q # d.first
        BY <1>5, <4>1, <4>3 DEF Malformed
      <4>5. QED
        BY <1>1, <4>1, <4>3, <4>4
    <3>2. QED
      BY <2>1, <2>4, <3>1
  <2>5. QED
    BY <1>1, <2>2, <2>3, <2>4, BrokenStep
<1>6. CASE size = 0
  <2>1. /\ pos' = q /\ ended' = TRUE /\ UNCHANGED <<content_length, delivered>>
        /\ broken' = IF broken = "no" /\ ended THEN "overrun" ELSE broken
    BY <1>2, <1>6 DEF NextChunk, Break, Malformed
  <2>2. TypeOK'
    BY <1>1, <1>4, <2>1 DEF IInv, TypeOK
  <2>3. CASE broken' # "no"
    BY <1>1, <2>1, <2>2, <2>3, BrokenStep
  <2>4. CASE broken' = "no"
    <3>1. broken = "no" /\ ~ended
      BY <2>1, <2>4
    <3>2. PICK k \in 1..NumChunks :
            /\ AtChunk(k) /\ k # NumChunks /\ pos = msg.chunks[k].last
            /\ p = msg.chunks[k + 1].size
            /\ \/ q = msg.chunks[k + 1].first
               \/ q = msg.eof /\ q < msg.chunks[k + 1].first
      BY <1>1, <1>2, <1>6, <3>1, BoundaryLines DEF Malformed
    <3>3. msg.chunked
      BY <1>1, <1>2, <3>1, BoundaryLines
    <3> DEFINE d == msg.chunks[k + 1]
    <3>4. k + 1 \in 1..Len(msg.chunks)
      BY <1>1, <3>2, <3>3, Chunks DEF NumChunks
    <3>5. /\ d.first \in Nat /\ d.last \in Nat /\ d.first <= d.last
          /\ ChunkSize(msg, d.size, d.first) = d.last - d.first
          /\ (d.last = d.first) <=> (k + 1 = NumChunks)
          /\ End(msg) \in Nat /\ d.last <= End(msg)
      BY <1>1, <3>3, <3>4, Chunks, PayloadEnd DEF NumChunks
    <3>6. BodyIntact'
      <4>1. pos <= q /\ q <= d.first
        BY <1>1, <3>2, <3>5
      <4>2. Payload(msg) \cap 1..q = Payload(msg) \cap 1..pos
        BY <1>1, <1>4, <3>2, <3>3, <4>1, NoPayloadBetween
      <4>3. delivered = Payload(msg) \cap 1..pos
        BY <3>1 DEF IInv, BodyIntact
      <4>4. QED
        BY <1>1, <2>1, <4>2, <4>3 DEF BodyIntact
    <3>7. LossHasCause'
      BY <1>1, <2>4 DEF LossHasCause
    <3>8. Sync'
      <4>1. CASE q = d.first
        <5>1. d.last = d.first /\ k + 1 = NumChunks
          BY <1>6, <3>2, <3>5, <4>1
        <5>2. AtChunk(k + 1)'
          <6>1. q \in d.first..d.last /\ content_length' = d.last - q
            BY <1>1, <2>1, <3>5, <4>1, <5>1
          <6>2. QED
            BY <1>1, <2>1, <3>2, <5>1, <6>1 DEF AtChunk, NumChunks
        <5>3. QED
          BY <1>1, <3>3, <3>4, <5>2 DEF Sync, InChunks, NumChunks
      <4>2. CASE q = msg.eof /\ q < d.first
        <5>1. CutOff'
          BY <1>1, <2>1, <3>5, <4>2 DEF CutOff
        <5>2. QED
          BY <1>1, <3>3, <5>1 DEF Sync, InChunks
      <4>3. QED
        BY <3>2, <4>1, <4>2
    <3>9. QED
      BY <2>2, <3>6, <3>7, <3>8 DEF IInv
  <2>5. QED
    BY <2>3, <2>4
<1>7. CASE size \notin {Malformed, 0}
  <2>1. /\ ReadData(q, size, len)
        /\ broken' = IF broken = "no" /\ ended THEN "overrun" ELSE broken
    BY <1>2, <1>7 DEF NextChunk, Break
  <2>2. size \in 0..UsizeMax /\ size \in Nat
    BY <1>3, <1>7, BoundsAssumption
  <2>3. PICK n \in 0..size :
          /\ q + n \in q..msg.eof
          /\ size - n \in 0..UsizeMax
          /\ pos' = q + n
          /\ content_length' = size - n
          /\ delivered' = delivered \cup (q + 1)..(q + n)
          /\ delivered' \subseteq 1..msg.eof
          /\ ended' \in BOOLEAN
          /\ ended' => ended \/ q + n = msg.eof
    BY <1>1, <1>4, <2>1, <2>2, ReadDataEffect
  <2>4. TypeOK'
    <3>1. q + n \in 0..msg.eof
      BY <1>1, <1>4, <2>2, <2>3
    <3>2. QED
      BY <1>1, <2>1, <2>3, <3>1 DEF IInv, TypeOK
  <2>5. CASE broken' # "no"
    BY <1>1, <2>1, <2>4, <2>5, BrokenStep
  <2>6. CASE broken' = "no"
    <3>1. broken = "no" /\ ~ended
      BY <2>1, <2>6
    <3>2. PICK k \in 1..NumChunks :
            /\ AtChunk(k) /\ k # NumChunks /\ pos = msg.chunks[k].last
            /\ p = msg.chunks[k + 1].size
            /\ \/ q = msg.chunks[k + 1].first
               \/ q = msg.eof /\ q < msg.chunks[k + 1].first
      BY <1>1, <1>2, <1>7, <3>1, BoundaryLines
    <3>3. msg.chunked
      BY <1>1, <1>2, <3>1, BoundaryLines
    <3> DEFINE d == msg.chunks[k + 1]
    <3>4. k + 1 \in 1..Len(msg.chunks)
      BY <1>1, <3>2, <3>3, Chunks DEF NumChunks
    <3>5. /\ d.first \in Nat /\ d.last \in Nat /\ d.first <= d.last
          /\ ChunkSize(msg, d.size, d.first) = d.last - d.first
          /\ (d.last = d.first) <=> (k + 1 = NumChunks)
          /\ End(msg) \in Nat /\ d.last <= End(msg)
      BY <1>1, <3>3, <3>4, Chunks, PayloadEnd DEF NumChunks
    <3>6. delivered = Payload(msg) \cap 1..q
      <4>1. pos <= q /\ q <= d.first
        BY <1>1, <3>2, <3>5
      <4>2. Payload(msg) \cap 1..q = Payload(msg) \cap 1..pos
        BY <1>1, <1>4, <3>2, <3>3, <4>1, NoPayloadBetween
      <4>3. QED
        BY <3>1, <4>2 DEF IInv, BodyIntact
    <3>7. LossHasCause'
      BY <1>1, <2>6 DEF LossHasCause
    <3>8. CASE q = d.first
      <4>1. size = d.last - d.first /\ k + 1 # NumChunks
        BY <1>7, <3>2, <3>5, <3>8
      <4>2. BodyIntact'
        <5>1. ASSUME NEW i \in (q + 1)..(q + size) PROVE i \in Payload(msg)
          <6>1. i \in (d.first + 1)..d.last
            BY <3>5, <3>8, <4>1
          <6>2. QED
            BY <1>1, <3>3, <3>4, <6>1, PayloadInside
        <5>2. delivered' = Payload(msg) \cap 1..(q + n)
          BY <1>4, <2>2, <2>3, <3>6, <5>1, MorePayload
        <5>3. QED
          BY <1>1, <2>3, <5>2 DEF BodyIntact
      <4>3. AtChunk(k + 1)'
        <5>1. q + n \in d.first..d.last /\ size - n = d.last - (q + n)
          BY <1>4, <2>2, <2>3, <3>5, <3>8, <4>1
        <5>2. chunked_encoding' <=> NumChunks > 1
          BY <1>1, <3>2 DEF AtChunk
        <5>3. ended' => q + n = msg.eof
          BY <2>3, <3>1
        <5>4. QED
          BY <1>1, <2>3, <4>1, <5>1, <5>2, <5>3 DEF AtChunk, NumChunks
      <4>4. Sync'
        BY <1>1, <3>3, <3>4, <4>3 DEF Sync, InChunks, NumChunks
      <4>5. QED
        BY <2>4, <3>7, <4>2, <4>4 DEF IInv
    <3>9. CASE q = msg.eof /\ q < d.first
      <4>1. n = 0
        BY <1>1, <2>2, <2>3, <3>9
      <4>2. pos' = msg.eof /\ delivered' = delivered
        BY <1>4, <2>3, <3>9, <4>1
      <4>3. BodyIntact'
        BY <1>1, <3>6, <3>9, <4>2 DEF BodyIntact
      <4>4. CutOff'
        BY <1>1, <3>5, <3>9, <4>2 DEF CutOff
      <4>5. Sync'
        BY <1>1, <3>3, <4>4 DEF Sync, InChunks
      <4>6. QED
        BY <2>4, <3>7, <4>3, <4>5 DEF IInv
    <3>10. QED
      BY <3>2, <3>8, <3>9
  <2>7. QED
    BY <2>5, <2>6
<1>8. QED
  BY <1>5, <1>6, <1>7

LEMMA ReadBoundaryFailsStep ==
  ASSUME IInv, ReadBoundaryFails
  PROVE  IInv'
<1>1. /\ msg.eof \in Nat /\ body = "open" /\ pos \in 0..msg.eof
      /\ faults < MaxFaults /\ faults' = faults + 1 /\ faults \in 0..MaxFaults
      /\ UNCHANGED <<msg, content_length, chunked_encoding, body, delivered, ended>>
      /\ broken' = IF ended THEN (IF broken = "no" THEN "overrun" ELSE broken)
                   ELSE IF pos' # pos THEN (IF broken = "no" THEN "fault" ELSE broken)
                   ELSE broken
  BY EofType DEF IInv, TypeOK, ReadBoundaryFails, AtBoundary, Fault, Break
<1>2. pos' \in pos..msg.eof
  BY DEF ReadBoundaryFails
<1>3. TypeOK'
  <2>1. pos' \in 0..msg.eof
    BY <1>1, <1>2
  <2>2. QED
    BY <1>1, <2>1, BoundsAssumption DEF IInv, TypeOK
<1>4. CASE broken' # "no"
  BY <1>1, <1>3, <1>4, BrokenStep
<1>5. CASE broken' = "no"
  <2>1. pos' = pos /\ broken' = broken
    BY <1>1, <1>5
  <2>2. BodyIntact' /\ LossHasCause'
    BY <1>1, <2>1, BoundsAssumption DEF IInv, BodyIntact, LossHasCause
  <2>3. Sync'
    BY <1>1, <2>1 DEF IInv, Sync, InChunks, InCounted, CutOff, AtChunk, NumChunks
  <2>4. QED
    BY <1>3, <2>2, <2>3 DEF IInv
<1>6. QED
  BY <1>4, <1>5

-----------------------------------------------------------------------------
LEMMA NextIInv == IInv /\ [Next]_vars => IInv'
<1> SUFFICES ASSUME IInv, [Next]_vars PROVE IInv'
  OBVIOUS
<1>1. CASE OpenWithLength
  BY <1>1, OpenWithLengthStep
<1>2. CASE OpenChunked
  BY <1>2, OpenChunkedStep
<1>3. CASE OpenChunkedFails
  BY <1>3, OpenChunkedFailsStep
<1>4. ASSUME NEW len \in 0..MaxBuf, Read(len) PROVE IInv'
  BY <1>4, ReadInsideStep, ReadNothingStep, ReadBoundaryStep DEF Read
<1>5. CASE ReadFails
  BY <1>5, ReadInsideFailsStep, ReadBoundaryFailsStep DEF ReadFails
<1>6. CASE UNCHANGED vars
  <2>1. TypeOK' /\ BodyIntact' /\ LossHasCause'
    BY <1>6 DEF IInv, vars, TypeOK, BodyIntact, LossHasCause
  <2>2. Sync'
    BY <1>6 DEF IInv, vars, Sync, InChunks, InCounted, CutOff, AtChunk, NumChunks
  <2>3. QED
    BY <2>1, <2>2 DEF IInv
<1>7. QED
  BY <1>1, <1>2, <1>3, <1>4, <1>5, <1>6 DEF Next

LEMMA AlwaysIInv == Spec => []IInv
BY InitIInv, NextIInv, PTL DEF Spec

(* Every step of Body::read leaves a well-typed state: no subtraction of   *)
(* len - read goes below zero, and no read goes beyond the stream.         *)
THEOREM TypeCorrect == Spec => []TypeOK
<1>1. IInv => TypeOK
  BY DEF IInv
<1>2. QED
  BY <1>1, AlwaysIInv, PTL

(* Whatever the chunks, the buffers, the short reads and the retried       *)
(* errors: while the framing is not lost, the plugin has been given        *)
(* exactly the payload bytes among those consumed.                         *)
THEOREM BodyIsIntact == Spec => []BodyIntact
<1>1. IInv => BodyIntact
  BY DEF IInv
<1>2. QED
  BY <1>1, AlwaysIInv, PTL

(* A well-framed request is neither refused nor its framing found          *)
(* malformed unless the connection failed or closed early.                 *)
THEOREM LossAlwaysHasCause == Spec => []LossHasCause
<1>1. IInv => LossHasCause
  BY DEF IInv
<1>2. QED
  BY <1>1, AlwaysIInv, PTL

(* No byte after the end of the body is consumed.                          *)
THEOREM NeverOverreads == Spec => []NoOverread
<1>1. ASSUME IInv PROVE NoOverread
  <2>1. SUFFICES ASSUME body = "open", broken = "no" PROVE pos <= End(msg)
    BY DEF NoOverread
  <2>2. msg \in Messages /\ msg.eof \in Nat /\ pos \in 0..msg.eof
        /\ content_length \in 0..UsizeMax
    BY <1>1, EofType DEF IInv, TypeOK
  <2>3. CASE ~msg.chunked
    <3>1. pos + content_length = msg.length
      BY <1>1, <2>1, <2>3 DEF IInv, Sync, InCounted
    <3>2. QED
      BY <2>2, <2>3, <3>1, BoundsAssumption DEF End
  <2>4. CASE msg.chunked /\ CutOff
    BY <2>2, <2>4, PayloadEnd DEF CutOff
  <2>5. ASSUME msg.chunked, NEW k \in 1..NumChunks, AtChunk(k) PROVE pos <= End(msg)
    <3>1. k \in 1..Len(msg.chunks)
      BY DEF NumChunks
    <3>2. /\ msg.chunks[k].last \in Nat /\ msg.chunks[k].first \in Nat
          /\ msg.chunks[k].last <= End(msg) /\ End(msg) \in Nat
      BY <2>2, <2>5, <3>1, Chunks, PayloadEnd
    <3>3. QED
      BY <2>2, <2>5, <3>2 DEF AtChunk
  <2>6. QED
    BY <1>1, <2>1, <2>3, <2>4, <2>5 DEF IInv, Sync, InChunks
<1>2. QED
  BY <1>1, AlwaysIInv, PTL

(* Ok(0) means that all the payload that arrives has been handed over.     *)
THEOREM EndAlwaysMeansAll == Spec => []EndMeansAll
<1>1. ASSUME IInv PROVE EndMeansAll
  <2>1. SUFFICES ASSUME ended, broken = "no"
                 PROVE  Payload(msg) \cap 1..msg.eof \subseteq Payload(msg) \cap 1..pos
    BY <1>1 DEF EndMeansAll, IInv, BodyIntact
  <2>2. msg \in Messages /\ msg.eof \in Nat /\ pos \in 0..msg.eof
        /\ content_length \in 0..UsizeMax /\ body = "open"
    BY <1>1, <2>1, EofType DEF IInv, TypeOK, Sync
  <2>3. CASE pos = msg.eof
    BY <2>3
  <2>4. CASE ~msg.chunked /\ content_length = 0
    <3>1. pos = msg.length
      BY <1>1, <2>1, <2>2, <2>4 DEF IInv, Sync, InCounted
    <3>2. QED
      BY <2>2, <2>4, <3>1 DEF Payload
  <2>5. ASSUME msg.chunked, NEW k \in 1..NumChunks, AtChunk(k), k = NumChunks
        PROVE  Payload(msg) \cap 1..msg.eof \subseteq Payload(msg) \cap 1..pos
    <3>1. k \in 1..Len(msg.chunks)
      BY DEF NumChunks
    <3>2. /\ msg.chunks[k].last \in Nat /\ msg.chunks[k].last = msg.chunks[k].first
          /\ End(msg) = msg.chunks[k].last
      BY <2>2, <2>5, <3>1, Chunks DEF NumChunks, End
    <3>3. pos = msg.chunks[k].last
      BY <2>2, <2>5, <3>2 DEF AtChunk
    <3>4. ASSUME NEW i \in Payload(msg) PROVE i <= pos
      <4>1. PICK j \in 1..Len(msg.chunks) :
              i \in (msg.chunks[j].first + 1)..msg.chunks[j].last
        BY <2>5 DEF Payload
      <4>2. /\ msg.chunks[j].last <= End(msg) /\ End(msg) \in Nat
            /\ msg.chunks[j].last \in Nat /\ msg.chunks[j].first \in Nat
        BY <2>2, <2>5, Chunks, PayloadEnd
      <4>3. QED
        BY <2>2, <3>2, <3>3, <4>1, <4>2
    <3>5. QED
      BY <2>2, <3>4
  <2>6. CASE msg.chunked
    <3>1. InChunks
      BY <1>1, <2>1, <2>2, <2>6 DEF IInv, Sync
    <3>2. QED
      BY <2>1, <2>3, <2>5, <2>6, <3>1 DEF InChunks, CutOff, AtChunk
  <2>7. CASE ~msg.chunked
    BY <1>1, <2>1, <2>2, <2>3, <2>4, <2>7 DEF IInv, Sync, InCounted
  <2>8. QED
    BY <2>6, <2>7
<1>2. QED
  BY <1>1, AlwaysIInv, PTL

-----------------------------------------------------------------------------
(***************************************************************************)
(* The refinement of BodyStream.  A call of Body::read either hands over   *)
(* more of the payload, or reports the end, or does neither; and both the  *)
(* end and the loss of the framing are final.                              *)
(***************************************************************************)
Arriving == Payload(msg) \cap 1..msg.eof

(* The end is reported by a read that hands over nothing.                  *)
LEMMA ReadDataEnds ==
  ASSUME NEW p, NEW rest, NEW len, ReadData(p, rest, len), p \in Int
  PROVE  /\ delivered \subseteq delivered'
         /\ ended => ended'
         /\ ~ended /\ ended' => delivered' = delivered
<1>1. PICK n \in 0..Smaller(Smaller(len, rest), msg.eof - p) :
        /\ delivered' = delivered \cup (p + 1)..(p + n)
        /\ ended' = (ended \/ (n = 0 /\ len > 0))
  BY DEF ReadData
<1>2. n = 0 => (p + 1)..(p + n) = {}
  OBVIOUS
<1>3. QED
  BY <1>1, <1>2

LEMMA BoundaryOnward ==
  ASSUME IInv, NEW len \in 0..MaxBuf, ReadBoundary(len)
  PROVE  /\ msg' = msg /\ body' = body
         /\ broken # "no" => broken' # "no"
         /\ delivered \subseteq delivered'
         /\ ended => ended'
         /\ ~ended /\ ended' => delivered' = delivered
<1>1. msg.eof \in Nat /\ pos \in 0..msg.eof
  BY EofType DEF IInv, TypeOK
<1>2. UNCHANGED <<msg, body>>
  BY DEF ReadBoundary
<1>3. PICK p \in pos..msg.eof, q \in pos..msg.eof : NextChunk(p, q, len)
  BY DEF ReadBoundary
<1> DEFINE chunk == ChunkSize(msg, p, q)
<1>4. CASE chunk = Malformed
  BY <1>2, <1>3, <1>4 DEF NextChunk, Break, Malformed
<1>5. CASE chunk = 0
  BY <1>2, <1>3, <1>5 DEF NextChunk, Break, Malformed
<1>6. CASE chunk \notin {Malformed, 0}
  <2>1. /\ ReadData(q, chunk, len)
        /\ broken' = IF broken = "no" /\ ended THEN "overrun" ELSE broken
    BY <1>3, <1>6 DEF NextChunk, Break
  <2>2. q \in Int
    BY <1>1
  <2>3. QED
    BY <1>2, <2>1, <2>2, ReadDataEnds
<1>7. QED
  BY <1>4, <1>5, <1>6

(* What no step takes back.                                                *)
LEMMA Onward ==
  ASSUME IInv, [Next]_vars
  PROVE  /\ msg' = msg
         /\ Void => Void'
         /\ delivered \subseteq delivered'
         /\ ended => ended'
         /\ ~ended /\ ended' => delivered' = delivered
<1>1. CASE OpenWithLength
  BY <1>1 DEF OpenWithLength, Void
<1>2. CASE OpenChunked
  BY <1>2 DEF OpenChunked, Void
<1>3. CASE OpenChunkedFails
  BY <1>3 DEF OpenChunkedFails, Void
<1>4. ASSUME NEW len \in 0..MaxBuf, ReadInside(len)
      PROVE  /\ msg' = msg /\ body' = body /\ broken' = broken
             /\ delivered \subseteq delivered'
             /\ ended => ended'
             /\ ~ended /\ ended' => delivered' = delivered
  <2>1. pos \in Int
    BY EofType DEF IInv, TypeOK
  <2>2. ReadData(pos, content_length, len)
    BY <1>4 DEF ReadInside
  <2>3. QED
    BY <1>4, <2>1, <2>2, ReadDataEnds DEF ReadInside
<1>5. ASSUME NEW len \in 0..MaxBuf, ReadNothing(len)
      PROVE  /\ msg' = msg /\ body' = body /\ broken' = broken
             /\ delivered' = delivered
             /\ ended => ended'
  BY <1>5 DEF ReadNothing
<1>6. CASE ReadInsideFails
  BY <1>6 DEF ReadInsideFails, Void
<1>7. CASE ReadBoundaryFails
  BY <1>7 DEF ReadBoundaryFails, Break, Void
<1>8. CASE UNCHANGED vars
  BY <1>8 DEF vars, Void
<1>9. ASSUME NEW len \in 0..MaxBuf, Read(len)
      PROVE  /\ msg' = msg
             /\ Void => Void'
             /\ delivered \subseteq delivered'
             /\ ended => ended'
             /\ ~ended /\ ended' => delivered' = delivered
  BY <1>4, <1>5, <1>9, BoundaryOnward DEF Read, Void
<1>10. QED
  BY <1>1, <1>2, <1>3, <1>6, <1>7, <1>8, <1>9 DEF Next, ReadFails

(* While the framing is not lost, nothing but payload that arrives has     *)
(* been handed over, and with the end of the body all of it has.           *)
LEMMA HandedOver ==
  ASSUME IInv, ~Void
  PROVE  delivered \subseteq Arriving
<1>1. delivered = Payload(msg) \cap 1..pos
  BY DEF IInv, BodyIntact, Void
<1>2. msg.eof \in Nat /\ pos \in 0..msg.eof
  BY EofType DEF IInv, TypeOK
<1>3. 1..pos \subseteq 1..msg.eof
  BY <1>2
<1>4. QED
  BY <1>1, <1>3 DEF Arriving

LEMMA Counting ==
  ASSUME msg.eof \in Nat, NEW S \in SUBSET Arriving, NEW T \in SUBSET S
  PROVE  /\ Cardinality(S) \in Nat /\ Cardinality(T) \in Nat
         /\ Cardinality(T) <= Cardinality(S)
<1>1. IsFiniteSet(1..msg.eof)
  BY FS_Interval
<1>2. IsFiniteSet(S)
  BY <1>1, FS_Subset DEF Arriving
<1>3. IsFiniteSet(T)
  BY <1>2, FS_Subset
<1>4. QED
  BY <1>2, <1>3, FS_Subset, FS_CardinalityType

(* The initial states map to initial states of BodyStream.                 *)
LEMMA PromiseInit == Init => Promise!Init
<1> SUFFICES ASSUME Init PROVE Promise!Init
  OBVIOUS
<1>1. msg.eof \in Nat
  BY EofType DEF Init
<1>2. Cardinality(Arriving) \in Nat
  BY <1>1, Counting
<1>3. Cardinality(delivered) = 0
  BY FS_EmptySet DEF Init
<1>4. ~Void /\ ~ended
  BY DEF Init, Void
<1>5. QED
  BY <1>2, <1>3, <1>4 DEF Promise!Init, Arriving

(* Every step maps to a step of BodyStream, or changes nothing it knows.   *)
LEMMA PromiseStep ==
  ASSUME IInv, IInv', EndMeansAll, EndMeansAll', [Next]_vars
  PROVE  [Promise!Next]_(Promise!vars)
<1>1. /\ msg' = msg
      /\ Void => Void'
      /\ delivered \subseteq delivered'
      /\ ended => ended'
      /\ ~ended /\ ended' => delivered' = delivered
  BY Onward
<1>2. msg.eof \in Nat
  BY EofType DEF IInv, TypeOK
<1> DEFINE size  == Cardinality(Arriving)
           taken == IF Void THEN 0 ELSE Cardinality(delivered)
           stage == IF Void THEN "void" ELSE IF ended THEN "ended" ELSE "open"
<1>3. Arriving' = Arriving /\ size' = size
  BY <1>1 DEF Arriving
<1>4. CASE Void
  <2>1. Void'
    BY <1>1, <1>4
  <2>2. taken' = taken /\ stage' = stage
    BY <1>4, <2>1
  <2>3. QED
    BY <1>3, <2>2 DEF Promise!vars, Arriving
<1>5. CASE ~Void /\ Void'
  <2>1. stage # "void" /\ stage' = "void" /\ taken' = 0
    BY <1>5
  <2>2. Promise!Void
    BY <1>3, <2>1 DEF Promise!Void, Arriving
  <2>3. QED
    BY <2>2 DEF Promise!Next
<1>6. CASE ~Void /\ ~Void'
  <2>1. delivered \subseteq Arriving
    BY <1>6, HandedOver
  <2>2. delivered' \subseteq Arriving
    <3>1. delivered' = (Payload(msg) \cap 1..pos)'
      BY <1>6 DEF IInv, BodyIntact, Void
    <3>2. msg.eof \in Nat /\ pos' \in 0..msg.eof
      BY <1>1, <1>2 DEF IInv, TypeOK
    <3>3. 1..pos' \subseteq 1..msg.eof
      BY <3>2
    <3>4. QED
      BY <1>1, <3>1, <3>3 DEF Arriving
  <2>3. ended => delivered = Arriving
    BY <1>6, <2>1 DEF EndMeansAll, Arriving, Void
  <2>4. ended' => delivered' = Arriving
    <3>1. ended' => Arriving' \subseteq delivered'
      BY <1>6 DEF EndMeansAll, Arriving, Void
    <3>2. QED
      BY <1>3, <2>2, <3>1
  <2>5. taken = Cardinality(delivered) /\ taken' = Cardinality(delivered')
    BY <1>6
  <2>6. CASE ended
    <3>1. ended' /\ delivered' = delivered
      BY <1>1, <2>3, <2>4, <2>6
    <3>2. taken' = taken /\ stage' = stage
      BY <1>6, <2>5, <2>6, <3>1
    <3>3. QED
      BY <1>3, <3>2 DEF Promise!vars, Arriving
  <2>7. CASE ~ended /\ ended'
    <3>1. delivered' = delivered /\ delivered = Arriving
      BY <1>1, <2>4, <2>7
    <3>2. taken = size /\ taken' = taken /\ stage = "open" /\ stage' = "ended"
      BY <1>6, <2>5, <2>7, <3>1
    <3>3. Promise!Finish
      BY <1>3, <3>2 DEF Promise!Finish, Arriving
    <3>4. QED
      BY <3>3 DEF Promise!Next
  <2>8. CASE ~ended /\ ~ended'
    <3>1. stage = "open" /\ stage' = "open"
      BY <1>6, <2>8
    <3>2. /\ size \in Nat /\ taken \in Nat /\ taken' \in Nat
          /\ taken <= taken' /\ taken' <= size
      BY <1>1, <1>2, <2>1, <2>2, <2>5, Counting
    <3>3. CASE taken' = taken
      BY <1>3, <3>1, <3>3 DEF Promise!vars, Arriving
    <3>4. CASE taken' # taken
      <4>1. taken' - taken \in 1..(size - taken) /\ taken' = taken + (taken' - taken)
        <5>1. \A a, b, c \in Nat :
                a <= b /\ b <= c /\ a # b => b - a \in 1..(c - a) /\ b = a + (b - a)
          OBVIOUS
        <5> HIDE DEF taken, size
        <5>2. QED
          BY <3>2, <3>4, <5>1
      <4>2. Promise!Deliver
        BY <1>3, <3>1, <4>1 DEF Promise!Deliver, Arriving
      <4>3. QED
        BY <4>2 DEF Promise!Next
    <3>5. QED
      BY <3>3, <3>4
  <2>9. QED
    BY <2>6, <2>7, <2>8
<1>7. QED
  BY <1>4, <1>5, <1>6

(* Body::read implements what BodyStream promises to plugins: whatever the *)
(* framing, the buffers and the errors of the connection, the payload      *)
(* arrives without a gap, and its end is reported when all of it has.      *)
THEOREM PromiseIsKept == Spec => KeepsPromise
<1>1. Init => Promise!Init
  BY PromiseInit
<1>2. ASSUME IInv, IInv', EndMeansAll, EndMeansAll', [Next]_vars
      PROVE  [Promise!Next]_(Promise!vars)
  BY <1>2, PromiseStep
<1>3. QED
  BY <1>1, <1>2, AlwaysIInv, EndAlwaysMeansAll, PTL DEF Spec, KeepsPromise, Promise!Spec

-----------------------------------------------------------------------------
(***************************************************************************)
(* The heads.  The parser knows places in a stream, the properties know    *)
(* words and fields.  First where each word and each line is in what was   *)
(* sent (WordsPlaced, Placed), and what Find, TrimEnd, Strip and NextLine  *)
(* make of a part of it that begins at such a place and ends where the     *)
(* connection was closed.                                                  *)
(***************************************************************************)
(* A set of numbers that has one has a least one.                          *)
LEMMA HasLeast ==
  ASSUME NEW S \in SUBSET Nat, S # {}
  PROVE  \E i \in S : \A j \in S : i <= j
<1> DEFINE less == {p \in Nat \X Nat : p[1] < p[2]}
<1>1. IsWellFoundedOn(OpToRel(<, Nat), Nat)
  BY NatLessThanWellFounded
<1>2. OpToRel(<, Nat) = less
  BY DEF OpToRel
<1>3. PICK i \in S : \A j \in S : ~(<<j, i>> \in less)
  <2> HIDE DEF less
  <2> QED
    BY <1>1, <1>2, WFMin
<1>4. ASSUME NEW j \in S PROVE i <= j
  <2>1. ~(j < i) /\ i \in Nat /\ j \in Nat
    BY <1>3
  <2>2. QED
    BY <2>1
<1>5. QED
  BY <1>3, <1>4

LEMMA JoinAt ==
  ASSUME NEW S, NEW s \in Seq(S), NEW t \in Seq(S)
  PROVE  /\ s \o t \in Seq(S)
         /\ Len(s) \in Nat /\ Len(t) \in Nat /\ Len(s \o t) = Len(s) + Len(t)
         /\ \A i \in 1..Len(s) : (s \o t)[i] = s[i]
         /\ \A i \in 1..Len(t) : (s \o t)[Len(s) + i] = t[i]
<1>1. Len(s) \in Nat /\ Len(t) \in Nat
  BY LenProperties
<1>2. /\ s \o t \in Seq(S)
      /\ Len(s \o t) = Len(s) + Len(t)
      /\ \A i \in 1..(Len(s) + Len(t)) :
            (s \o t)[i] = IF i <= Len(s) THEN s[i] ELSE t[i - Len(s)]
  BY ConcatProperties
<1>3. \A i \in 1..Len(s) : i \in 1..(Len(s) + Len(t)) /\ i <= Len(s)
  BY <1>1
<1>4. \A i \in 1..Len(t) : /\ Len(s) + i \in 1..(Len(s) + Len(t))
                           /\ ~(Len(s) + i <= Len(s)) /\ (Len(s) + i) - Len(s) = i
  BY <1>1
<1>5. QED
  BY <1>1, <1>2, <1>3, <1>4

(* What the sums of the first parts of a sequence of sequences are.        *)
Sums(S, s, f) ==
  /\ f[0] = <<>>
  /\ \A i \in 0..Len(s) : f[i] \in Seq(S)
  /\ \A i \in 1..Len(s) : f[i] = f[i - 1] \o s[i]

LEMMA SumsExist ==
  ASSUME NEW S, NEW s \in Seq(Seq(S))
  PROVE  \E f : Sums(S, s, f)
<1> DEFINE Sum(n, f) == /\ f[0] = <<>>
                        /\ \A i \in 0..n : f[i] \in Seq(S)
                        /\ \A i \in 1..n : f[i] = f[i - 1] \o s[i]
           Bad == {n \in Nat : n <= Len(s) /\ ~\E f : Sum(n, f)}
<1>1. Len(s) \in Nat /\ \A i \in 1..Len(s) : s[i] \in Seq(S)
  BY LenProperties, ElementOfSeq
<1>2. ASSUME NEW n \in Bad, \A m \in Bad : n <= m PROVE FALSE
  <2>1. n \in Nat /\ n <= Len(s) /\ ~\E f : Sum(n, f)
    OBVIOUS
  <2>2. CASE n = 0
    <3> DEFINE f == [i \in 0..0 |-> <<>>]
    <3>1. <<>> \in Seq(S)
      BY EmptySeq
    <3>2. Sum(0, f)
      BY <3>1
    <3> QED
      BY <2>1, <2>2, <3>2
  <2>3. CASE n # 0
    <3>1. n - 1 \in Nat /\ n - 1 <= Len(s) /\ ~(n <= n - 1) /\ n \in 1..Len(s)
      BY <1>1, <2>1, <2>3
    <3>2. PICK f : Sum(n - 1, f)
      BY <1>2, <3>1
    <3> DEFINE g == [i \in 0..n |-> IF i = n THEN f[n - 1] \o s[n] ELSE f[i]]
    <3>3. f[n - 1] \in Seq(S) /\ s[n] \in Seq(S)
      BY <1>1, <3>1, <3>2
    <3>4. f[n - 1] \o s[n] \in Seq(S)
      BY <3>3, ConcatProperties
    <3>5. \A i \in 0..(n - 1) : g[i] = f[i]
      BY <3>1
    <3>6. g[n] = f[n - 1] \o s[n]
      <4>1. n \in 0..n
        BY <3>1
      <4> QED
        BY <4>1
    <3> HIDE DEF g
    <3>7. g[0] = <<>>
      BY <3>1, <3>2, <3>5
    <3>8. ASSUME NEW i \in 0..n PROVE g[i] \in Seq(S)
      <4>1. CASE i = n
        BY <3>4, <3>6, <4>1
      <4>2. CASE i # n
        <5>1. i \in 0..(n - 1)
          BY <3>1, <4>2
        <5> QED
          BY <3>2, <3>5, <5>1
      <4> QED
        BY <4>1, <4>2
    <3>9. ASSUME NEW i \in 1..n PROVE g[i] = g[i - 1] \o s[i]
      <4>1. CASE i = n
        <5>1. g[i - 1] = f[n - 1]
          BY <3>1, <3>5, <4>1
        <5> QED
          BY <3>6, <4>1, <5>1
      <4>2. CASE i # n
        <5>1. i \in 1..(n - 1) /\ i \in 0..(n - 1) /\ i - 1 \in 0..(n - 1)
          BY <3>1, <4>2
        <5>2. f[i] = f[i - 1] \o s[i]
          BY <3>2, <5>1
        <5> QED
          BY <3>5, <5>1, <5>2
      <4> QED
        BY <4>1, <4>2
    <3>10. Sum(n, g)
      BY <3>7, <3>8, <3>9
    <3> QED
      BY <2>1, <3>10
  <2> QED
    BY <2>2, <2>3
<1>3. Bad = {}
  <2>1. Bad \in SUBSET Nat
    OBVIOUS
  <2> HIDE DEF Bad
  <2> QED
    BY <1>2, <2>1, HasLeast
<1>4. \E f : Sum(Len(s), f)
  <2> SUFFICES ASSUME ~\E f : Sum(Len(s), f) PROVE FALSE
    OBVIOUS
  <2> HIDE DEF Sum
  <2>1. Len(s) \in Bad
    BY <1>1
  <2> QED
    BY <1>3, <2>1
<1> QED
  BY <1>4 DEF Sums

(* FlattenSeq is the last of the sums.                                     *)
LEMMA FlattenIs ==
  ASSUME NEW S, NEW s \in Seq(Seq(S)), NEW f, Sums(S, s, f)
  PROVE  FlattenSeq(s) = f[Len(s)]
<1> DEFINE n == Len(s)
           flatten == CHOOSE g : g = [i \in 1..Len(s) |-> IF i = 1 THEN s[i] ELSE g[i - 1] \o s[i]]
           h == [i \in 1..Len(s) |-> f[i]]
<1>1. Len(s) \in Nat /\ \A i \in 1..Len(s) : s[i] \in Seq(S)
  BY LenProperties, ElementOfSeq
<1>2. \A i \in 1..Len(s) : f[i] = IF i = 1 THEN s[i] ELSE f[i - 1] \o s[i]
  <2>1. ASSUME NEW i \in 1..Len(s) PROVE f[i] = IF i = 1 THEN s[i] ELSE f[i - 1] \o s[i]
    <3>1. f[i] = f[i - 1] \o s[i]
      BY DEF Sums
    <3>2. CASE i = 1
      <4>1. f[i - 1] = <<>>
        BY <3>2 DEF Sums
      <4>2. <<>> \o s[i] = s[i]
        BY <1>1, ConcatEmptySeq
      <4> QED
        BY <3>1, <3>2, <4>1, <4>2
    <3> QED
      BY <3>1, <3>2
  <2> QED
    BY <2>1
<1>3. h = [i \in 1..Len(s) |-> IF i = 1 THEN s[i] ELSE h[i - 1] \o s[i]]
  <2>1. ASSUME NEW i \in 1..Len(s) PROVE h[i] = IF i = 1 THEN s[i] ELSE h[i - 1] \o s[i]
    <3>1. CASE i = 1
      BY <1>2, <3>1
    <3>2. CASE i # 1
      <4>1. i - 1 \in 1..Len(s)
        BY <1>1, <3>2
      <4> QED
        BY <1>2, <3>2, <4>1
    <3> QED
      BY <3>1, <3>2
  <2> QED
    BY <2>1
<1>4. flatten = [i \in 1..Len(s) |-> IF i = 1 THEN s[i] ELSE flatten[i - 1] \o s[i]]
  <2> HIDE DEF h
  <2>1. \E g : g = [i \in 1..Len(s) |-> IF i = 1 THEN s[i] ELSE g[i - 1] \o s[i]]
    BY <1>3
  <2> QED
    BY <2>1
<1>5. \A i \in 1..Len(s) : flatten[i] = IF i = 1 THEN s[i] ELSE flatten[i - 1] \o s[i]
  <2> HIDE DEF flatten
  <2> QED
    BY <1>4
<1>6. \A i \in 1..Len(s) : flatten[i] = f[i]
  <2> HIDE DEF flatten
  <2> DEFINE Off == {i \in Nat : i \in 1..Len(s) /\ flatten[i] # f[i]}
  <2>1. ASSUME NEW i \in Off, \A j \in Off : i <= j PROVE FALSE
    <3>1. i \in Nat /\ i \in 1..Len(s) /\ flatten[i] # f[i]
      OBVIOUS
    <3>2. i # 1
      BY <1>2, <1>5, <3>1
    <3>3. i - 1 \in Nat /\ i - 1 \in 1..Len(s) /\ ~(i <= i - 1)
      BY <1>1, <3>1, <3>2
    <3>4. flatten[i - 1] = f[i - 1]
      BY <2>1, <3>3
    <3> QED
      BY <1>2, <1>5, <3>1, <3>2, <3>4
  <2>2. Off = {}
    <3>1. Off \in SUBSET Nat
      OBVIOUS
    <3> HIDE DEF Off
    <3> QED
      BY <2>1, <3>1, HasLeast
  <2>3. ASSUME NEW i \in 1..Len(s), flatten[i] # f[i] PROVE FALSE
    <3>1. i \in Nat
      BY <1>1
    <3>2. i \in Off
      BY <2>3, <3>1
    <3> QED
      BY <2>2, <3>2
  <2> QED
    BY <2>3
<1>7. FlattenSeq(s) = IF Len(s) = 0 THEN s ELSE flatten[Len(s)]
  BY DEF FlattenSeq
<1> HIDE DEF flatten
<1>8. CASE Len(s) = 0
  <2>1. s = <<>>
    BY <1>8, EmptySeq
  <2> QED
    BY <1>7, <1>8, <2>1 DEF Sums
<1>9. CASE Len(s) # 0
  BY <1>1, <1>6, <1>7, <1>9
<1> QED
  BY <1>8, <1>9

(* Where t stands in s, behind p.                                          *)
At(s, p, t) == /\ p + Len(t) <= Len(s)
               /\ \A i \in 1..Len(t) : s[p + i] = t[i]

(* The first elements of a sequence.                                       *)
LEMMA FirstOf ==
  ASSUME NEW S, NEW s \in Seq(S), NEW n \in 0..Len(s)
  PROVE  /\ SubSeq(s, 1, n) \in Seq(S) /\ Len(SubSeq(s, 1, n)) = n
         /\ \A i \in 1..n : SubSeq(s, 1, n)[i] = s[i]
<1>1. Len(s) \in Nat /\ \A i \in 1..Len(s) : s[i] \in S
  BY LenProperties, ElementOfSeq
<1>2. 1 \in Int /\ n \in Int /\ \A i \in 1..n : s[i] \in S
  BY <1>1
<1>3. /\ SubSeq(s, 1, n) \in Seq(S)
      /\ Len(SubSeq(s, 1, n)) = IF 1 <= n THEN n - 1 + 1 ELSE 0
      /\ \A i \in 1..(n - 1 + 1) : SubSeq(s, 1, n)[i] = s[1 + i - 1]
  BY <1>2, SubSeqProperties
<1>4. n - 1 + 1 = n /\ (~(1 <= n) => n = 0) /\ \A i \in 1..n : 1 + i - 1 = i
  BY <1>1
<1> QED
  BY <1>3, <1>4

Pieces(S, s, f) ==
  /\ Sums(S, s, f)
  /\ \A i \in 0..Len(s) : FlattenSeq(SubSeq(s, 1, i)) = f[i] /\ Len(f[i]) \in Nat
  /\ \A i \in 1..Len(s) : Len(f[i]) = Len(f[i - 1]) + Len(s[i])
  /\ \A i, j \in 0..Len(s) : i <= j => Len(f[i]) <= Len(f[j])
  /\ \A i, j \in 1..Len(s) : i <= j => At(f[j], Len(f[i - 1]), s[i])
  /\ \A j \in 0..Len(s) : \A p \in 1..Len(f[j]) :
       \E i \in 1..j : Len(f[i - 1]) < p /\ p <= Len(f[i])

LEMMA Upwards ==
  ASSUME NEW g, NEW n \in Nat, \A i \in 0..n : g[i] \in Nat, \A i \in 1..n : g[i - 1] <= g[i]
  PROVE  \A i, j \in 0..n : i <= j => g[i] <= g[j]
<1> SUFFICES ASSUME NEW i \in 0..n PROVE \A j \in 0..n : i <= j => g[i] <= g[j]
  OBVIOUS
<1> DEFINE Bad == {j \in Nat : j <= n /\ i <= j /\ ~(g[i] <= g[j])}
<1>1. ASSUME NEW j \in Bad, \A m \in Bad : j <= m PROVE FALSE
  <2>1. j \in Nat /\ j <= n /\ i <= j /\ ~(g[i] <= g[j]) /\ j # i /\ g[i] \in Nat
    OBVIOUS
  <2>2. j - 1 \in Nat /\ j - 1 <= n /\ i <= j - 1 /\ ~(j <= j - 1) /\ j \in 1..n /\ j - 1 \in 0..n
        /\ j \in 0..n
    BY <2>1
  <2>3. g[i] <= g[j - 1]
    BY <1>1, <2>2
  <2>4. g[j - 1] <= g[j] /\ g[j - 1] \in Nat /\ g[j] \in Nat
    BY <2>2
  <2> QED
    BY <2>1, <2>3, <2>4
<1>2. Bad = {}
  <2>1. Bad \in SUBSET Nat
    OBVIOUS
  <2> HIDE DEF Bad
  <2> QED
    BY <1>1, <2>1, HasLeast
<1> QED
  BY <1>2

LEMMA Between ==
  ASSUME NEW g, NEW n \in Nat, \A i \in 0..n : g[i] \in Nat, g[0] = 0, NEW p \in 1..g[n]
  PROVE  \E i \in 1..n : g[i - 1] < p /\ p <= g[i]
<1> DEFINE Over == {i \in Nat : i <= n /\ p <= g[i]}
<1>1. n \in Over /\ p \in Nat /\ p > 0
  BY n \in 0..n
<1>2. PICK i \in Over : \A j \in Over : i <= j
  <2>1. Over \in SUBSET Nat /\ Over # {}
    BY <1>1
  <2> HIDE DEF Over
  <2> QED
    BY <2>1, HasLeast
<1>3. i \in Nat /\ i <= n /\ p <= g[i] /\ i # 0
  BY <1>1
<1>4. i \in 1..n /\ i - 1 \in Nat /\ i - 1 <= n /\ ~(i <= i - 1) /\ i - 1 \in 0..n
  BY <1>3
<1>5. ~(p <= g[i - 1]) /\ g[i - 1] \in Nat
  BY <1>2, <1>4
<1> QED
  BY <1>1, <1>3, <1>4, <1>5

LEMMA PiecesExist ==
  ASSUME NEW S, NEW s \in Seq(Seq(S))
  PROVE  \E f : Pieces(S, s, f)
<1>1. PICK f : Sums(S, s, f)
  BY SumsExist
<1>2. Len(s) \in Nat /\ \A i \in 1..Len(s) : s[i] \in Seq(S)
  BY LenProperties, ElementOfSeq
<1>3. ASSUME NEW i \in 0..Len(s) PROVE FlattenSeq(SubSeq(s, 1, i)) = f[i] /\ Len(f[i]) \in Nat
  <2>1. PICK t : t = SubSeq(s, 1, i)
    OBVIOUS
  <2>2. t \in Seq(Seq(S)) /\ Len(t) = i /\ \A j \in 1..i : t[j] = s[j]
    BY <2>1, FirstOf
  <2>3. Sums(S, t, f)
    <3>1. \A j \in 1..i : j \in 1..Len(s) /\ j \in 0..Len(s)
      BY <1>2
    <3>2. \A j \in 0..i : j \in 0..Len(s)
      BY <1>2
    <3>3. \A j \in 1..i : f[j] = f[j - 1] \o t[j]
      BY <1>1, <2>2, <3>1 DEF Sums
    <3>4. f[0] = <<>> /\ \A j \in 0..i : f[j] \in Seq(S)
      BY <1>1, <3>2 DEF Sums
    <3> QED
      BY <2>2, <3>3, <3>4 DEF Sums
  <2>4. FlattenSeq(t) = f[Len(t)]
    BY <2>2, <2>3, FlattenIs
  <2>5. f[i] \in Seq(S)
    BY <1>1 DEF Sums
  <2> QED
    BY <2>1, <2>2, <2>4, <2>5, LenProperties
<1>4. ASSUME NEW i \in 1..Len(s)
      PROVE  /\ Len(f[i]) = Len(f[i - 1]) + Len(s[i]) /\ Len(s[i]) \in Nat
             /\ i - 1 \in 0..Len(s) /\ i \in 0..Len(s)
             /\ \A k \in 1..Len(f[i - 1]) : f[i][k] = f[i - 1][k]
             /\ \A k \in 1..Len(s[i]) : f[i][Len(f[i - 1]) + k] = s[i][k]
  <2>1. i - 1 \in 0..Len(s) /\ i \in 0..Len(s)
    BY <1>2
  <2>2. f[i] = f[i - 1] \o s[i] /\ f[i - 1] \in Seq(S) /\ s[i] \in Seq(S)
    BY <1>1, <1>2, <2>1 DEF Sums
  <2>3. PICK a, b : a = f[i - 1] /\ b = s[i]
    OBVIOUS
  <2>4. /\ Len(a) \in Nat /\ Len(b) \in Nat /\ Len(a \o b) = Len(a) + Len(b)
        /\ \A k \in 1..Len(a) : (a \o b)[k] = a[k]
        /\ \A k \in 1..Len(b) : (a \o b)[Len(a) + k] = b[k]
    <3>1. a \in Seq(S) /\ b \in Seq(S)
      BY <2>2, <2>3
    <3> QED
      BY <3>1, JoinAt
  <2> QED
    BY <2>1, <2>2, <2>3, <2>4
<1> DEFINE g == [i \in 0..Len(s) |-> Len(f[i])]
<1>5. /\ \A i \in 0..Len(s) : g[i] \in Nat /\ g[i] = Len(f[i])
      /\ \A i \in 1..Len(s) : g[i - 1] <= g[i]
  <2>1. \A i \in 0..Len(s) : g[i] \in Nat /\ g[i] = Len(f[i])
    BY <1>3
  <2>2. ASSUME NEW i \in 1..Len(s) PROVE g[i - 1] <= g[i]
    <3> HIDE DEF g
    <3>1. i - 1 \in 0..Len(s) /\ i \in 0..Len(s)
      BY <1>4
    <3>2. g[i - 1] \in Nat /\ g[i] = g[i - 1] + Len(s[i]) /\ Len(s[i]) \in Nat
      BY <1>4, <2>1, <3>1
    <3> QED
      BY <3>2
  <2> QED
    BY <2>1, <2>2
<1>6. \A i, j \in 0..Len(s) : i <= j => Len(f[i]) <= Len(f[j])
  <2> HIDE DEF g
  <2>1. \A i, j \in 0..Len(s) : i <= j => g[i] <= g[j]
    BY <1>2, <1>5, Upwards
  <2> QED
    BY <1>5, <2>1
<1>7. ASSUME NEW j \in 0..Len(s), NEW p \in 1..Len(f[j])
      PROVE  \E i \in 1..j : Len(f[i - 1]) < p /\ p <= Len(f[i])
  <2> HIDE DEF g
  <2>1. j \in Nat /\ p \in 1..g[j] /\ \A i \in 0..j : g[i] \in Nat
    BY <1>2, <1>5
  <2>2. g[0] = 0
    <3>1. Len(f[0]) = 0
      BY <1>1, EmptySeq DEF Sums
    <3>2. 0 \in 0..Len(s)
      BY <1>2
    <3> QED
      BY <1>5, <3>1, <3>2
  <2>3. PICK i \in 1..j : g[i - 1] < p /\ p <= g[i]
    BY <2>1, <2>2, Between
  <2>4. i - 1 \in 0..Len(s) /\ i \in 0..Len(s)
    BY <1>2
  <2> QED
    BY <1>5, <2>3, <2>4
<1>8. ASSUME NEW i \in 1..Len(s), NEW j \in 1..Len(s), i <= j
      PROVE  At(f[j], Len(f[i - 1]), s[i])
  <2> DEFINE Bad == {m \in Nat : i <= m /\ m <= Len(s) /\ ~At(f[m], Len(f[i - 1]), s[i])}
  <2>0. Len(s[i]) \in Nat /\ Len(f[i - 1]) \in Nat
    <3>1. i - 1 \in 0..Len(s)
      BY <1>4
    <3> QED
      BY <1>3, <1>4, <3>1
  <2>1. ASSUME NEW m \in Bad, \A k \in Bad : m <= k PROVE FALSE
    <3>1. m \in Nat /\ i <= m /\ m <= Len(s) /\ ~At(f[m], Len(f[i - 1]), s[i])
      OBVIOUS
    <3>2. CASE m = i
      <4>1. Len(f[i - 1]) + Len(s[i]) <= Len(f[i])
        <5>1. Len(f[i]) = Len(f[i - 1]) + Len(s[i])
          BY <1>4
        <5> QED
          BY <2>0, <5>1
      <4> QED
        BY <1>4, <3>1, <3>2, <4>1 DEF At
    <3>3. CASE m # i
      <4>1. m - 1 \in Nat /\ i <= m - 1 /\ m - 1 <= Len(s) /\ ~(m <= m - 1) /\ m \in 1..Len(s)
        BY <1>2, <3>1, <3>3
      <4>2. At(f[m - 1], Len(f[i - 1]), s[i])
        BY <2>1, <4>1
      <4>3. /\ Len(f[m]) = Len(f[m - 1]) + Len(s[m]) /\ Len(s[m]) \in Nat
            /\ \A k \in 1..Len(f[m - 1]) : f[m][k] = f[m - 1][k]
        BY <1>4, <4>1
      <4>4. Len(f[m - 1]) \in Nat
        <5>1. m - 1 \in 0..Len(s)
          BY <1>4, <4>1
        <5> QED
          BY <1>3, <5>1
      <4>5. \A k \in 1..Len(s[i]) : Len(f[i - 1]) + k \in 1..Len(f[m - 1])
        <5>1. \A x, y, z \in Nat : x + y <= z => \A k \in 1..y : x + k \in 1..z
          OBVIOUS
        <5>2. Len(f[i - 1]) + Len(s[i]) <= Len(f[m - 1])
          BY <4>2 DEF At
        <5> QED
          BY <2>0, <4>4, <5>1, <5>2
      <4>6. \A k \in 1..Len(s[i]) : f[m - 1][Len(f[i - 1]) + k] = s[i][k]
        BY <4>2 DEF At
      <4>7. \A k \in 1..Len(s[i]) : f[m][Len(f[i - 1]) + k] = s[i][k]
        <5> SUFFICES ASSUME NEW k \in 1..Len(s[i]) PROVE f[m][Len(f[i - 1]) + k] = s[i][k]
          OBVIOUS
        <5>1. PICK q : q = Len(f[i - 1]) + k
          OBVIOUS
        <5>2. q \in 1..Len(f[m - 1]) /\ f[m - 1][q] = s[i][k]
          BY <4>5, <4>6, <5>1
        <5> QED
          BY <4>3, <5>1, <5>2
      <4>8. Len(f[i - 1]) + Len(s[i]) <= Len(f[m])
        <5>1. \A x, y, z, w, v \in Nat : x + y <= z /\ w = z + v => x + y <= w
          OBVIOUS
        <5>2. Len(f[i - 1]) + Len(s[i]) <= Len(f[m - 1])
          BY <4>2 DEF At
        <5>3. Len(f[m]) \in Nat
          <6>1. \A x, y \in Nat : x + y \in Nat
            OBVIOUS
          <6> QED
            BY <4>3, <4>4, <6>1
        <5> QED
          BY <2>0, <4>3, <4>4, <5>1, <5>2, <5>3
      <4> QED
        BY <3>1, <4>7, <4>8 DEF At
    <3> QED
      BY <3>2, <3>3
  <2>2. Bad = {}
    <3>1. Bad \in SUBSET Nat
      OBVIOUS
    <3> HIDE DEF Bad
    <3> QED
      BY <2>1, <3>1, HasLeast
  <2>3. j \in Nat /\ i <= j /\ j <= Len(s)
    BY <1>2, <1>8
  <2> QED
    BY <2>2, <2>3
<1>9. Pieces(S, s, f)
  BY <1>1, <1>3, <1>4, <1>6, <1>7, <1>8 DEF Pieces
<1> QED
  BY <1>9

-----------------------------------------------------------------------------
(* Parts of a sequence: what is between two places.                        *)
Part(s, p, c) == SubSeq(s, p + 1, c)

Lesser(a, b) == IF a < b THEN a ELSE b

LEMMA PartIs ==
  ASSUME NEW S, NEW s \in Seq(S), NEW p \in Nat, NEW c \in 0..Len(s)
  PROVE  /\ Part(s, p, c) \in Seq(S)
         /\ Len(Part(s, p, c)) = IF p <= c THEN c - p ELSE 0
         /\ Len(Part(s, p, c)) \in Nat
         /\ \A i \in 1..(c - p) : Part(s, p, c)[i] = s[p + i]
<1>1. Len(s) \in Nat /\ \A i \in 1..Len(s) : s[i] \in S
  BY LenProperties, ElementOfSeq
<1>2. p + 1 \in Int /\ c \in Int /\ \A i \in (p + 1)..c : s[i] \in S
  BY <1>1
<1>3. /\ SubSeq(s, p + 1, c) \in Seq(S)
      /\ Len(SubSeq(s, p + 1, c)) = IF p + 1 <= c THEN c - (p + 1) + 1 ELSE 0
      /\ \A i \in 1..(c - (p + 1) + 1) : SubSeq(s, p + 1, c)[i] = s[(p + 1) + i - 1]
  BY <1>2, SubSeqProperties
<1>4. /\ c - (p + 1) + 1 = c - p
      /\ (IF p + 1 <= c THEN c - p ELSE 0) = (IF p <= c THEN c - p ELSE 0)
      /\ (IF p <= c THEN c - p ELSE 0) \in Nat
      /\ \A i \in 1..(c - p) : (p + 1) + i - 1 = p + i
  BY <1>1
<1> QED
  BY <1>3, <1>4 DEF Part

(* A sequence that is as long as a part and has its elements is that part. *)
LEMMA IsPart ==
  ASSUME NEW S, NEW s \in Seq(S), NEW p \in Nat, NEW c \in 0..Len(s), p <= c,
         NEW t \in Seq(S), Len(t) = c - p, \A i \in 1..(c - p) : t[i] = s[p + i]
  PROVE  t = Part(s, p, c)
<1>1. PICK u : u = Part(s, p, c)
  OBVIOUS
<1>2. u \in Seq(S) /\ Len(u) = Len(t) /\ \A i \in 1..(c - p) : u[i] = s[p + i]
  BY <1>1, PartIs
<1>3. \A i \in 1..Len(t) : t[i] = u[i]
  BY <1>2
<1>4. t = u
  BY <1>2, <1>3, SeqEqual
<1> QED
  BY <1>1, <1>4

LEMMA NoPart ==
  ASSUME NEW s, NEW p \in Nat, NEW c \in Nat, c <= p
  PROVE  Part(s, p, c) = <<>>
<1>1. p + 1 \in Int /\ c \in Int /\ c < p + 1
  OBVIOUS
<1> QED
  BY <1>1, SubSeqEmpty DEF Part

LEMMA PartOfPart ==
  ASSUME NEW S, NEW s \in Seq(S), NEW p \in Nat, NEW c \in 0..Len(s), p <= c,
         NEW a \in Nat, NEW b \in 0..(c - p)
  PROVE  Part(Part(s, p, c), a, b) = Part(s, p + a, p + b)
<1>1. Len(s) \in Nat
  BY LenProperties
<1>2. PICK t : t = Part(s, p, c)
  OBVIOUS
<1>3. t \in Seq(S) /\ Len(t) = c - p /\ \A i \in 1..(c - p) : t[i] = s[p + i]
  BY <1>2, PartIs
<1>4. a \in Nat /\ b \in 0..Len(t) /\ p + a \in Nat /\ p + b \in 0..Len(s) /\ p + b \in Nat /\ b \in Nat
  BY <1>1, <1>3
<1>5. CASE a <= b
  <2>1. PICK u : u = Part(t, a, b)
    OBVIOUS
  <2>2. u \in Seq(S) /\ Len(u) = b - a /\ \A i \in 1..(b - a) : u[i] = t[a + i]
    BY <1>3, <1>4, <1>5, <2>1, PartIs
  <2>3. /\ b - a = (p + b) - (p + a) /\ p + a <= p + b
        /\ \A i \in 1..(b - a) : a + i \in 1..(c - p) /\ p + (a + i) = (p + a) + i
    BY <1>1, <1>4, <1>5
  <2>4. \A i \in 1..((p + b) - (p + a)) : u[i] = s[(p + a) + i]
    BY <1>3, <2>2, <2>3
  <2>5. u = Part(s, p + a, p + b)
    <3>1. PICK x, y : x = p + a /\ y = p + b
      OBVIOUS
    <3>2. x \in Nat /\ y \in 0..Len(s) /\ x <= y /\ Len(u) = y - x
          /\ \A i \in 1..(y - x) : u[i] = s[x + i]
      BY <1>4, <2>2, <2>3, <2>4, <3>1
    <3>3. u = Part(s, x, y)
      BY <2>2, <3>2, IsPart
    <3> QED
      BY <3>1, <3>3
  <2> QED
    BY <1>2, <2>1, <2>5
<1>6. CASE ~(a <= b)
  <2>1. b <= a /\ p + b <= p + a
    BY <1>4, <1>6
  <2> QED
    BY <1>2, <1>4, <2>1, NoPart
<1> QED
  BY <1>5, <1>6

LEMMA PartAt ==
  ASSUME NEW S, NEW s \in Seq(S), NEW t \in Seq(S), NEW p \in Nat, At(s, p, t),
         NEW a \in Nat, NEW b \in 0..Len(t)
  PROVE  Part(t, a, b) = Part(s, p + a, p + b)
<1>1. Len(s) \in Nat /\ Len(t) \in Nat
  BY LenProperties
<1>2. p + Len(t) <= Len(s) /\ \A i \in 1..Len(t) : s[p + i] = t[i]
  BY DEF At
<1>3. p + Len(t) \in 0..Len(s) /\ p <= p + Len(t) /\ (p + Len(t)) - p = Len(t)
  BY <1>1, <1>2
<1>4. t = Part(s, p, p + Len(t))
  BY <1>2, <1>3, IsPart
<1>5. Part(Part(s, p, p + Len(t)), a, b) = Part(s, p + a, p + b)
  BY <1>3, PartOfPart
<1> QED
  BY <1>4, <1>5

(* What a cut leaves of a text that stands in another.                     *)
LEMMA CutAt ==
  ASSUME NEW S, NEW s \in Seq(S), NEW t \in Seq(S), NEW p \in Nat, At(s, p, t), NEW c \in Nat
  PROVE  Cut(t, c - p) = Part(s, p, Lesser(c, p + Len(t)))
<1>1. Len(s) \in Nat /\ Len(t) \in Nat
  BY LenProperties
<1>2. PICK n : n = IF c - p < 0 THEN 0 ELSE IF c - p < Len(t) THEN c - p ELSE Len(t)
  OBVIOUS
<1>3. n \in 0..Len(t) /\ Cut(t, c - p) = Part(t, 0, n)
  BY <1>1, <1>2 DEF Cut, Upto, Part
<1>4. Part(t, 0, n) = Part(s, p + 0, p + n) /\ p + 0 = p
  BY <1>3, PartAt
<1>5. CASE c < p
  <2>1. n = 0 /\ p + n = p /\ Lesser(c, p + Len(t)) = c /\ c <= p
    BY <1>1, <1>2, <1>5 DEF Lesser
  <2> QED
    BY <1>3, <1>4, <2>1, NoPart
<1>6. CASE ~(c < p)
  <2>1. p + n = Lesser(c, p + Len(t))
    BY <1>1, <1>2, <1>6 DEF Lesser
  <2> QED
    BY <1>3, <1>4, <2>1
<1> QED
  BY <1>5, <1>6

-----------------------------------------------------------------------------
(* Searches.                                                               *)
LEMMA FindIs ==
  ASSUME NEW s \in Text, NEW x
  PROVE  /\ Find(s, x) \in 0..Len(s)
         /\ Find(s, x) = 0 => \A i \in 1..Len(s) : s[i] # x
         /\ Find(s, x) # 0 => /\ s[Find(s, x)] = x
                             /\ \A i \in 1..(Find(s, x) - 1) : s[i] # x
<1> DEFINE I == {i \in 1..Len(s) : s[i] = x}
<1>1. Len(s) \in Nat
  BY LenProperties DEF Text
<1>2. Find(s, x) = IF I # {} THEN Min(I) ELSE 0
  BY DEF Find, SelectInSeq
<1>3. CASE I = {}
  BY <1>1, <1>2, <1>3
<1>4. CASE I # {}
  <2>1. I \in SUBSET Nat
    BY <1>1
  <2>2. PICK i \in I : \A j \in I : i <= j
    <3> HIDE DEF I
    <3> QED
      BY <1>4, <2>1, HasLeast
  <2>3. Min(I) \in I /\ \A j \in I : Min(I) <= j
    <3> HIDE DEF I
    <3> QED
      BY <2>2 DEF Min
  <2>4. PICK m : m = Min(I)
    OBVIOUS
  <2>5. m \in 1..Len(s) /\ s[m] = x /\ \A j \in 1..Len(s) : s[j] = x => m <= j
    BY <2>3, <2>4
  <2>6. \A j \in 1..(m - 1) : j \in 1..Len(s) /\ ~(m <= j)
    BY <1>1, <2>5
  <2>7. Find(s, x) = m /\ m # 0 /\ m \in 0..Len(s)
    BY <1>1, <1>2, <1>4, <2>4, <2>5
  <2> QED
    BY <2>5, <2>6, <2>7
<1> QED
  BY <1>3, <1>4

LEMMA FindUnique ==
  ASSUME NEW s \in Text, NEW x, NEW n \in 1..Len(s), s[n] = x, \A i \in 1..(n - 1) : s[i] # x
  PROVE  Find(s, x) = n
<1>1. Len(s) \in Nat
  BY LenProperties DEF Text
<1>2. PICK m : m = Find(s, x)
  OBVIOUS
<1>3. /\ m \in 0..Len(s) /\ m # 0
      /\ s[m] = x /\ \A i \in 1..(m - 1) : s[i] # x
  BY <1>2, FindIs
<1>4. ~(m < n) /\ ~(n < m)
  <2>1. m < n => m \in 1..(n - 1)
    BY <1>1, <1>3
  <2>2. n < m => n \in 1..(m - 1)
    BY <1>1, <1>3
  <2> QED
    BY <1>3, <2>1, <2>2
<1> QED
  BY <1>1, <1>2, <1>3, <1>4

LEMMA NoFind ==
  ASSUME NEW s \in Text, NEW x, \A i \in 1..Len(s) : s[i] # x
  PROVE  Find(s, x) = 0
<1>1. Len(s) \in Nat
  BY LenProperties DEF Text
<1> QED
  BY <1>1, FindIs

(* Where a text without the blanks at its end has its end.                 *)
SolidEnd(s, n) ==
  /\ n \in 0..Len(s)
  /\ n # 0 => Solid(s[n])
  /\ \A i \in (n + 1)..Len(s) : ~Solid(s[i])

LEMMA TrimEndIs ==
  ASSUME NEW s \in Text
  PROVE  \E n : SolidEnd(s, n) /\ TrimEnd(s) = Upto(s, n)
<1> DEFINE I == {i \in 1..Len(s) : Solid(s[i])}
           J == {j \in Nat : \E i \in I : j = Len(s) - i}
<1>1. Len(s) \in Nat
  BY LenProperties DEF Text
<1>2. TrimEnd(s) = Upto(s, IF I # {} THEN Max(I) ELSE 0)
  BY DEF TrimEnd, SelectLastInSeq
<1>3. CASE I = {}
  <2>1. SolidEnd(s, 0)
    BY <1>1, <1>3 DEF SolidEnd
  <2> QED
    BY <1>2, <1>3, <2>1
<1>4. CASE I # {}
  <2>1. J \in SUBSET Nat /\ J # {}
    <3>1. PICK i \in I : TRUE
      BY <1>4
    <3>2. Len(s) - i \in J
      BY <1>1
    <3> QED
      BY <3>2
  <2>2. PICK j \in J : \A k \in J : j <= k
    <3> HIDE DEF J
    <3> QED
      BY <2>1, HasLeast
  <2>3. PICK i \in I : j = Len(s) - i
    BY <2>2
  <2>4. \A k \in I : Len(s) - k \in J
    BY <1>1
  <2>5. \A k \in I : i >= k
    <3>1. \A k \in I : Len(s) - i <= Len(s) - k
      <4> HIDE DEF J, I
      <4> QED
        BY <2>2, <2>3, <2>4
    <3>2. \A k \in I : k \in Nat /\ i \in Nat
      BY <1>1
    <3> HIDE DEF I
    <3> QED
      BY <1>1, <3>1, <3>2
  <2>6. Max(I) \in I /\ \A k \in I : Max(I) >= k
    <3> HIDE DEF I
    <3> QED
      BY <2>5 DEF Max
  <2>7. PICK n : n = Max(I)
    OBVIOUS
  <2>8. n \in 1..Len(s) /\ Solid(s[n]) /\ \A k \in 1..Len(s) : Solid(s[k]) => n >= k
    BY <2>6, <2>7
  <2>9. \A k \in (n + 1)..Len(s) : k \in 1..Len(s) /\ ~(n >= k)
    BY <1>1, <2>8
  <2>10. SolidEnd(s, n)
    BY <1>1, <2>8, <2>9 DEF SolidEnd
  <2>11. TrimEnd(s) = Upto(s, n)
    BY <1>2, <1>4, <2>7
  <2> QED
    BY <2>10, <2>11
<1> QED
  BY <1>3, <1>4

LEMMA SolidEndUnique ==
  ASSUME NEW s \in Text, NEW n, NEW m, SolidEnd(s, n), SolidEnd(s, m)
  PROVE  n = m
<1>1. Len(s) \in Nat
  BY LenProperties DEF Text
<1>2. n \in 0..Len(s) /\ m \in 0..Len(s)
  BY DEF SolidEnd
<1>3. ~(n < m) /\ ~(m < n)
  <2>1. n < m => m \in (n + 1)..Len(s) /\ m # 0
    BY <1>1, <1>2
  <2>2. m < n => n \in (m + 1)..Len(s) /\ n # 0
    BY <1>1, <1>2
  <2> QED
    BY <2>1, <2>2 DEF SolidEnd
<1> QED
  BY <1>1, <1>2, <1>3

LEMMA TrimEndAt ==
  ASSUME NEW s \in Text, NEW n, SolidEnd(s, n)
  PROVE  TrimEnd(s) = Upto(s, n)
BY TrimEndIs, SolidEndUnique

-----------------------------------------------------------------------------
(* A line of a text: t, which has no line ends in it, and one behind it.   *)
Eols == {<<"LF">>, <<"CR", "LF">>}

LineAt(w, p, t, e) ==
  /\ w \in Text /\ t \in Text /\ p \in Nat /\ e \in Eols
  /\ \A i \in 1..Len(t) : t[i] \notin {"CR", "LF"}
  /\ At(w, p, t) /\ At(w, p + Len(t), e)

LEMMA OfOne ==
  ASSUME NEW S, NEW x \in S
  PROVE  <<x>> \in Seq(S) /\ Len(<<x>>) = 1 /\ <<x>>[1] = x
OBVIOUS

LEMMA OfTwo ==
  ASSUME NEW S, NEW x \in S, NEW y \in S
  PROVE  <<x, y>> \in Seq(S) /\ Len(<<x, y>>) = 2 /\ <<x, y>>[1] = x /\ <<x, y>>[2] = y
OBVIOUS

LEMMA EolIs ==
  ASSUME NEW e \in Eols
  PROVE  /\ e \in Text /\ Len(e) \in 1..2 /\ e[Len(e)] = "LF"
         /\ \A i \in 1..(Len(e) - 1) : e[i] = "CR"
         /\ \A i \in 1..Len(e) : ~Solid(e[i])
<1>1. CASE e = <<"LF">>
  <2>1. e \in Text /\ Len(e) = 1 /\ e[1] = "LF"
    BY <1>1, PeerAssumption, OfOne DEF Text
  <2>2. ~Solid("LF")
    BY DEF Solid, White
  <2> QED
    BY <2>1, <2>2
<1>2. CASE e = <<"CR", "LF">>
  <2>1. e \in Text /\ Len(e) = 2 /\ e[1] = "CR" /\ e[2] = "LF"
    BY <1>2, PeerAssumption, OfTwo DEF Text
  <2>2. ~Solid("LF") /\ ~Solid("CR")
    BY DEF Solid, White
  <2>3. \A i \in 1..2 : i = 1 \/ i = 2
    OBVIOUS
  <2>4. \A i \in 1..1 : i = 1
    OBVIOUS
  <2> QED
    BY <2>1, <2>2, <2>3, <2>4
<1> QED
  BY <1>1, <1>2 DEF Eols

(* The symbols of a line.                                                  *)
LEMMA LineCells ==
  ASSUME NEW w, NEW p, NEW t, NEW e, LineAt(w, p, t, e)
  PROVE  LET a == p + Len(t)
             q == p + Len(t) + Len(e)
         IN  /\ Len(w) \in Nat /\ Len(t) \in Nat /\ a \in Nat /\ q \in 1..Len(w)
             /\ q = a + 1 \/ q = a + 2
             /\ \A i \in (p + 1)..a : w[i] \notin {"CR", "LF"} /\ w[i] = t[i - p]
             /\ w[q] = "LF"
             /\ \A i \in (a + 1)..(q - 1) : w[i] = "CR"
             /\ \A i \in (a + 1)..q : ~Solid(w[i])
<1> DEFINE a == p + Len(t)
           q == p + Len(t) + Len(e)
<1>1. /\ w \in Text /\ t \in Text /\ p \in Nat /\ e \in Eols
      /\ \A i \in 1..Len(t) : t[i] \notin {"CR", "LF"}
      /\ p + Len(t) <= Len(w) /\ \A i \in 1..Len(t) : w[p + i] = t[i]
      /\ a + Len(e) <= Len(w) /\ \A i \in 1..Len(e) : w[a + i] = e[i]
  BY DEF LineAt, At
<1>2. Len(w) \in Nat /\ Len(t) \in Nat /\ Len(e) \in 1..2
  BY <1>1, EolIs, LenProperties DEF Text
<1>3. e[Len(e)] = "LF" /\ (\A i \in 1..(Len(e) - 1) : e[i] = "CR") /\ \A i \in 1..Len(e) : ~Solid(e[i])
  BY <1>1, EolIs
<1>4. a \in Nat /\ q \in 1..Len(w) /\ (q = a + 1 \/ q = a + 2)
  <2>1. \A x, y, z \in Nat : \A l \in 1..2 :
          x + y + l <= z => /\ x + y \in Nat /\ x + y + l \in 1..z
                            /\ (x + y + l = (x + y) + 1 \/ x + y + l = (x + y) + 2)
    OBVIOUS
  <2>2. p \in Nat /\ p + Len(t) + Len(e) <= Len(w)
    BY <1>1
  <2>3. PICK y, z, l : y = Len(t) /\ z = Len(w) /\ l = Len(e)
    OBVIOUS
  <2>4. p \in Nat /\ y \in Nat /\ z \in Nat /\ l \in 1..2 /\ p + y + l <= z
    BY <1>2, <2>2, <2>3
  <2>5. /\ p + y \in Nat /\ p + y + l \in 1..z
        /\ (p + y + l = (p + y) + 1 \/ p + y + l = (p + y) + 2)
    BY <2>1, <2>4
  <2> QED
    BY <2>3, <2>5
<1>5. ASSUME NEW i \in (p + 1)..a PROVE w[i] \notin {"CR", "LF"} /\ w[i] = t[i - p]
  <2>1. PICK j : j = i - p
    OBVIOUS
  <2>2. j \in 1..Len(t) /\ p + j = i
    BY <1>1, <1>2, <2>1
  <2> QED
    BY <1>1, <2>1, <2>2
<1>6. ASSUME NEW i \in (a + 1)..q
      PROVE  ~Solid(w[i]) /\ (i = q => w[i] = "LF") /\ (i # q => w[i] = "CR")
  <2>1. PICK j : j = i - a
    OBVIOUS
  <2>2. /\ j \in 1..Len(e) /\ a + j = i /\ (i = q => j = Len(e))
        /\ (i # q => j \in 1..(Len(e) - 1))
    BY <1>1, <1>2, <1>4, <2>1
  <2>3. w[i] = e[j]
    BY <1>1, <2>2
  <2> QED
    BY <1>3, <2>2, <2>3
<1>7. q \in (a + 1)..q /\ \A i \in (a + 1)..(q - 1) : i \in (a + 1)..q /\ i # q
  BY <1>4
<1> QED
  BY <1>2, <1>4, <1>5, <1>6, <1>7

(* Where a line ends of which c has come.                                  *)
LEMMA LineEndIs ==
  ASSUME NEW w, NEW p, NEW t, NEW e, LineAt(w, p, t, e), NEW c \in 0..Len(w),
         NEW q, q = p + Len(t) + Len(e), NEW s, s = Part(w, p, c)
  PROVE  /\ s \in Text
         /\ Upto(s, LineEnd(s)) = Part(w, p, Lesser(c, q))
         /\ Behind(s, LineEnd(s)) = Part(w, q, c)
<1> DEFINE a == p + Len(t)
<1>1. /\ Len(w) \in Nat /\ Len(t) \in Nat /\ a \in Nat /\ q \in 1..Len(w)
      /\ q = a + 1 \/ q = a + 2
      /\ \A i \in (p + 1)..a : w[i] \notin {"CR", "LF"}
      /\ w[q] = "LF"
      /\ \A i \in (a + 1)..(q - 1) : w[i] = "CR"
  BY LineCells
<1>2. w \in Text /\ p \in Nat
  BY DEF LineAt
<1>3. /\ s \in Text /\ Len(s) \in Nat
      /\ Len(s) = IF p <= c THEN c - p ELSE 0
      /\ \A i \in 1..(c - p) : s[i] = w[p + i]
  BY <1>2, PartIs DEF Text
<1>4. \A i \in 1..(q - 1 - p) : w[p + i] # "LF"
  <2> SUFFICES ASSUME NEW i \in 1..(q - 1 - p) PROVE w[p + i] # "LF"
    OBVIOUS
  <2>1. PICK j : j = p + i
    OBVIOUS
  <2>2. j \in (p + 1)..a \/ j \in (a + 1)..(q - 1)
    BY <1>1, <1>2, <2>1
  <2> QED
    BY <1>1, <2>1, <2>2
<1>5. PICK m : m = LineEnd(s)
  OBVIOUS
<1>6. CASE c <= p
  <2>1. Len(s) = 0 /\ s = <<>>
    <3>1. s = <<>>
      BY <1>2, <1>6, NoPart
    <3> QED
      BY <3>1, EmptySeq
  <2>2. Find(s, "LF") = 0
    BY <1>3, <2>1, NoFind
  <2>3. m = 0
    BY <1>5, <2>1, <2>2 DEF LineEnd
  <2>4. Upto(s, 0) = <<>> /\ Behind(s, 0) = <<>>
    BY <2>1, SubSeqEmpty DEF Upto, Behind
  <2>5. Part(w, q, c) = <<>>
    BY <1>1, <1>2, <1>6, NoPart
  <2>6. Lesser(c, q) = c
    BY <1>1, <1>2, <1>6 DEF Lesser
  <2> QED
    BY <1>3, <1>5, <2>1, <2>3, <2>4, <2>5, <2>6
<1>7. CASE p < c /\ c < q
  <2>1. Len(s) = c - p /\ \A i \in 1..(c - p) : i \in 1..(q - 1 - p)
    BY <1>1, <1>2, <1>3, <1>7
  <2>2. \A i \in 1..Len(s) : s[i] # "LF"
    BY <1>3, <1>4, <2>1
  <2>3. m = c - p
    BY <1>3, <1>5, <2>1, <2>2, NoFind DEF LineEnd
  <2>4. Upto(s, m) = Part(s, 0, m) /\ Behind(s, m) = Part(s, m, Len(s))
    BY DEF Upto, Behind, Part
  <2>5. m \in 0..(c - p) /\ m \in Nat /\ p <= c /\ p + 0 = p /\ p + m = c
    BY <1>1, <1>2, <1>7, <2>3
  <2>6. Part(s, 0, m) = Part(w, p, c)
    <3>1. 0 \in Nat /\ w \in Seq(Symbols)
      BY <1>2 DEF Text
    <3>2. Part(Part(w, p, c), 0, m) = Part(w, p + 0, p + m)
      BY <1>2, <2>5, <3>1, PartOfPart
    <3> QED
      BY <2>5, <3>2
  <2>7. Part(s, m, m) = <<>> /\ Part(w, q, c) = <<>>
    BY <1>1, <1>7, <2>5, NoPart
  <2>8. Lesser(c, q) = c
    BY <1>7 DEF Lesser
  <2> QED
    BY <1>3, <1>5, <2>1, <2>3, <2>4, <2>6, <2>7, <2>8
<1>8. CASE q <= c
  <2>1. p + (q - p) = q /\ q - p \in 1..(c - p) /\ p <= c
        /\ \A i \in 1..((q - p) - 1) : i \in 1..(q - 1 - p) /\ i \in 1..(c - p)
    BY <1>1, <1>2, <1>8
  <2>2. PICK k : k = q - p
    OBVIOUS
  <2>3. k \in 1..Len(s) /\ s[k] = "LF" /\ \A i \in 1..(k - 1) : s[i] # "LF"
    BY <1>1, <1>3, <1>4, <2>1, <2>2
  <2>4. Find(s, "LF") = k
    BY <1>3, <2>3, FindUnique
  <2>5. m = k /\ k \in 0..(c - p) /\ k \in Nat /\ p + k = q /\ p + 0 = p
        /\ c - p \in 0..(c - p) /\ p + (c - p) = c
    BY <1>1, <1>2, <1>5, <2>1, <2>2, <2>4 DEF LineEnd
  <2>6. Upto(s, m) = Part(s, 0, k) /\ Behind(s, m) = Part(s, k, c - p)
    <3>1. Upto(s, k) = Part(s, 0, k) /\ Behind(s, k) = Part(s, k, Len(s))
      BY DEF Upto, Behind, Part
    <3>2. Len(s) = c - p
      BY <1>3, <2>1
    <3> QED
      BY <2>5, <3>1, <3>2
  <2>7. Part(s, 0, k) = Part(w, p, q)
    BY <1>2, <2>1, <2>5, PartOfPart DEF Text
  <2>8. Part(s, k, c - p) = Part(w, q, c)
    BY <1>2, <2>1, <2>5, PartOfPart DEF Text
  <2>9. Lesser(c, q) = q
    BY <1>1, <1>8 DEF Lesser
  <2> QED
    BY <1>3, <1>5, <2>6, <2>7, <2>8, <2>9
<1> QED
  BY <1>1, <1>2, <1>6, <1>7, <1>8

LEMMA StripPart ==
  ASSUME NEW w \in Text, NEW p \in Nat, NEW d \in 0..Len(w), p <= d, NEW x
  PROVE  StripSuffix(Part(w, p, d), x) =
           IF p < d /\ w[d] = x THEN Part(w, p, d - 1) ELSE Part(w, p, d)
<1>1. Len(w) \in Nat
  BY LenProperties DEF Text
<1>2. PICK u : u = Part(w, p, d)
  OBVIOUS
<1>3. u \in Text /\ Len(u) = d - p /\ \A i \in 1..(d - p) : u[i] = w[p + i]
  BY <1>2, PartIs DEF Text
<1>4. CASE p = d
  <2>1. u = <<>>
    BY <1>2, <1>4, NoPart
  <2> QED
    BY <1>2, <1>4, <2>1 DEF StripSuffix
<1>5. CASE p < d
  <2>1. d - p \in 1..(d - p) /\ p + (d - p) = d
    BY <1>1, <1>5
  <2>2. u # <<>> /\ Last(u) = w[d]
    BY <1>3, <2>1, EmptySeq DEF Last
  <2>3. Front(u) = Part(u, 0, (d - p) - 1)
    BY <1>3 DEF Front, Part
  <2>4. 0 \in Nat /\ (d - p) - 1 \in 0..(d - p) /\ p + 0 = p /\ p + ((d - p) - 1) = d - 1
    BY <1>1, <1>5
  <2>5. Part(u, 0, (d - p) - 1) = Part(w, p, d - 1)
    <3>1. PICK b : b = (d - p) - 1
      OBVIOUS
    <3>2. Part(Part(w, p, d), 0, b) = Part(w, p + 0, p + b)
      BY <1>1, <2>4, <3>1, PartOfPart DEF Text
    <3> QED
      BY <1>2, <2>4, <3>1, <3>2
  <2> QED
    BY <1>2, <1>5, <2>2, <2>3, <2>5 DEF StripSuffix
<1> QED
  BY <1>1, <1>4, <1>5

(* What is left of the line when its end is taken off.                     *)
LEMMA StripIs ==
  ASSUME NEW w, NEW p, NEW t, NEW e, LineAt(w, p, t, e), NEW c \in 0..Len(w),
         NEW q, q = p + Len(t) + Len(e)
  PROVE  Strip(Part(w, p, Lesser(c, q))) = Cut(t, c - p)
<1> DEFINE a == p + Len(t)
<1>1. /\ Len(w) \in Nat /\ Len(t) \in Nat /\ a \in Nat /\ q \in 1..Len(w)
      /\ q = a + 1 \/ q = a + 2
      /\ \A i \in (p + 1)..a : w[i] \notin {"CR", "LF"}
      /\ w[q] = "LF"
      /\ \A i \in (a + 1)..(q - 1) : w[i] = "CR"
  BY LineCells
<1>2. w \in Text /\ t \in Text /\ p \in Nat /\ p <= a
  BY <1>1 DEF LineAt
<1>3. Cut(t, c - p) = Part(w, p, Lesser(c, a))
  <2>1. At(w, p, t) /\ c \in Nat
    BY <1>1 DEF LineAt
  <2> QED
    BY <1>2, <2>1, CutAt DEF Text
<1>4. ASSUME NEW d \in 0..a, p <= d PROVE Strip(Part(w, p, d)) = Part(w, p, d)
  <2>1. d \in 0..Len(w)
    BY <1>1
  <2>2. p < d => w[d] \notin {"CR", "LF"}
    BY <1>1, <1>2, <1>4
  <2>3. StripSuffix(Part(w, p, d), "LF") = Part(w, p, d)
    BY <1>2, <1>4, <2>1, <2>2, StripPart
  <2>4. StripSuffix(Part(w, p, d), "CR") = Part(w, p, d)
    BY <1>2, <1>4, <2>1, <2>2, StripPart
  <2> QED
    BY <2>3, <2>4 DEF Strip
<1>5. CASE c <= p
  <2>1. Lesser(c, q) = c /\ Lesser(c, a) = c
    BY <1>1, <1>2, <1>5 DEF Lesser
  <2>2. Part(w, p, c) = <<>> /\ Part(w, p, p) = <<>>
    BY <1>2, <1>5, NoPart
  <2>3. p \in 0..a /\ p <= p
    BY <1>2
  <2> QED
    BY <1>3, <1>4, <2>1, <2>2, <2>3
<1>6. CASE p < c /\ c <= a
  <2>1. Lesser(c, q) = c /\ Lesser(c, a) = c /\ c \in 0..a /\ p <= c
    BY <1>1, <1>2, <1>6 DEF Lesser
  <2> QED
    BY <1>3, <1>4, <2>1
<1>7. CASE a < c /\ c < q
  <2>1. /\ Lesser(c, q) = c /\ Lesser(c, a) = a /\ c \in (a + 1)..(q - 1)
        /\ c - 1 = a /\ p < c /\ p <= c
    BY <1>1, <1>2, <1>7 DEF Lesser
  <2>2. w[c] = "CR"
    BY <1>1, <2>1
  <2>3. StripSuffix(Part(w, p, c), "LF") = Part(w, p, c)
    BY <1>2, <2>1, <2>2, StripPart
  <2>4. StripSuffix(Part(w, p, c), "CR") = Part(w, p, c - 1)
    BY <1>2, <2>1, <2>2, StripPart
  <2> QED
    BY <1>3, <2>1, <2>3, <2>4 DEF Strip
<1>8. CASE q <= c
  <2>1. Lesser(c, q) = q /\ Lesser(c, a) = a /\ q \in 0..Len(w) /\ p < q /\ p <= q
    BY <1>1, <1>2, <1>8 DEF Lesser
  <2>2. StripSuffix(Part(w, p, q), "LF") = Part(w, p, q - 1)
    BY <1>1, <1>2, <2>1, StripPart
  <2>3. PICK d : d = q - 1
    OBVIOUS
  <2>4. d \in 0..Len(w) /\ p <= d
    BY <1>1, <1>2, <2>3
  <2>5. StripSuffix(Part(w, p, d), "CR") = Part(w, p, a)
    <3>1. CASE d = a
      <4>1. p < d => w[d] \notin {"CR", "LF"}
        BY <1>1, <1>2, <3>1
      <4>2. StripSuffix(Part(w, p, d), "CR") = Part(w, p, d)
        BY <1>2, <2>4, <4>1, StripPart
      <4> QED
        BY <3>1, <4>2
    <3>2. CASE d = a + 1
      <4>1. d \in (a + 1)..(q - 1) /\ p < d /\ d - 1 = a
        BY <1>1, <1>2, <2>3, <3>2
      <4>2. w[d] = "CR"
        BY <1>1, <4>1
      <4>3. StripSuffix(Part(w, p, d), "CR") = Part(w, p, d - 1)
        BY <1>2, <2>4, <4>1, <4>2, StripPart
      <4> QED
        BY <4>1, <4>3
    <3> QED
      BY <1>1, <2>3, <3>1, <3>2
  <2> QED
    BY <1>3, <2>1, <2>2, <2>3, <2>5 DEF Strip
<1> QED
  BY <1>1, <1>2, <1>5, <1>6, <1>7, <1>8

(* The blanks at its end are those of the text before.                     *)
LEMMA TrimIs ==
  ASSUME NEW w, NEW p, NEW t, NEW e, LineAt(w, p, t, e), NEW c \in 0..Len(w),
         NEW q, q = p + Len(t) + Len(e)
  PROVE  TrimEnd(Part(w, p, Lesser(c, q))) = TrimEnd(Cut(t, c - p))
<1> DEFINE a == p + Len(t)
<1>1. /\ Len(w) \in Nat /\ Len(t) \in Nat /\ a \in Nat /\ q \in 1..Len(w)
      /\ q = a + 1 \/ q = a + 2
      /\ \A i \in (a + 1)..q : ~Solid(w[i])
  BY LineCells
<1>2. w \in Text /\ t \in Text /\ p \in Nat /\ p <= a
  BY <1>1 DEF LineAt
<1>3. Cut(t, c - p) = Part(w, p, Lesser(c, a))
  <2>1. At(w, p, t) /\ c \in Nat
    BY <1>1 DEF LineAt
  <2> QED
    BY <1>2, <2>1, CutAt DEF Text
<1>4. CASE c <= a
  <2>1. Lesser(c, q) = c /\ Lesser(c, a) = c
    BY <1>1, <1>2, <1>4 DEF Lesser
  <2> QED
    BY <1>3, <2>1
<1>5. CASE a < c
  <2>1. PICK d : d = Lesser(c, q)
    OBVIOUS
  <2>2. /\ Lesser(c, a) = a /\ a < d /\ d <= q /\ d \in 0..Len(w) /\ a \in 0..Len(w) /\ p <= d
        /\ (a - p) <= (d - p) /\ a - p \in Nat /\ d - p \in Nat
    BY <1>1, <1>2, <1>5, <2>1 DEF Lesser
  <2>3. PICK u, v : u = Part(w, p, d) /\ v = Part(w, p, a)
    OBVIOUS
  <2>4. u \in Text /\ Len(u) = d - p /\ \A i \in 1..(d - p) : u[i] = w[p + i]
    <3>1. w \in Seq(Symbols) /\ p \in Nat /\ d \in 0..Len(w) /\ p <= d
      BY <1>2, <2>2 DEF Text
    <3> QED
      BY <2>3, <3>1, PartIs DEF Text
  <2>5. v \in Text /\ Len(v) = a - p /\ \A i \in 1..(a - p) : v[i] = w[p + i]
    <3>1. PICK b : b = a
      OBVIOUS
    <3>2. w \in Seq(Symbols) /\ p \in Nat /\ b \in 0..Len(w) /\ p <= b /\ v = Part(w, p, b)
      BY <1>2, <2>2, <2>3, <3>1 DEF Text
    <3>3. v \in Seq(Symbols) /\ Len(v) = b - p /\ \A i \in 1..(b - p) : v[i] = w[p + i]
      BY <3>2, PartIs
    <3> QED
      BY <3>1, <3>3 DEF Text
  <2>6. PICK n : SolidEnd(v, n) /\ TrimEnd(v) = Upto(v, n)
    BY <2>5, TrimEndIs
  <2>7. /\ n \in 0..(a - p) /\ n \in 0..(d - p) /\ n \in Nat
        /\ n # 0 => n \in 1..(a - p) /\ n \in 1..(d - p)
    BY <2>2, <2>5, <2>6 DEF SolidEnd
  <2>8. n # 0 => Solid(u[n])
    BY <2>4, <2>5, <2>6, <2>7 DEF SolidEnd
  <2>9. ASSUME NEW i \in (n + 1)..(d - p) PROVE ~Solid(u[i])
    <3>1. i \in 1..(d - p) /\ ((i \in (n + 1)..(a - p) /\ i \in 1..(a - p)) \/ p + i \in (a + 1)..q)
      BY <1>1, <1>2, <2>2, <2>7
    <3>2. u[i] = w[p + i]
      BY <2>4, <3>1
    <3>3. CASE i \in (n + 1)..(a - p) /\ i \in 1..(a - p)
      BY <2>5, <2>6, <3>2, <3>3 DEF SolidEnd
    <3>4. CASE p + i \in (a + 1)..q
      BY <1>1, <3>2, <3>4
    <3> QED
      BY <3>1, <3>3, <3>4
  <2>10. SolidEnd(u, n)
    BY <2>4, <2>7, <2>8, <2>9 DEF SolidEnd
  <2>11. TrimEnd(u) = Upto(u, n)
    BY <2>4, <2>10, TrimEndAt
  <2>12. Upto(u, n) = Part(w, p, p + n) /\ Upto(v, n) = Part(w, p, p + n)
    <3>1. Upto(u, n) = Part(u, 0, n) /\ Upto(v, n) = Part(v, 0, n)
      BY DEF Upto, Part
    <3>2. Part(Part(w, p, d), 0, n) = Part(w, p + 0, p + n)
      BY <1>2, <2>2, <2>7, PartOfPart DEF Text
    <3>3. Part(Part(w, p, a), 0, n) = Part(w, p + 0, p + n)
      BY <1>2, <2>2, <2>7, PartOfPart DEF Text
    <3>4. p + 0 = p
      BY <1>2
    <3> QED
      BY <2>3, <3>1, <3>2, <3>3, <3>4
  <2> QED
    BY <1>3, <2>1, <2>2, <2>3, <2>6, <2>11, <2>12
<1> QED
  BY <1>1, <1>4, <1>5

-----------------------------------------------------------------------------
(* What a request is made of.                                              *)
FieldSet == [name : Text, sep : {<<>>, <<":">>, <<":", " ">>}, value : Text]

LEMMA RequestTypes ==
  ASSUME NEW r \in Requests
  PROVE  /\ r.start \in Seq(Text) /\ Len(r.start) \in Nat \ {0}
         /\ \A i \in 1..Len(r.start) : /\ r.start[i] \in Text
                                        /\ \A j \in 1..Len(r.start[i]) : r.start[i][j] \notin White
         /\ r.fields \in Seq(FieldSet) /\ Len(r.fields) \in Nat
         /\ r.eol \in Eols /\ r.eol \in Text /\ Len(r.eol) \in 1..2
         /\ r.rest \in Text
<1>1. /\ r.start \in Seq(Text) /\ r.start # <<>> /\ r.fields \in Seq(FieldSet)
      /\ r.eol \in Eols /\ r.rest \in Text
      /\ \A i \in 1..Len(r.start) : ToSet(r.start[i]) \cap White = {}
  BY PeerAssumption DEF FieldSet, Eols
<1>2. Len(r.start) \in Nat \ {0} /\ Len(r.fields) \in Nat
  BY <1>1, EmptySeq, LenProperties
<1>3. r.eol \in Text /\ Len(r.eol) \in 1..2
  BY <1>1, EolIs
<1>4. ASSUME NEW i \in 1..Len(r.start)
      PROVE  r.start[i] \in Text /\ \A j \in 1..Len(r.start[i]) : r.start[i][j] \notin White
  <2>1. r.start[i] \in Text
    BY <1>1, ElementOfSeq
  <2>2. DOMAIN r.start[i] = 1..Len(r.start[i])
    BY <2>1, LenProperties DEF Text
  <2>3. \A j \in 1..Len(r.start[i]) : r.start[i][j] \in ToSet(r.start[i])
    BY <2>2 DEF ToSet
  <2> QED
    BY <1>1, <2>1, <2>3
<1> QED
  BY <1>1, <1>2, <1>3, <1>4

LEMMA FieldTypes ==
  ASSUME NEW r \in Requests, NEW i \in 1..Len(r.fields), NEW f, f = r.fields[i]
  PROVE  /\ f.name \in Text /\ f.sep \in Text /\ f.value \in Text
         /\ f.sep \in {<<>>, <<":">>, <<":", " ">>}
         /\ FieldLine(f) \in Text /\ Len(FieldLine(f)) \in Nat \ {0}
         /\ \A j \in 1..Len(FieldLine(f)) : FieldLine(f)[j] \notin {"CR", "LF"}
         /\ \A j \in 1..Len(f.name) : f.name[j] # ":"
         /\ f.sep = <<>> => \A j \in 1..Len(f.value) : f.value[j] # ":"
         /\ f.value # <<>> => f.value[1] # " "
<1>1. f \in FieldSet
  BY RequestTypes, ElementOfSeq
<1>2. f.name \in Text /\ f.value \in Text /\ f.sep \in {<<>>, <<":">>, <<":", " ">>}
  BY <1>1 DEF FieldSet
<1>3. f.sep \in Text
  <2>1. " " \in Symbols /\ ":" \in Symbols
    BY PeerAssumption
  <2>2. <<>> \in Seq(Symbols) /\ <<":">> \in Seq(Symbols) /\ <<":", " ">> \in Seq(Symbols)
    BY <2>1, EmptySeq, OfOne, OfTwo
  <2> QED
    BY <1>2, <2>2 DEF Text
<1>4. FieldLine(f) \in Text
  <2>1. f.name \o f.sep \in Text
    BY <1>2, <1>3, ConcatProperties DEF Text
  <2>2. (f.name \o f.sep) \o f.value \in Text
    BY <1>2, <2>1, ConcatProperties DEF Text
  <2> QED
    BY <2>2 DEF FieldLine
<1>5. /\ FieldLine(f) # <<>>
      /\ ToSet(FieldLine(f)) \cap {"CR", "LF"} = {}
      /\ ":" \notin ToSet(f.name)
      /\ f.sep = <<>> => ":" \notin ToSet(f.value)
      /\ f.value = <<>> \/ f.value[1] # " "
  BY PeerAssumption
<1>6. Len(FieldLine(f)) \in Nat \ {0}
  BY <1>4, <1>5, EmptySeq DEF Text
<1>7. ASSUME NEW t \in Text, NEW j \in 1..Len(t) PROVE t[j] \in ToSet(t)
  BY <1>7, LenProperties DEF Text, ToSet
<1>8. \A j \in 1..Len(FieldLine(f)) : FieldLine(f)[j] \notin {"CR", "LF"}
  <2>1. PICK t : t = FieldLine(f)
    OBVIOUS
  <2>2. \A j \in 1..Len(t) : t[j] \in ToSet(t)
    BY <1>4, <1>7, <2>1
  <2> QED
    BY <1>5, <2>1, <2>2
<1>9. \A j \in 1..Len(f.name) : f.name[j] # ":"
  BY <1>2, <1>5, <1>7
<1>10. f.sep = <<>> => \A j \in 1..Len(f.value) : f.value[j] # ":"
  BY <1>2, <1>5, <1>7
<1> QED
  BY <1>2, <1>3, <1>4, <1>5, <1>6, <1>8, <1>9, <1>10

-----------------------------------------------------------------------------
(* Where what a request is made of stands in it.                           *)
LEMMA AtJoin ==
  ASSUME NEW S, NEW s \in Seq(S), NEW t \in Seq(S)
  PROVE  /\ s \o t \in Seq(S) /\ Len(s \o t) = Len(s) + Len(t)
         /\ Len(s) \in Nat /\ Len(t) \in Nat
         /\ At(s \o t, 0, s) /\ At(s \o t, Len(s), t)
         /\ \A p \in Nat : \A u \in Seq(S) : At(s, p, u) => At(s \o t, p, u)
<1>1. PICK w : w = s \o t
  OBVIOUS
<1>2. /\ w \in Seq(S)
      /\ Len(s) \in Nat /\ Len(t) \in Nat /\ Len(w) = Len(s) + Len(t)
      /\ \A i \in 1..Len(s) : w[i] = s[i]
      /\ \A i \in 1..Len(t) : w[Len(s) + i] = t[i]
  BY <1>1, JoinAt
<1>3. At(w, 0, s)
  <2>1. 0 + Len(s) <= Len(w) /\ \A i \in 1..Len(s) : 0 + i = i
    BY <1>2
  <2> QED
    BY <1>2, <2>1 DEF At
<1>4. At(w, Len(s), t)
  BY <1>2 DEF At
<1>5. ASSUME NEW p \in Nat, NEW u \in Seq(S), At(s, p, u) PROVE At(w, p, u)
  <2>1. Len(u) \in Nat
    BY LenProperties
  <2>2. p + Len(u) <= Len(s) /\ \A i \in 1..Len(u) : s[p + i] = u[i]
    BY <1>5 DEF At
  <2>3. p + Len(u) <= Len(w) /\ \A i \in 1..Len(u) : p + i \in 1..Len(s)
    BY <1>2, <2>1, <2>2
  <2>4. \A i \in 1..Len(u) : w[p + i] = u[i]
    BY <1>2, <2>2, <2>3
  <2> QED
    BY <2>3, <2>4 DEF At
<1> QED
  BY <1>1, <1>2, <1>3, <1>4, <1>5

LEMMA AtAt ==
  ASSUME NEW S, NEW s \in Seq(S), NEW t \in Seq(S), NEW u \in Seq(S),
         NEW p \in Nat, NEW q \in Nat, At(s, p, t), At(t, q, u), NEW k, k = p + q
  PROVE  At(s, k, u)
<1>1. Len(s) \in Nat /\ Len(t) \in Nat /\ Len(u) \in Nat
  BY LenProperties
<1>2. /\ p + Len(t) <= Len(s) /\ \A i \in 1..Len(t) : s[p + i] = t[i]
      /\ q + Len(u) <= Len(t) /\ \A i \in 1..Len(u) : t[q + i] = u[i]
  BY DEF At
<1>3. k + Len(u) <= Len(s) /\ \A i \in 1..Len(u) : q + i \in 1..Len(t) /\ p + (q + i) = k + i
  BY <1>1, <1>2
<1>4. \A i \in 1..Len(u) : s[k + i] = u[i]
  BY <1>2, <1>3
<1> QED
  BY <1>3, <1>4 DEF At

LEMMA IsSeqOf ==
  ASSUME NEW S, NEW n \in Nat, NEW g, g = [i \in 1..n |-> g[i]], \A i \in 1..n : g[i] \in S
  PROVE  g \in Seq(S) /\ Len(g) = n
<1>1. g \in [1..n -> S]
  OBVIOUS
<1>2. g \in Seq(S) /\ DOMAIN g = 1..n
  BY <1>1
<1>3. Len(g) \in Nat /\ DOMAIN g = 1..Len(g)
  BY <1>2, LenProperties
<1> QED
  BY <1>2, <1>3

LinesOf(r) == [i \in 1..Len(r.fields) |-> FieldLine(r.fields[i]) \o r.eol]

LEMMA LinesAre ==
  ASSUME NEW r \in Requests
  PROVE  /\ LinesOf(r) \in Seq(Text) /\ Len(LinesOf(r)) = Len(r.fields)
         /\ \A i \in 1..Len(r.fields) : LinesOf(r)[i] = FieldLine(r.fields[i]) \o r.eol
         /\ \A n \in 0..Len(r.fields) : Lines(r, n) = FlattenSeq(SubSeq(LinesOf(r), 1, n))
<1>1. Len(r.fields) \in Nat /\ r.eol \in Text
  BY RequestTypes
<1>2. ASSUME NEW i \in 1..Len(r.fields) PROVE FieldLine(r.fields[i]) \o r.eol \in Text
  <2>1. FieldLine(r.fields[i]) \in Text
    BY FieldTypes
  <2> QED
    BY <1>1, <2>1, ConcatProperties DEF Text
<1>3. /\ LinesOf(r) \in Seq(Text) /\ Len(LinesOf(r)) = Len(r.fields)
      /\ \A i \in 1..Len(r.fields) : LinesOf(r)[i] = FieldLine(r.fields[i]) \o r.eol
  <2>1. PICK n : n = Len(r.fields)
    OBVIOUS
  <2>2. n \in Nat /\ \A i \in 1..n : FieldLine(r.fields[i]) \o r.eol \in Text
    BY <1>1, <1>2, <2>1
  <2>3. PICK g : g = LinesOf(r)
    OBVIOUS
  <2>4. g = [i \in 1..n |-> g[i]] /\ \A i \in 1..n : g[i] = FieldLine(r.fields[i]) \o r.eol
    BY <2>1, <2>3 DEF LinesOf
  <2>5. \A i \in 1..n : g[i] \in Text
    BY <2>2, <2>4
  <2>6. g \in Seq(Text) /\ Len(g) = n
    BY <2>2, <2>4, <2>5, IsSeqOf
  <2> QED
    BY <2>1, <2>3, <2>4, <2>6
<1>4. ASSUME NEW n \in 0..Len(r.fields) PROVE Lines(r, n) = FlattenSeq(SubSeq(LinesOf(r), 1, n))
  <2>1. PICK t : t = SubSeq(LinesOf(r), 1, n)
    OBVIOUS
  <2>2. t \in Seq(Text) /\ Len(t) = n /\ \A i \in 1..n : t[i] = LinesOf(r)[i]
    BY <1>3, <2>1, FirstOf
  <2>3. \A i \in 1..n : i \in 1..Len(r.fields)
    BY <1>1
  <2>4. \A i \in 1..n : t[i] = FieldLine(r.fields[i]) \o r.eol
    BY <1>3, <2>2, <2>3
  <2>5. t = [i \in 1..n |-> t[i]]
    BY <2>2, LenProperties
  <2>6. t = [i \in 1..n |-> FieldLine(r.fields[i]) \o r.eol]
    BY <2>4, <2>5
  <2> QED
    BY <2>1, <2>6 DEF Lines
<1> QED
  BY <1>3, <1>4

SpacedOf(r) == [i \in 1..Len(r.start) |-> Append(r.start[i], " ")]

LEMMA SpacedAre ==
  ASSUME NEW r \in Requests
  PROVE  /\ SpacedOf(r) \in Seq(Text) /\ Len(SpacedOf(r)) = Len(r.start)
         /\ \A i \in 1..Len(r.start) : SpacedOf(r)[i] = Append(r.start[i], " ")
         /\ \A n \in 0..Len(r.start) :
              Spaced(Upto(r.start, n)) = FlattenSeq(SubSeq(SpacedOf(r), 1, n))
         /\ Spaced(r.start) = FlattenSeq(SubSeq(SpacedOf(r), 1, Len(r.start)))
<1>1. Len(r.start) \in Nat /\ r.start \in Seq(Text) /\ \A i \in 1..Len(r.start) : r.start[i] \in Text
  BY RequestTypes
<1>2. ASSUME NEW i \in 1..Len(r.start) PROVE Append(r.start[i], " ") \in Text
  <2>1. " " \in Symbols /\ r.start[i] \in Text
    BY <1>1, PeerAssumption
  <2> QED
    BY <2>1, AppendProperties DEF Text
<1>3. /\ SpacedOf(r) \in Seq(Text) /\ Len(SpacedOf(r)) = Len(r.start)
      /\ \A i \in 1..Len(r.start) : SpacedOf(r)[i] = Append(r.start[i], " ")
  <2>1. PICK n : n = Len(r.start)
    OBVIOUS
  <2>2. n \in Nat /\ \A i \in 1..n : Append(r.start[i], " ") \in Text
    BY <1>1, <1>2, <2>1
  <2>3. PICK g : g = SpacedOf(r)
    OBVIOUS
  <2>4. g = [i \in 1..n |-> g[i]] /\ \A i \in 1..n : g[i] = Append(r.start[i], " ")
    BY <2>1, <2>3 DEF SpacedOf
  <2>5. \A i \in 1..n : g[i] \in Text
    BY <2>2, <2>4
  <2>6. g \in Seq(Text) /\ Len(g) = n
    BY <2>2, <2>4, <2>5, IsSeqOf
  <2> QED
    BY <2>1, <2>3, <2>4, <2>6
<1>4. ASSUME NEW n \in 0..Len(r.start), NEW s, s \in Seq(Text), Len(s) = n,
             \A i \in 1..n : s[i] = r.start[i]
      PROVE  Spaced(s) = FlattenSeq(SubSeq(SpacedOf(r), 1, n))
  <2>1. PICK t : t = SubSeq(SpacedOf(r), 1, n)
    OBVIOUS
  <2>2. t \in Seq(Text) /\ Len(t) = n /\ \A i \in 1..n : t[i] = SpacedOf(r)[i]
    BY <1>3, <2>1, FirstOf
  <2>3. \A i \in 1..n : i \in 1..Len(r.start)
    BY <1>1
  <2>4. \A i \in 1..n : t[i] = Append(s[i], " ")
    BY <1>3, <1>4, <2>2, <2>3
  <2>5. t = [i \in 1..n |-> t[i]]
    BY <2>2, LenProperties
  <2>6. t = [i \in 1..Len(s) |-> Append(s[i], " ")]
    BY <1>4, <2>4, <2>5
  <2> QED
    BY <2>1, <2>6 DEF Spaced
<1>5. ASSUME NEW n \in 0..Len(r.start)
      PROVE  Spaced(Upto(r.start, n)) = FlattenSeq(SubSeq(SpacedOf(r), 1, n))
  <2>1. PICK s : s = Upto(r.start, n)
    OBVIOUS
  <2>2. s \in Seq(Text) /\ Len(s) = n /\ \A i \in 1..n : s[i] = r.start[i]
    BY <1>1, <2>1, FirstOf DEF Upto
  <2> QED
    BY <1>4, <2>1, <2>2
<1>6. Spaced(r.start) = FlattenSeq(SubSeq(SpacedOf(r), 1, Len(r.start)))
  <2>1. Len(r.start) \in 0..Len(r.start)
    BY <1>1
  <2> QED
    BY <1>1, <1>4, <2>1
<1> QED
  BY <1>3, <1>5, <1>6

(* The words of the first line, one blank between two.                     *)
WordsPlaced(r, w, m) ==
  /\ w \in Text /\ m \in Nat \ {0}
  /\ \A i \in 1..m : WordAt(r, i) \in Nat /\ Len(r.start[i]) \in Nat /\ At(w, WordAt(r, i), r.start[i])
  /\ WordAt(r, 1) = 0
  /\ \A i \in 1..(m - 1) : WordAt(r, i + 1) = WordAt(r, i) + Len(r.start[i]) + 1
  /\ \A i \in 2..m : w[WordAt(r, i)] = " "
  /\ \A i, j \in 1..m : i <= j => WordAt(r, i) <= WordAt(r, j)
  /\ \A p \in 1..Len(w) : \E i \in 1..m :
       /\ WordAt(r, i) < p
       /\ p <= WordAt(r, i) + Len(r.start[i]) \/ (i < m /\ p = WordAt(r, i + 1))

LEMMA WordsAre ==
  ASSUME NEW r \in Requests
  PROVE  WordsPlaced(r, Words(r.start), Len(r.start))
<1> DEFINE m == Len(r.start)
           s == SpacedOf(r)
           w == Words(r.start)
<1>1. /\ r.start \in Seq(Text) /\ m \in Nat \ {0}
      /\ \A i \in 1..m : r.start[i] \in Text
  BY RequestTypes
<1>2. s \in Seq(Text) /\ Len(s) = m /\ \A i \in 1..m : s[i] = Append(r.start[i], " ")
  BY SpacedAre
<1>3. PICK f : Pieces(Symbols, s, f)
  BY <1>2, PiecesExist DEF Text
<1>4. /\ \A i \in 0..m : FlattenSeq(SubSeq(s, 1, i)) = f[i] /\ Len(f[i]) \in Nat
      /\ \A i \in 1..m : Len(f[i]) = Len(f[i - 1]) + Len(s[i])
      /\ \A i, j \in 0..m : i <= j => Len(f[i]) <= Len(f[j])
      /\ \A i, j \in 1..m : i <= j => At(f[j], Len(f[i - 1]), s[i])
      /\ \A j \in 0..m : \A p \in 1..Len(f[j]) : \E i \in 1..j : Len(f[i - 1]) < p /\ p <= Len(f[i])
      /\ \A i \in 0..m : f[i] \in Seq(Symbols)
      /\ f[0] = <<>>
  BY <1>2, <1>3 DEF Pieces, Sums
<1>5. ASSUME NEW i \in 1..m
      PROVE  /\ Len(r.start[i]) \in Nat /\ Len(s[i]) = Len(r.start[i]) + 1
             /\ \A k \in 1..Len(r.start[i]) : s[i][k] = r.start[i][k]
             /\ s[i][Len(r.start[i]) + 1] = " "
             /\ WordAt(r, i) = Len(f[i - 1]) /\ WordAt(r, i) \in Nat
             /\ Len(f[i]) = WordAt(r, i) + Len(r.start[i]) + 1
  <2>1. " " \in Symbols /\ r.start[i] \in Seq(Symbols)
    BY <1>1, PeerAssumption DEF Text
  <2>2. PICK t : t = r.start[i]
    OBVIOUS
  <2>3. Len(t) \in Nat /\ Len(Append(t, " ")) = Len(t) + 1
        /\ (\A k \in 1..Len(t) : Append(t, " ")[k] = t[k]) /\ Append(t, " ")[Len(t) + 1] = " "
    <3>1. t \in Seq(Symbols)
      BY <2>1, <2>2
    <3>2. PICK b : b = " "
      OBVIOUS
    <3>3. b \in Symbols
      BY <2>1, <3>2
    <3>4. Len(t) \in Nat
      BY <3>1, LenProperties
    <3>5. /\ Len(Append(t, b)) = Len(t) + 1
          /\ \A k \in 1..Len(t) : Append(t, b)[k] = t[k]
          /\ Append(t, b)[Len(t) + 1] = b
      BY <3>1, <3>3, AppendProperties
    <3> QED
      BY <3>2, <3>4, <3>5
  <2>4. i - 1 \in 0..m
    BY <1>1
  <2>5. WordAt(r, i) = Len(f[i - 1]) /\ Len(f[i - 1]) \in Nat
    BY <1>4, <2>4, SpacedAre DEF WordAt
  <2>6. Len(f[i]) = Len(f[i - 1]) + Len(s[i])
    BY <1>4
  <2>7. Len(s[i]) = Len(t) + 1
    BY <1>2, <2>2, <2>3
  <2>8. \A x, y, z, l \in Nat : z = l + 1 => x + z = x + l + 1
    OBVIOUS
  <2>9. Len(s[i]) \in Nat
    <3>1. \A x \in Nat : x + 1 \in Nat
      OBVIOUS
    <3> QED
      BY <2>3, <2>7, <3>1
  <2>10. Len(f[i]) = WordAt(r, i) + Len(t) + 1
    <3>1. Len(t) \in Nat /\ Len(f[i - 1]) \in Nat
      BY <2>3, <2>5
    <3>2. Len(f[i - 1]) + Len(s[i]) = Len(f[i - 1]) + Len(t) + 1
      BY <2>7, <2>8, <2>9, <3>1
    <3> QED
      BY <2>5, <2>6, <3>2
  <2> QED
    BY <1>2, <2>2, <2>3, <2>5, <2>7, <2>10
<1>6. PICK e : e = f[m]
  OBVIOUS
<1>7. /\ e \in Seq(Symbols) /\ Len(e) \in Nat /\ Len(e) > 0 /\ w = SubSeq(e, 1, Len(e) - 1)
      /\ Len(e) = WordAt(r, m) + Len(r.start[m]) + 1
  <2>1. m \in 0..m /\ m \in 1..m
    BY <1>1
  <2>2. e \in Seq(Symbols) /\ Len(e) \in Nat /\ Len(e) = WordAt(r, m) + Len(r.start[m]) + 1
    BY <1>4, <1>5, <1>6, <2>1
  <2>3. WordAt(r, m) \in Nat /\ Len(r.start[m]) \in Nat
    BY <1>5, <2>1
  <2>4. Spaced(r.start) = e
    BY <1>4, <1>6, <2>1, SpacedAre
  <2>5. w = SubSeq(e, 1, Len(e) - 1)
    BY <2>4 DEF Words, Front
  <2> QED
    BY <2>2, <2>3, <2>5
<1>8. w \in Text /\ Len(w) = Len(e) - 1 /\ \A k \in 1..(Len(e) - 1) : w[k] = e[k]
  <2>1. Len(e) - 1 \in 0..Len(e)
    BY <1>7
  <2> QED
    BY <1>7, <2>1, FirstOf DEF Text
<1>9. ASSUME NEW i \in 1..m
      PROVE  /\ WordAt(r, i) + Len(r.start[i]) + 1 <= Len(e)
             /\ \A k \in 1..Len(r.start[i]) : e[WordAt(r, i) + k] = r.start[i][k]
             /\ e[WordAt(r, i) + Len(r.start[i]) + 1] = " "
  <2>1. m \in 1..m /\ i <= m /\ i \in 0..m /\ m \in 0..m
    BY <1>1
  <2>2. At(e, WordAt(r, i), s[i])
    BY <1>4, <1>5, <1>6, <2>1
  <2>3. PICK a, l : a = WordAt(r, i) /\ l = Len(r.start[i])
    OBVIOUS
  <2>4. a \in Nat /\ l \in Nat /\ Len(s[i]) = l + 1 /\ (\A k \in 1..l : s[i][k] = r.start[i][k]) /\ s[i][l + 1] = " "
    BY <1>5, <2>3
  <2>5. a + (l + 1) <= Len(e) /\ \A k \in 1..(l + 1) : e[a + k] = s[i][k]
    BY <2>2, <2>3, <2>4 DEF At
  <2>6. /\ a + l + 1 = a + (l + 1) /\ l + 1 \in 1..(l + 1)
        /\ \A k \in 1..l : k \in 1..(l + 1)
    <3>1. \A x, y \in Nat : /\ x + y + 1 = x + (y + 1) /\ y + 1 \in 1..(y + 1)
                            /\ \A k \in 1..y : k \in 1..(y + 1)
      OBVIOUS
    <3>2. a \in Nat /\ l \in Nat
      BY <2>4
    <3> QED
      BY <3>1, <3>2
  <2> QED
    BY <2>3, <2>4, <2>5, <2>6
<1>10. ASSUME NEW i \in 1..m PROVE At(w, WordAt(r, i), r.start[i])
  <2>1. PICK a, l : a = WordAt(r, i) /\ l = Len(r.start[i])
    OBVIOUS
  <2>2. a \in Nat /\ l \in Nat /\ a + l + 1 <= Len(e) /\ \A k \in 1..l : e[a + k] = r.start[i][k]
    BY <1>5, <1>9, <2>1
  <2>3. a + l <= Len(w) /\ \A k \in 1..l : a + k \in 1..(Len(e) - 1)
    BY <1>7, <1>8, <2>2
  <2>4. \A k \in 1..l : w[a + k] = r.start[i][k]
    BY <1>8, <2>2, <2>3
  <2> QED
    BY <2>1, <2>3, <2>4 DEF At
<1>11. ASSUME NEW i \in 1..(m - 1)
       PROVE  /\ i \in 1..m /\ i + 1 \in 1..m /\ i + 1 \in 2..m
              /\ WordAt(r, i + 1) = WordAt(r, i) + Len(r.start[i]) + 1
              /\ WordAt(r, i + 1) = Len(f[i])
              /\ w[WordAt(r, i + 1)] = " "
  <2>1. i \in 1..m /\ i + 1 \in 1..m /\ i + 1 \in 2..m /\ (i + 1) - 1 = i
    BY <1>1
  <2>2. WordAt(r, i + 1) = Len(f[i]) /\ Len(f[i]) = WordAt(r, i) + Len(r.start[i]) + 1
    BY <1>5, <2>1
  <2>3. WordAt(r, i + 1) + Len(r.start[i + 1]) + 1 <= Len(e)
    BY <1>9, <2>1
  <2>4. PICK a, l, c, d : a = WordAt(r, i) /\ l = Len(r.start[i]) /\ c = WordAt(r, i + 1) /\ d = Len(r.start[i + 1])
    OBVIOUS
  <2>5. a \in Nat /\ l \in Nat /\ c \in Nat /\ d \in Nat /\ c = a + l + 1 /\ c + d + 1 <= Len(e)
    BY <1>5, <2>1, <2>2, <2>3, <2>4
  <2>6. c \in 1..(Len(e) - 1)
    BY <1>7, <2>5
  <2>7. w[c] = e[c] /\ e[c] = " "
    BY <1>8, <1>9, <2>1, <2>4, <2>5, <2>6
  <2> QED
    BY <2>1, <2>2, <2>4, <2>7
<1>12. \A i \in 2..m : w[WordAt(r, i)] = " "
  <2> SUFFICES ASSUME NEW i \in 2..m PROVE w[WordAt(r, i)] = " "
    OBVIOUS
  <2>1. PICK k : k = i - 1
    OBVIOUS
  <2>2. k \in 1..(m - 1) /\ k + 1 = i
    BY <1>1, <2>1
  <2> QED
    BY <1>11, <2>2
<1>13. ASSUME NEW i \in 1..m, NEW j \in 1..m, i <= j PROVE WordAt(r, i) <= WordAt(r, j)
  <2>1. i - 1 \in 0..m /\ j - 1 \in 0..m /\ i - 1 <= j - 1
    BY <1>1, <1>13
  <2> QED
    BY <1>4, <1>5, <2>1
<1>14. ASSUME NEW p \in 1..Len(w)
       PROVE  \E i \in 1..m :
                /\ WordAt(r, i) < p
                /\ p <= WordAt(r, i) + Len(r.start[i]) \/ (i < m /\ p = WordAt(r, i + 1))
  <2>1. p \in 1..Len(e) /\ p <= Len(e) - 1 /\ m \in 0..m
    BY <1>1, <1>7, <1>8
  <2>2. PICK i \in 1..m : Len(f[i - 1]) < p /\ p <= Len(f[i])
    BY <1>4, <1>6, <2>1
  <2>3. PICK a, l : a = WordAt(r, i) /\ l = Len(r.start[i])
    OBVIOUS
  <2>4. a \in Nat /\ l \in Nat /\ a < p /\ p <= a + l + 1 /\ p \in Nat
    <3>1. p \in Nat
      BY <1>7, <2>1
    <3>2. a \in Nat /\ l \in Nat /\ Len(f[i - 1]) = a /\ Len(f[i]) = a + l + 1
      BY <1>5, <2>3
    <3> QED
      BY <2>2, <3>1, <3>2
  <2>5. CASE p <= a + l
    BY <2>3, <2>4, <2>5
  <2>6. CASE p = a + l + 1
    <3>1. i # m
      BY <1>7, <2>1, <2>3, <2>6
    <3>2. i \in 1..(m - 1) /\ i < m
      BY <1>1, <3>1
    <3>3. WordAt(r, i + 1) = p
      BY <1>11, <2>3, <2>6, <3>2
    <3> QED
      BY <2>3, <2>4, <3>2, <3>3
  <2> QED
    BY <2>4, <2>5, <2>6
<1>15. WordAt(r, 1) = 0
  <2>1. 1 \in 1..m /\ 1 - 1 = 0
    BY <1>1
  <2>2. Len(f[0]) = 0
    BY <1>4, EmptySeq
  <2> QED
    BY <1>5, <2>1, <2>2
<1> HIDE DEF w
<1>16. \A i \in 1..m : WordAt(r, i) \in Nat /\ Len(r.start[i]) \in Nat /\ At(w, WordAt(r, i), r.start[i])
  BY <1>5, <1>10
<1>17. \A i \in 1..(m - 1) : WordAt(r, i + 1) = WordAt(r, i) + Len(r.start[i]) + 1
  BY <1>11
<1>18. WordsPlaced(r, w, m)
  BY <1>1, <1>8, <1>12, <1>13, <1>14, <1>15, <1>16, <1>17 DEF WordsPlaced
<1> QED
  BY <1>18 DEF w

LEMMA LineFrom ==
  ASSUME NEW w \in Text, NEW p \in Nat, NEW t \in Text, NEW e \in Eols, At(w, p, t \o e),
         \A i \in 1..Len(t) : t[i] \notin {"CR", "LF"}
  PROVE  LineAt(w, p, t, e)
<1>1. e \in Text
  BY EolIs
<1>2. PICK u : u = t \o e
  OBVIOUS
<1>3. u \in Text /\ Len(t) \in Nat /\ At(u, 0, t) /\ At(u, Len(t), e) /\ At(w, p, u)
  BY <1>1, <1>2, AtJoin DEF Text
<1>4. At(w, p, t)
  <2>1. p = p + 0 /\ 0 \in Nat
    OBVIOUS
  <2> QED
    BY <1>3, <2>1, AtAt DEF Text
<1>5. At(w, p + Len(t), e)
  BY <1>1, <1>3, AtAt DEF Text
<1> QED
  BY <1>4, <1>5 DEF LineAt

(* The lines of a request.                                                 *)
Placed(r, w, n) ==
  /\ w \in Text /\ Len(w) \in Nat /\ r.eof \in 0..Len(w) /\ n \in Nat
  /\ LineAt(w, 0, Words(r.start), r.eol)
  /\ Begins(r, 1) = Len(Words(r.start)) + Len(r.eol)
  /\ \A i \in 1..(n + 1) : Begins(r, i) \in Nat
  /\ \A i \in 1..n : /\ LineAt(w, Begins(r, i), FieldLine(r.fields[i]), r.eol)
                      /\ Begins(r, i + 1) = Begins(r, i) + Len(FieldLine(r.fields[i])) + Len(r.eol)
  /\ \A i, j \in 1..(n + 1) : i <= j => Begins(r, i) <= Begins(r, j)
  /\ LineAt(w, Begins(r, n + 1), <<>>, r.eol)
  /\ Len(HeadOf(r)) = Begins(r, n + 1) + Len(r.eol)

LEMMA RequestPlaced ==
  ASSUME NEW r \in Requests
  PROVE  Placed(r, Wire(r), Len(r.fields))
<1> DEFINE n == Len(r.fields)
           ls == LinesOf(r)
<1>1. PICK d, e, l : d = Words(r.start) /\ e = r.eol /\ l = Lines(r, n)
  OBVIOUS
<1>2. /\ n \in Nat /\ e \in Eols /\ e \in Text /\ Len(e) \in 1..2 /\ r.rest \in Text
      /\ WordsPlaced(r, d, Len(r.start))
      /\ \A i \in 1..Len(r.start) : \A j \in 1..Len(r.start[i]) : r.start[i][j] \notin White
  BY <1>1, RequestTypes, WordsAre
<1>3. /\ ls \in Seq(Text) /\ Len(ls) = n
      /\ \A i \in 1..n : ls[i] = FieldLine(r.fields[i]) \o e
      /\ \A i \in 0..n : Lines(r, i) = FlattenSeq(SubSeq(ls, 1, i))
  BY <1>1, LinesAre
<1>4. PICK f : Pieces(Symbols, ls, f)
  BY <1>3, PiecesExist DEF Text
<1>5. /\ \A i \in 0..n : Lines(r, i) = f[i] /\ Len(f[i]) \in Nat /\ f[i] \in Text
      /\ \A i \in 1..n : Len(f[i]) = Len(f[i - 1]) + Len(ls[i])
      /\ \A i, j \in 0..n : i <= j => Len(f[i]) <= Len(f[j])
      /\ \A i, j \in 1..n : i <= j => At(f[j], Len(f[i - 1]), ls[i])
      /\ f[0] = <<>>
  BY <1>3, <1>4 DEF Pieces, Sums, Text
<1>6. l \in Text /\ l = f[n] /\ n \in 0..n
  BY <1>1, <1>2, <1>5
<1>7. d \in Text
  BY <1>2 DEF WordsPlaced
<1>8. PICK a : a = d \o e
  OBVIOUS
<1>9. a \in Text /\ Len(a) = Len(d) + Len(e) /\ Len(a) \in Nat /\ At(a, 0, d) /\ At(a, Len(d), e)
      /\ Len(d) \in Nat
  <2>1. Len(a) \in Nat
    BY <1>2, <1>7, <1>8, ConcatProperties, LenProperties DEF Text
  <2> QED
    BY <1>2, <1>7, <1>8, <2>1, AtJoin DEF Text
<1>10. PICK b : b = a \o l
  OBVIOUS
<1>11. /\ b \in Text /\ Len(b) = Len(a) + Len(l) /\ Len(b) \in Nat /\ At(b, 0, a) /\ At(b, Len(a), l)
       /\ Len(l) \in Nat
  <2>1. b \in Text
    BY <1>6, <1>9, <1>10, ConcatProperties DEF Text
  <2>2. Len(b) \in Nat
    BY <2>1, LenProperties DEF Text
  <2> QED
    BY <1>6, <1>9, <1>10, <2>1, <2>2, AtJoin DEF Text
<1>12. PICK h : h = b \o e
  OBVIOUS
<1>13. h \in Text /\ Len(h) = Len(b) + Len(e) /\ At(h, 0, b) /\ At(h, Len(b), e) /\ Len(h) \in Nat
  <2>1. h \in Text
    BY <1>2, <1>11, <1>12, ConcatProperties DEF Text
  <2>2. Len(h) \in Nat
    BY <2>1, LenProperties DEF Text
  <2> QED
    BY <1>2, <1>11, <1>12, <2>1, <2>2, AtJoin DEF Text
<1>14. PICK w : w = h \o r.rest
  OBVIOUS
<1>15. w \in Text /\ At(w, 0, h) /\ Len(w) \in Nat
  <2>1. w \in Text
    BY <1>2, <1>13, <1>14, ConcatProperties DEF Text
  <2>2. Len(w) \in Nat
    BY <2>1, LenProperties DEF Text
  <2> QED
    BY <1>2, <1>13, <1>14, <2>1, <2>2, AtJoin DEF Text
<1>16. h = HeadOf(r) /\ w = Wire(r)
  BY <1>1, <1>8, <1>10, <1>12, <1>14 DEF HeadOf, Wire
<1>17. r.eof \in 0..Len(w)
  BY <1>16, PeerAssumption
<1>18. ASSUME NEW p \in Nat, NEW u \in Text, At(b, p, u) PROVE At(w, p, u)
  <2>1. p = 0 + p /\ 0 \in Nat
    OBVIOUS
  <2>2. At(h, p, u)
    BY <1>11, <1>13, <1>18, <2>1, AtAt DEF Text
  <2> QED
    BY <1>13, <1>15, <2>1, <2>2, AtAt DEF Text
<1>19. At(w, 0, d \o e)
  BY <1>8, <1>9, <1>11, <1>18
<1>20. ASSUME NEW j \in 1..Len(d) PROVE d[j] \notin {"CR", "LF"}
  <2>1. PICK i \in 1..Len(r.start) :
          /\ WordAt(r, i) < j
          /\ j <= WordAt(r, i) + Len(r.start[i]) \/ (i < Len(r.start) /\ j = WordAt(r, i + 1))
    BY <1>2 DEF WordsPlaced
  <2>2. /\ WordAt(r, i) \in Nat /\ Len(r.start[i]) \in Nat /\ Len(r.start) \in Nat
        /\ At(d, WordAt(r, i), r.start[i]) /\ j \in Nat
    <3>1. j \in Nat
      BY <1>9
    <3>2. Len(r.start) \in Nat
      BY <1>2 DEF WordsPlaced
    <3>3. WordAt(r, i) \in Nat /\ Len(r.start[i]) \in Nat /\ At(d, WordAt(r, i), r.start[i])
      BY <1>2 DEF WordsPlaced
    <3> QED
      BY <3>1, <3>2, <3>3
  <2>3. CASE j <= WordAt(r, i) + Len(r.start[i])
    <3>1. PICK k : k = j - WordAt(r, i)
      OBVIOUS
    <3>2. k \in 1..Len(r.start[i]) /\ WordAt(r, i) + k = j
      BY <2>1, <2>2, <2>3, <3>1
    <3>3. d[j] = r.start[i][k]
      BY <2>2, <3>2 DEF At
    <3>4. d[j] \notin White
      BY <1>2, <3>2, <3>3
    <3> QED
      BY <3>4 DEF White
  <2>4. CASE i < Len(r.start) /\ j = WordAt(r, i + 1)
    <3>1. i + 1 \in 2..Len(r.start)
      BY <2>2, <2>4
    <3>2. d[j] = " "
      BY <1>2, <2>4, <3>1 DEF WordsPlaced
    <3> QED
      BY <3>2
  <2> QED
    BY <2>1, <2>3, <2>4
<1>21. LineAt(w, 0, d, e)
  BY <1>2, <1>7, <1>15, <1>19, <1>20, LineFrom
<1>22. ASSUME NEW i \in 1..(n + 1)
       PROVE  i - 1 \in 0..n /\ Begins(r, i) = Len(a) + Len(f[i - 1]) /\ Begins(r, i) \in Nat
  <2>1. i - 1 \in 0..n
    BY <1>2
  <2>2. Begins(r, i) = Len(a) + Len(f[i - 1])
    BY <1>1, <1>5, <1>8, <2>1 DEF Begins
  <2>3. Len(f[i - 1]) \in Nat
    BY <1>5, <2>1
  <2>4. \A x, y \in Nat : x + y \in Nat
    OBVIOUS
  <2>5. Len(a) + Len(f[i - 1]) \in Nat
    BY <1>9, <2>3, <2>4
  <2> QED
    BY <2>1, <2>2, <2>5
<1>23. ASSUME NEW i \in 1..n
       PROVE  /\ LineAt(w, Begins(r, i), FieldLine(r.fields[i]), e)
              /\ Begins(r, i + 1) = Begins(r, i) + Len(FieldLine(r.fields[i])) + Len(e)
  <2>1. PICK t : t = FieldLine(r.fields[i])
    OBVIOUS
  <2>2. /\ t \in Text /\ Len(t) \in Nat
        /\ \A j \in 1..Len(t) : t[j] \notin {"CR", "LF"}
    BY <2>1, FieldTypes
  <2>3. i \in 1..(n + 1) /\ i + 1 \in 1..(n + 1) /\ (i + 1) - 1 = i /\ n \in 1..n /\ i <= n /\ i - 1 \in 0..n
    BY <1>2
  <2>4. /\ Begins(r, i) = Len(a) + Len(f[i - 1]) /\ Begins(r, i) \in Nat
        /\ Begins(r, i + 1) = Len(a) + Len(f[i])
        /\ Len(f[i - 1]) \in Nat
    BY <1>5, <1>22, <2>3
  <2>5. ls[i] = t \o e /\ ls[i] \in Text /\ Len(ls[i]) = Len(t) + Len(e)
    <3>1. ls[i] = t \o e
      BY <1>3, <2>1
    <3>2. t \o e \in Text /\ Len(t \o e) = Len(t) + Len(e)
      BY <1>2, <2>2, ConcatProperties DEF Text
    <3> QED
      BY <3>1, <3>2
  <2>6. At(l, Len(f[i - 1]), ls[i])
    BY <1>5, <1>6, <2>3
  <2>7. At(b, Begins(r, i), ls[i])
    <3>1. PICK x, y, z, u : x = Len(a) /\ y = Len(f[i - 1]) /\ z = Begins(r, i) /\ u = ls[i]
      OBVIOUS
    <3>2. x \in Nat /\ y \in Nat /\ z = x + y /\ u \in Text /\ At(l, y, u) /\ At(b, x, l)
      BY <1>9, <1>11, <2>4, <2>5, <2>6, <3>1
    <3>3. At(b, z, u)
      BY <1>6, <1>11, <3>2, AtAt DEF Text
    <3> QED
      BY <3>1, <3>3
  <2>8. At(w, Begins(r, i), t \o e)
    BY <1>18, <2>4, <2>5, <2>7
  <2>9. LineAt(w, Begins(r, i), t, e)
    BY <1>2, <1>15, <2>2, <2>4, <2>8, LineFrom
  <2>10. Len(f[i]) = Len(f[i - 1]) + Len(ls[i])
    BY <1>5
  <2>11. \A x, y, z, v \in Nat : x + (y + (z + v)) = (x + y) + z + v
    OBVIOUS
  <2>12. Len(a) \in Nat /\ Len(e) \in Nat
    BY <1>2, <1>9
  <2>13. Begins(r, i + 1) = Begins(r, i) + Len(t) + Len(e)
    <3>1. PICK x, y, z, v : x = Len(a) /\ y = Len(f[i - 1]) /\ z = Len(t) /\ v = Len(e)
      OBVIOUS
    <3>2. x \in Nat /\ y \in Nat /\ z \in Nat /\ v \in Nat
      BY <2>2, <2>4, <2>12, <3>1
    <3>3. x + (y + (z + v)) = (x + y) + z + v
      BY <2>11, <3>2
    <3>4. Begins(r, i + 1) = x + (y + (z + v)) /\ Begins(r, i) = x + y
      BY <2>4, <2>5, <2>10, <3>1
    <3> QED
      BY <3>1, <3>3, <3>4
  <2> QED
    BY <2>1, <2>9, <2>13
<1>24. ASSUME NEW i \in 1..(n + 1), NEW j \in 1..(n + 1), i <= j PROVE Begins(r, i) <= Begins(r, j)
  <2>1. i - 1 \in 0..n /\ j - 1 \in 0..n /\ i - 1 <= j - 1
    BY <1>2, <1>24
  <2>2. Len(f[i - 1]) <= Len(f[j - 1]) /\ Len(f[i - 1]) \in Nat /\ Len(f[j - 1]) \in Nat
    BY <1>5, <2>1
  <2>3. \A x, y, z \in Nat : y <= z => x + y <= x + z
    OBVIOUS
  <2>4. Len(a) + Len(f[i - 1]) <= Len(a) + Len(f[j - 1])
    BY <1>9, <2>2, <2>3
  <2> QED
    BY <1>22, <2>4
<1>25. Begins(r, n + 1) = Len(b) /\ Len(h) = Begins(r, n + 1) + Len(e)
  <2>1. n + 1 \in 1..(n + 1) /\ (n + 1) - 1 = n
    BY <1>2
  <2> QED
    BY <1>6, <1>11, <1>13, <1>22, <2>1
<1>26. LineAt(w, Begins(r, n + 1), <<>>, e)
  <2>1. <<>> \in Text /\ Len(<<>>) = 0 /\ <<>> \o e = e
    BY <1>2, EmptySeq, ConcatEmptySeq DEF Text
  <2>2. At(h, Begins(r, n + 1), e) /\ Begins(r, n + 1) \in Nat
    BY <1>11, <1>13, <1>25
  <2>3. Begins(r, n + 1) = 0 + Begins(r, n + 1) /\ 0 \in Nat
    BY <2>2
  <2>4. At(w, Begins(r, n + 1), e)
    BY <1>2, <1>13, <1>15, <2>2, <2>3, AtAt DEF Text
  <2>5. \A i \in 1..0 : <<>>[i] \notin {"CR", "LF"}
    OBVIOUS
  <2> QED
    BY <1>2, <1>15, <2>1, <2>2, <2>4, <2>5, LineFrom
<1>27. Begins(r, 1) = Len(d) + Len(e)
  <2>1. 1 \in 1..(n + 1) /\ 1 - 1 = 0
    BY <1>2
  <2>2. Len(f[0]) = 0
    BY <1>5, EmptySeq
  <2>3. Begins(r, 1) = Len(a) + Len(f[0])
    BY <1>22, <2>1
  <2>4. Len(a) + 0 = Len(a)
    BY <1>9
  <2> QED
    BY <1>9, <2>2, <2>3, <2>4
<1>28. Placed(r, w, n)
  BY <1>1, <1>2, <1>15, <1>16, <1>17, <1>21, <1>22, <1>23, <1>24, <1>25, <1>26, <1>27 DEF Placed
<1> QED
  BY <1>16, <1>28

-----------------------------------------------------------------------------

(***************************************************************************)
(* A text that is split at its blanks: the words, and where they begin.    *)
(***************************************************************************)
SplitAt(s, a, d, p) ==
  \/ \E i \in 2..d : p = a[i]
  \/ s[p] # " " /\ \E i \in 1..d : a[i] < p /\ p < a[i + 1]

Split(s, ws, a, d) ==
  /\ s \in Text /\ Len(s) \in Nat /\ d \in Nat \ {0} /\ DOMAIN ws = 1..d
  /\ \A i \in 1..(d + 1) : a[i] \in Nat
  /\ a[1] = 0 /\ a[d + 1] = Len(s) + 1
  /\ \A i \in 1..d : a[i] < a[i + 1] /\ a[i + 1] <= Len(s) + 1 /\ ws[i] = Part(s, a[i], a[i + 1] - 1)
  /\ \A i \in 2..d : s[a[i]] = " "
  /\ \A p \in 1..Len(s) : SplitAt(s, a, d, p)

LEMMA WordsEnd ==
  ASSUME NEW r, NEW w, NEW m, WordsPlaced(r, w, m)
  PROVE  Len(w) = WordAt(r, m) + Len(r.start[m])
<1>1. /\ w \in Text /\ m \in Nat \ {0} /\ m \in 1..m
      /\ \A i \in 1..m : WordAt(r, i) \in Nat /\ Len(r.start[i]) \in Nat /\ At(w, WordAt(r, i), r.start[i])
      /\ \A i, j \in 1..m : i <= j => WordAt(r, i) <= WordAt(r, j)
      /\ \A i \in 1..(m - 1) : WordAt(r, i + 1) = WordAt(r, i) + Len(r.start[i]) + 1
      /\ \A p \in 1..Len(w) : \E i \in 1..m :
            /\ WordAt(r, i) < p
            /\ p <= WordAt(r, i) + Len(r.start[i]) \/ (i < m /\ p = WordAt(r, i + 1))
  <2>1. m \in Nat \ {0}
    BY DEF WordsPlaced
  <2>2. m \in 1..m
    BY <2>1
  <2> QED
    BY <2>1, <2>2 DEF WordsPlaced
<1>2. Len(w) \in Nat
  BY <1>1, LenProperties DEF Text
<1>3. PICK x, l : x = WordAt(r, m) /\ l = Len(r.start[m])
  OBVIOUS
<1>4. x \in Nat /\ l \in Nat /\ x + l <= Len(w)
  BY <1>1, <1>3 DEF At
<1>5. SUFFICES ASSUME x + l < Len(w) PROVE FALSE
  BY <1>2, <1>3, <1>4
<1>6. Len(w) \in 1..Len(w)
  BY <1>2, <1>4, <1>5
<1>7. PICK i \in 1..m : /\ WordAt(r, i) < Len(w)
                        /\ Len(w) <= WordAt(r, i) + Len(r.start[i]) \/ (i < m /\ Len(w) = WordAt(r, i + 1))
  BY <1>1, <1>6
<1>8. i \in Nat /\ m \in Nat /\ i <= m
  BY <1>1
<1>9. i # m
  BY <1>2, <1>3, <1>4, <1>5, <1>7
<1>10. i \in 1..(m - 1) /\ i + 1 \in 1..m /\ i + 1 <= m
  BY <1>8, <1>9, <1>1
<1>11. WordAt(r, i + 1) = WordAt(r, i) + Len(r.start[i]) + 1 /\ WordAt(r, i + 1) <= x
       /\ WordAt(r, i) \in Nat /\ Len(r.start[i]) \in Nat
  BY <1>1, <1>3, <1>10
<1>12. PICK y, k, z : y = WordAt(r, i) /\ k = Len(r.start[i]) /\ z = WordAt(r, i + 1)
  OBVIOUS
<1>13. y \in Nat /\ k \in Nat /\ z = y + k + 1 /\ z <= x /\ (Len(w) <= y + k \/ Len(w) = z)
  BY <1>7, <1>11, <1>12
<1> QED
  BY <1>2, <1>4, <1>5, <1>13

LEMMA SaidIs ==
  ASSUME NEW r \in Requests, NEW s, s = TrimEnd(Cut(Words(r.start), r.eof))
  PROVE  \E a, d : /\ Split(s, Said(r), a, d)
                   /\ d \in 1..Len(r.start) /\ \A i \in 1..(d - 1) : Said(r)[i] = r.start[i]
                   /\ d >= 2 => Len(s) # 0 /\ Solid(s[Len(s)])
<1> DEFINE m == Len(r.start)
<1>1. PICK w : w = Words(r.start)
  OBVIOUS
<1>2. WordsPlaced(r, w, m) /\ m \in Nat \ {0}
  BY <1>1, WordsAre, RequestTypes
<1>3. /\ w \in Text
      /\ \A i \in 1..m : WordAt(r, i) \in Nat /\ Len(r.start[i]) \in Nat /\ At(w, WordAt(r, i), r.start[i])
      /\ WordAt(r, 1) = 0
      /\ \A i \in 1..(m - 1) : WordAt(r, i + 1) = WordAt(r, i) + Len(r.start[i]) + 1
      /\ \A i \in 2..m : w[WordAt(r, i)] = " "
      /\ \A i, j \in 1..m : i <= j => WordAt(r, i) <= WordAt(r, j)
      /\ \A p \in 1..Len(w) : \E i \in 1..m :
            /\ WordAt(r, i) < p
            /\ p <= WordAt(r, i) + Len(r.start[i]) \/ (i < m /\ p = WordAt(r, i + 1))
  BY <1>2 DEF WordsPlaced
<1>4. Len(w) \in Nat /\ Len(w) = WordAt(r, m) + Len(r.start[m])
  BY <1>2, <1>3, WordsEnd, LenProperties DEF Text
<1>5. PICK t : t = Cut(w, r.eof)
  OBVIOUS
<1>6. PICK c \in 0..Len(w) : t = Upto(w, c)
  <2>1. r.eof \in Nat
    <3>1. Placed(r, Wire(r), Len(r.fields))
      BY RequestPlaced
    <3>2. r.eof \in 0..Len(Wire(r)) /\ Len(Wire(r)) \in Nat
      BY <3>1 DEF Placed
    <3> QED
      BY <3>2
  <2>2. PICK c : c = IF r.eof < 0 THEN 0 ELSE IF r.eof < Len(w) THEN r.eof ELSE Len(w)
    OBVIOUS
  <2>3. c \in 0..Len(w)
    BY <1>4, <2>1, <2>2
  <2> QED
    BY <1>5, <2>2, <2>3 DEF Cut
<1>7. t \in Text /\ Len(t) = c /\ \A i \in 1..c : t[i] = w[i]
  BY <1>3, <1>6, FirstOf DEF Text, Upto
<1>8. PICK n : SolidEnd(t, n) /\ s = Upto(t, n)
  BY <1>1, <1>5, <1>7, TrimEndIs
<1>9. n \in 0..c /\ n \in Nat /\ (n # 0 => Solid(t[n]))
  BY <1>4, <1>7, <1>8 DEF SolidEnd
<1>10. /\ s \in Text /\ Len(s) = n /\ (\A i \in 1..n : s[i] = w[i]) /\ (n # 0 => Solid(s[n]))
  <2>1. s \in Text /\ Len(s) = n /\ \A i \in 1..n : s[i] = t[i]
    BY <1>7, <1>8, <1>9, FirstOf DEF Text, Upto
  <2>2. \A i \in 1..n : i \in 1..c
    BY <1>4, <1>9
  <2>3. n # 0 => n \in 1..n
    BY <1>9
  <2> QED
    BY <1>7, <1>9, <2>1, <2>2, <2>3
<1>11. n <= Len(w) /\ n \in 0..Len(w)
  BY <1>4, <1>6, <1>9
<1>12. PICK d \in 1..m : /\ WordAt(r, d) <= n
                         /\ \A i \in 1..m : WordAt(r, i) <= n <=> i <= d
  <2> DEFINE Over == {j \in Nat : j >= 1 /\ j <= m + 1 /\ (j = m + 1 \/ WordAt(r, j) > n)}
  <2>1. m + 1 \in Over
    BY <1>2
  <2>2. PICK j \in Over : \A i \in Over : j <= i
    <3>1. Over \in SUBSET Nat /\ Over # {}
      BY <2>1
    <3> HIDE DEF Over
    <3> QED
      BY <3>1, HasLeast
  <2>3. j \in Nat /\ j >= 1 /\ j <= m + 1 /\ (j = m + 1 \/ WordAt(r, j) > n)
    OBVIOUS
  <2>4. 1 \notin Over
    <3>1. 1 # m + 1
      BY <1>2
    <3>2. ~(WordAt(r, 1) > n)
      <4>1. WordAt(r, 1) = 0
        BY <1>3
      <4> QED
        BY <1>9, <4>1
    <3> QED
      BY <3>1, <3>2
  <2>5. PICK k : k = j - 1
    OBVIOUS
  <2>6. j # 1
    BY <2>4
  <2>7. k \in 1..m /\ k + 1 = j
    BY <1>2, <2>3, <2>5, <2>6
  <2>8. ASSUME NEW i \in 1..m PROVE WordAt(r, i) <= n <=> i <= k
    <3>1. WordAt(r, i) \in Nat /\ i \in Nat
      <4>1. i \in Nat
        BY <1>2
      <4>2. WordAt(r, i) \in Nat
        BY <1>3
      <4> QED
        BY <4>1, <4>2
    <3>2. CASE i <= k
      <4>1. ~(j <= i)
        BY <1>2, <2>7, <3>2
      <4>2. i \notin Over
        BY <2>2, <4>1
      <4>3. i >= 1 /\ i <= m + 1 /\ i \in Nat
        BY <1>2
      <4>4. ~(WordAt(r, i) > n)
        BY <4>2, <4>3
      <4> QED
        BY <1>9, <3>1, <3>2, <4>4
    <3>3. CASE ~(i <= k)
      <4>1. j <= i /\ j \in 1..m /\ j # m + 1
        BY <1>2, <2>3, <2>7, <3>3
      <4>2. WordAt(r, j) <= WordAt(r, i) /\ WordAt(r, j) > n /\ WordAt(r, j) \in Nat
        BY <1>3, <2>3, <4>1
      <4> QED
        BY <1>9, <3>1, <3>3, <4>2
    <3> QED
      BY <3>2, <3>3
  <2>9. WordAt(r, k) <= n
    <3>1. k <= k
      BY <2>7
    <3> QED
      BY <2>7, <2>8, <3>1
  <2> QED
    BY <2>7, <2>8, <2>9
<1>13. d \in Nat /\ d >= 1 /\ d <= m /\ d \in 1..m /\ \A i \in 1..d : i \in 1..m /\ i <= d
  BY <1>2
<1> DEFINE a == [i \in 1..(d + 1) |-> IF i <= d THEN WordAt(r, i) ELSE n + 1]
<1>14. \A i \in 1..d : a[i] = WordAt(r, i) /\ a[i] \in Nat /\ a[i] <= n
  <2>1. \A i \in 1..d : i \in 1..(d + 1)
    BY <1>13
  <2> QED
    BY <1>3, <1>12, <1>13, <2>1
<1>15. a[d + 1] = n + 1
  BY <1>13
<1>16. DOMAIN Said(r) = 1..d /\ \A i \in 1..d : Said(r)[i] = Cut(r.start[i], n - WordAt(r, i))
  <2>1. Len(TrimEnd(Cut(Words(r.start), r.eof))) = n
    BY <1>10
  <2>2. Said(r) = [i \in {j \in 1..m : WordAt(r, j) <= n} |-> Cut(r.start[i], n - WordAt(r, i))]
    BY <2>1 DEF Said
  <2>3. {j \in 1..m : WordAt(r, j) <= n} = 1..d
    BY <1>12, <1>13
  <2> QED
    BY <2>2, <2>3
<1>17. ASSUME NEW i \in 1..d
       PROVE  /\ a[i] < a[i + 1] /\ a[i + 1] \in Nat /\ a[i + 1] <= n + 1
              /\ Said(r)[i] = Part(s, a[i], a[i + 1] - 1)
              /\ i < d => Said(r)[i] = r.start[i]
              /\ a[i + 1] <= WordAt(r, i) + Len(r.start[i]) + 1
              /\ i < d => a[i + 1] = WordAt(r, i) + Len(r.start[i]) + 1
  <2>1. PICK x, l : x = WordAt(r, i) /\ l = Len(r.start[i])
    OBVIOUS
  <2>2. x \in Nat /\ l \in Nat /\ x <= n /\ a[i] = x /\ At(w, x, r.start[i]) /\ r.start[i] \in Text
    BY <1>3, <1>13, <1>14, <2>1, RequestTypes
  <2>3. x + l <= Len(w)
    BY <2>1, <2>2 DEF At
  <2>4. Said(r)[i] = Part(w, x, Lesser(n, x + l))
    <3>1. Cut(r.start[i], n - x) = Part(w, x, Lesser(n, x + Len(r.start[i])))
      <4>1. PICK u : u = r.start[i]
        OBVIOUS
      <4>2. u \in Seq(Symbols) /\ w \in Seq(Symbols) /\ At(w, x, u) /\ x \in Nat /\ n \in Nat
        BY <1>3, <1>9, <2>2, <4>1 DEF Text
      <4>3. Cut(u, n - x) = Part(w, x, Lesser(n, x + Len(u)))
        BY <4>2, CutAt
      <4> QED
        BY <4>1, <4>3
    <3> QED
      BY <1>16, <2>1, <3>1
  <2>5. ASSUME NEW b \in 0..n PROVE Part(w, x, b) = Part(s, x, b)
    <3>1. s = Part(w, 0, n)
      <4>1. 0 \in Nat /\ n \in 0..Len(w) /\ 0 <= n /\ n - 0 = n /\ \A k \in 1..n : 0 + k = k
        BY <1>9, <1>11
      <4>2. Len(s) = n - 0 /\ \A k \in 1..(n - 0) : s[k] = w[0 + k]
        BY <1>10, <4>1
      <4>3. s \in Seq(Symbols) /\ w \in Seq(Symbols)
        BY <1>3, <1>10 DEF Text
      <4> QED
        BY <4>1, <4>2, <4>3, IsPart
    <3>2. Part(Part(w, 0, n), x, b) = Part(w, 0 + x, 0 + b)
      <4>1. x \in Nat /\ b \in 0..(n - 0) /\ 0 <= n /\ 0 \in Nat /\ n \in 0..Len(w)
        BY <1>9, <1>11, <2>2
      <4>2. w \in Seq(Symbols)
        BY <1>3 DEF Text
      <4> QED
        BY <4>1, <4>2, PartOfPart
    <3>3. 0 + x = x /\ 0 + b = b
      BY <1>9, <2>2
    <3> QED
      BY <3>1, <3>2, <3>3
  <2>6. CASE i < d
    <3>1. i + 1 \in 1..d /\ i + 1 \in 2..m /\ i \in 1..(m - 1) /\ i + 1 <= m
      BY <1>13, <2>6
    <3>2. a[i + 1] = WordAt(r, i + 1) /\ a[i + 1] \in Nat /\ a[i + 1] <= n /\ w[WordAt(r, i + 1)] = " "
      BY <1>3, <1>14, <3>1
    <3>3. WordAt(r, i + 1) = x + l + 1
      BY <1>3, <2>1, <3>1
    <3>4. Lesser(n, x + l) = x + l /\ x + l \in 0..n /\ (x + l + 1) - 1 = x + l /\ x < x + l + 1
          /\ x + l + 1 <= n + 1
      <4>1. x + l + 1 <= n /\ x \in Nat /\ l \in Nat /\ n \in Nat
        BY <1>9, <2>2, <3>2, <3>3
      <4> QED
        BY <4>1 DEF Lesser
    <3>5. Said(r)[i] = Part(s, a[i], a[i + 1] - 1)
      <4>1. a[i] = x /\ a[i + 1] - 1 = x + l
        BY <2>2, <3>2, <3>3, <3>4
      <4>2. Part(w, x, x + l) = Part(s, x, x + l)
        BY <2>5, <3>4
      <4> QED
        BY <2>4, <3>4, <4>1, <4>2
    <3>6. Said(r)[i] = r.start[i]
      <4>1. r.start[i] = Part(w, x, x + l)
        <5>1. x + l \in 0..Len(w) /\ x <= x + l /\ (x + l) - x = l
          BY <1>4, <2>2, <2>3
        <5>2. Len(r.start[i]) = (x + l) - x /\ \A k \in 1..((x + l) - x) : r.start[i][k] = w[x + k]
          BY <2>1, <2>2, <5>1 DEF At
        <5> QED
          BY <1>3, <2>2, <5>1, <5>2, IsPart DEF Text
      <4> QED
        BY <2>4, <3>4, <4>1
    <3>7. a[i] < a[i + 1] /\ a[i + 1] <= n + 1
      BY <2>2, <3>2, <3>3, <3>4
    <3>8. a[i + 1] = WordAt(r, i) + Len(r.start[i]) + 1
      BY <2>1, <3>2, <3>3
    <3> HIDE DEF a
    <3>9. a[i + 1] <= a[i + 1]
      <4>1. \A y \in Nat : y <= y
        OBVIOUS
      <4>2. a[i + 1] \in Nat
        BY <3>2
      <4> QED
        BY <4>1, <4>2
    <3> QED
      BY <3>2, <3>5, <3>6, <3>7, <3>8, <3>9
  <2>7. CASE i = d
    <3>1. n <= x + l
      <4>1. CASE d = m
        BY <1>4, <1>11, <2>1, <2>7, <4>1
      <4>2. CASE d # m
        <5>1. d \in 1..(m - 1) /\ d + 1 \in 1..m /\ ~(d + 1 <= d)
          BY <1>2, <1>13, <4>2
        <5>2. WordAt(r, d + 1) = x + l + 1 /\ ~(WordAt(r, d + 1) <= n)
          BY <1>3, <1>12, <2>1, <2>7, <5>1
        <5> QED
          BY <1>9, <2>2, <5>2
      <4> QED
        BY <4>1, <4>2
    <3>2. Lesser(n, x + l) = n /\ (n + 1) - 1 = n /\ n \in 0..n /\ x < n + 1 /\ n + 1 \in Nat
          /\ n + 1 <= n + 1 /\ n + 1 <= x + l + 1
      BY <1>9, <2>2, <3>1 DEF Lesser
    <3>3. Said(r)[i] = Part(s, a[i], a[i + 1] - 1)
      BY <1>15, <2>2, <2>4, <2>5, <2>7, <3>2
    <3> QED
      BY <1>13, <1>15, <2>1, <2>2, <2>7, <3>2, <3>3
  <2> QED
    BY <1>13, <2>6, <2>7
<1>18. ASSUME NEW i \in 2..d PROVE s[a[i]] = " "
  <2>1. i \in 1..d /\ i \in 2..m /\ 1 \in 1..d /\ i - 1 \in 1..d /\ (i - 1) + 1 = i
    BY <1>13
  <2>2. w[WordAt(r, i)] = " " /\ a[i] = WordAt(r, i) /\ a[i] \in Nat /\ a[i] <= n
    BY <1>3, <1>14, <2>1
  <2>3. a[i - 1] < a[i] /\ a[i - 1] \in Nat
    BY <1>14, <1>17, <2>1
  <2>4. a[i] \in 1..n
    <3> HIDE DEF a
    <3>1. PICK y, z : y = a[i - 1] /\ z = a[i]
      OBVIOUS
    <3>2. y \in Nat /\ z \in Nat /\ y < z /\ z <= n
      BY <2>2, <2>3, <3>1
    <3>3. z \in 1..n
      BY <1>9, <3>2
    <3> QED
      BY <3>1, <3>3
  <2> QED
    BY <1>10, <2>2, <2>4
<1>19. ASSUME NEW p \in 1..n
       PROVE  \/ \E i \in 2..d : p = a[i]
              \/ s[p] # " " /\ \E i \in 1..d : a[i] < p /\ p < a[i + 1]
  <2>1. p \in Nat /\ p \in 1..Len(w) /\ s[p] = w[p]
    BY <1>4, <1>9, <1>10, <1>11
  <2>2. PICK i \in 1..m : /\ WordAt(r, i) < p
                          /\ p <= WordAt(r, i) + Len(r.start[i]) \/ (i < m /\ p = WordAt(r, i + 1))
    BY <1>3, <2>1
  <2>3. PICK x, l : x = WordAt(r, i) /\ l = Len(r.start[i])
    OBVIOUS
  <2>4. x \in Nat /\ l \in Nat /\ x < p /\ x <= n /\ i \in Nat
    <3>1. x \in Nat /\ l \in Nat
      BY <1>3, <2>3
    <3>2. x < p /\ p <= n /\ i \in Nat
      BY <1>2, <1>9, <2>2, <2>3
    <3> QED
      BY <1>9, <2>1, <3>1, <3>2
  <2>5. i \in 1..d /\ a[i] = x
    <3>1. i <= d
      BY <1>12, <2>3, <2>4
    <3>2. i \in 1..d
      BY <1>13, <2>4, <3>1
    <3> QED
      BY <1>14, <2>3, <3>2
  <2>6. CASE p <= x + l
    <3>1. PICK k : k = p - x
      OBVIOUS
    <3>2. k \in 1..l /\ x + k = p
      BY <2>1, <2>4, <2>6, <3>1
    <3>3. s[p] = r.start[i][k]
      BY <1>3, <2>1, <2>3, <3>2 DEF At
    <3>4. s[p] # " "
      BY <2>3, <3>2, <3>3, RequestTypes DEF White
    <3>5. p < a[i + 1]
      <4>1. CASE i < d
        <5>1. a[i + 1] = x + l + 1
          BY <1>17, <2>3, <2>5, <4>1
        <5> QED
          BY <2>1, <2>4, <2>6, <5>1
      <4>2. CASE i = d
        BY <1>9, <1>15, <2>1, <4>2
      <4> QED
        BY <1>13, <2>5, <4>1, <4>2
    <3> QED
      BY <2>4, <2>5, <3>4, <3>5
  <2>7. CASE i < m /\ p = WordAt(r, i + 1)
    <3>1. i + 1 \in 1..m
      BY <1>2, <2>4, <2>7
    <3>2. i + 1 <= d
      <4>1. p <= n
        BY <1>9
      <4> QED
        BY <1>12, <2>7, <3>1, <4>1
    <3>3. i + 1 \in 2..d /\ i + 1 \in 1..d
      BY <1>13, <2>2, <2>4, <3>2
    <3>4. p = a[i + 1]
      BY <1>14, <2>7, <3>3
    <3> QED
      BY <3>3, <3>4
  <2> QED
    BY <2>2, <2>3, <2>6, <2>7
<1>20. ASSUME d >= 2 PROVE n # 0
  <2>1. 1 \in 1..d /\ 1 + 1 = 2 /\ 2 \in 1..d
    BY <1>13, <1>20
  <2>2. a[1] < a[2] /\ a[2] <= n /\ a[1] \in Nat /\ a[2] \in Nat
    BY <1>14, <1>17, <2>1
  <2> QED
    BY <2>2
<1>21. a[1] = 0
  <2>1. 1 \in 1..d /\ WordAt(r, 1) = 0
    <3>1. 1 \in 1..d
      BY <1>13
    <3> QED
      BY <1>3, <3>1
  <2>2. a[1] = WordAt(r, 1)
    BY <1>14, <2>1
  <2> QED
    BY <2>1, <2>2
<1>22. \A i \in 1..(d + 1) : a[i] \in Nat
  <2> SUFFICES ASSUME NEW i \in 1..(d + 1) PROVE a[i] \in Nat
    OBVIOUS
  <2>1. i \in 1..d \/ i = d + 1
    BY <1>13
  <2>2. n + 1 \in Nat
    BY <1>9
  <2> QED
    BY <1>14, <1>15, <2>1, <2>2
<1> HIDE DEF a
<1>23. Split(s, Said(r), a, d)
  <2>1. Len(s) \in Nat /\ d \in Nat \ {0} /\ DOMAIN Said(r) = 1..d /\ s \in Text
    BY <1>9, <1>10, <1>13, <1>16
  <2>2. a[d + 1] = Len(s) + 1
    BY <1>10, <1>15
  <2>3. \A i \in 1..d : a[i] < a[i + 1] /\ a[i + 1] <= Len(s) + 1 /\ Said(r)[i] = Part(s, a[i], a[i + 1] - 1)
    BY <1>10, <1>17
  <2>4. \A p \in 1..n : SplitAt(s, a, d, p)
    BY <1>19 DEF SplitAt
  <2>5. \A p \in 1..Len(s) : SplitAt(s, a, d, p)
    BY <1>10, <2>4
  <2> QED
    BY <1>18, <1>21, <1>22, <2>1, <2>2, <2>3, <2>5 DEF Split
<1>24. \A i \in 1..(d - 1) : Said(r)[i] = r.start[i]
  <2>1. \A i \in 1..(d - 1) : i \in 1..d /\ i < d
    BY <1>13
  <2> QED
    BY <1>17, <2>1
<1>25. d >= 2 => Len(s) # 0 /\ Solid(s[Len(s)])
  BY <1>10, <1>20
<1> QED
  BY <1>13, <1>23, <1>24, <1>25

LEMMA SplitGrows ==
  ASSUME NEW s, NEW ws, NEW a, NEW d, Split(s, ws, a, d), NEW i \in 1..(d + 1), NEW j \in 1..(d + 1), i <= j
  PROVE  a[i] <= a[j]
<1>1. /\ d \in Nat \ {0} /\ \A k \in 1..(d + 1) : a[k] \in Nat
      /\ \A k \in 1..d : a[k] < a[k + 1]
  BY DEF Split
<1>2. PICK g : g = [k \in 0..d |-> a[k + 1]]
  OBVIOUS
<1>3. \A k \in 0..d : k + 1 \in 1..(d + 1) /\ g[k] = a[k + 1] /\ g[k] \in Nat
  BY <1>1, <1>2
<1>4. \A k \in 1..d : g[k - 1] <= g[k]
  <2> TAKE k \in 1..d
  <2>1. k - 1 \in 0..d /\ k \in 0..d /\ (k - 1) + 1 = k
    BY <1>1
  <2>2. g[k - 1] = a[k] /\ g[k] = a[k + 1] /\ a[k] < a[k + 1] /\ g[k] \in Nat /\ g[k - 1] \in Nat
    BY <1>1, <1>3, <2>1
  <2> QED
    BY <2>2
<1>5. d \in Nat /\ i - 1 \in 0..d /\ j - 1 \in 0..d /\ i - 1 <= j - 1 /\ (i - 1) + 1 = i /\ (j - 1) + 1 = j
  BY <1>1
<1>6. PICK x, y : x = i - 1 /\ y = j - 1
  OBVIOUS
<1>7. \A k, l \in 0..d : k <= l => g[k] <= g[l]
  <2>1. \A k \in 0..d : g[k] \in Nat
    BY <1>3
  <2> QED
    BY <1>4, <1>5, <2>1, Upwards
<1>8. g[x] <= g[y] /\ g[x] = a[i] /\ g[y] = a[j]
  BY <1>3, <1>5, <1>6, <1>7
<1> QED
  BY <1>8

LEMMA LeastIs ==
  ASSUME NEW S, NEW x \in S, S \subseteq Nat, \A y \in S : x <= y
  PROVE  Min(S) = x
<1>1. PICK m : m = Min(S)
  OBVIOUS
<1>2. m \in S /\ \A y \in S : m <= y
  BY <1>1 DEF Min
<1>3. m <= x /\ x <= m /\ m \in Nat /\ x \in Nat
  BY <1>2
<1> QED
  BY <1>1, <1>3

LEMMA BlanksAre ==
  ASSUME NEW ws, NEW a, NEW d, Split(line, ws, a, d)
  PROVE  /\ Blanks = {a[i] : i \in 2..d} /\ Blanks \subseteq 1..Len(line)
         /\ d = 1 => Blanks = {}
         /\ d >= 2 => Blanks # {} /\ First = a[2]
         /\ d = 2 => Blanks = {First}
         /\ d >= 3 => Blanks # {First} /\ Second = a[3]
<1> DEFINE B == {a[i] : i \in 2..d}
<1>1. /\ line \in Text /\ Len(line) \in Nat /\ d \in Nat \ {0}
      /\ a[1] = 0 /\ a[d + 1] = Len(line) + 1
      /\ \A i \in 1..(d + 1) : a[i] \in Nat
      /\ \A i \in 1..d : a[i] < a[i + 1] /\ a[i + 1] <= Len(line) + 1
      /\ \A i \in 2..d : line[a[i]] = " "
      /\ \A p \in 1..Len(line) : SplitAt(line, a, d, p)
  BY DEF Split
<1>0. d \in Nat \ {0} /\ Len(line) \in Nat
  BY <1>1
<1>2. DOMAIN line = 1..Len(line)
  BY <1>1, LenProperties DEF Text
<1>3. ASSUME NEW i \in 2..d PROVE a[i] \in 1..Len(line)
  <2>1. i \in 1..d /\ i - 1 \in 1..d /\ (i - 1) + 1 = i /\ i \in 1..(d + 1) /\ i - 1 \in 1..(d + 1)
    BY <1>0
  <2>2. PICK x, y, z : x = a[i - 1] /\ y = a[i] /\ z = a[i + 1]
    OBVIOUS
  <2>3. i + 1 \in 1..(d + 1)
    BY <1>0
  <2>4. x \in Nat /\ y \in Nat /\ z \in Nat /\ x < y /\ y < z /\ z <= Len(line) + 1
    BY <1>1, <2>1, <2>2, <2>3
  <2>5. y \in 1..Len(line)
    BY <1>0, <2>4
  <2> QED
    BY <2>2, <2>5
<1>4. Blanks = B
  <2>1. ASSUME NEW p \in Blanks PROVE p \in B
    <3>1. p \in 1..Len(line) /\ line[p] = " "
      BY <1>2 DEF Blanks
    <3> QED
      BY <1>1, <3>1 DEF SplitAt
  <2>2. ASSUME NEW p \in B PROVE p \in Blanks
    BY <1>1, <1>2, <1>3 DEF Blanks
  <2> QED
    BY <2>1, <2>2
<1>5. B \subseteq 1..Len(line) /\ B \subseteq Nat
  <2>1. B \subseteq 1..Len(line)
    BY <1>3
  <2>2. 1..Len(line) \subseteq Nat
    BY <1>0
  <2> QED
    BY <2>1, <2>2
<1>6. d = 1 => B = {}
  OBVIOUS
<1>7. ASSUME d >= 2 PROVE a[2] \in B /\ Min(B) = a[2]
  <2>1. 2 \in 2..d /\ \A i \in 2..d : i \in 1..(d + 1) /\ 2 \in 1..(d + 1) /\ 2 <= i
    BY <1>0, <1>7
  <2>2. \A i \in 2..d : a[2] <= a[i]
    BY <2>1, SplitGrows
  <2>3. a[2] \in B /\ \A y \in B : a[2] <= y
    BY <2>1, <2>2
  <2>4. PICK x : x = a[2]
    OBVIOUS
  <2> HIDE DEF B
  <2> QED
    BY <1>5, <2>3, <2>4, LeastIs
<1>8. d = 2 => B = {a[2]}
  <2>1. d = 2 => 2..d = {2}
    OBVIOUS
  <2> QED
    BY <2>1
<1>9. ASSUME d >= 3 PROVE B # {a[2]} /\ Min(B \ {a[2]}) = a[3]
  <2>1. 3 \in 2..d /\ 2 \in 2..d /\ (\A i \in 2..d : i \in 1..(d + 1)) /\ 3 \in 1..(d + 1) /\ 2 \in 1..d /\ 2 + 1 = 3
        /\ \A i \in 2..d : i = 2 \/ 3 <= i
    BY <1>0, <1>9
  <2>2. a[2] < a[3] /\ a[2] \in Nat /\ a[3] \in Nat
    BY <1>1, <2>1
  <2>3. a[3] # a[2]
    BY <2>2
  <2>4. \A i \in 2..d : i # 2 => a[3] <= a[i]
    BY <2>1, SplitGrows
  <2>5. a[3] \in B \ {a[2]}
    BY <2>1, <2>3
  <2>6. \A y \in B \ {a[2]} : a[3] <= y
    BY <2>4
  <2>7. PICK x, C : x = a[3] /\ C = B \ {a[2]}
    OBVIOUS
  <2> HIDE DEF B
  <2>8. C \subseteq Nat /\ x \in C /\ \A y \in C : x <= y
    BY <1>5, <2>5, <2>6, <2>7
  <2>9. Min(C) = x
    BY <2>8, LeastIs
  <2> QED
    BY <2>5, <2>7, <2>9
<1> HIDE DEF B
<1>10. d >= 2 => Blanks # {} /\ First = a[2]
  BY <1>4, <1>7 DEF First
<1>11. d = 2 => Blanks = {First}
  <2>1. d = 2 => d >= 2
    BY <1>0
  <2> QED
    BY <1>4, <1>8, <1>10, <2>1
<1>12. d >= 3 => Blanks # {First} /\ Second = a[3]
  <2>1. d >= 3 => d >= 2
    BY <1>0
  <2> QED
    BY <1>4, <1>9, <1>10, <2>1 DEF Second
<1> QED
  BY <1>4, <1>5, <1>6, <1>10, <1>11, <1>12 DEF B

(* Each symbol of the words is one of the text, and the other way round.   *)
SplitParts(s, ws, a, d) ==
  /\ \A i \in 1..d : /\ ws[i] \in Text /\ Len(ws[i]) = a[i + 1] - 1 - a[i]
                     /\ \A k \in 1..Len(ws[i]) : a[i] + k \in 1..Len(s) /\ ws[i][k] = s[a[i] + k]
  /\ \A x : x # " " => (x \in ToSet(s) <=> \E i \in 1..d : x \in ToSet(ws[i]))

LEMMA SplitHas ==
  ASSUME NEW s, NEW ws, NEW a, NEW d, Split(s, ws, a, d)
  PROVE  SplitParts(s, ws, a, d)
<1>1. /\ s \in Text /\ Len(s) \in Nat /\ d \in Nat \ {0}
      /\ a[1] = 0 /\ a[d + 1] = Len(s) + 1
      /\ \A i \in 1..(d + 1) : a[i] \in Nat
      /\ \A i \in 1..d : a[i] < a[i + 1] /\ a[i + 1] <= Len(s) + 1 /\ ws[i] = Part(s, a[i], a[i + 1] - 1)
      /\ \A i \in 2..d : s[a[i]] = " "
      /\ \A p \in 1..Len(s) : SplitAt(s, a, d, p)
  BY DEF Split
<1>0. d \in Nat \ {0} /\ Len(s) \in Nat
  BY <1>1
<1>2. ASSUME NEW i \in 1..d
      PROVE  /\ ws[i] \in Text /\ Len(ws[i]) = a[i + 1] - 1 - a[i]
             /\ \A k \in 1..(a[i + 1] - 1 - a[i]) : a[i] + k \in 1..Len(s) /\ ws[i][k] = s[a[i] + k]
             /\ a[i] \in Nat /\ a[i + 1] \in Nat
  <2>1. i \in 1..(d + 1) /\ i + 1 \in 1..(d + 1)
    BY <1>0
  <2>2. PICK x, y : x = a[i] /\ y = a[i + 1] - 1
    OBVIOUS
  <2>3. a[i] \in Nat /\ a[i + 1] \in Nat /\ a[i] < a[i + 1] /\ a[i + 1] <= Len(s) + 1
        /\ ws[i] = Part(s, x, y)
    BY <1>1, <2>1, <2>2
  <2>4. x \in Nat /\ y \in 0..Len(s) /\ x <= y
    <3>1. PICK z : z = a[i + 1]
      OBVIOUS
    <3>2. x \in Nat /\ z \in Nat /\ x < z /\ z <= Len(s) + 1 /\ y = z - 1
      BY <2>2, <2>3, <3>1
    <3> QED
      BY <1>0, <3>2
  <2>5. /\ ws[i] \in Text /\ Len(ws[i]) = y - x
        /\ \A k \in 1..(y - x) : ws[i][k] = s[x + k]
    <3>1. s \in Seq(Symbols)
      BY <1>1 DEF Text
    <3>2. PICK u : u = Part(s, x, y)
      OBVIOUS
    <3>3. u \in Seq(Symbols) /\ Len(u) = y - x /\ \A k \in 1..(y - x) : u[k] = s[x + k]
      BY <2>4, <3>1, <3>2, PartIs
    <3> QED
      BY <2>3, <3>2, <3>3 DEF Text
  <2>6. \A k \in 1..(y - x) : x + k \in 1..Len(s)
    BY <1>0, <2>4
  <2> QED
    BY <2>2, <2>3, <2>5, <2>6
<1>3. DOMAIN s = 1..Len(s) /\ \A i \in 1..d : DOMAIN ws[i] = 1..Len(ws[i])
  BY <1>1, <1>2, LenProperties DEF Text
<1>4. ASSUME NEW x, x # " ", x \in ToSet(s) PROVE \E i \in 1..d : x \in ToSet(ws[i])
  <2>1. PICK p \in 1..Len(s) : s[p] = x
    BY <1>3, <1>4 DEF ToSet
  <2>2. SplitAt(s, a, d, p)
    BY <1>1
  <2>3. PICK i \in 1..d : a[i] < p /\ p < a[i + 1]
    BY <1>1, <1>4, <2>1, <2>2 DEF SplitAt
  <2>4. PICK k, y, z : k = p - a[i] /\ y = a[i] /\ z = a[i + 1]
    OBVIOUS
  <2>5. y \in Nat /\ z \in Nat /\ p \in Nat /\ y < p /\ p < z
    <3>1. p \in Nat
      BY <1>0
    <3> QED
      BY <1>2, <2>3, <2>4, <3>1
  <2>6. k \in 1..(z - 1 - y) /\ y + k = p
    <3>1. k = p - y
      BY <2>4
    <3> QED
      BY <2>5, <3>1
  <2>7. k \in DOMAIN ws[i] /\ ws[i][k] = x
    BY <1>2, <1>3, <2>1, <2>4, <2>6
  <2> QED
    BY <2>7 DEF ToSet
<1>5. ASSUME NEW x, NEW i \in 1..d, x \in ToSet(ws[i]) PROVE x \in ToSet(s)
  <2>1. PICK k \in 1..Len(ws[i]) : ws[i][k] = x
    BY <1>3, <1>5 DEF ToSet
  <2>2. a[i] + k \in DOMAIN s /\ s[a[i] + k] = x
    BY <1>2, <1>3, <2>1
  <2> QED
    BY <2>2 DEF ToSet
<1> QED
  BY <1>2, <1>4, <1>5 DEF SplitParts

(* What is behind the second blank: the third word, and more.              *)
VersionOf(ws, d, v) ==
  /\ v \in Text
  /\ d = 3 => v = ws[3]
  /\ d # 3 => " " \in ToSet(v)
  /\ ws[3] # <<>> => ws[3][1] = v[1]
  /\ \A x \in ToSet(ws[3]) : x \in ToSet(v)

LEMMA VersionIs ==
  ASSUME NEW s, NEW ws, NEW a, NEW d, Split(s, ws, a, d), d >= 3, NEW v, v = Behind(s, a[3])
  PROVE  VersionOf(ws, d, v)
<1>1. /\ s \in Text /\ Len(s) \in Nat /\ d \in Nat \ {0}
      /\ a[d + 1] = Len(s) + 1
      /\ \A i \in 1..(d + 1) : a[i] \in Nat
      /\ \A i \in 1..d : a[i] < a[i + 1] /\ a[i + 1] <= Len(s) + 1 /\ ws[i] = Part(s, a[i], a[i + 1] - 1)
      /\ \A i \in 2..d : s[a[i]] = " "
  BY DEF Split
<1>0. d \in Nat /\ Len(s) \in Nat /\ 3 \in 1..d /\ 3 \in 1..(d + 1) /\ 3 + 1 = 4 /\ 4 \in 1..(d + 1)
      /\ (d # 3 => 4 \in 2..d /\ 4 \in 1..d /\ 4 + 1 = 5 /\ 5 \in 1..(d + 1))
  <2>1. d \in Nat /\ Len(s) \in Nat
    BY <1>1
  <2> QED
    BY <2>1
<1>2. PICK p, q, n : p = a[3] /\ q = a[4] /\ n = Len(s)
  OBVIOUS
<1>3. p \in Nat /\ q \in Nat /\ p < q /\ q <= n + 1 /\ n \in Nat /\ ws[3] = Part(s, p, q - 1)
  BY <1>0, <1>1, <1>2
<1>4. v = Part(s, p, n) /\ p <= n /\ n \in 0..n
  BY <1>2, <1>3 DEF Behind, Part
<1>5. v \in Text /\ Len(v) = n - p /\ \A k \in 1..(n - p) : v[k] = s[p + k]
  <2>1. s \in Seq(Symbols) /\ n \in 0..Len(s)
    BY <1>1, <1>2, <1>4 DEF Text
  <2>2. /\ Part(s, p, n) \in Seq(Symbols)
        /\ Len(Part(s, p, n)) = IF p <= n THEN n - p ELSE 0
        /\ \A k \in 1..(n - p) : Part(s, p, n)[k] = s[p + k]
    BY <1>3, <2>1, PartIs
  <2> QED
    BY <1>4, <2>2 DEF Text
<1>6. DOMAIN v = 1..(n - p)
  BY <1>5, LenProperties DEF Text
<1>7. d = 3 => v = ws[3]
  <2>1. d = 3 => d + 1 = 4
    OBVIOUS
  <2>2. ASSUME d = 3 PROVE q = n + 1 /\ q - 1 = n
    <3>1. a[4] = n + 1
      <4>1. a[d + 1] = Len(s) + 1
        BY <1>1
      <4> QED
        BY <1>2, <2>1, <2>2, <4>1
    <3> QED
      BY <1>2, <1>3, <3>1
  <2> QED
    BY <1>3, <1>4, <2>2
<1>8. ASSUME d # 3 PROVE " " \in ToSet(v)
  <2>1. s[q] = " " /\ a[4] < a[5] /\ a[5] <= n + 1 /\ a[5] \in Nat
    BY <1>0, <1>1, <1>2, <1>8
  <2>2. PICK y : y = a[5]
    OBVIOUS
  <2>3. y \in Nat /\ q < y /\ y <= n + 1
    BY <1>2, <2>1, <2>2
  <2>4. PICK k : k = q - p
    OBVIOUS
  <2>5. k \in 1..(n - p) /\ p + k = q
    BY <1>3, <2>3, <2>4
  <2>6. k \in DOMAIN v /\ v[k] = " "
    BY <1>5, <1>6, <2>1, <2>5
  <2> QED
    BY <2>6 DEF ToSet
<1>9. /\ ws[3] \in Text /\ Len(ws[3]) = q - 1 - p
      /\ \A k \in 1..Len(ws[3]) : ws[3][k] = s[p + k]
  <2>1. \A i \in 1..d : /\ ws[i] \in Text /\ Len(ws[i]) = a[i + 1] - 1 - a[i]
                        /\ \A k \in 1..Len(ws[i]) : a[i] + k \in 1..Len(s) /\ ws[i][k] = s[a[i] + k]
    <3>1. SplitParts(s, ws, a, d)
      BY SplitHas
    <3> QED
      BY <3>1 DEF SplitParts
  <2>2. ws[3] \in Text /\ Len(ws[3]) = a[3 + 1] - 1 - a[3]
    BY <1>0, <2>1
  <2>3. \A k \in 1..Len(ws[3]) : ws[3][k] = s[a[3] + k]
    BY <1>0, <2>1
  <2> QED
    BY <1>0, <1>2, <2>2, <2>3
<1>10. DOMAIN ws[3] = 1..Len(ws[3]) /\ \A k \in 1..(q - 1 - p) : k \in 1..(n - p)
  <2>1. \A k \in 1..(q - 1 - p) : k \in 1..(n - p)
    BY <1>3
  <2> QED
    BY <1>9, <2>1, LenProperties DEF Text
<1>11. \A k \in DOMAIN ws[3] : k \in DOMAIN v /\ ws[3][k] = v[k]
  BY <1>5, <1>6, <1>9, <1>10
<1>12. \A x \in ToSet(ws[3]) : x \in ToSet(v)
  BY <1>11 DEF ToSet
<1>13. ws[3] # <<>> => 1 \in DOMAIN ws[3]
  <2>1. ws[3] # <<>> => Len(ws[3]) # 0
    BY <1>9, EmptySeq DEF Text
  <2>2. q - 1 - p # 0 => 1 \in 1..(q - 1 - p)
    BY <1>3
  <2> QED
    BY <1>9, <1>10, <2>1, <2>2
<1> QED
  BY <1>5, <1>7, <1>8, <1>11, <1>12, <1>13 DEF VersionOf

Http11 == <<"HTTP/", "1", ".", "1">>

(* The first line is refused for what is wrong with it, and parsed into    *)
(* its words.                                                              *)
StatusRight ==
  /\ StatusError # "none" => StatusError \in WrongStart(req)
  /\ StatusError = "none" =>
       /\ WrongStart(req) = {}
       /\ 2 \in DOMAIN Said(req) /\ Said(req)[2] = req.start[2]
       /\ Upto(line, First - 1) = req.start[1]
       /\ SubSeq(line, First + 1, Second - 1) = req.start[2]

LEMMA StatusIs ==
  ASSUME req \in Requests, line = TrimEnd(Cut(Words(req.start), req.eof))
  PROVE  StatusRight
<1>1. PICK ws : ws = Said(req)
  OBVIOUS
<1>2. PICK a, d : Split(line, ws, a, d) /\ d \in 1..Len(req.start) /\ \A i \in 1..(d - 1) : ws[i] = req.start[i]
  BY <1>1, SaidIs
<1>3. /\ line \in Text /\ Len(line) \in Nat /\ d \in Nat \ {0} /\ DOMAIN ws = 1..d
      /\ a[1] = 0 /\ a[d + 1] = Len(line) + 1
      /\ \A i \in 1..(d + 1) : a[i] \in Nat
      /\ \A i \in 1..d : a[i] < a[i + 1] /\ a[i + 1] <= Len(line) + 1 /\ ws[i] = Part(line, a[i], a[i + 1] - 1)
  BY <1>2 DEF Split
<1>4. d \in Nat \ {0} /\ 1 \in 1..d /\ 1 + 1 = 2 /\ Len(line) \in Nat
      /\ (d = 1 \/ d = 2 \/ d >= 3) /\ (2 \in 1..d <=> d >= 2) /\ (3 \in 1..d <=> d >= 3)
      /\ (4 \in 1..d <=> d >= 3 /\ d # 3)
  <2>1. d \in Nat \ {0} /\ Len(line) \in Nat
    BY <1>3
  <2> QED
    BY <2>1
<1>5. /\ Blanks = {a[i] : i \in 2..d}
      /\ d = 1 => Blanks = {}
      /\ d >= 2 => Blanks # {} /\ First = a[2]
      /\ d = 2 => Blanks = {First}
      /\ d >= 3 => Blanks # {First} /\ Second = a[3]
  BY <1>2, BlanksAre
<1>6. /\ \A i \in 1..d : ws[i] \in Text /\ Len(ws[i]) = a[i + 1] - 1 - a[i]
      /\ "bad" \in ToSet(line) <=> \E i \in 1..d : "bad" \in ToSet(ws[i])
  <2>0. SplitParts(line, ws, a, d)
    BY <1>2, SplitHas
  <2>1. PICK x : x = "bad"
    OBVIOUS
  <2>2. x # " "
    BY <2>1
  <2>3. x \in ToSet(line) <=> \E i \in 1..d : x \in ToSet(ws[i])
    BY <2>2, <2>0 DEF SplitParts
  <2>4. \A i \in 1..d : ws[i] \in Text /\ Len(ws[i]) = a[i + 1] - 1 - a[i]
    BY <2>0 DEF SplitParts
  <2> QED
    BY <2>1, <2>3, <2>4
<1>7. (line = <<>> \/ 1 \in Blanks) <=> ws[1] = <<>>
  <2>1. ws[1] = <<>> <=> a[2] = 1
    <3>1. ws[1] \in Text /\ Len(ws[1]) = a[2] - 1 - a[1] /\ a[1] = 0
      BY <1>3, <1>4, <1>6
    <3>2. a[2] \in Nat
      <4>1. 2 \in 1..(d + 1)
        BY <1>4
      <4> QED
        BY <1>3, <4>1
    <3>3. ws[1] = <<>> <=> Len(ws[1]) = 0
      BY <3>1, EmptySeq DEF Text
    <3> QED
      BY <3>1, <3>2, <3>3
  <2>2. line = <<>> <=> Len(line) = 0
    BY <1>3, EmptySeq DEF Text
  <2>3. CASE d = 1
    <3>1. d + 1 = 2 /\ a[2] = Len(line) + 1
      BY <1>3, <2>3
    <3>2. a[2] = 1 <=> Len(line) = 0
      BY <1>4, <3>1
    <3> QED
      BY <1>5, <2>1, <2>2, <2>3, <3>2
  <2>4. CASE d >= 2
    <3>1. 2 \in 2..d /\ \A i \in 2..d : i \in 1..(d + 1) /\ 2 \in 1..(d + 1) /\ 2 <= i
      BY <1>4, <2>4
    <3>2. a[2] = 1 => 1 \in Blanks
      BY <1>5, <3>1
    <3>3. 1 \in Blanks => a[2] = 1
      <4>1. ASSUME 1 \in Blanks PROVE a[2] = 1
        <5>1. PICK i \in 2..d : a[i] = 1
          BY <1>5, <4>1
        <5>2. a[2] <= a[i] /\ a[2] \in Nat
          BY <1>2, <1>3, <3>1, SplitGrows
        <5>3. a[2] > 0
          <6>1. a[1] < a[2] /\ a[1] = 0
            BY <1>3, <1>4
          <6> QED
            BY <5>2, <6>1
        <5> QED
          BY <5>1, <5>2, <5>3
      <4> QED
        BY <4>1
    <3>4. line # <<>>
      <4>1. a[2] \in Nat /\ a[1] < a[2] /\ a[1] = 0
        BY <1>3, <1>4, <3>1
      <4>2. Blanks \subseteq 1..Len(line)
        BY <1>2, BlanksAre
      <4>3. 1..0 = {}
        OBVIOUS
      <4> QED
        BY <1>5, <2>2, <2>4, <4>2, <4>3
    <3> QED
      BY <2>1, <3>2, <3>3, <3>4
  <2> QED
    BY <1>4, <2>3, <2>4
<1>8. PICK v : v = Behind(line, Second)
  OBVIOUS
<1>9. d >= 3 => VersionOf(ws, d, v)
  BY <1>2, <1>5, <1>8, VersionIs
<1>10. StatusError = IF "bad" \in ToSet(line)            THEN "Failed to read status line"
                     ELSE IF line = <<>> \/ 1 \in Blanks THEN "No method found"
                     ELSE IF Blanks = {}                 THEN "No URI found"
                     ELSE IF Blanks = {First}            THEN "No version found"
                     ELSE IF v[1] # "HTTP/"              THEN "No http prefix"
                     ELSE IF "." \notin ToSet(v)         THEN "Version not split"
                     ELSE IF v # Http11                  THEN "HTTP not version 1.1"
                     ELSE "none"
  BY <1>8 DEF StatusError, Http11
<1>11. \A err : err \in WrongStart(req) <=>
        \/ err = "Failed to read status line" /\ \E i \in 1..d : "bad" \in ToSet(ws[i])
        \/ err = "No method found" /\ ws[1] = <<>>
        \/ err = "No URI found" /\ ~(d >= 2)
        \/ err = "No version found" /\ ~(d >= 3)
        \/ /\ d >= 3
           /\ \/ err = "No http prefix" /\ (ws[3] = <<>> \/ ws[3][1] # "HTTP/")
              \/ err = "Version not split" /\ "." \notin ToSet(ws[3])
              \/ err = "HTTP not version 1.1" /\ ws[3] # Http11
        \/ err = "HTTP not version 1.1" /\ d >= 3 /\ d # 3
  <2> TAKE err
  <2>1. DOMAIN ws = 1..d
    BY <1>3
  <2>2. (2 \in DOMAIN ws <=> d >= 2) /\ (3 \in DOMAIN ws <=> d >= 3) /\ (4 \in DOMAIN ws <=> d >= 3 /\ d # 3)
    BY <1>4, <2>1
  <2>3. err \in WrongStart(req) <=>
          \/ err = "Failed to read status line" /\ \E i \in DOMAIN ws : "bad" \in ToSet(ws[i])
          \/ err = "No method found" /\ ws[1] = <<>>
          \/ err = "No URI found" /\ 2 \notin DOMAIN ws
          \/ err = "No version found" /\ 3 \notin DOMAIN ws
          \/ /\ 3 \in DOMAIN ws
             /\ \/ err = "No http prefix" /\ (ws[3] = <<>> \/ ws[3][1] # "HTTP/")
                \/ err = "Version not split" /\ "." \notin ToSet(ws[3])
                \/ err = "HTTP not version 1.1" /\ ws[3] # Http11
          \/ err = "HTTP not version 1.1" /\ 4 \in DOMAIN ws
    BY <1>1, Zenon DEF WrongStart, Http11
  <2> QED
    BY <2>1, <2>2, <2>3, Zenon
<1>12. StatusError # "none" => StatusError \in WrongStart(req)
  <2>1. CASE "bad" \in ToSet(line)
    BY <1>6, <1>10, <1>11, <2>1
  <2>2. CASE ~("bad" \in ToSet(line)) /\ (line = <<>> \/ 1 \in Blanks)
    BY <1>7, <1>10, <1>11, <2>2
  <2>3. CASE ~("bad" \in ToSet(line)) /\ ~(line = <<>> \/ 1 \in Blanks)
    <3>1. CASE d = 1
      <4>1. ~(d >= 2)
        BY <3>1
      <4> QED
        BY <1>5, <1>10, <1>11, <2>3, <3>1, <4>1
    <3>2. CASE d = 2
      <4>1. ~(d >= 3) /\ d >= 2
        BY <3>2
      <4> QED
        BY <1>5, <1>10, <1>11, <2>3, <3>2, <4>1
    <3>3. CASE d >= 3
      <4>1. Blanks # {} /\ Blanks # {First}
        <5>1. d >= 2
          BY <1>4, <3>3
        <5> QED
          BY <1>5, <3>3, <5>1
      <4>2. StatusError = IF v[1] # "HTTP/" THEN "No http prefix"
                          ELSE IF "." \notin ToSet(v) THEN "Version not split"
                          ELSE IF v # Http11 THEN "HTTP not version 1.1" ELSE "none"
        BY <1>10, <2>3, <4>1
      <4>3. CASE v[1] # "HTTP/"
        BY <1>9, <1>11, <3>3, <4>2, <4>3 DEF VersionOf
      <4>4. CASE v[1] = "HTTP/" /\ "." \notin ToSet(v)
        BY <1>9, <1>11, <3>3, <4>2, <4>4 DEF VersionOf
      <4>5. CASE v[1] = "HTTP/" /\ "." \in ToSet(v) /\ v # Http11
        BY <1>9, <1>11, <3>3, <4>2, <4>5 DEF VersionOf
      <4>6. CASE v[1] = "HTTP/" /\ "." \in ToSet(v) /\ v = Http11
        BY <4>2, <4>6
      <4> QED
        BY <4>3, <4>4, <4>5, <4>6
    <3> QED
      BY <1>4, <3>1, <3>2, <3>3
  <2> QED
    BY <2>1, <2>2, <2>3
<1>13. ASSUME StatusError = "none"
       PROVE  /\ ~("bad" \in ToSet(line)) /\ ~(line = <<>> \/ 1 \in Blanks) /\ d >= 3
              /\ v = Http11
  <2>1. ~("bad" \in ToSet(line)) /\ ~(line = <<>> \/ 1 \in Blanks) /\ Blanks # {} /\ Blanks # {First}
    BY <1>10, <1>13
  <2>2. v = Http11
    BY <1>10, <1>13
  <2>3. d # 1 /\ d # 2
    BY <1>5, <2>1
  <2> QED
    BY <1>4, <2>1, <2>2, <2>3
<1>14. ASSUME StatusError = "none" PROVE d = 3 /\ WrongStart(req) = {}
  <2>1. d = 3
    <3>1. " " \notin ToSet(Http11)
      <4>1. DOMAIN Http11 = 1..4 /\ Http11[1] = "HTTP/" /\ Http11[2] = "1" /\ Http11[3] = "." /\ Http11[4] = "1"
        BY DEF Http11
      <4>2. \A i \in 1..4 : i = 1 \/ i = 2 \/ i = 3 \/ i = 4
        OBVIOUS
      <4>3. \A i \in DOMAIN Http11 : Http11[i] # " "
        BY <4>1, <4>2
      <4> QED
        BY <4>3 DEF ToSet
    <3> QED
      BY <1>9, <1>13, <1>14, <3>1 DEF VersionOf
  <2>2. ws[3] = Http11 /\ Http11 # <<>> /\ Http11[1] = "HTTP/" /\ "." \in ToSet(Http11)
    <3>1. Http11[3] = "." /\ 3 \in DOMAIN Http11 /\ Http11[1] = "HTTP/" /\ Http11 # <<>>
      BY DEF Http11
    <3>2. "." \in ToSet(Http11)
      BY <3>1 DEF ToSet
    <3> QED
      BY <1>9, <1>13, <1>14, <2>1, <3>1, <3>2 DEF VersionOf
  <2>3. ws[1] # <<>> /\ ~\E i \in 1..d : "bad" \in ToSet(ws[i])
    BY <1>6, <1>7, <1>13, <1>14
  <2>4. \A err : err \notin WrongStart(req)
    <3> TAKE err
    <3>1. 3 >= 2 /\ 3 >= 3
      OBVIOUS
    <3> QED
      BY <1>11, <2>1, <2>2, <2>3, <3>1
  <2> QED
    BY <2>1, <2>4
<1>15. ASSUME StatusError = "none"
       PROVE  /\ 2 \in DOMAIN Said(req) /\ Said(req)[2] = req.start[2]
              /\ Upto(line, First - 1) = req.start[1]
              /\ SubSeq(line, First + 1, Second - 1) = req.start[2]
  <2>1. d = 3 /\ d >= 2 /\ d >= 3
    BY <1>14, <1>15
  <2>2. 1 \in 1..(d - 1) /\ 2 \in 1..(d - 1) /\ 2 \in 1..d /\ 2 + 1 = 3
    BY <2>1
  <2>3. ws[1] = req.start[1] /\ ws[2] = req.start[2]
    BY <1>2, <2>2
  <2>4. ws[1] = Part(line, a[1], a[2] - 1) /\ ws[2] = Part(line, a[2], a[3] - 1) /\ a[1] = 0
    BY <1>3, <1>4, <2>2
  <2>5. First = a[2] /\ Second = a[3]
    BY <1>5, <2>1
  <2>6. Upto(line, First - 1) = ws[1] /\ SubSeq(line, First + 1, Second - 1) = ws[2]
    <3>1. 0 + 1 = 1
      OBVIOUS
    <3> QED
      BY <2>4, <2>5, <3>1 DEF Upto, Part
  <2> QED
    BY <1>1, <1>3, <2>2, <2>3, <2>6
<1> QED
  BY <1>12, <1>14, <1>15 DEF StatusRight

LEMMA TrimStartIs ==
  ASSUME NEW s \in Text, NEW e \in 0..Len(s), \A j \in 1..e : ~Solid(s[j]), e < Len(s) => Solid(s[e + 1])
  PROVE  TrimStart(s) = Behind(s, e)
<1> DEFINE I == {i \in 1..Len(s) : Solid(s[i])}
<1>1. Len(s) \in Nat
  BY LenProperties DEF Text
<1>2. PICK n : n = SelectInSeq(s, Solid)
  OBVIOUS
<1>3. n = IF I # {} THEN Min(I) ELSE 0
  BY <1>2 DEF SelectInSeq
<1>4. TrimStart(s) = IF n = 0 THEN <<>> ELSE Behind(s, n - 1)
  BY <1>2 DEF TrimStart
<1>5. CASE e = Len(s)
  <2>1. I = {}
    BY <1>5
  <2>2. e + 1 \in Int /\ Len(s) \in Int /\ Len(s) < e + 1
    BY <1>1, <1>5
  <2>3. Behind(s, e) = <<>>
    BY <2>2, SubSeqProperties DEF Behind
  <2> QED
    BY <1>3, <1>4, <2>1, <2>3
<1>6. CASE e < Len(s)
  <2>1. e + 1 \in I /\ I \subseteq Nat /\ e + 1 # 0 /\ (e + 1) - 1 = e
    BY <1>1, <1>6
  <2>2. ASSUME NEW j \in I PROVE e + 1 <= j
    <3>1. j \in Nat /\ j \in 1..Len(s) /\ j \notin 1..e
      BY <1>1
    <3> QED
      BY <1>1, <3>1
  <2>3. PICK m : m = e + 1
    OBVIOUS
  <2> HIDE DEF I
  <2>4. Min(I) = m
    BY <2>1, <2>2, <2>3, LeastIs
  <2> QED
    BY <1>3, <1>4, <2>1, <2>3, <2>4
<1> QED
  BY <1>1, <1>5, <1>6

(* A field of which n symbols have come, and what is made of its line.     *)
CutField(f, n) ==
  [name  |-> Cut(f.name, n),
   sep   |-> Cut(f.sep, n - Len(f.name)),
   value |-> Cut(f.value, n - Len(f.name \o f.sep))]

FieldRead(x, g) ==
  /\ x \in Text /\ x # <<>> /\ g.name \in Text /\ g.value \in Text
  /\ Find(x, ":") = 0 <=> g.sep = <<>>
  /\ Find(x, ":") # 0 => /\ Upto(x, Find(x, ":") - 1) = g.name
                         /\ TrimStart(Behind(x, Find(x, ":"))) = g.value

LEMMA FieldReadIs ==
  ASSUME NEW r \in Requests, NEW i \in 1..Len(r.fields), NEW f, f = r.fields[i],
         NEW n \in Nat \ {0}, NEW x, x = Cut(FieldLine(f), n), NEW g, g = CutField(f, n)
  PROVE  FieldRead(x, g)
<1>1. PICK nm, sp, v, t : nm = f.name /\ sp = f.sep /\ v = f.value /\ t = FieldLine(f)
  OBVIOUS
<1>2. /\ nm \in Text /\ sp \in Text /\ v \in Text
      /\ sp \in {<<>>, <<":">>, <<":", " ">>}
      /\ t \in Text /\ Len(t) \in Nat \ {0}
      /\ \A j \in 1..Len(t) : t[j] \notin {"CR", "LF"}
      /\ \A j \in 1..Len(nm) : nm[j] # ":"
      /\ sp = <<>> => \A j \in 1..Len(v) : v[j] # ":"
      /\ v # <<>> => v[1] # " "
  BY <1>1, FieldTypes
<1>3. PICK h : h = nm \o sp
  OBVIOUS
<1>4. h \in Text /\ Len(h) = Len(nm) + Len(sp) /\ At(h, 0, nm) /\ At(h, Len(nm), sp)
      /\ Len(nm) \in Nat /\ Len(sp) \in Nat
  BY <1>2, <1>3, AtJoin DEF Text
<1>5. t = h \o v /\ Len(t) = Len(h) + Len(v) /\ At(t, 0, h) /\ At(t, Len(h), v) /\ Len(v) \in Nat /\ Len(h) \in Nat
  <2>1. t = h \o v
    BY <1>1, <1>3 DEF FieldLine
  <2> QED
    BY <1>2, <1>4, <2>1, AtJoin DEF Text
<1>6. PICK a, l, k, b : a = Len(nm) /\ l = Len(sp) /\ k = Len(v) /\ b = a + l
  OBVIOUS
<1>7. a \in Nat /\ l \in Nat /\ k \in Nat /\ b \in Nat /\ b = a + l /\ Len(h) = b /\ Len(t) = b + k /\ n \in Nat /\ n > 0
  BY <1>4, <1>5, <1>6
<1>8. At(t, 0, nm) /\ At(t, a, sp) /\ At(t, b, v)
  <2>1. 0 = 0 + 0 /\ a = 0 + a /\ 0 \in Nat
    BY <1>7
  <2>2. t \in Seq(Symbols) /\ h \in Seq(Symbols) /\ nm \in Seq(Symbols) /\ sp \in Seq(Symbols)
    BY <1>2, <1>4 DEF Text
  <2>3. At(t, 0, nm)
    BY <1>4, <1>5, <2>1, <2>2, AtAt
  <2>4. At(t, a, sp)
    BY <1>4, <1>5, <1>6, <1>7, <2>1, <2>2, AtAt
  <2> QED
    BY <1>5, <1>7, <2>3, <2>4
<1>9. /\ \A j \in 1..a : t[j] = nm[j]
      /\ \A j \in 1..l : t[a + j] = sp[j]
      /\ \A j \in 1..k : t[b + j] = v[j]
  <2>1. \A j \in 1..a : 0 + j = j
    BY <1>7
  <2> QED
    BY <1>6, <1>8, <2>1 DEF At
<1>10. PICK m : m = Lesser(n, b + k)
  OBVIOUS
<1>11. m \in 0..Len(t) /\ m \in Nat /\ m # 0
  <2>1. Len(t) \in Nat \ {0}
    BY <1>2
  <2>2. b + k # 0 /\ b \in Nat /\ k \in Nat /\ n \in Nat /\ n > 0 /\ Len(t) = b + k
    BY <1>7, <2>1
  <2> QED
    BY <1>10, <2>2 DEF Lesser
<1>12. PICK gn, gs, gv : gn = g.name /\ gs = g.sep /\ gv = g.value
  OBVIOUS
<1>13. /\ gn = Part(t, 0, Lesser(n, a))
       /\ gs = Part(t, a, Lesser(n, b))
       /\ gv = Part(t, b, m)
       /\ x = Part(t, 0, m)
  <2>1. t \in Seq(Symbols) /\ nm \in Seq(Symbols) /\ sp \in Seq(Symbols) /\ v \in Seq(Symbols) /\ n \in Nat /\ 0 \in Nat
    BY <1>2 DEF Text
  <2>2. gn = Cut(nm, n) /\ gs = Cut(sp, n - a) /\ gv = Cut(v, n - b) /\ x = Cut(t, n)
    BY <1>1, <1>3, <1>6, <1>7, <1>12 DEF CutField
  <2>3. n - 0 = n /\ 0 + a = a /\ 0 + (b + k) = b + k
    BY <1>7
  <2>4. Cut(nm, n - 0) = Part(t, 0, Lesser(n, 0 + Len(nm)))
    BY <1>8, <2>1, CutAt
  <2>5. Cut(sp, n - a) = Part(t, a, Lesser(n, a + Len(sp)))
    BY <1>7, <1>8, <2>1, CutAt
  <2>6. Cut(v, n - b) = Part(t, b, Lesser(n, b + Len(v)))
    BY <1>7, <1>8, <2>1, CutAt
  <2>7. x = Part(t, 0, m)
    <3>1. At(t, 0, t)
      BY <1>7 DEF At
    <3>2. Cut(t, n - 0) = Part(t, 0, Lesser(n, 0 + Len(t)))
      BY <2>1, <3>1, CutAt
    <3> QED
      BY <1>7, <1>10, <2>2, <2>3, <3>2
  <2> QED
    BY <1>6, <1>10, <2>2, <2>3, <2>4, <2>5, <2>6, <2>7
<1>14. ASSUME NEW p \in Nat, NEW c \in 0..Len(t)
       PROVE  /\ Part(t, p, c) \in Text
              /\ Len(Part(t, p, c)) = IF p <= c THEN c - p ELSE 0
              /\ \A j \in 1..(c - p) : Part(t, p, c)[j] = t[p + j]
  <2>1. t \in Seq(Symbols)
    BY <1>2 DEF Text
  <2> QED
    BY <2>1, PartIs DEF Text
<1>15. Lesser(n, a) \in 0..Len(t) /\ Lesser(n, b) \in 0..Len(t) /\ 0 \in Nat
  BY <1>7 DEF Lesser
<1>16. gn \in Text /\ gv \in Text /\ gs \in Text
       /\ x \in Text /\ Len(x) = m /\ (\A j \in 1..m : x[j] = t[j]) /\ x # <<>>
  <2>1. gn \in Text /\ gv \in Text /\ gs \in Text
    BY <1>7, <1>11, <1>13, <1>14, <1>15
  <2>2. x \in Text /\ Len(x) = m /\ \A j \in 1..m : x[j] = t[j]
    <3>1. 0 <= m /\ m - 0 = m /\ \A j \in 1..m : 0 + j = j
      BY <1>11
    <3>2. PICK w : w = Part(t, 0, m)
      OBVIOUS
    <3>3. w \in Text /\ Len(w) = (IF 0 <= m THEN m - 0 ELSE 0) /\ \A j \in 1..(m - 0) : w[j] = t[0 + j]
      BY <1>11, <1>14, <1>15, <3>2
    <3>4. Len(w) = m /\ \A j \in 1..m : w[j] = t[j]
      BY <3>1, <3>3
    <3> QED
      BY <1>13, <3>2, <3>3, <3>4
  <2>3. x # <<>>
    BY <1>11, <2>2, EmptySeq
  <2> QED
    BY <2>1, <2>2, <2>3
<1>17. CASE l = 0 \/ n <= a
  <2>1. gs = <<>>
    <3>1. Lesser(n, b) <= a /\ Lesser(n, b) \in Nat
      BY <1>7, <1>17 DEF Lesser
    <3> QED
      BY <1>7, <1>13, <3>1, NoPart
  <2>2. \A j \in 1..Len(x) : x[j] # ":"
    <3> SUFFICES ASSUME NEW j \in 1..m PROVE t[j] # ":"
      BY <1>16
    <3>1. j \in Nat /\ j >= 1 /\ j <= n /\ j <= b + k
      BY <1>7, <1>10, <1>11 DEF Lesser
    <3>2. CASE j <= a
      <4>1. j \in 1..a
        BY <1>7, <3>1, <3>2
      <4>2. t[j] = nm[j] /\ nm[j] # ":"
        BY <1>2, <1>6, <1>9, <4>1
      <4> QED
        BY <4>2
    <3>3. CASE ~(j <= a)
      <4>1. l = 0 /\ b = a
        BY <1>7, <1>17, <3>1, <3>3
      <4>2. sp = <<>>
        BY <1>2, <1>6, <4>1, EmptySeq DEF Text
      <4>3. PICK q : q = j - b
        OBVIOUS
      <4>4. q \in 1..k /\ b + q = j
        BY <1>7, <3>1, <3>3, <4>1, <4>3
      <4>5. t[b + q] = v[q] /\ v[q] # ":"
        BY <1>2, <1>6, <1>9, <4>2, <4>4
      <4> QED
        BY <4>4, <4>5
    <3> QED
      BY <3>2, <3>3
  <2>3. Find(x, ":") = 0
    BY <1>16, <2>2, NoFind
  <2> QED
    BY <1>12, <1>16, <2>1, <2>3 DEF FieldRead
<1>18. CASE ~(l = 0) /\ ~(n <= a)
  <2>1. l >= 1 /\ n >= a + 1 /\ m >= a + 1 /\ a + 1 \in 1..m /\ Lesser(n, a) = a
        /\ Lesser(n, b) >= a + 1
    BY <1>7, <1>10, <1>18 DEF Lesser
  <2>2. sp # <<>> /\ sp \in {<<":">>, <<":", " ">>}
    <3>1. sp # <<>>
      BY <1>6, <1>18, EmptySeq
    <3> QED
      BY <1>2, <3>1
  <2>3. sp[1] = ":" /\ (l = 1 \/ (l = 2 /\ sp[2] = " "))
    <3>1. CASE sp = <<":">>
      BY <1>6, <3>1
    <3>2. CASE sp = <<":", " ">>
      BY <1>6, <3>2
    <3> QED
      BY <2>2, <3>1, <3>2
  <2>4. 1 \in 1..l
    BY <1>7, <2>1
  <2>5. x[a + 1] = ":"
    BY <1>9, <1>16, <2>1, <2>3, <2>4
  <2>6. \A j \in 1..((a + 1) - 1) : x[j] # ":"
    <3>1. \A j \in 1..((a + 1) - 1) : j \in 1..a /\ j \in 1..m
      BY <1>7, <1>11, <2>1
    <3>2. \A j \in 1..a : t[j] = nm[j] /\ nm[j] # ":"
      BY <1>2, <1>6, <1>9
    <3>3. \A j \in 1..m : x[j] = t[j]
      BY <1>16
    <3> QED
      BY <3>1, <3>2, <3>3
  <2>7. PICK c : c = a + 1
    OBVIOUS
  <2>8. Find(x, ":") = c
    <3>1. c \in 1..Len(x) /\ x[c] = ":" /\ \A j \in 1..(c - 1) : x[j] # ":"
      BY <1>16, <2>1, <2>5, <2>6, <2>7
    <3> QED
      BY <1>16, <3>1, FindUnique
  <2>9. gs # <<>>
    <3>1. Len(gs) = Lesser(n, b) - a /\ Lesser(n, b) \in Nat
      <4>1. a <= Lesser(n, b) /\ Lesser(n, b) \in Nat
        BY <1>7, <1>15, <2>1
      <4> QED
        BY <1>7, <1>13, <1>14, <1>15, <4>1
    <3>2. Len(gs) # 0
      BY <1>7, <2>1, <3>1
    <3> QED
      BY <3>2, EmptySeq
  <2>10. Upto(x, c - 1) = gn
    <3>1. c - 1 = a /\ 0 + 0 = 0 /\ 0 + a = a /\ a \in 0..(m - 0) /\ 0 <= m
      BY <1>7, <1>11, <2>1, <2>7
    <3>2. t \in Seq(Symbols)
      BY <1>2 DEF Text
    <3>3. Part(Part(t, 0, m), 0, a) = Part(t, 0 + 0, 0 + a)
      BY <1>11, <1>15, <3>1, <3>2, PartOfPart
    <3>4. 0 + 1 = 1
      OBVIOUS
    <3>5. Upto(x, a) = Part(x, 0, a)
      BY <3>4 DEF Upto, Part
    <3> QED
      BY <1>13, <2>1, <3>1, <3>3, <3>5
  <2>11. PICK u : u = Behind(x, c)
    OBVIOUS
  <2>12. u = Part(t, c, m) /\ c \in Nat /\ c <= m
    <3>1. 0 + c = c /\ 0 + m = m /\ m \in 0..(m - 0) /\ 0 <= m /\ c \in Nat /\ c <= m
      BY <1>7, <1>11, <2>1, <2>7
    <3>2. t \in Seq(Symbols)
      BY <1>2 DEF Text
    <3>3. Part(Part(t, 0, m), c, m) = Part(t, 0 + c, 0 + m)
      BY <1>11, <1>15, <3>1, <3>2, PartOfPart
    <3>4. u = Part(x, c, m)
      BY <1>16, <2>11 DEF Behind, Part
    <3> QED
      BY <1>13, <3>1, <3>3, <3>4
  <2>13. u \in Text /\ Len(u) = m - c /\ \A j \in 1..(m - c) : u[j] = t[c + j]
    BY <1>11, <1>14, <2>12
  <2>14. ASSUME NEW e \in {0, 1}, b = c + e, e <= m - c => \A j \in 1..e : ~Solid(u[j])
         PROVE  TrimStart(u) = gv
    <3>1. CASE e <= m - c
      <4>1. e \in 0..Len(u)
        BY <1>11, <2>12, <2>13, <3>1
      <4>2. e < Len(u) => Solid(u[e + 1])
        <5> SUFFICES ASSUME e < Len(u) PROVE Solid(u[e + 1])
          OBVIOUS
        <5>1. e + 1 \in 1..(m - c) /\ c + (e + 1) = b + 1 /\ b + 1 <= m
          <6>1. c \in Nat /\ m \in Nat /\ e < m - c /\ b = c + e /\ (e = 0 \/ e = 1)
            BY <1>11, <2>12, <2>13, <2>14
          <6> QED
            BY <6>1
        <5>2. u[e + 1] = t[b + 1]
          BY <2>13, <5>1
        <5>3. k >= 1
          BY <1>7, <1>10, <5>1 DEF Lesser
        <5>4. 1 \in 1..k /\ b + 1 \in 1..Len(t)
          BY <1>7, <5>3
        <5>5. t[b + 1] = v[1] /\ v # <<>>
          <6>1. t[b + 1] = v[1]
            BY <1>9, <5>4
          <6>2. Len(v) # 0
            BY <1>6, <1>7, <5>3
          <6> QED
            BY <6>1, <6>2, EmptySeq
        <5>6. t[b + 1] \notin {"CR", "LF"} /\ t[b + 1] # " "
          BY <1>2, <5>4, <5>5
        <5> QED
          BY <5>2, <5>6 DEF Solid, White
      <4>3. TrimStart(u) = Behind(u, e)
        BY <2>13, <2>14, <3>1, <4>1, <4>2, TrimStartIs
      <4>4. PICK y : y = m - c
        OBVIOUS
      <4>5. y \in 0..(m - c) /\ c + y = m /\ Len(u) = y /\ e \in Nat /\ y \in Nat
        BY <1>11, <2>12, <2>13, <4>4
      <4>6. Part(Part(t, c, m), e, y) = Part(t, c + e, c + y)
        <5>1. t \in Seq(Symbols)
          BY <1>2 DEF Text
        <5> QED
          BY <1>11, <2>12, <4>5, <5>1, PartOfPart
      <4>7. Behind(u, e) = Part(u, e, y)
        BY <4>5 DEF Behind, Part
      <4> QED
        BY <1>13, <2>12, <2>14, <4>3, <4>5, <4>6, <4>7
    <3>2. CASE ~(e <= m - c)
      <4>1. m = c /\ m <= b /\ e = 1
        BY <1>7, <1>11, <2>12, <2>14, <3>2
      <4>2. u = <<>>
        BY <1>7, <1>11, <2>12, <4>1, NoPart
      <4>3. gv = <<>>
        BY <1>7, <1>11, <1>13, <4>1, NoPart
      <4>4. TrimStart(u) = Behind(u, 0)
        <5>1. Len(u) = 0 /\ 0 \in 0..Len(u) /\ ~(0 < Len(u))
          BY <4>2, EmptySeq
        <5>2. \A j \in 1..0 : ~Solid(u[j])
          OBVIOUS
        <5> QED
          BY <2>13, <5>1, <5>2, TrimStartIs
      <4>5. Behind(u, 0) = <<>>
        <5>1. 0 + 1 \in Int /\ 0 \in Int /\ 0 < 0 + 1 /\ Len(u) = 0
          BY <4>2, EmptySeq
        <5> QED
          BY <5>1, SubSeqProperties DEF Behind
      <4> QED
        BY <4>3, <4>4, <4>5
    <3> QED
      BY <3>1, <3>2
  <2>15. TrimStart(u) = gv
    <3>1. CASE l = 1
      <4>1. b = c + 0 /\ 0 \in {0, 1}
        BY <1>7, <2>7, <3>1
      <4>2. \A j \in 1..0 : ~Solid(u[j])
        OBVIOUS
      <4> QED
        BY <2>14, <4>1, <4>2
    <3>2. CASE l = 2 /\ sp[2] = " "
      <4>1. b = c + 1 /\ 1 \in {0, 1} /\ c + 1 = a + 2 /\ 2 \in 1..l
        <5>1. a \in Nat /\ l = 2 /\ b = a + l /\ c = a + 1
          BY <1>7, <2>7, <3>2
        <5> QED
          BY <5>1
      <4>2. ASSUME 1 <= m - c PROVE \A j \in 1..1 : ~Solid(u[j])
        <5>1. 1 \in 1..(m - c)
          BY <1>11, <2>12, <4>2
        <5>2. u[1] = " "
          <6>1. u[1] = t[c + 1]
            BY <2>13, <5>1
          <6>2. t[a + 2] = sp[2]
            BY <1>9, <4>1
          <6> QED
            BY <3>2, <4>1, <6>1, <6>2
        <5>3. \A j \in 1..1 : j = 1
          OBVIOUS
        <5> QED
          BY <5>2, <5>3 DEF Solid, White
      <4> QED
        BY <2>14, <4>1, <4>2
    <3> QED
      BY <2>3, <3>1, <3>2
  <2>16. c # 0
    BY <1>7, <2>7
  <2> QED
    BY <1>12, <1>16, <2>8, <2>9, <2>10, <2>11, <2>15, <2>16 DEF FieldRead
<1> QED
  BY <1>17, <1>18

(* The fields that have come: how many, and each as it was cut.            *)
ArrivedAre(r, n) ==
  /\ n \in 0..Len(r.fields) /\ n \in Nat /\ Len(r.fields) \in Nat
  /\ DOMAIN Arrived(r) = 1..n /\ Len(Arrived(r)) = n
  /\ \A i \in 1..Len(r.fields) : Begins(r, i) < r.eof <=> i <= n
  /\ \A i \in 1..n : Arrived(r)[i] = CutField(r.fields[i], r.eof - Begins(r, i))

LEMMA ArrivedIs ==
  ASSUME NEW r \in Requests
  PROVE  \E n : ArrivedAre(r, n)
<1> DEFINE m == Len(r.fields)
           Over == {j \in Nat : j >= 1 /\ j <= m + 1 /\ (j = m + 1 \/ ~(Begins(r, j) < r.eof))}
<1>1. Placed(r, Wire(r), m)
  BY RequestPlaced
<1>2. /\ m \in Nat /\ r.eof \in Nat
      /\ \A i \in 1..m : Begins(r, i) \in Nat
      /\ \A i, j \in 1..(m + 1) : i <= j => Begins(r, i) <= Begins(r, j)
  <2>1. m \in Nat /\ r.eof \in 0..Len(Wire(r)) /\ Len(Wire(r)) \in Nat
        /\ \A i \in 1..(m + 1) : Begins(r, i) \in Nat
    BY <1>1 DEF Placed
  <2>2. \A i \in 1..m : i \in 1..(m + 1)
    BY <2>1
  <2>3. \A i, j \in 1..(m + 1) : i <= j => Begins(r, i) <= Begins(r, j)
    BY <1>1 DEF Placed
  <2>4. r.eof \in Nat
    BY <2>1
  <2> QED
    BY <2>1, <2>2, <2>3, <2>4
<1>0. m \in Nat /\ r.eof \in Nat
  BY <1>2
<1>3. PICK j \in Over : \A i \in Over : j <= i
  <2>1. m + 1 \in Over
    BY <1>0
  <2>2. Over \in SUBSET Nat /\ Over # {}
    BY <2>1
  <2> HIDE DEF Over
  <2> QED
    BY <2>2, HasLeast
<1>4. j \in Nat /\ j >= 1 /\ j <= m + 1 /\ (j = m + 1 \/ ~(Begins(r, j) < r.eof))
  OBVIOUS
<1>5. PICK n : n = j - 1
  OBVIOUS
<1>6. n \in 0..m /\ n \in Nat /\ n + 1 = j
  BY <1>0, <1>4, <1>5
<1>7. ASSUME NEW i \in 1..m PROVE Begins(r, i) < r.eof <=> i <= n
  <2>1. i \in Nat /\ i >= 1 /\ i <= m + 1 /\ i \in 1..(m + 1) /\ i # m + 1
    BY <1>0
  <2>2. Begins(r, i) \in Nat
    BY <1>2
  <2>3. CASE i <= n
    <3>1. ~(j <= i)
      BY <1>6, <2>1, <2>3
    <3>2. i \notin Over
      BY <1>3, <3>1
    <3>3. Begins(r, i) < r.eof
      BY <2>1, <3>2
    <3> QED
      BY <2>3, <3>3
  <2>4. CASE ~(i <= n)
    <3>1. j <= i /\ j # m + 1 /\ j \in 1..(m + 1) /\ j \in 1..m
      BY <1>0, <1>4, <1>6, <2>1, <2>4
    <3>2. Begins(r, j) <= Begins(r, i) /\ ~(Begins(r, j) < r.eof) /\ Begins(r, j) \in Nat
      BY <1>2, <1>4, <2>1, <3>1
    <3>3. ~(Begins(r, i) < r.eof)
      BY <1>0, <2>2, <3>2
    <3> QED
      BY <2>4, <3>3
  <2> QED
    BY <2>3, <2>4
<1>8. {i \in 1..m : Begins(r, i) < r.eof} = 1..n
  <2>1. \A i \in 1..n : i \in 1..m /\ i <= n
    BY <1>0, <1>6
  <2>2. \A i \in 1..m : i <= n => i \in 1..n
    BY <1>0, <1>6
  <2> QED
    BY <1>7, <2>1, <2>2
<1>9. Arrived(r) = [i \in 1..n |-> CutField(r.fields[i], r.eof - Begins(r, i))]
  BY <1>8 DEF Arrived, CutField
<1>10. Len(Arrived(r)) = n
  BY <1>6, <1>9
<1>11. DOMAIN Arrived(r) = 1..n /\ \A i \in 1..n : Arrived(r)[i] = CutField(r.fields[i], r.eof - Begins(r, i))
  BY <1>9
<1>12. ArrivedAre(r, n)
  BY <1>0, <1>6, <1>7, <1>10, <1>11 DEF ArrivedAre
<1> QED
  BY <1>12

(* What read_line gives of the first line.                                 *)
LEMMA StatusRead ==
  ASSUME req \in Requests, input = Part(Wire(req), 0, req.eof)
  PROVE  /\ TrimEnd(NextLine) = TrimEnd(Cut(Words(req.start), req.eof))
         /\ Behind(input, Eol) = Part(Wire(req), Begins(req, 1), req.eof)
<1>1. PICK w, d, e, c, q : w = Wire(req) /\ d = Words(req.start) /\ e = req.eol /\ c = req.eof /\ q = Begins(req, 1)
  OBVIOUS
<1>2. Placed(req, w, Len(req.fields))
  BY <1>1, RequestPlaced
<1>3. /\ w \in Text /\ c \in 0..Len(w) /\ Len(w) \in Nat
      /\ LineAt(w, 0, d, e)
      /\ q = Len(d) + Len(e)
  BY <1>1, <1>2 DEF Placed
<1>4. q = 0 + Len(d) + Len(e) /\ c - 0 = c
  <2>1. Len(d) \in Nat /\ Len(e) \in Nat
    BY <1>3, LenProperties, EolIs DEF LineAt, Text
  <2>2. c \in Nat
    BY <1>3
  <2> QED
    BY <1>3, <2>1, <2>2
<1>5. PICK s : s = Part(w, 0, c)
  OBVIOUS
<1>6. /\ Upto(s, LineEnd(s)) = Part(w, 0, Lesser(c, q))
      /\ Behind(s, LineEnd(s)) = Part(w, q, c)
  BY <1>3, <1>4, <1>5, LineEndIs
<1>7. TrimEnd(Part(w, 0, Lesser(c, q))) = TrimEnd(Cut(d, c - 0))
  BY <1>3, <1>4, TrimIs
<1> QED
  BY <1>1, <1>4, <1>5, <1>6, <1>7 DEF NextLine, Eol

(* What read_line gives of the lines behind it, k of which are read.       *)
LineRead(r, n, k, got_line, rest) ==
  \/ /\ k < n /\ k + 1 \in 1..n /\ k + 1 \in 1..Len(r.fields)
     /\ r.eof - Begins(r, k + 1) \in Nat \ {0}
     /\ got_line = Cut(FieldLine(r.fields[k + 1]), r.eof - Begins(r, k + 1))
     /\ rest = Part(Wire(r), Begins(r, k + 2), r.eof)
  \/ k = n /\ got_line = <<>> /\ rest = Part(Wire(r), Len(HeadOf(r)), r.eof)

LEMMA LineReadIs ==
  ASSUME req \in Requests, NEW n, ArrivedAre(req, n), NEW k \in 0..n,
         input = Part(Wire(req), Begins(req, k + 1), req.eof)
  PROVE  LineRead(req, n, k, Strip(NextLine), Behind(input, Eol))
<1> DEFINE m == Len(req.fields)
<1>1. PICK w, e, c, b : w = Wire(req) /\ e = req.eol /\ c = req.eof /\ b = Begins(req, k + 1)
  OBVIOUS
<1>2. Placed(req, w, m)
  BY <1>1, RequestPlaced
<1>3. /\ w \in Text /\ c \in 0..Len(w) /\ Len(w) \in Nat /\ m \in Nat /\ n \in 0..m /\ n \in Nat
  BY <1>1, <1>2 DEF Placed, ArrivedAre
<1>4. c \in Nat /\ k \in Nat /\ k <= n /\ n <= m /\ k + 1 \in 1..(m + 1)
  BY <1>3
<1>5. b \in Nat
  BY <1>1, <1>2, <1>4 DEF Placed
<1>6. PICK s : s = Part(w, b, c)
  OBVIOUS
<1>7. input = s /\ NextLine = Upto(s, LineEnd(s)) /\ Behind(input, Eol) = Behind(s, LineEnd(s))
  BY <1>1, <1>6 DEF NextLine, Eol
<1>8. ASSUME NEW t, LineAt(w, b, t, e), NEW q, q = b + Len(t) + Len(e)
      PROVE  Strip(NextLine) = Cut(t, c - b) /\ Behind(input, Eol) = Part(w, q, c)
  <2>1. /\ Upto(s, LineEnd(s)) = Part(w, b, Lesser(c, q))
        /\ Behind(s, LineEnd(s)) = Part(w, q, c)
    BY <1>3, <1>6, <1>8, LineEndIs
  <2>2. Strip(Part(w, b, Lesser(c, q))) = Cut(t, c - b)
    BY <1>3, <1>8, StripIs
  <2> QED
    BY <1>7, <2>1, <2>2
<1>9. Cut(<<>>, c - b) = <<>>
  <2>1. PICK z : z = IF c - b < 0 THEN 0 ELSE IF c - b < Len(<<>>) THEN c - b ELSE Len(<<>>)
    OBVIOUS
  <2>2. z = 0
    <3>1. Len(<<>>) = 0 /\ c - b \in Int
      BY <1>4, <1>5, EmptySeq
    <3> QED
      BY <2>1, <3>1
  <2>3. Cut(<<>>, c - b) = SubSeq(<<>>, 1, 0)
    BY <2>1, <2>2 DEF Cut, Upto
  <2>4. 1 \in Int /\ 0 \in Int /\ 0 < 1
    OBVIOUS
  <2> QED
    BY <2>3, <2>4, SubSeqProperties
<1>10. CASE k < m
  <2>1. k + 1 \in 1..m /\ (k + 1) + 1 = k + 2
    BY <1>3, <1>4, <1>10
  <2>2. PICK t, q : t = FieldLine(req.fields[k + 1]) /\ q = Begins(req, k + 2)
    OBVIOUS
  <2>3. LineAt(w, b, t, e) /\ q = b + Len(t) + Len(e)
    BY <1>1, <1>2, <2>1, <2>2 DEF Placed
  <2>4. Strip(NextLine) = Cut(t, c - b) /\ Behind(input, Eol) = Part(w, q, c)
    BY <1>8, <2>3
  <2>5. b < c <=> k + 1 <= n
    BY <1>1, <2>1 DEF ArrivedAre
  <2>6. CASE k < n
    <3>1. k + 1 \in 1..n /\ k + 1 <= n
      BY <1>3, <1>4, <2>6
    <3>2. c - b \in Nat \ {0}
      BY <1>4, <1>5, <2>5, <3>1
    <3> QED
      BY <1>1, <2>1, <2>2, <2>4, <2>6, <3>1, <3>2 DEF LineRead
  <2>7. CASE ~(k < n)
    <3>1. k = n /\ c <= b
      <4>1. k = n /\ ~(k + 1 <= n)
        BY <1>3, <1>4, <2>7
      <4> QED
        BY <1>4, <1>5, <2>5, <4>1
    <3>2. Strip(NextLine) = <<>>
      <4>1. t \in Text
        BY <2>3 DEF LineAt
      <4>2. Cut(t, c - b) = <<>>
        <5>1. c - b < 0 \/ c - b = 0
          BY <1>4, <1>5, <3>1
        <5>2. Len(t) \in Nat
          BY <4>1, LenProperties DEF Text
        <5>3. PICK z : z = IF c - b < 0 THEN 0 ELSE IF c - b < Len(t) THEN c - b ELSE Len(t)
          OBVIOUS
        <5>4. z = 0
          BY <5>1, <5>2, <5>3
        <5>5. Cut(t, c - b) = SubSeq(t, 1, 0)
          BY <5>3, <5>4 DEF Cut, Upto
        <5>6. 1 \in Int /\ 0 \in Int /\ 0 < 1
          OBVIOUS
        <5> QED
          BY <5>5, <5>6, SubSeqProperties
      <4> QED
        BY <2>4, <4>2
    <3>3. Behind(input, Eol) = Part(w, Len(HeadOf(req)), c)
      <4>1. k + 2 \in 1..(m + 1) /\ m + 1 \in 1..(m + 1) /\ k + 1 <= k + 2 /\ k + 2 <= m + 1
        BY <1>3, <1>4, <1>10
      <4>2. /\ Begins(req, k + 1) <= Begins(req, k + 2) /\ Begins(req, k + 2) <= Begins(req, m + 1)
            /\ Begins(req, k + 2) \in Nat /\ Begins(req, m + 1) \in Nat
        BY <1>2, <1>4, <4>1 DEF Placed
      <4>3. Len(HeadOf(req)) = Begins(req, m + 1) + Len(e) /\ Len(e) \in 1..2
        BY <1>1, <1>2, RequestTypes DEF Placed
      <4>4. PICK h, g : h = Len(HeadOf(req)) /\ g = Begins(req, m + 1)
        OBVIOUS
      <4>5. h \in Nat /\ q \in Nat /\ c <= q /\ c <= h
        <5>1. g \in Nat /\ h = g + Len(e) /\ Len(e) \in Nat
          BY <4>2, <4>3, <4>4
        <5>2. b <= q /\ q <= g /\ q \in Nat
          BY <1>1, <2>2, <4>2, <4>4
        <5> QED
          BY <1>4, <1>5, <3>1, <5>1, <5>2
      <4>6. Part(w, q, c) = <<>> /\ Part(w, h, c) = <<>>
        BY <1>4, <4>5, NoPart
      <4> QED
        BY <2>4, <4>4, <4>6
    <3> QED
      BY <1>1, <3>1, <3>2, <3>3 DEF LineRead
  <2> QED
    BY <2>6, <2>7
<1>11. CASE ~(k < m)
  <2>1. k = m /\ k = n
    BY <1>3, <1>4, <1>11
  <2>2. LineAt(w, b, <<>>, e) /\ Len(HeadOf(req)) = b + Len(e)
    BY <1>1, <1>2, <2>1 DEF Placed
  <2>3. PICK q : q = Len(HeadOf(req))
    OBVIOUS
  <2>4. q = b + Len(<<>>) + Len(e)
    <3>1. Len(<<>>) = 0 /\ b + 0 = b
      BY <1>5, EmptySeq
    <3> QED
      BY <2>2, <2>3, <3>1
  <2>5. Strip(NextLine) = Cut(<<>>, c - b) /\ Behind(input, Eol) = Part(w, q, c)
    BY <1>8, <2>2, <2>4
  <2> QED
    BY <1>1, <1>9, <2>1, <2>3, <2>5 DEF LineRead
<1> QED
  BY <1>10, <1>11

(* The values that one more field adds.                                    *)
Adds(r, name, i) == IF LowerCase(Arrived(r)[i].name) = name THEN <<Arrived(r)[i].value>> ELSE <<>>

LEMMA ArrivedTypes ==
  ASSUME NEW r \in Requests, NEW n, ArrivedAre(r, n), NEW i \in 1..n
  PROVE  FieldRead(Cut(FieldLine(r.fields[i]), r.eof - Begins(r, i)), Arrived(r)[i])
<1>1. i \in 1..Len(r.fields) /\ Arrived(r)[i] = CutField(r.fields[i], r.eof - Begins(r, i))
  BY DEF ArrivedAre
<1>2. r.eof - Begins(r, i) \in Nat \ {0}
  <2>1. Begins(r, i) < r.eof
    BY <1>1 DEF ArrivedAre
  <2>2. r.eof \in Nat
    <3>1. Placed(r, Wire(r), Len(r.fields))
      BY RequestPlaced
    <3>2. r.eof \in 0..Len(Wire(r)) /\ Len(Wire(r)) \in Nat
      BY <3>1 DEF Placed
    <3> QED
      BY <3>2
  <2>3. Begins(r, i) \in Nat
    <3>1. Placed(r, Wire(r), Len(r.fields))
      BY RequestPlaced
    <3>2. i \in 1..(Len(r.fields) + 1)
      BY <1>1 DEF ArrivedAre
    <3> QED
      BY <3>1, <3>2 DEF Placed
  <2> QED
    BY <2>1, <2>2, <2>3
<1>3. PICK f, m, x, g : f = r.fields[i] /\ m = r.eof - Begins(r, i) /\ x = Cut(FieldLine(f), m) /\ g = CutField(f, m)
  OBVIOUS
<1>4. FieldRead(x, g)
  BY <1>1, <1>2, <1>3, FieldReadIs
<1> QED
  BY <1>1, <1>3, <1>4

GivenStep(r, name, n) ==
  /\ GivenBy(r, name, 0) = <<>>
  /\ \A i \in 0..n : GivenBy(r, name, i) \in Seq(Text)
  /\ \A i \in 1..n : GivenBy(r, name, i) = GivenBy(r, name, i - 1) \o Adds(r, name, i)

LEMMA GivenAre ==
  ASSUME NEW r \in Requests, NEW n, ArrivedAre(r, n), NEW name
  PROVE  GivenStep(r, name, n)
<1>1. n \in Nat
  BY DEF ArrivedAre
<1>2. ASSUME NEW i \in 1..n PROVE Adds(r, name, i) \in Seq(Text)
  <2>1. Arrived(r)[i].value \in Text
    BY ArrivedTypes DEF FieldRead
  <2>2. PICK v : v = Arrived(r)[i].value
    OBVIOUS
  <2>3. <<v>> \in Seq(Text)
    BY <2>1, <2>2, OfOne
  <2>4. <<>> \in Seq(Text)
    BY EmptySeq
  <2> QED
    BY <2>2, <2>3, <2>4 DEF Adds
<1>3. PICK s : s = [i \in 1..n |-> Adds(r, name, i)]
  OBVIOUS
<1>4. s = [i \in 1..n |-> s[i]] /\ \A i \in 1..n : s[i] = Adds(r, name, i)
  BY <1>3
<1>5. s \in Seq(Seq(Text)) /\ Len(s) = n
  BY <1>1, <1>2, <1>4, IsSeqOf
<1>6. PICK f : Pieces(Text, s, f)
  BY <1>5, PiecesExist
<1>7. /\ \A i \in 0..n : FlattenSeq(SubSeq(s, 1, i)) = f[i] /\ f[i] \in Seq(Text)
      /\ \A i \in 1..n : f[i] = f[i - 1] \o s[i]
      /\ f[0] = <<>>
  BY <1>5, <1>6 DEF Pieces, Sums
<1>8. ASSUME NEW i \in 0..n PROVE GivenBy(r, name, i) = f[i]
  <2>1. PICK t : t = SubSeq(s, 1, i)
    OBVIOUS
  <2>2. t \in Seq(Seq(Text)) /\ Len(t) = i /\ \A j \in 1..i : t[j] = s[j]
    BY <1>5, <2>1, FirstOf
  <2>3. \A j \in 1..i : j \in 1..n
    BY <1>1
  <2>4. t = [j \in 1..i |-> t[j]]
    BY <2>2, LenProperties
  <2>5. \A j \in 1..i : t[j] = Adds(r, name, j)
    BY <1>4, <2>2, <2>3
  <2>6. t = [j \in 1..i |-> Adds(r, name, j)]
    BY <2>4, <2>5
  <2>7. GivenBy(r, name, i) = FlattenSeq(t)
    BY <2>6 DEF GivenBy, Adds
  <2> QED
    BY <1>7, <2>1, <2>7
<1>9. \A i \in 1..n : i \in 0..n /\ i - 1 \in 0..n
  BY <1>1
<1>10. 0 \in 0..n
  BY <1>1
<1>11. \A i \in 1..n : GivenBy(r, name, i) = GivenBy(r, name, i - 1) \o Adds(r, name, i)
  BY <1>4, <1>7, <1>8, <1>9
<1> QED
  BY <1>7, <1>8, <1>10, <1>11 DEF GivenStep

LEMMA PartsJoin ==
  ASSUME NEW S, NEW s \in Seq(S), NEW a \in Nat, NEW b \in Nat, NEW c \in 0..Len(s), a <= b, b <= c
  PROVE  Part(s, a, b) \o Part(s, b, c) = Part(s, a, c)
<1>1. Len(s) \in Nat
  BY LenProperties
<1>2. b \in 0..Len(s) /\ c \in Nat /\ a <= c
  BY <1>1
<1>3. PICK x, y : x = Part(s, a, b) /\ y = Part(s, b, c)
  OBVIOUS
<1>4. /\ x \in Seq(S) /\ Len(x) = b - a /\ \A i \in 1..(b - a) : x[i] = s[a + i]
      /\ y \in Seq(S) /\ Len(y) = c - b /\ \A i \in 1..(c - b) : y[i] = s[b + i]
  BY <1>2, <1>3, PartIs
<1>5. PICK t : t = x \o y
  OBVIOUS
<1>6. /\ t \in Seq(S) /\ Len(t) = (b - a) + (c - b)
      /\ \A i \in 1..(b - a) : t[i] = x[i]
      /\ \A i \in 1..(c - b) : t[(b - a) + i] = y[i]
  <2>1. /\ t \in Seq(S) /\ Len(t) = Len(x) + Len(y)
        /\ \A i \in 1..Len(x) : t[i] = x[i]
        /\ \A i \in 1..Len(y) : t[Len(x) + i] = y[i]
    <3>1. x \in Seq(S) /\ y \in Seq(S)
      BY <1>4
    <3> QED
      BY <1>5, <3>1, JoinAt
  <2>2. Len(x) = b - a /\ Len(y) = c - b
    BY <1>4
  <2> QED
    BY <2>1, <2>2
<1>7. (b - a) + (c - b) = c - a
  BY <1>2
<1>8. ASSUME NEW i \in 1..(c - a) PROVE t[i] = s[a + i]
  <2>1. i \in Nat
    BY <1>2
  <2>2. CASE i <= b - a
    <3>1. i \in 1..(b - a)
      BY <1>2, <2>1, <2>2
    <3> QED
      BY <1>4, <1>6, <3>1
  <2>3. CASE ~(i <= b - a)
    <3>1. PICK j : j = i - (b - a)
      OBVIOUS
    <3>2. j \in 1..(c - b) /\ (b - a) + j = i /\ b + j = a + i
      <4>1. i <= c - a /\ a \in Nat /\ b \in Nat /\ c \in Nat /\ i \in Nat /\ b - a < i
        BY <1>2, <2>1, <2>3
      <4> QED
        BY <3>1, <4>1
    <3>3. t[(b - a) + j] = y[j] /\ y[j] = s[b + j]
      BY <1>4, <1>6, <3>2
    <3> QED
      BY <3>2, <3>3
  <2> QED
    BY <2>2, <2>3
<1>9. t = Part(s, a, c)
  <2>1. Len(t) = c - a /\ t \in Seq(S)
    BY <1>6, <1>7
  <2>2. a <= c /\ a \in Nat /\ c \in 0..Len(s)
    BY <1>2
  <2> QED
    BY <1>8, <2>1, <2>2, IsPart
<1> QED
  BY <1>3, <1>5, <1>9

(* An absolute URI is its scheme, its host and its path.                   *)
LEMMA UriIs ==
  ASSUME NEW u \in Text, IsPrefix(Https, u), NEW rest, rest = Behind(u, 4),
         NEW n, n = Find(rest, "/"), n # 0
  PROVE  /\ Https \o Upto(rest, n - 1) \o Behind(rest, n - 1) = u
         /\ Behind(rest, n - 1)[1] = "/"
         /\ "/" \in ToSet(rest)
<1>1. DOMAIN Https = 1..4 /\ Len(Https) = 4 /\ Https[1] = "https" /\ Https[2] = ":" /\ Https[3] = "/" /\ Https[4] = "/"
  BY DEF Https
<1>2. Len(u) \in Nat /\ 4 <= Len(u) /\ SubSeq(Https, 1, 4) = SubSeq(u, 1, 4) /\ u \in Seq(Symbols)
  BY <1>1, LenProperties DEF IsPrefix, Text
<1>3. Https = Part(u, 0, 4)
  <2>1. SubSeq(Https, 1, 4) = Https
    <3>1. PICK S : S = {"https", ":", "/"}
      OBVIOUS
    <3>2. Https \in Seq(S)
      BY <3>1 DEF Https
    <3>3. PICK w : w = SubSeq(Https, 1, 4)
      OBVIOUS
    <3>4. 4 \in 0..Len(Https)
      BY <1>1
    <3>5. w \in Seq(S) /\ Len(w) = 4 /\ \A i \in 1..4 : w[i] = Https[i]
      BY <3>2, <3>3, <3>4, FirstOf
    <3>6. w = Https
      BY <1>1, <3>2, <3>5, SeqEqual
    <3> QED
      BY <3>3, <3>6
  <2> QED
    BY <1>2, <2>1 DEF Part
<1>4. rest = Part(u, 4, Len(u)) /\ Len(u) \in 0..Len(u)
  BY <1>2 DEF Behind, Part
<1>5. rest \in Text /\ Len(rest) = Len(u) - 4
  BY <1>2, <1>4, PartIs DEF Text
<1>6. n \in 1..Len(rest) /\ rest[n] = "/" /\ n \in Nat /\ Len(rest) \in Nat
  <2>1. n \in 0..Len(rest) /\ rest[n] = "/"
    BY <1>5, FindIs
  <2> QED
    BY <1>2, <1>5, <2>1
<1>7. PICK m, a, c : m = n - 1 /\ a = 4 + m /\ c = Len(u)
  OBVIOUS
<1>8. /\ m \in Nat /\ a \in Nat /\ c \in Nat /\ 4 <= a /\ a <= c /\ m \in 0..(c - 4) /\ c - 4 \in 0..(c - 4)
      /\ 4 + 0 = 4 /\ 4 + (c - 4) = c /\ a \in 0..c /\ 4 \in Nat /\ 0 \in Nat /\ 0 <= 4 /\ 0 <= a /\ Len(rest) = c - 4
      /\ c \in 0..Len(u) /\ 4 <= c
  <2>1. c \in Nat /\ m \in Nat /\ m + 1 <= c - 4 /\ a = 4 + m /\ 4 <= c
    BY <1>2, <1>5, <1>6, <1>7
  <2> QED
    BY <1>5, <1>7, <2>1
<1>9. Upto(rest, m) = Part(u, 4, a)
  <2>1. Upto(rest, m) = Part(rest, 0, m)
    <3>1. 0 + 1 = 1
      OBVIOUS
    <3> QED
      BY <3>1 DEF Upto, Part
  <2>2. Part(Part(u, 4, c), 0, m) = Part(u, 4 + 0, 4 + m)
    <3>1. PICK f, z : f = 4 /\ z = 0
      OBVIOUS
    <3>2. f \in Nat /\ c \in 0..Len(u) /\ f <= c /\ z \in Nat /\ m \in 0..(c - f) /\ u \in Seq(Symbols)
      BY <1>2, <1>8, <3>1
    <3>3. Part(Part(u, f, c), z, m) = Part(u, f + z, f + m)
      BY <3>2, PartOfPart
    <3> QED
      BY <3>1, <3>3
  <2> QED
    BY <1>4, <1>7, <1>8, <2>1, <2>2
<1>10. Behind(rest, m) = Part(u, a, c)
  <2>1. Behind(rest, m) = Part(rest, m, c - 4)
    BY <1>8 DEF Behind, Part
  <2>2. PICK k : k = c - 4
    OBVIOUS
  <2>3. Part(Part(u, 4, c), m, k) = Part(u, 4 + m, 4 + k)
    <3>1. PICK f : f = 4
      OBVIOUS
    <3>2. f \in Nat /\ c \in 0..Len(u) /\ f <= c /\ m \in Nat /\ k \in 0..(c - f) /\ u \in Seq(Symbols)
      BY <1>2, <1>8, <2>2, <3>1
    <3>3. Part(Part(u, f, c), m, k) = Part(u, f + m, f + k)
      BY <3>2, PartOfPart
    <3> QED
      BY <3>1, <3>3
  <2> QED
    BY <1>4, <1>7, <1>8, <2>1, <2>2, <2>3
<1>11. Part(u, 0, 4) \o Part(u, 4, a) = Part(u, 0, a)
  <2>1. PICK z, f : z = 0 /\ f = 4
    OBVIOUS
  <2>2. z \in Nat /\ f \in Nat /\ a \in 0..Len(u) /\ z <= f /\ f <= a /\ u \in Seq(Symbols)
    BY <1>2, <1>7, <1>8, <2>1
  <2>3. Part(u, z, f) \o Part(u, f, a) = Part(u, z, a)
    BY <2>2, PartsJoin
  <2> QED
    BY <2>1, <2>3
<1>12. Part(u, 0, a) \o Part(u, a, c) = Part(u, 0, c)
  <2>1. PICK z : z = 0
    OBVIOUS
  <2>2. z \in Nat /\ a \in Nat /\ c \in 0..Len(u) /\ z <= a /\ a <= c /\ u \in Seq(Symbols)
    BY <1>2, <1>8, <2>1
  <2>3. Part(u, z, a) \o Part(u, a, c) = Part(u, z, c)
    BY <2>2, PartsJoin
  <2> QED
    BY <2>1, <2>3
<1>13. Part(u, 0, c) = u
  <2>1. Len(u) = c - 0 /\ 0 <= c /\ c \in 0..Len(u) /\ \A i \in 1..(c - 0) : 0 + i = i
    BY <1>4, <1>7, <1>8
  <2>2. \A i \in 1..(c - 0) : u[i] = u[0 + i]
    BY <2>1
  <2> QED
    BY <1>2, <2>1, <2>2, IsPart
<1>14. Behind(rest, m)[1] = "/"
  <2>1. 1 \in 1..(c - 4 - m) /\ m + 1 = n /\ Len(rest) \in 0..Len(rest) /\ m <= Len(rest)
    <3>1. m + 1 = n
      BY <1>6, <1>7
    <3>2. n <= c - 4
      BY <1>6, <1>8
    <3> QED
      BY <1>6, <1>8, <3>1, <3>2
  <2>2. \A i \in 1..(Len(rest) - m) : Part(rest, m, Len(rest))[i] = rest[m + i]
    <3>1. PICK l, w : l = Len(rest) /\ w = Part(rest, m, l)
      OBVIOUS
    <3>2. rest \in Seq(Symbols) /\ m \in Nat /\ l \in 0..Len(rest)
      BY <1>5, <1>8, <2>1, <3>1 DEF Text
    <3>3. \A i \in 1..(l - m) : w[i] = rest[m + i]
      BY <3>1, <3>2, PartIs
    <3> QED
      BY <3>1, <3>3
  <2>3. Behind(rest, m) = Part(rest, m, Len(rest))
    BY DEF Behind, Part
  <2> QED
    BY <1>6, <1>8, <2>1, <2>2, <2>3
<1>15. "/" \in ToSet(rest)
  <2>1. DOMAIN rest = 1..Len(rest)
    BY <1>5, LenProperties DEF Text
  <2> QED
    BY <1>6, <2>1 DEF ToSet
<1> QED
  BY <1>3, <1>7, <1>9, <1>10, <1>11, <1>12, <1>13, <1>14, <1>15

(* A length that the headers give is a number.                             *)
LEMMA NumberIs ==
  ASSUME NEW s, NEW b
  PROVE  Number(s, b) \in 0..MaxNumber \cup {NotANumber}
BY DEF Number

-----------------------------------------------------------------------------
(* The headers that the first k fields make.                               *)
HeadersAre(k) ==
  /\ DOMAIN headers = {LowerCase(Arrived(req)[i].name) : i \in 1..k}
  /\ \A name : Values(name) = GivenBy(req, name, k)
  /\ \A name \in DOMAIN headers : headers[name] # <<>>
  /\ \A i \in 1..k : Arrived(req)[i].sep # <<>>

LEMMA NoHeaders ==
  ASSUME req \in Requests, NEW n, ArrivedAre(req, n), headers = << >>
  PROVE  HeadersAre(0)
<1>1. DOMAIN headers = {}
  OBVIOUS
<1>2. \A name : Values(name) = <<>>
  BY <1>1 DEF Values
<1>3. ASSUME NEW name PROVE GivenBy(req, name, 0) = <<>>
  BY GivenAre DEF GivenStep
<1>4. 1..0 = {}
  OBVIOUS
<1> QED
  BY <1>1, <1>2, <1>3, <1>4 DEF HeadersAre

LEMMA PushIs ==
  ASSUME req \in Requests, req' = req, NEW n, ArrivedAre(req, n), NEW k \in 0..n, k + 1 \in 1..n,
         HeadersAre(k), Arrived(req)[k + 1].sep # <<>>,
         Push(LowerCase(Arrived(req)[k + 1].name), Arrived(req)[k + 1].value)
  PROVE  HeadersAre(k + 1)'
<1>1. PICK nm, v : nm = LowerCase(Arrived(req)[k + 1].name) /\ v = Arrived(req)[k + 1].value
  OBVIOUS
<1>2. headers' = [m \in DOMAIN headers \cup {nm} |-> IF m = nm THEN Append(Values(nm), v) ELSE headers[m]]
  BY <1>1 DEF Push
<1>3. k \in Nat /\ k + 1 \in Nat /\ 1..(k + 1) = 1..k \cup {k + 1} /\ (k + 1) - 1 = k /\ k \in 0..n
  <2>1. n \in Nat
    BY DEF ArrivedAre
  <2>2. k \in Nat
    BY <2>1
  <2> QED
    BY <2>2
<1>4. /\ DOMAIN headers = {LowerCase(Arrived(req)[i].name) : i \in 1..k}
      /\ \A name : Values(name) = GivenBy(req, name, k)
      /\ \A name \in DOMAIN headers : headers[name] # <<>>
      /\ \A i \in 1..k : Arrived(req)[i].sep # <<>>
  BY DEF HeadersAre
<1>5. v \in Text
  BY <1>1, ArrivedTypes DEF FieldRead
<1>6. ASSUME NEW name
      PROVE  /\ GivenBy(req, name, k) \in Seq(Text)
             /\ GivenBy(req, name, k + 1) = GivenBy(req, name, k) \o Adds(req, name, k + 1)
  <2>1. GivenStep(req, name, n)
    BY GivenAre
  <2> QED
    BY <1>3, <2>1 DEF GivenStep
<1>7. DOMAIN headers' = DOMAIN headers \cup {nm}
  BY <1>2
<1>8. DOMAIN headers' = {LowerCase(Arrived(req)[i].name) : i \in 1..(k + 1)}
  BY <1>1, <1>3, <1>4, <1>7
<1>9. ASSUME NEW name PROVE Values(name)' = GivenBy(req, name, k + 1)
  <2>1. CASE name = nm
    <3>1. Values(name)' = Append(Values(nm), v)
      BY <1>2, <1>7, <2>1 DEF Values
    <3>2. Adds(req, name, k + 1) = <<v>>
      BY <1>1, <2>1 DEF Adds
    <3>3. PICK g : g = GivenBy(req, name, k)
      OBVIOUS
    <3>4. g \in Seq(Text) /\ Append(g, v) = g \o <<v>>
      <4>1. g \in Seq(Text)
        BY <1>6, <3>3
      <4> QED
        BY <1>5, <4>1, AppendIsConcat
    <3>5. Values(nm) = g
      BY <1>4, <2>1, <3>3
    <3> QED
      BY <1>6, <3>1, <3>2, <3>3, <3>4, <3>5
  <2>2. CASE name # nm
    <3>1. Values(name)' = Values(name)
      BY <1>2, <1>7, <2>2 DEF Values
    <3>2. Adds(req, name, k + 1) = <<>>
      BY <1>1, <2>2 DEF Adds
    <3>3. GivenBy(req, name, k) \o <<>> = GivenBy(req, name, k)
      BY <1>6, ConcatEmptySeq
    <3> QED
      BY <1>4, <1>6, <3>1, <3>2, <3>3
  <2> QED
    BY <2>1, <2>2
<1>10. \A name \in DOMAIN headers' : headers'[name] # <<>>
  <2> TAKE name \in DOMAIN headers'
  <2>1. CASE name = nm
    <3>1. headers'[name] = Append(Values(nm), v)
      BY <1>2, <1>7, <2>1
    <3>2. PICK g : g = Values(nm)
      OBVIOUS
    <3>3. g \in Seq(Text)
      BY <1>4, <1>6, <3>2
    <3>4. Len(g) \in Nat /\ Len(Append(g, v)) = Len(g) + 1
      BY <1>5, <3>3, AppendProperties, LenProperties
    <3>5. Append(g, v) # <<>>
      <4>1. Len(g) + 1 # 0
        BY <3>4
      <4> QED
        BY <3>4, <4>1, EmptySeq
    <3> QED
      BY <3>1, <3>2, <3>5
  <2>2. CASE name # nm
    BY <1>2, <1>4, <1>7, <2>2
  <2> QED
    BY <2>1, <2>2
<1>11. \A i \in 1..(k + 1) : Arrived(req)[i].sep # <<>>
  BY <1>3, <1>4
<1> QED
  BY <1>8, <1>9, <1>10, <1>11 DEF HeadersAre

(***************************************************************************)
(* What holds in each phase.  First what is left to read and what of it    *)
(* has been made headers: the fields that were read are the first k of     *)
(* those that have come, and what is read next is the line behind them.    *)
(***************************************************************************)
StartRight ==
  /\ WrongStart(req) = {} /\ method = req.start[1] /\ uri = req.start[2]
  /\ 2 \in DOMAIN Said(req) /\ Said(req)[2] = req.start[2]

NoBody == length = 0 /\ ~chunked

AtStatus ==
  /\ headers = << >> /\ NoBody
  /\ \/ line = None /\ input = Part(Wire(req), 0, req.eof)
     \/ /\ line = TrimEnd(Cut(Words(req.start), req.eof))
        /\ input = Part(Wire(req), Begins(req, 1), req.eof)

Reading(n, k) ==
  \/ line = None /\ input = Part(Wire(req), Begins(req, k + 1), req.eof)
  \/ LineRead(req, n, k, line, input)

AtHeaders ==
  /\ StartRight /\ NoBody
  /\ \E n : ArrivedAre(req, n) /\ \E k \in 0..n : HeadersAre(k) /\ Reading(n, k)

Complete == \E n : ArrivedAre(req, n) /\ HeadersAre(n)

AtBody == /\ StartRight /\ Complete /\ NoBody
          /\ input = Part(Wire(req), Len(HeadOf(req)), req.eof)

(* The body, and what is not wrong with it.                                *)
BodyRight ==
  /\ LET skip == IF SentChunked(req) THEN Len(SizeLine(req)) ELSE 0
     IN  input = IF Whole(req) THEN SubSeq(Wire(req), Len(HeadOf(req)) + skip + 1, req.eof)
                               ELSE <<>>
  /\ IF SentChunked(req)
     THEN length = Number(TrimEnd(SizeLine(req)), 16) /\ chunked = (length # 0)
     ELSE length = SentLength(req) /\ ~chunked
  /\ NotANumber # IF SentChunked(req) THEN Number(TrimEnd(SizeLine(req)), 16) ELSE SentLength(req)

AtRequest == StartRight /\ Complete /\ BodyRight

AtParsed == /\ StartRight /\ Complete /\ AsSent
            /\ Wrong(req) = {} /\ res = [ok |-> TRUE, err |-> ""]

AtRefused == ~res.ok /\ (errors = 0 => res.err \in Wrong(req))

PhaseRight ==
  /\ phase = "status"  => AtStatus
  /\ phase = "headers" => AtHeaders
  /\ phase = "body"    => AtBody
  /\ phase = "request" => AtRequest
  /\ phase = "parsed"  => AtParsed
  /\ phase = "refused" => AtRefused

(* What a plugin has been told is what was sent.                           *)
Told ==
  LET sent == Given(req, got.name)
      k    == got.index
  IN  /\ got.call = "count" => got.code = Len(sent)
      /\ got.call = "header" =>
           /\ got.code = IF sent = <<>> THEN 1 ELSE IF k < Len(sent) THEN 0 ELSE 2
           /\ k < Len(sent) => value = sent[k + 1]
      /\ got.call = "method" => value = req.start[1]
      /\ got.call = "uri" /\ Given(req, <<"host">>) = <<>> => value = req.start[2]

HeadInv == req \in Requests /\ HeadTypeOK /\ PhaseRight /\ Told

-----------------------------------------------------------------------------
LEMMA ToldKept ==
  ASSUME Told, req' = req, UNCHANGED plugin
  PROVE  Told'
<1>1. got' = got /\ value' = value
  BY DEF plugin
<1> QED
  BY <1>1 DEF Told

LEMMA HeadersKept ==
  ASSUME NEW n, HeadersAre(n), req' = req, headers' = headers
  PROVE  HeadersAre(n)'
BY DEF HeadersAre, Values

LEMMA CompleteKept ==
  ASSUME Complete, req' = req, headers' = headers
  PROVE  Complete'
<1>1. PICK n : ArrivedAre(req, n) /\ HeadersAre(n)
  BY DEF Complete
<1>2. HeadersAre(n)'
  BY <1>1, HeadersKept
<1>3. ArrivedAre(req', n)
  BY <1>1
<1> QED
  BY <1>2, <1>3 DEF Complete

LEMMA StartKept ==
  ASSUME StartRight, req' = req, method' = method, uri' = uri
  PROVE  StartRight'
BY DEF StartRight

(* A part of what was sent is no longer than what was sent.                *)
LEMMA PartFits ==
  ASSUME NEW r \in Requests, NEW p \in Nat
  PROVE  /\ Part(Wire(r), p, r.eof) \in Text
         /\ Len(Part(Wire(r), p, r.eof)) \in Nat /\ Len(Part(Wire(r), p, r.eof)) <= r.eof
         /\ r.eof \in Nat
<1>1. PICK w, c : w = Wire(r) /\ c = r.eof
  OBVIOUS
<1>2. Placed(r, w, Len(r.fields))
  BY <1>1, RequestPlaced
<1>3. w \in Seq(Symbols) /\ c \in 0..Len(w) /\ Len(w) \in Nat
  BY <1>1, <1>2 DEF Placed, Text
<1>4. /\ Part(w, p, c) \in Seq(Symbols)
      /\ Len(Part(w, p, c)) = IF p <= c THEN c - p ELSE 0
      /\ Len(Part(w, p, c)) \in Nat
  BY <1>3, PartIs
<1>5. c \in Nat
  BY <1>3
<1>6. Len(Part(w, p, c)) <= c
  BY <1>4, <1>5
<1> QED
  BY <1>1, <1>4, <1>5, <1>6 DEF Text

LEMMA RefuseIs ==
  ASSUME HeadInv, NEW err, Refuse(err), req' = req, UNCHANGED plugin,
         errors' \in 0..MaxErrors, errors' = 0 => err \in Wrong(req)
  PROVE  HeadInv'
<1>1. /\ phase' = "refused" /\ input' = <<>> /\ res' = [ok |-> FALSE, err |-> err]
      /\ headers' = headers /\ length' = length /\ chunked' = chunked
      /\ got' = got
  BY DEF Refuse, set_err, DropReader, parsing, plugin
<1>2. req \in Requests /\ HeadTypeOK /\ Told
  BY DEF HeadInv
<1>3. HeadTypeOK'
  <2>1. Len(input') <= req'.eof
    <3>1. Len(input') = 0
      BY <1>1, EmptySeq
    <3>2. req.eof \in Nat
      <4>1. 0 \in Nat
        OBVIOUS
      <4> QED
        BY <1>2, <4>1, PartFits
    <3> QED
      BY <3>1, <3>2
  <2>2. phase' \in Phase
    BY <1>1 DEF Phase
  <2>3. \A name \in DOMAIN headers' : Len(headers'[name]) > 0
    BY <1>1, <1>2 DEF HeadTypeOK
  <2>4. length' \in 0..MaxNumber /\ chunked' \in BOOLEAN /\ got'.index \in 0..MaxIndex /\ got'.code \in Nat
    BY <1>1, <1>2 DEF HeadTypeOK
  <2>5. res'.ok \in BOOLEAN
    BY <1>1
  <2> QED
    BY <2>1, <2>2, <2>3, <2>4, <2>5 DEF HeadTypeOK
<1>4. PhaseRight'
  <2>1. AtRefused'
    BY <1>1 DEF AtRefused
  <2>2. /\ phase' # "status" /\ phase' # "headers" /\ phase' # "body"
        /\ phase' # "request" /\ phase' # "parsed"
    BY <1>1
  <2> QED
    BY <2>1, <2>2 DEF PhaseRight
<1>5. Told'
  BY <1>2, ToldKept
<1> QED
  BY <1>2, <1>3, <1>4, <1>5 DEF HeadInv

-----------------------------------------------------------------------------
LEMMA StartsRight == HeadInit => HeadInv
<1> SUFFICES ASSUME HeadInit PROVE HeadInv
  OBVIOUS
<1>1. /\ req \in Requests /\ input = SubSeq(Wire(req), 1, req.eof) /\ line = None
      /\ phase = "status" /\ headers = << >> /\ length = 0 /\ chunked = FALSE
      /\ res \in {[ok |-> TRUE, err |-> ""], [ok |-> FALSE, err |-> "stale"]}
      /\ got = NoCall /\ errors = 0
  BY DEF HeadInit
<1>2. input = Part(Wire(req), 0, req.eof)
  <2>1. 0 + 1 = 1
    OBVIOUS
  <2> QED
    BY <1>1, <2>1 DEF Part
<1>3. HeadTypeOK
  <2>1. Len(input) <= req.eof
    <3>1. 0 \in Nat
      OBVIOUS
    <3> QED
      BY <1>1, <1>2, <3>1, PartFits
  <2>2. phase \in Phase
    BY <1>1 DEF Phase
  <2>3. DOMAIN headers = {}
    <3>1. headers = << >>
      BY <1>1
    <3> QED
      BY <3>1
  <2>4. MaxNumber \in Nat /\ MaxErrors \in Nat /\ MaxIndex \in Nat
    BY PeerAssumption
  <2>5. length \in 0..MaxNumber /\ chunked \in BOOLEAN /\ errors \in 0..MaxErrors
    <3>1. length = 0 /\ chunked = FALSE /\ errors = 0
      BY <1>1
    <3>2. chunked \in BOOLEAN
      BY <3>1, Zenon
    <3>3. length \in 0..MaxNumber
      BY <2>4, <3>1
    <3>4. errors \in 0..MaxErrors
      BY <2>4, <3>1
    <3> QED
      BY <3>2, <3>3, <3>4
  <2>6. got.index \in 0..MaxIndex /\ got.code \in Nat
    <3>1. got = NoCall
      BY <1>1
    <3>2. got.index = 0 /\ got.code = 0
      BY <3>1 DEF NoCall
    <3> QED
      BY <2>4, <3>2
  <2>7. res.ok \in BOOLEAN
    <3>1. CASE res = [ok |-> TRUE, err |-> ""]
      BY <3>1
    <3>2. CASE res = [ok |-> FALSE, err |-> "stale"]
      BY <3>2
    <3> QED
      BY <1>1, <3>1, <3>2
  <2> QED
    BY <2>1, <2>2, <2>3, <2>5, <2>6, <2>7 DEF HeadTypeOK
<1>4. PhaseRight
  <2>1. AtStatus
    BY <1>1, <1>2 DEF AtStatus, NoBody
  <2>2. /\ phase # "headers" /\ phase # "body"
        /\ phase # "request" /\ phase # "parsed" /\ phase # "refused"
    BY <1>1
  <2> QED
    BY <2>1, <2>2 DEF PhaseRight
<1>5. Told
  <2>1. got.call = "none"
    BY <1>1 DEF NoCall
  <2> QED
    BY <2>1 DEF Told
<1> QED
  BY <1>1, <1>3, <1>4, <1>5 DEF HeadInv

(* A step of the parser that refuses nothing: the types of what it changes,*)
(* and its phase.                                                          *)
LEMMA TypesKept ==
  ASSUME HeadTypeOK, req' = req, UNCHANGED <<plugin, errors>>,
         Len(input') <= req.eof, phase' \in Phase,
         \A name \in DOMAIN headers' : Len(headers'[name]) > 0,
         length' \in 0..MaxNumber, chunked' \in BOOLEAN, res'.ok \in BOOLEAN
  PROVE  HeadTypeOK'
<1>1. got' = got /\ errors' = errors
  BY DEF plugin
<1>2. got.index \in 0..MaxIndex /\ got.code \in Nat /\ errors \in 0..MaxErrors
  BY DEF HeadTypeOK
<1> QED
  BY <1>1, <1>2 DEF HeadTypeOK

LEMMA ReadLineRight ==
  ASSUME HeadInv, ReadHeadLine
  PROVE  HeadInv'
<1>1. /\ line = None /\ req' = req /\ phase' = phase /\ UNCHANGED <<parsing, res, plugin, errors>>
      /\ input' = Behind(input, Eol)
      /\ \/ phase = "status" /\ line' = TrimEnd(NextLine)
         \/ phase = "headers" /\ line' = Strip(NextLine)
  BY DEF ReadHeadLine
<1>2. /\ headers' = headers /\ length' = length /\ chunked' = chunked /\ method' = method /\ uri' = uri
      /\ res' = res
  BY <1>1 DEF parsing
<1>3. req \in Requests /\ HeadTypeOK /\ PhaseRight /\ Told
  BY DEF HeadInv
<1>4. Told'
  BY <1>1, <1>3, ToldKept
<1>5. PhaseRight' /\ \E p \in Nat : input' = Part(Wire(req), p, req.eof)
  <2>1. CASE phase = "status" /\ line' = TrimEnd(NextLine)
    <3>1. AtStatus
      BY <1>3, <2>1 DEF PhaseRight
    <3>2. headers = << >> /\ NoBody /\ input = Part(Wire(req), 0, req.eof)
      <4>1. line # TrimEnd(Cut(Words(req.start), req.eof))
        <5>1. \E a, d : Split(TrimEnd(Cut(Words(req.start), req.eof)), Said(req), a, d)
          BY <1>3, SaidIs
        <5>2. TrimEnd(Cut(Words(req.start), req.eof)) \in Text
          BY <5>1 DEF Split
        <5> QED
          BY <1>1, <5>2, PeerAssumption
      <4> QED
        BY <3>1, <4>1 DEF AtStatus
    <3>3. /\ line' = TrimEnd(Cut(Words(req.start), req.eof))
          /\ input' = Part(Wire(req), Begins(req, 1), req.eof)
      BY <1>1, <1>3, <2>1, <3>2, StatusRead
    <3>4. AtStatus'
      BY <1>1, <1>2, <3>2, <3>3 DEF AtStatus, NoBody
    <3>5. Begins(req, 1) \in Nat
      <4>1. Placed(req, Wire(req), Len(req.fields))
        BY <1>3, RequestPlaced
      <4>2. 1 \in 1..(Len(req.fields) + 1)
        BY <4>1 DEF Placed
      <4> QED
        BY <4>1, <4>2 DEF Placed
    <3>6. phase' = "status"
      BY <1>1, <2>1
    <3> QED
      BY <3>3, <3>4, <3>5, <3>6 DEF PhaseRight
  <2>2. CASE phase = "headers" /\ line' = Strip(NextLine)
    <3>1. AtHeaders
      BY <1>3, <2>2 DEF PhaseRight
    <3>2. StartRight /\ NoBody
      BY <3>1 DEF AtHeaders
    <3>3. PICK n : ArrivedAre(req, n) /\ \E k \in 0..n : HeadersAre(k) /\ Reading(n, k)
      BY <3>1 DEF AtHeaders
    <3>4. PICK k \in 0..n : HeadersAre(k) /\ Reading(n, k)
      BY <3>3
    <3>5. input = Part(Wire(req), Begins(req, k + 1), req.eof)
      <4>1. SUFFICES ASSUME LineRead(req, n, k, line, input) PROVE FALSE
        BY <3>4 DEF Reading
      <4>2. line \in Text
        <5>1. CASE k + 1 \in 1..n /\ line = Cut(FieldLine(req.fields[k + 1]), req.eof - Begins(req, k + 1))
          <6>1. PICK i : i = k + 1
            OBVIOUS
          <6>2. FieldRead(Cut(FieldLine(req.fields[i]), req.eof - Begins(req, i)), Arrived(req)[i])
            BY <1>3, <3>3, <5>1, <6>1, ArrivedTypes
          <6> QED
            BY <5>1, <6>1, <6>2 DEF FieldRead
        <5>2. CASE line = <<>>
          BY <5>2, EmptySeq DEF Text
        <5> QED
          BY <4>1, <5>1, <5>2 DEF LineRead
      <4> QED
        BY <1>1, <4>2, PeerAssumption
    <3>6. LineRead(req, n, k, line', input')
      BY <1>1, <1>3, <2>2, <3>3, <3>5, LineReadIs
    <3>7. Reading(n, k)'
      BY <1>1, <3>6 DEF Reading
    <3>8. HeadersAre(k)'
      BY <1>1, <1>2, <3>4, HeadersKept
    <3>9. StartRight' /\ NoBody'
      BY <1>1, <1>2, <3>2, StartKept DEF NoBody
    <3>10. ArrivedAre(req', n)
      BY <1>1, <3>3
    <3>11. AtHeaders'
      BY <3>7, <3>8, <3>9, <3>10 DEF AtHeaders
    <3>12. \E p \in Nat : input' = Part(Wire(req), p, req.eof)
      <4>1. Placed(req, Wire(req), Len(req.fields)) /\ n \in 0..Len(req.fields) /\ Len(req.fields) \in Nat
        BY <1>3, <3>3, RequestPlaced DEF ArrivedAre
      <4>2. CASE k < n /\ input' = Part(Wire(req), Begins(req, k + 2), req.eof)
        <5>1. k + 2 \in 1..(Len(req.fields) + 1)
          BY <4>1, <4>2
        <5>2. Begins(req, k + 2) \in Nat
          BY <4>1, <5>1 DEF Placed
        <5> QED
          BY <4>2, <5>2
      <4>3. CASE input' = Part(Wire(req), Len(HeadOf(req)), req.eof)
        <5>1. Len(req.fields) + 1 \in 1..(Len(req.fields) + 1) /\ Len(req.eol) \in 1..2
          BY <1>3, <4>1, RequestTypes
        <5>2. Len(HeadOf(req)) = Begins(req, Len(req.fields) + 1) + Len(req.eol)
              /\ Begins(req, Len(req.fields) + 1) \in Nat
          BY <4>1, <5>1 DEF Placed
        <5>3. Len(HeadOf(req)) \in Nat
          BY <5>1, <5>2
        <5> QED
          BY <4>3, <5>3
      <4> QED
        BY <3>6, <4>2, <4>3 DEF LineRead
    <3>13. phase' = "headers"
      BY <1>1, <2>2
    <3> QED
      BY <3>11, <3>12, <3>13 DEF PhaseRight
  <2> QED
    BY <1>1, <2>1, <2>2
<1>6. HeadTypeOK'
  <2>1. Len(input') <= req.eof
    BY <1>3, <1>5, PartFits
  <2>2. phase' \in Phase /\ length' \in 0..MaxNumber /\ chunked' \in BOOLEAN /\ res'.ok \in BOOLEAN
        /\ \A name \in DOMAIN headers' : Len(headers'[name]) > 0
    BY <1>1, <1>2, <1>3 DEF HeadTypeOK
  <2> QED
    BY <1>1, <1>3, <2>1, <2>2, TypesKept
<1> QED
  BY <1>1, <1>3, <1>4, <1>5, <1>6 DEF HeadInv

LEMMA ReadFailsRight ==
  ASSUME HeadInv, ReadHeadFails \/ OpenBodyFails
  PROVE  HeadInv'
<1>1. PICK err : Refuse(err) /\ req' = req /\ UNCHANGED plugin /\ errors < MaxErrors /\ errors' = errors + 1
  BY DEF ReadHeadFails, OpenBodyFails
<1>2. errors \in 0..MaxErrors /\ MaxErrors \in Nat
  BY PeerAssumption DEF HeadInv, HeadTypeOK
<1>3. errors' \in 0..MaxErrors /\ errors' # 0
  BY <1>1, <1>2
<1> QED
  BY <1>1, <1>3, RefuseIs

LEMMA ParseStatusRight ==
  ASSUME HeadInv, ParseStatusLine
  PROVE  HeadInv'
<1>1. /\ phase = "status" /\ line # None /\ line' = None /\ UNCHANGED <<req, plugin, errors>>
      /\ IF StatusError # "none"
         THEN Refuse(StatusError)
         ELSE /\ phase' = "headers"
              /\ method' = Upto(line, First - 1)
              /\ uri' = SubSeq(line, First + 1, Second - 1)
              /\ UNCHANGED <<input, headers, length, chunked, path, host, res>>
  BY DEF ParseStatusLine
<1>2. req \in Requests /\ HeadTypeOK /\ PhaseRight /\ Told
  BY DEF HeadInv
<1>3. /\ headers = << >> /\ NoBody
      /\ line = TrimEnd(Cut(Words(req.start), req.eof))
      /\ input = Part(Wire(req), Begins(req, 1), req.eof)
  BY <1>1, <1>2 DEF PhaseRight, AtStatus
<1>4. StatusRight
  BY <1>2, <1>3, StatusIs
<1>5. CASE StatusError # "none"
  <2>1. PICK err : err = StatusError
    OBVIOUS
  <2>2. Refuse(err) /\ err \in Wrong(req)
    BY <1>1, <1>4, <1>5, <2>1 DEF StatusRight, Wrong
  <2>3. errors' \in 0..MaxErrors /\ req' = req /\ UNCHANGED plugin
    BY <1>1, <1>2 DEF HeadTypeOK
  <2> QED
    BY <2>2, <2>3, RefuseIs
<1>6. CASE StatusError = "none"
  <2>1. /\ phase' = "headers"
        /\ method' = Upto(line, First - 1)
        /\ uri' = SubSeq(line, First + 1, Second - 1)
        /\ UNCHANGED <<input, headers, length, chunked, path, host, res>>
    BY <1>1, <1>6
  <2>2. StartRight'
    BY <1>1, <1>4, <1>6, <2>1 DEF StatusRight, StartRight
  <2>3. PICK n : ArrivedAre(req, n)
    BY <1>2, ArrivedIs
  <2>4. HeadersAre(0)'
    <3>1. HeadersAre(0)
      BY <1>2, <1>3, <2>3, NoHeaders
    <3>2. req' = req /\ headers' = headers
      BY <1>1, <2>1
    <3> QED
      BY <3>1, <3>2, HeadersKept
  <2>5. Reading(n, 0)'
    <3>1. 0 + 1 = 1
      OBVIOUS
    <3> QED
      BY <1>1, <1>3, <2>1, <3>1 DEF Reading
  <2>6. 0 \in 0..n
    BY <2>3 DEF ArrivedAre
  <2>7. AtHeaders'
    <3>1. ArrivedAre(req', n)
      BY <1>1, <2>3
    <3>2. NoBody'
      BY <1>3, <2>1 DEF NoBody
    <3> QED
      BY <2>2, <2>4, <2>5, <2>6, <3>1, <3>2 DEF AtHeaders
  <2>8. PhaseRight'
    BY <2>1, <2>7 DEF PhaseRight
  <2>9. HeadTypeOK'
    <3>1. phase' \in Phase
      BY <2>1 DEF Phase
    <3>2. Len(input') <= req.eof /\ length' \in 0..MaxNumber /\ chunked' \in BOOLEAN /\ res'.ok \in BOOLEAN
          /\ \A name \in DOMAIN headers' : Len(headers'[name]) > 0
      BY <1>2, <2>1 DEF HeadTypeOK
    <3> QED
      BY <1>1, <1>2, <3>1, <3>2, TypesKept
  <2>10. Told'
    BY <1>1, <1>2, ToldKept
  <2> QED
    BY <1>1, <1>2, <2>8, <2>9, <2>10 DEF HeadInv
<1> QED
  BY <1>5, <1>6

LEMMA HeadersTyped ==
  ASSUME NEW r \in Requests, NEW n, ArrivedAre(r, n), NEW k \in 0..n, NEW h,
         \A name \in DOMAIN h : h[name] = GivenBy(r, name, k) /\ h[name] # <<>>
  PROVE  \A name \in DOMAIN h : Len(h[name]) > 0
<1> TAKE name \in DOMAIN h
<1>1. PICK g : g = h[name]
  OBVIOUS
<1>2. g = GivenBy(r, name, k) /\ g # <<>>
  BY <1>1
<1>3. g \in Seq(Text)
  <2>1. GivenStep(r, name, n)
    BY GivenAre
  <2> QED
    BY <1>2, <2>1 DEF GivenStep
<1>4. Len(g) \in Nat /\ Len(g) # 0
  BY <1>2, <1>3, LenProperties, EmptySeq
<1> QED
  BY <1>1, <1>4

LEMMA ParseHeaderRight ==
  ASSUME HeadInv, ParseHeaderLine
  PROVE  HeadInv'
<1>1. phase = "headers" /\ line # None /\ line' = None /\ UNCHANGED <<req, plugin, errors>>
  BY DEF ParseHeaderLine
<1>2. req \in Requests /\ HeadTypeOK /\ PhaseRight /\ Told
  BY DEF HeadInv
<1>3. StartRight /\ NoBody
  BY <1>1, <1>2 DEF PhaseRight, AtHeaders
<1>4. PICK n : ArrivedAre(req, n) /\ \E k \in 0..n : HeadersAre(k) /\ Reading(n, k)
  BY <1>1, <1>2 DEF PhaseRight, AtHeaders
<1>5. PICK k \in 0..n : HeadersAre(k) /\ Reading(n, k)
  BY <1>4
<1>6. LineRead(req, n, k, line, input)
  BY <1>1, <1>5 DEF Reading
<1>7. Told'
  BY <1>1, <1>2, ToldKept
<1>8. n \in Nat /\ k \in Nat
  <2>1. n \in Nat
    BY <1>4 DEF ArrivedAre
  <2> QED
    BY <2>1
<1>9. CASE k = n /\ line = <<>> /\ input = Part(Wire(req), Len(HeadOf(req)), req.eof)
  <2>1. Colon = 0
    <3>1. <<>> \in Text /\ Len(<<>>) = 0
      BY EmptySeq DEF Text
    <3>2. \A i \in 1..Len(<<>>) : <<>>[i] # ":"
      BY <3>1
    <3>3. Find(<<>>, ":") = 0
      BY <3>1, <3>2, NoFind
    <3> QED
      BY <1>9, <3>3 DEF Colon
  <2>2. phase' = "body" /\ UNCHANGED <<input, parsing, res>>
    BY <1>9, <2>1 DEF ParseHeaderLine
  <2>3. /\ headers' = headers /\ length' = length /\ chunked' = chunked /\ method' = method /\ uri' = uri
        /\ input' = input /\ res' = res
    BY <2>2 DEF parsing
  <2>4. AtBody'
    <3>1. Complete
      BY <1>4, <1>5, <1>9 DEF Complete
    <3>2. Complete'
      BY <1>1, <2>3, <3>1, CompleteKept
    <3>3. StartRight'
      BY <1>1, <1>3, <2>3, StartKept
    <3> QED
      BY <1>1, <1>3, <1>9, <2>3, <3>2, <3>3 DEF AtBody, NoBody
  <2>5. PhaseRight'
    BY <2>2, <2>4 DEF PhaseRight
  <2>6. HeadTypeOK'
    <3>1. phase' \in Phase
      BY <2>2 DEF Phase
    <3>2. Len(input') <= req.eof /\ length' \in 0..MaxNumber /\ chunked' \in BOOLEAN /\ res'.ok \in BOOLEAN
          /\ \A name \in DOMAIN headers' : Len(headers'[name]) > 0
      BY <1>2, <2>3 DEF HeadTypeOK
    <3> QED
      BY <1>1, <1>2, <3>1, <3>2, TypesKept
  <2> QED
    BY <1>1, <1>2, <1>7, <2>5, <2>6 DEF HeadInv
<1>10. CASE /\ k < n /\ k + 1 \in 1..n
            /\ line = Cut(FieldLine(req.fields[k + 1]), req.eof - Begins(req, k + 1))
            /\ input = Part(Wire(req), Begins(req, k + 2), req.eof)
  <2>1. PICK i, g : i = k + 1 /\ g = Arrived(req)[i]
    OBVIOUS
  <2>2. FieldRead(line, g) /\ i \in 1..n
    <3>1. i \in 1..n
      BY <1>10, <2>1
    <3>2. FieldRead(Cut(FieldLine(req.fields[i]), req.eof - Begins(req, i)), Arrived(req)[i])
      BY <1>2, <1>4, <3>1, ArrivedTypes
    <3> QED
      BY <1>10, <2>1, <3>1, <3>2
  <2>3. /\ line # <<>>
        /\ Colon = 0 <=> g.sep = <<>>
        /\ Colon # 0 => Upto(line, Colon - 1) = g.name /\ TrimStart(Behind(line, Colon)) = g.value
    BY <2>2 DEF FieldRead, Colon
  <2>4. CASE Colon = 0
    <3>1. Refuse("No colon")
      BY <2>3, <2>4 DEF ParseHeaderLine
    <3>2. "No colon" \in Wrong(req)
      <4>1. i \in DOMAIN Arrived(req) /\ Arrived(req)[i].sep = <<>>
        BY <1>4, <2>1, <2>2, <2>3, <2>4 DEF ArrivedAre
      <4>2. "No colon" \in WrongFields(req)
        BY <4>1 DEF WrongFields
      <4> QED
        BY <4>2 DEF Wrong
    <3>3. errors' \in 0..MaxErrors /\ req' = req /\ UNCHANGED plugin
      BY <1>1, <1>2 DEF HeadTypeOK
    <3>4. PICK err : err = "No colon"
      OBVIOUS
    <3> QED
      BY <3>1, <3>2, <3>3, <3>4, RefuseIs
  <2>5. CASE Colon # 0
    <3>1. /\ Push(LowerCase(g.name), g.value)
          /\ UNCHANGED <<input, phase, uri, length, chunked, method, path, host, res>>
      BY <2>3, <2>5 DEF ParseHeaderLine
    <3>2. HeadersAre(k + 1)'
      <4>1. k + 1 \in 1..n /\ Arrived(req)[k + 1].sep # <<>>
            /\ Push(LowerCase(Arrived(req)[k + 1].name), Arrived(req)[k + 1].value)
        BY <2>1, <2>2, <2>3, <2>5, <3>1
      <4> QED
        BY <1>1, <1>2, <1>4, <1>5, <4>1, PushIs
    <3>3. Reading(n, i)'
      <4>1. i + 1 = k + 2
        BY <1>8, <2>1
      <4>2. line' = None /\ input' = Part(Wire(req'), Begins(req', i + 1), req'.eof)
        BY <1>1, <1>10, <3>1, <4>1
      <4> QED
        BY <4>2 DEF Reading
    <3>4. i \in 0..n
      BY <1>8, <2>2
    <3>5. StartRight' /\ NoBody'
      BY <1>1, <1>3, <3>1, StartKept DEF NoBody
    <3>6. HeadersAre(i)'
      BY <2>1, <3>2
    <3>7. AtHeaders'
      <4>1. ArrivedAre(req', n)
        BY <1>1, <1>4
      <4> QED
        BY <3>3, <3>4, <3>5, <3>6, <4>1 DEF AtHeaders
    <3>8. PhaseRight'
      <4>1. phase' = "headers"
        BY <1>1, <3>1
      <4> QED
        BY <3>7, <4>1 DEF PhaseRight
    <3>9. HeadTypeOK'
      <4>1. \A name \in DOMAIN headers' : Len(headers'[name]) > 0
        <5>1. PICK h : h = headers'
          OBVIOUS
        <5>2. req' = req
          BY <1>1
        <5>3. \A name \in DOMAIN h : h[name] = GivenBy(req, name, i) /\ h[name] # <<>>
          BY <3>6, <5>1, <5>2 DEF HeadersAre, Values
        <5>4. \A name \in DOMAIN h : Len(h[name]) > 0
          BY <1>2, <1>4, <3>4, <5>3, HeadersTyped
        <5> QED
          BY <5>1, <5>4
      <4>2. Len(input') <= req.eof /\ length' \in 0..MaxNumber /\ chunked' \in BOOLEAN /\ res'.ok \in BOOLEAN
            /\ phase' \in Phase
        BY <1>2, <3>1 DEF HeadTypeOK
      <4> QED
        BY <1>1, <1>2, <4>1, <4>2, TypesKept
    <3> QED
      BY <1>1, <1>2, <1>7, <3>8, <3>9 DEF HeadInv
  <2> QED
    BY <2>4, <2>5
<1> QED
  BY <1>6, <1>9, <1>10 DEF LineRead

(* The headers of a head that was read to its end.                         *)
GivenRight == \A name : Values(name) = Given(req, name) /\ Given(req, name) \in Seq(Text)

LEMMA CompleteIs ==
  ASSUME req \in Requests, Complete
  PROVE  GivenRight
<1>1. PICK n : ArrivedAre(req, n) /\ HeadersAre(n)
  BY DEF Complete
<1>2. Len(Arrived(req)) = n /\ n \in 0..n
  BY <1>1 DEF ArrivedAre
<1>3. ASSUME NEW name PROVE Values(name) = Given(req, name) /\ Given(req, name) \in Seq(Text)
  <2>1. Given(req, name) = GivenBy(req, name, n)
    BY <1>2 DEF Given
  <2>2. Values(name) = GivenBy(req, name, n)
    BY <1>1 DEF HeadersAre
  <2>3. GivenStep(req, name, n)
    BY <1>1, GivenAre
  <2>4. GivenBy(req, name, n) \in Seq(Text)
    BY <1>2, <2>3 DEF GivenStep
  <2> QED
    BY <2>1, <2>2, <2>4
<1> QED
  BY <1>3 DEF GivenRight

(* What is behind a place, and behind the first line there.                *)
LEMMA LineCut ==
  ASSUME NEW w \in Seq(Symbols), NEW h \in Nat, NEW c \in 0..Len(w), NEW s, s = Part(w, h, c),
         NEW e, e = LineEnd(s)
  PROVE  /\ e \in Nat /\ Len(Upto(s, e)) = e
         /\ Behind(s, e) = Part(w, h + e, c)
         /\ c < h => s = <<>> /\ Behind(s, e) = <<>>
<1>1. Len(w) \in Nat
  BY LenProperties
<1>2. c \in Nat
  BY <1>1
<1>3. /\ Part(w, h, c) \in Seq(Symbols) /\ Len(Part(w, h, c)) = IF h <= c THEN c - h ELSE 0
      /\ Len(Part(w, h, c)) \in Nat
  BY PartIs
<1>4. s \in Seq(Symbols) /\ Len(s) = (IF h <= c THEN c - h ELSE 0) /\ Len(s) \in Nat
  BY <1>3
<1>5. e \in 0..Len(s) /\ e \in Nat
  <2>1. PICK k, x : x = "LF" /\ k = Find(s, x)
    OBVIOUS
  <2>2. s \in Text
    BY <1>4 DEF Text
  <2>3. k \in 0..Len(s)
    BY <2>1, <2>2, FindIs
  <2>4. e = IF k = 0 THEN Len(s) ELSE k
    BY <2>1 DEF LineEnd
  <2> QED
    BY <1>4, <2>3, <2>4
<1>6. Len(Upto(s, e)) = e
  BY <1>4, <1>5, FirstOf DEF Upto
<1>7. PICK b : b = Len(s)
  OBVIOUS
<1>8. Behind(s, e) = Part(s, e, b)
  BY <1>7 DEF Behind, Part
<1>9. CASE h <= c
  <2>1. b \in 0..(c - h) /\ h + b = c
    BY <1>2, <1>4, <1>7, <1>9
  <2>2. Part(Part(w, h, c), e, b) = Part(w, h + e, h + b)
    BY <1>5, <1>9, <2>1, PartOfPart
  <2>3. ~(c < h)
    BY <1>2, <1>9
  <2> QED
    BY <1>5, <1>6, <1>8, <2>1, <2>2, <2>3
<1>10. CASE ~(h <= c)
  <2>1. c <= h /\ c <= h + e /\ h + e \in Nat /\ b = 0 /\ b \in Nat /\ b <= e
    BY <1>2, <1>4, <1>5, <1>7, <1>10
  <2>2. s = <<>>
    BY <1>2, <2>1, NoPart
  <2>3. Part(s, e, b) = <<>>
    BY <1>5, <2>1, NoPart
  <2>4. Part(w, h + e, c) = <<>>
    <3>1. PICK g : g = h + e
      OBVIOUS
    <3> QED
      BY <1>2, <2>1, <3>1, NoPart
  <2> QED
    BY <1>5, <1>6, <1>8, <2>2, <2>3, <2>4
<1> QED
  BY <1>9, <1>10

SizeIsRead(r, h, s, e) ==
  /\ Upto(s, e) = SizeLine(r)
  /\ h \in Nat
  /\ s = IF Whole(r) THEN SubSeq(Wire(r), h + 0 + 1, r.eof) ELSE <<>>
  /\ Behind(s, e) = IF Whole(r) THEN SubSeq(Wire(r), h + Len(SizeLine(r)) + 1, r.eof) ELSE <<>>
  /\ Behind(s, e) = Part(Wire(r), h + Len(SizeLine(r)), r.eof)
  /\ Len(SizeLine(r)) \in Nat

LEMMA SizeRead ==
  ASSUME NEW r \in Requests, NEW h, h = Len(HeadOf(r)), NEW s, s = Part(Wire(r), h, r.eof),
         NEW e, e = LineEnd(s)
  PROVE  SizeIsRead(r, h, s, e)
<1>1. PICK w, c, n : w = Wire(r) /\ c = r.eof /\ n = Len(r.fields)
  OBVIOUS
<1>2. Placed(r, w, n)
  BY <1>1, RequestPlaced
<1>3. w \in Seq(Symbols) /\ c \in 0..Len(w) /\ c \in Nat /\ n \in Nat
  <2>1. w \in Seq(Symbols) /\ c \in 0..Len(w) /\ Len(w) \in Nat /\ n \in Nat
    BY <1>1, <1>2 DEF Placed, Text
  <2> QED
    BY <2>1
<1>4. h \in Nat
  <2>1. n + 1 \in 1..(n + 1) /\ Len(r.eol) \in 1..2
    BY <1>3, RequestTypes
  <2>2. h = Begins(r, n + 1) + Len(r.eol) /\ Begins(r, n + 1) \in Nat
    BY <1>2, <2>1 DEF Placed
  <2> QED
    BY <2>1, <2>2
<1>5. s = Part(w, h, c)
  BY <1>1
<1>6. /\ e \in Nat /\ Len(Upto(s, e)) = e
      /\ Behind(s, e) = Part(w, h + e, c)
      /\ c < h => s = <<>> /\ Behind(s, e) = <<>>
  BY <1>3, <1>4, <1>5, LineCut
<1>7. Upto(s, e) = SizeLine(r)
  <2>1. SubSeq(Wire(r), Len(HeadOf(r)) + 1, r.eof) = s
    BY <1>1, <1>5 DEF Part
  <2> QED
    BY <2>1 DEF SizeLine
<1>8. Whole(r) <=> ~(c < h)
  <2>1. Whole(r) <=> h <= c
    BY <1>1 DEF Whole
  <2> QED
    BY <1>3, <1>4, <2>1
<1>9. h + 0 + 1 = h + 1
  BY <1>4
<1>10. Part(w, h + e, c) = SubSeq(w, h + e + 1, c) /\ s = SubSeq(w, h + 1, c)
  BY <1>5 DEF Part
<1> QED
  BY <1>1, <1>4, <1>6, <1>7, <1>8, <1>9, <1>10 DEF SizeIsRead

LEMMA OpenBodyRight ==
  ASSUME HeadInv, OpenBody
  PROVE  HeadInv'
<1>1. phase = "body" /\ UNCHANGED <<req, line, plugin, errors>>
  BY DEF OpenBody
<1>2. req \in Requests /\ HeadTypeOK /\ PhaseRight /\ Told
  BY DEF HeadInv
<1>3. /\ StartRight /\ Complete /\ NoBody
      /\ input = Part(Wire(req), Len(HeadOf(req)), req.eof)
  BY <1>1, <1>2 DEF PhaseRight, AtBody
<1>4. GivenRight
  BY <1>2, <1>3, CompleteIs
<1>5. PICK h : h = Len(HeadOf(req))
  OBVIOUS
<1>6. /\ NextLine = SizeLine(req) /\ h \in Nat
      /\ input = IF Whole(req) THEN SubSeq(Wire(req), h + 0 + 1, req.eof) ELSE <<>>
      /\ Behind(input, Eol) =
              IF Whole(req) THEN SubSeq(Wire(req), h + Len(SizeLine(req)) + 1, req.eof) ELSE <<>>
      /\ Behind(input, Eol) = Part(Wire(req), h + Len(SizeLine(req)), req.eof)
      /\ Len(SizeLine(req)) \in Nat
  <2>1. PICK e : e = LineEnd(input)
    OBVIOUS
  <2>2. /\ Upto(input, e) = SizeLine(req)
        /\ h \in Nat
        /\ input = IF Whole(req) THEN SubSeq(Wire(req), h + 0 + 1, req.eof) ELSE <<>>
        /\ Behind(input, e) =
              IF Whole(req) THEN SubSeq(Wire(req), h + Len(SizeLine(req)) + 1, req.eof) ELSE <<>>
        /\ Behind(input, e) = Part(Wire(req), h + Len(SizeLine(req)), req.eof)
        /\ Len(SizeLine(req)) \in Nat
    <3>1. PICK s, r : s = input /\ r = req
      OBVIOUS
    <3>2. r \in Requests /\ h = Len(HeadOf(r)) /\ s = Part(Wire(r), h, r.eof) /\ e = LineEnd(s)
      BY <1>2, <1>3, <1>5, <2>1, <3>1
    <3>3. SizeIsRead(r, h, s, e)
      BY <3>2, SizeRead
    <3> QED
      BY <3>1, <3>3 DEF SizeIsRead
  <2> QED
    BY <2>1, <2>2 DEF NextLine, Eol
<1>7. IsChunked <=> SentChunked(req)
  <2>1. PICK g : g = Given(req, <<"transfer-encoding">>)
    OBVIOUS
  <2>2. Values(<<"transfer-encoding">>) = g /\ g \in Seq(Text)
    BY <1>4, <2>1 DEF GivenRight
  <2>3. DOMAIN g = 1..Len(g)
    BY <2>2, LenProperties
  <2> QED
    BY <2>1, <2>2, <2>3 DEF IsChunked, SentChunked
<1>8. ContentLength = SentLength(req)
  BY <1>4 DEF GivenRight, ContentLength, SentLength
<1>9. req' = req /\ errors' = errors /\ UNCHANGED plugin /\ Told'
  BY <1>1, <1>2, ToldKept
<1>10. errors' \in 0..MaxErrors /\ MaxNumber \in Nat /\ NotANumber \notin Nat
  <2>1. errors' \in 0..MaxErrors
    BY <1>2, <1>9 DEF HeadTypeOK
  <2>2. NotANumber \notin Nat
    BY DEF NotANumber
  <2> QED
    BY <2>1, <2>2, PeerAssumption
<1>11. ASSUME BodyRight', phase' = "request", UNCHANGED <<uri, headers, method, path, host, res>>,
              Len(input') <= req.eof, length' \in 0..MaxNumber, chunked' \in BOOLEAN
       PROVE  HeadInv'
  <2>1. Complete' /\ StartRight'
    BY <1>3, <1>9, <1>11, CompleteKept, StartKept
  <2>2. PhaseRight'
    BY <1>11, <2>1 DEF PhaseRight, AtRequest
  <2>3. phase' \in Phase /\ res'.ok \in BOOLEAN /\ \A name \in DOMAIN headers' : Len(headers'[name]) > 0
    BY <1>2, <1>11 DEF HeadTypeOK, Phase
  <2>4. HeadTypeOK'
    BY <1>1, <1>2, <1>9, <1>11, <2>3, TypesKept
  <2> QED
    BY <1>2, <1>9, <2>2, <2>4 DEF HeadInv
<1>12. PICK fail : fail = "Failed to create body"
  OBVIOUS
<1>13. ASSUME NotANumber = IF SentChunked(req) THEN Number(TrimEnd(SizeLine(req)), 16) ELSE SentLength(req),
              Refuse("Failed to create body")
       PROVE  HeadInv'
  <2>1. "Failed to create body" \in WrongFields(req)
    BY <1>13 DEF WrongFields
  <2>2. fail \in Wrong(req) /\ Refuse(fail)
    BY <1>12, <1>13, <2>1 DEF Wrong
  <2> QED
    BY <1>9, <1>10, <2>2, RefuseIs
<1>14. CASE IsChunked
  <2>1. PICK size : size = Number(TrimEnd(NextLine), 16)
    OBVIOUS
  <2>2. /\ SentChunked(req) /\ size = Number(TrimEnd(SizeLine(req)), 16)
        /\ IF size = NotANumber
           THEN Refuse("Failed to create body")
           ELSE /\ phase' = "request"
                /\ length' = size
                /\ chunked' = (size # 0)
                /\ input' = Behind(input, Eol)
                /\ UNCHANGED <<uri, headers, method, path, host, res>>
    BY <1>6, <1>7, <1>14, <2>1 DEF OpenBody
  <2>3. CASE size = NotANumber
    BY <1>13, <2>2, <2>3
  <2>4. CASE size # NotANumber
    <3>1. size \in 0..MaxNumber
      <4>1. size \in 0..MaxNumber \cup {NotANumber}
        BY <2>1, NumberIs
      <4> QED
        BY <2>4, <4>1
    <3>2. /\ phase' = "request" /\ length' = size /\ chunked' = (size # 0) /\ input' = Behind(input, Eol)
          /\ UNCHANGED <<uri, headers, method, path, host, res>>
      BY <2>2, <2>4
    <3>3. BodyRight'
      BY <1>5, <1>6, <1>9, <2>2, <2>4, <3>2 DEF BodyRight
    <3>4. Len(input') <= req.eof
      <4>1. PICK p : p = h + Len(SizeLine(req))
        OBVIOUS
      <4>2. p \in Nat /\ input' = Part(Wire(req), p, req.eof)
        BY <1>6, <3>2, <4>1
      <4> QED
        BY <1>2, <4>2, PartFits
    <3>5. chunked' \in BOOLEAN
      <4>1. CASE size # 0
        BY <3>2, <4>1, Zenon
      <4>2. CASE size = 0
        BY <3>2, <4>2, Zenon
      <4> QED
        BY <4>1, <4>2
    <3> QED
      BY <1>11, <3>1, <3>2, <3>3, <3>4, <3>5
  <2> QED
    BY <2>3, <2>4
<1>15. CASE ~IsChunked
  <2>1. /\ ~SentChunked(req)
        /\ IF ContentLength = NotANumber
           THEN Refuse("Failed to create body")
           ELSE /\ phase' = "request"
                /\ length' = ContentLength
                /\ UNCHANGED <<input, uri, headers, chunked, method, path, host, res>>
    BY <1>7, <1>15 DEF OpenBody
  <2>2. CASE ContentLength = NotANumber
    BY <1>8, <1>13, <2>1, <2>2
  <2>3. CASE ContentLength # NotANumber
    <3>1. /\ phase' = "request" /\ length' = SentLength(req) /\ input' = input /\ chunked' = chunked
          /\ UNCHANGED <<uri, headers, method, path, host, res>>
      BY <1>8, <2>1, <2>3
    <3>2. SentLength(req) \in 0..MaxNumber
      <4>1. 0 \in 0..MaxNumber
        BY <1>10
      <4>2. PICK s : s = Given(req, <<"content-length">>)[1]
        OBVIOUS
      <4>3. Number(s, 10) \in 0..MaxNumber \cup {NotANumber}
        BY NumberIs
      <4>4. SentLength(req) = 0 \/ SentLength(req) = Number(s, 10)
        BY <4>2 DEF SentLength
      <4> QED
        BY <1>8, <2>3, <4>1, <4>3, <4>4
    <3>3. BodyRight'
      BY <1>3, <1>5, <1>6, <1>8, <1>9, <2>1, <2>3, <3>1 DEF BodyRight, NoBody
    <3>4. Len(input') <= req.eof /\ chunked' \in BOOLEAN
      BY <1>2, <3>1 DEF HeadTypeOK
    <3> QED
      BY <1>11, <3>1, <3>2, <3>3, <3>4
  <2> QED
    BY <2>2, <2>3
<1> QED
  BY <1>14, <1>15

LEMMA NothingFound ==
  ASSUME NEW s \in Text, NEW x, Find(s, x) = 0
  PROVE  x \notin ToSet(s)
<1>1. \A i \in 1..Len(s) : s[i] # x
  BY FindIs
<1>2. DOMAIN s = 1..Len(s)
  BY LenProperties DEF Text
<1> QED
  BY <1>1, <1>2 DEF ToSet

LEMMA MakeRequestRight ==
  ASSUME HeadInv, MakeRequest
  PROVE  HeadInv'
<1>1. phase = "request" /\ UNCHANGED <<req, line, plugin, errors>>
  BY DEF MakeRequest
<1>2. req \in Requests /\ HeadTypeOK /\ PhaseRight /\ Told
  BY DEF HeadInv
<1>3. StartRight /\ Complete /\ BodyRight
  BY <1>1, <1>2 DEF PhaseRight, AtRequest
<1>4. GivenRight
  BY <1>2, <1>3, CompleteIs
<1>5. req' = req /\ errors' = errors /\ UNCHANGED plugin /\ Told' /\ errors' \in 0..MaxErrors
  BY <1>1, <1>2, ToldKept DEF HeadTypeOK
<1>6. PICK names, rest, slash, u : /\ names = Given(req, <<"host">>)
                                   /\ u = uri /\ rest = Behind(u, 4) /\ slash = Find(rest, "/")
  OBVIOUS
<1>7. u \in Text /\ u = req.start[2] /\ 2 \in DOMAIN Said(req) /\ Said(req)[2] = u
  <2>1. u = req.start[2] /\ 2 \in DOMAIN Said(req) /\ Said(req)[2] = u
    BY <1>3, <1>6 DEF StartRight
  <2>2. 2 \in 1..Len(req.start)
    BY <2>1 DEF Said
  <2> QED
    BY <1>2, <2>1, <2>2, RequestTypes
<1>8. IF names = <<>> /\ ~IsPrefix(Https, u)
      THEN Refuse("Invalid URI scheme")
      ELSE IF names = <<>> /\ slash = 0
      THEN Refuse("Invalid URI path")
      ELSE /\ phase' = "parsed"
           /\ path' = IF names # <<>> THEN u ELSE Behind(rest, slash - 1)
           /\ host' = IF names # <<>> THEN Lossy(names[1]) ELSE Upto(rest, slash - 1)
           /\ set_ok
           /\ UNCHANGED <<input, uri, headers, length, chunked, method>>
  <2>1. Values(<<"host">>) = names
    BY <1>4, <1>6 DEF GivenRight
  <2> QED
    BY <1>6, <2>1 DEF MakeRequest
<1>9. PICK bad_scheme, bad_path : bad_scheme = "Invalid URI scheme" /\ bad_path = "Invalid URI path"
  OBVIOUS
<1>10. CASE names = <<>> /\ ~IsPrefix(Https, u)
  <2>1. "Invalid URI scheme" \in WrongFields(req)
    BY <1>6, <1>7, <1>10 DEF WrongFields
  <2>2. bad_scheme \in Wrong(req) /\ Refuse(bad_scheme)
    BY <1>8, <1>9, <1>10, <2>1 DEF Wrong
  <2> QED
    BY <1>5, <2>2, RefuseIs
<1>11. CASE names = <<>> /\ IsPrefix(Https, u) /\ slash = 0
  <2>1. rest \in Text
    <3>1. PICK f, l : f = 4 /\ l = Len(u)
      OBVIOUS
    <3>2. u \in Seq(Symbols) /\ f \in Nat /\ l \in 0..Len(u)
      BY <1>7, <3>1, LenProperties DEF Text
    <3>3. Part(u, f, l) \in Seq(Symbols)
      BY <3>2, PartIs
    <3> QED
      BY <1>6, <3>1, <3>3 DEF Behind, Part, Text
  <2>2. "/" \notin ToSet(rest)
    BY <1>6, <1>11, <2>1, NothingFound
  <2>3. "Invalid URI path" \in WrongFields(req)
    BY <1>6, <1>7, <1>11, <2>2 DEF WrongFields
  <2>4. bad_path \in Wrong(req) /\ Refuse(bad_path)
    BY <1>8, <1>9, <1>11, <2>3 DEF Wrong
  <2> QED
    BY <1>5, <2>4, RefuseIs
<1>12. CASE names # <<>> \/ (IsPrefix(Https, u) /\ slash # 0)
  <2>1. /\ phase' = "parsed"
        /\ path' = (IF names # <<>> THEN u ELSE Behind(rest, slash - 1))
        /\ host' = (IF names # <<>> THEN Lossy(names[1]) ELSE Upto(rest, slash - 1))
        /\ res' = [ok |-> TRUE, err |-> ""]
        /\ input' = input /\ uri' = uri /\ headers' = headers /\ length' = length /\ chunked' = chunked
        /\ method' = method
    BY <1>8, <1>12 DEF set_ok
  <2>2. names = <<>> => /\ Https \o host' \o path' = u
                        /\ path'[1] = "/" /\ "/" \in ToSet(rest) /\ IsPrefix(Https, u)
    <3> SUFFICES ASSUME names = <<>> PROVE /\ Https \o host' \o path' = u
                        /\ path'[1] = "/" /\ "/" \in ToSet(rest) /\ IsPrefix(Https, u)
      OBVIOUS
    <3>1. IsPrefix(Https, u) /\ slash # 0 /\ path' = Behind(rest, slash - 1) /\ host' = Upto(rest, slash - 1)
      BY <1>12, <2>1
    <3>2. /\ Https \o Upto(rest, slash - 1) \o Behind(rest, slash - 1) = u
          /\ Behind(rest, slash - 1)[1] = "/"
          /\ "/" \in ToSet(rest)
      <4>1. u \in Text /\ IsPrefix(Https, u) /\ rest = Behind(u, 4) /\ slash = Find(rest, "/") /\ slash # 0
        BY <1>6, <1>7, <3>1
      <4> QED
        BY <4>1, UriIs
    <3> QED
      BY <3>1, <3>2
  <2>3. PICK n : ArrivedAre(req, n) /\ HeadersAre(n)
    BY <1>3 DEF Complete
  <2>4. /\ DOMAIN Arrived(req) = 1..n
        /\ DOMAIN headers = {LowerCase(Arrived(req)[i].name) : i \in DOMAIN Arrived(req)}
        /\ \A i \in DOMAIN Arrived(req) : Arrived(req)[i].sep # <<>>
    BY <2>3 DEF ArrivedAre, HeadersAre
  <2>5. \A name \in DOMAIN headers : headers[name] = Given(req, name)
    BY <1>4 DEF GivenRight, Values
  <2>6. WrongFields(req) = {}
    <3>1. "No colon" \notin WrongFields(req)
      BY <2>4 DEF WrongFields
    <3>2. "Failed to create body" \notin WrongFields(req)
      BY <1>3 DEF WrongFields, BodyRight
    <3>3. "Invalid URI scheme" \notin WrongFields(req) /\ "Invalid URI path" \notin WrongFields(req)
      BY <1>6, <1>7, <2>2 DEF WrongFields
    <3>4. WrongFields(req) \subseteq
            {"No colon", "Failed to create body", "Invalid URI scheme", "Invalid URI path"}
      BY DEF WrongFields
    <3> QED
      BY <3>1, <3>2, <3>3, <3>4
  <2>7. Wrong(req) = {}
    BY <1>3, <2>6 DEF Wrong, StartRight
  <2>8. AsSent'
    <3>1. method' = req.start[1]
      BY <1>3, <2>1 DEF StartRight
    <3>2. DOMAIN headers' = {LowerCase(Arrived(req)[i].name) : i \in DOMAIN Arrived(req)}
      BY <2>1, <2>4
    <3>3. \A name \in DOMAIN headers' : headers'[name] = Given(req, name)
      BY <2>1, <2>5
    <3>4. LET sent == Given(req, <<"host">>)
          IN  IF sent # <<>>
              THEN path' = req.start[2] /\ host' = Lossy(sent[1])
              ELSE Https \o host' \o path' = req.start[2] /\ path'[1] = "/"
      BY <1>6, <1>7, <2>1, <2>2
    <3>5. LET skip == IF SentChunked(req) THEN Len(SizeLine(req)) ELSE 0
          IN  input' = IF Whole(req) THEN SubSeq(Wire(req), Len(HeadOf(req)) + skip + 1, req.eof)
                                     ELSE <<>>
      BY <1>3, <2>1 DEF BodyRight
    <3>6. IF SentChunked(req)
          THEN length' = Number(TrimEnd(SizeLine(req)), 16) /\ chunked' = (length' # 0)
          ELSE length' = SentLength(req) /\ ~chunked'
      BY <1>3, <2>1 DEF BodyRight
    <3> QED
      BY <1>5, <3>1, <3>2, <3>3, <3>4, <3>5, <3>6 DEF AsSent
  <2>9. PhaseRight'
    <3>1. Complete' /\ StartRight'
      BY <1>3, <1>5, <2>1, CompleteKept, StartKept
    <3>2. AtParsed'
      BY <1>5, <2>1, <2>7, <2>8, <3>1 DEF AtParsed
    <3> QED
      BY <2>1, <3>2 DEF PhaseRight
  <2>10. HeadTypeOK'
    <3>1. phase' \in Phase /\ res'.ok \in BOOLEAN
      BY <2>1 DEF Phase
    <3>2. Len(input') <= req.eof /\ length' \in 0..MaxNumber /\ chunked' \in BOOLEAN
          /\ \A name \in DOMAIN headers' : Len(headers'[name]) > 0
      BY <1>2, <2>1 DEF HeadTypeOK
    <3> QED
      BY <1>1, <1>2, <3>1, <3>2, TypesKept
  <2> QED
    BY <1>2, <1>5, <2>9, <2>10 DEF HeadInv
<1> QED
  BY <1>10, <1>11, <1>12

-----------------------------------------------------------------------------
(* What a plugin asks changes nothing of the request.                      *)
LEMMA AnswerRight ==
  ASSUME HeadInv, NEW call, NEW name, NEW index, NEW code, Answer(call, name, index, code),
         index \in 0..MaxIndex, code \in Nat, Told'
  PROVE  HeadInv'
<1>1. /\ phase = "parsed" /\ req' = req /\ input' = input /\ phase' = phase /\ res' = res /\ errors' = errors
      /\ got' = [call |-> call, name |-> name, index |-> index, code |-> code]
      /\ uri' = uri /\ headers' = headers /\ length' = length /\ chunked' = chunked
      /\ method' = method /\ path' = path /\ host' = host
  BY DEF Answer, parsing
<1>2. req \in Requests /\ HeadTypeOK /\ PhaseRight
  BY DEF HeadInv
<1>3. AtParsed
  BY <1>1, <1>2 DEF PhaseRight
<1>4. StartRight' /\ Complete'
  BY <1>1, <1>3, StartKept, CompleteKept DEF AtParsed
<1>5. AsSent'
  BY <1>1, <1>3 DEF AtParsed, AsSent
<1>6. AtParsed'
  BY <1>1, <1>3, <1>4, <1>5 DEF AtParsed
<1>7. PhaseRight'
  BY <1>1, <1>6 DEF PhaseRight
<1>8. HeadTypeOK'
  <2>1. got'.index = index /\ got'.code = code
    BY <1>1
  <2> QED
    BY <1>1, <1>2, <2>1 DEF HeadTypeOK
<1> QED
  BY <1>1, <1>2, <1>7, <1>8 DEF HeadInv

(* The headers of a request that a plugin has, as it asks for them.        *)
LEMMA HeadersAsked ==
  ASSUME HeadInv, phase = "parsed", NEW name
  PROVE  /\ Values(name) = Given(req, name) /\ Given(req, name) \in Seq(Text)
         /\ Len(Given(req, name)) \in Nat
         /\ name \notin DOMAIN headers => Given(req, name) = <<>>
         /\ name \in DOMAIN headers => Given(req, name) = headers[name] /\ Given(req, name) # <<>>
<1>1. req \in Requests /\ AtParsed
  BY DEF HeadInv, PhaseRight
<1>2. Complete
  BY <1>1 DEF AtParsed
<1>3. Values(name) = Given(req, name) /\ Given(req, name) \in Seq(Text)
  BY <1>1, <1>2, CompleteIs DEF GivenRight
<1>4. Len(Given(req, name)) \in Nat
  BY <1>3, LenProperties
<1>5. name \in DOMAIN headers => headers[name] # <<>>
  BY <1>2 DEF Complete, HeadersAre
<1> QED
  BY <1>3, <1>4, <1>5 DEF Values

(* A plugin is told what was sent, and its buffer is kept if nothing is    *)
(* told.                                                                   *)
Keeps ==
  /\ req' = req
  /\ got'.call \in {"none", "count"} => value' = value
  /\ got'.call = "header" /\ ~(got'.index < Len(Given(req, got'.name))) => value' = value

LEMMA GetRight ==
  ASSUME HeadInv, GetMethod \/ GetPath \/ GetUri
  PROVE  HeadInv' /\ Keeps
<1>1. PICK call \in {"method", "path", "uri"} :
        /\ Answer(call, <<>>, 0, 0)
        /\ call = "method" => value' = method
        /\ call = "uri" => value' = Https \o host \o path
  BY DEF GetMethod, GetPath, GetUri
<1>2. phase = "parsed" /\ req' = req /\ got' = [call |-> call, name |-> <<>>, index |-> 0, code |-> 0]
  BY <1>1 DEF Answer
<1>3. AtParsed
  BY <1>2 DEF HeadInv, PhaseRight
<1>4. got'.call = call
  BY <1>2
<1>5. Told'
  <2>1. call = "method" => value' = req.start[1]
    BY <1>1, <1>3 DEF AtParsed, StartRight
  <2>2. call = "uri" /\ Given(req, <<"host">>) = <<>> => value' = req.start[2]
    BY <1>1, <1>2, <1>3 DEF AtParsed, AsSent
  <2> QED
    BY <1>1, <1>2, <1>4, <2>1, <2>2 DEF Told
<1>6. Keeps
  BY <1>1, <1>2, <1>4 DEF Keeps
<1>7. PICK none, zero : none = <<>> /\ zero = 0
  OBVIOUS
<1>8. zero \in 0..MaxIndex /\ zero \in Nat /\ Answer(call, none, zero, zero)
  <2>1. MaxIndex \in Nat
    BY PeerAssumption
  <2> QED
    BY <1>1, <1>7, <2>1
<1>9. HeadInv'
  BY <1>5, <1>8, AnswerRight
<1> QED
  BY <1>6, <1>9

LEMMA GetHeaderCountRight ==
  ASSUME HeadInv, NEW name, GetHeaderCount(name)
  PROVE  HeadInv' /\ Keeps
<1>1. PICK zero, code, call : zero = 0 /\ code = Len(Values(name)) /\ call = "count"
  OBVIOUS
<1>2. Answer(call, name, zero, code) /\ value' = value
  BY <1>1 DEF GetHeaderCount
<1>3. phase = "parsed" /\ req' = req /\ got' = [call |-> call, name |-> name, index |-> zero, code |-> code]
  BY <1>2 DEF Answer
<1>4. code = Len(Given(req, name)) /\ code \in Nat
  BY <1>1, <1>3, HeadersAsked
<1>5. got'.call = "count" /\ got'.name = name /\ got'.code = code
  BY <1>1, <1>3
<1>6. Told'
  BY <1>3, <1>4, <1>5 DEF Told
<1>7. zero \in 0..MaxIndex
  <2>1. MaxIndex \in Nat
    BY PeerAssumption
  <2> QED
    BY <1>1, <2>1
<1>8. HeadInv'
  BY <1>2, <1>4, <1>6, <1>7, AnswerRight
<1>9. Keeps
  BY <1>2, <1>3, <1>5 DEF Keeps
<1> QED
  BY <1>8, <1>9

LEMMA GetHeaderRight ==
  ASSUME HeadInv, NEW name, NEW index \in 0..MaxIndex, GetHeader(name, index)
  PROVE  HeadInv' /\ Keeps
<1>1. PICK code, call : /\ call = "header"
                        /\ code = IF name \notin DOMAIN headers THEN 1
                                  ELSE IF index >= Len(headers[name]) THEN 2 ELSE 0
  OBVIOUS
<1>2. /\ Answer(call, name, index, code)
      /\ value' = IF code = 0 THEN headers[name][index + 1] ELSE value
  BY <1>1 DEF GetHeader
<1>3. phase = "parsed" /\ req' = req /\ got' = [call |-> call, name |-> name, index |-> index, code |-> code]
  BY <1>2 DEF Answer
<1>4. PICK sent, n : sent = Given(req, name) /\ n = Len(sent)
  OBVIOUS
<1>5. /\ n \in Nat /\ sent \in Seq(Text)
      /\ name \notin DOMAIN headers => sent = <<>>
      /\ name \in DOMAIN headers => sent = headers[name] /\ sent # <<>>
  BY <1>3, <1>4, HeadersAsked
<1>6. index \in Nat /\ code \in Nat
  <2>1. MaxIndex \in Nat
    BY PeerAssumption
  <2>2. index \in Nat
    BY <2>1
  <2>3. code = 0 \/ code = 1 \/ code = 2
    BY <1>1
  <2> QED
    BY <2>2, <2>3
<1>7. sent = <<>> => n = 0
  BY <1>4, EmptySeq
<1>8. /\ code = IF sent = <<>> THEN 1 ELSE IF index < n THEN 0 ELSE 2
      /\ value' = IF index < n THEN sent[index + 1] ELSE value
  <2>1. CASE name \notin DOMAIN headers
    <3>1. sent = <<>> /\ n = 0 /\ code = 1 /\ ~(index < n)
      BY <1>1, <1>5, <1>6, <1>7, <2>1
    <3> QED
      BY <1>2, <3>1
  <2>2. CASE name \in DOMAIN headers
    <3>1. sent = headers[name] /\ sent # <<>> /\ n = Len(headers[name])
      BY <1>4, <1>5, <2>2
    <3>2. code = IF index < n THEN 0 ELSE 2
      BY <1>1, <1>5, <1>6, <2>2, <3>1
    <3> QED
      BY <1>2, <3>1, <3>2
  <2> QED
    BY <2>1, <2>2
<1>9. got'.call = "header" /\ got'.name = name /\ got'.code = code /\ got'.index = index
  BY <1>1, <1>3
<1>10. Told'
  BY <1>3, <1>4, <1>8, <1>9 DEF Told
<1>11. HeadInv'
  BY <1>2, <1>6, <1>10, AnswerRight
<1>12. Keeps
  BY <1>3, <1>4, <1>8, <1>9 DEF Keeps
<1> QED
  BY <1>11, <1>12

LEMMA DestroyRight ==
  ASSUME HeadInv, DestroyRequest
  PROVE  HeadInv'
<1>1. /\ phase' = "destroyed" /\ input' = <<>> /\ UNCHANGED <<req, line, parsing, res, plugin, errors>>
  BY DEF DestroyRequest, DropReader
<1>2. req \in Requests /\ HeadTypeOK /\ PhaseRight /\ Told
  BY DEF HeadInv
<1>3. Told'
  BY <1>1, <1>2, ToldKept
<1>4. PhaseRight'
  BY <1>1 DEF PhaseRight
<1>5. HeadTypeOK'
  <2>1. Len(input') <= req.eof
    <3>1. Len(input') = 0 /\ 0 \in Nat
      BY <1>1, EmptySeq
    <3>2. req.eof \in Nat
      BY <1>2, <3>1, PartFits
    <3> QED
      BY <3>1, <3>2
  <2>2. phase' \in Phase
    BY <1>1 DEF Phase
  <2>3. length' \in 0..MaxNumber /\ chunked' \in BOOLEAN /\ res'.ok \in BOOLEAN
        /\ \A name \in DOMAIN headers' : Len(headers'[name]) > 0
    BY <1>1, <1>2 DEF HeadTypeOK, parsing
  <2> QED
    BY <1>1, <1>2, <2>1, <2>2, <2>3, TypesKept
<1> QED
  BY <1>1, <1>2, <1>3, <1>4, <1>5 DEF HeadInv

LEMMA HeadStutters ==
  ASSUME HeadInv, UNCHANGED headVars
  PROVE  HeadInv'
<1>1. /\ req' = req /\ input' = input /\ line' = line /\ phase' = phase /\ res' = res /\ errors' = errors
      /\ got' = got /\ value' = value
      /\ uri' = uri /\ headers' = headers /\ length' = length /\ chunked' = chunked
      /\ method' = method /\ path' = path /\ host' = host
  BY DEF headVars, parsing, plugin
<1>2. req \in Requests /\ HeadTypeOK /\ PhaseRight /\ Told
  BY DEF HeadInv
<1>3. HeadTypeOK' /\ Told'
  BY <1>1, <1>2 DEF HeadTypeOK, Told
<1>4. StartRight => StartRight'
  BY <1>1, StartKept
<1>5. Complete => Complete'
  BY <1>1, CompleteKept
<1>6. AtStatus => AtStatus'
  BY <1>1 DEF AtStatus, NoBody
<1>7. AtHeaders => AtHeaders'
  <2> SUFFICES ASSUME AtHeaders PROVE AtHeaders'
    OBVIOUS
  <2>1. PICK n : ArrivedAre(req, n) /\ \E k \in 0..n : HeadersAre(k) /\ Reading(n, k)
    BY DEF AtHeaders
  <2>2. PICK k \in 0..n : HeadersAre(k) /\ Reading(n, k)
    BY <2>1
  <2>3. HeadersAre(k)'
    BY <1>1, <2>2, HeadersKept
  <2>4. Reading(n, k)'
    BY <1>1, <2>2 DEF Reading
  <2>5. ArrivedAre(req', n)
    BY <1>1, <2>1
  <2>6. StartRight' /\ NoBody'
    BY <1>1, <1>4 DEF AtHeaders, NoBody
  <2> QED
    BY <2>3, <2>4, <2>5, <2>6 DEF AtHeaders
<1>8. AtBody => AtBody'
  BY <1>1, <1>4, <1>5 DEF AtBody, NoBody
<1>9. BodyRight => BodyRight'
  BY <1>1 DEF BodyRight
<1>10. AsSent => AsSent'
  BY <1>1 DEF AsSent
<1>11. AtRequest => AtRequest'
  BY <1>4, <1>5, <1>9 DEF AtRequest
<1>12. AtParsed => AtParsed'
  BY <1>1, <1>4, <1>5, <1>10 DEF AtParsed
<1>13. AtRefused => AtRefused'
  BY <1>1 DEF AtRefused
<1>14. PhaseRight'
  BY <1>1, <1>2, <1>6, <1>7, <1>8, <1>11, <1>12, <1>13 DEF PhaseRight
<1> QED
  BY <1>1, <1>2, <1>3, <1>14 DEF HeadInv

-----------------------------------------------------------------------------
(* No step but a plugin's call changes its buffer.                         *)
LEMMA HeadStep ==
  ASSUME HeadInv, [HeadNext]_headVars
  PROVE  HeadInv' /\ Keeps
<1>1. CASE Parse \/ Fails \/ DestroyRequest
  <2>1. req' = req /\ value' = value
    BY <1>1 DEF Parse, Fails, ReadHeadLine, ParseStatusLine, ParseHeaderLine, OpenBody, MakeRequest,
             ReadHeadFails, OpenBodyFails, DestroyRequest, plugin
  <2>2. Keeps
    BY <2>1 DEF Keeps
  <2>3. HeadInv'
    BY <1>1, ReadLineRight, ParseStatusRight, ParseHeaderRight, OpenBodyRight, MakeRequestRight,
       ReadFailsRight, DestroyRight DEF Parse, Fails
  <2> QED
    BY <2>2, <2>3
<1>2. CASE GetMethod \/ GetPath \/ GetUri
  BY <1>2, GetRight
<1>3. ASSUME NEW name \in Lookups, GetHeaderCount(name) PROVE HeadInv' /\ Keeps
  BY <1>3, GetHeaderCountRight
<1>4. ASSUME NEW name \in Lookups, NEW index \in 0..MaxIndex, GetHeader(name, index)
      PROVE  HeadInv' /\ Keeps
  BY <1>4, GetHeaderRight
<1>5. CASE UNCHANGED headVars
  <2>1. req' = req /\ value' = value
    BY <1>5 DEF headVars, plugin
  <2> QED
    BY <1>5, <2>1, HeadStutters DEF Keeps
<1> QED
  BY <1>1, <1>2, <1>3, <1>4, <1>5 DEF HeadNext

(* In each phase the parser is where the peer's lines and fields say, and  *)
(* has kept of them what it should (http_parse_http11_request).            *)
THEOREM HeadAlwaysRight == HeadSpec => []HeadInv
<1>1. HeadInit => HeadInv
  BY StartsRight
<1>2. HeadInv /\ [HeadNext]_headVars => HeadInv'
  BY HeadStep
<1> QED
  BY <1>1, <1>2, PTL DEF HeadSpec

(* A request that is handed to a plugin is the one that was sent: method,  *)
(* headers, host, path and body, wherever the connection was closed        *)
(* (http_parse_http11_request, get_body_reader).                           *)
THEOREM ParsedAsSent == HeadSpec => []AsSent
<1>1. HeadInv => AsSent
  BY DEF HeadInv, PhaseRight, AtParsed, AsSent
<1> QED
  BY <1>1, HeadAlwaysRight, PTL

(* A request is refused for nothing but what is wrong with it or an error  *)
(* of its connection, and never parsed if something is; the types of the   *)
(* parser's state (http_parse_http11_request, set_ok, set_err!).           *)
THEOREM RequestsRightlyJudged == HeadSpec => []Verdict
<1>1. HeadInv => Verdict
  BY DEF HeadInv, PhaseRight, AtParsed, AtRefused, Verdict
<1> QED
  BY <1>1, HeadAlwaysRight, PTL

(* A plugin that asks is told what the peer has sent, and its buffer is    *)
(* kept if there is nothing to tell (the functions of request.rs).         *)
THEOREM AnsweredAsSent == HeadSpec => Answers
<1> DEFINE Step == LET sent == Given(req, got'.name)
                       k    == got'.index
                   IN  /\ got'.call \in {"none", "count"} => value' = value
                       /\ got'.call = "count" => got'.code = Len(sent)
                       /\ got'.call = "header" =>
                            /\ got'.code = IF sent = <<>> THEN 1 ELSE IF k < Len(sent) THEN 0 ELSE 2
                            /\ value' = IF k < Len(sent) THEN sent[k + 1] ELSE value
                       /\ got'.call = "method" => value' = req.start[1]
                       /\ got'.call = "uri" /\ Given(req, <<"host">>) = <<>> => value' = req.start[2]
<1>1. ASSUME HeadInv, HeadInv', [HeadNext]_headVars PROVE Step
  <2>1. Keeps /\ Told'
    BY <1>1, HeadStep DEF HeadInv
  <2> QED
    BY <2>1 DEF Keeps, Told
<1>2. HeadInv /\ HeadInv' /\ [HeadNext]_headVars => [Step]_headVars
  BY <1>1
<1>3. HeadSpec => [][Step]_headVars
  BY <1>2, HeadAlwaysRight, PTL DEF HeadSpec
<1> QED
  BY <1>3 DEF Answers
=============================================================================
