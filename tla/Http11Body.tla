----------------------------- MODULE Http11Body -----------------------------
(***************************************************************************)
(* The body of an HTTP/1.1 request, as http/src/http11.rs reads it:        *)
(* get_body_reader looks at the headers and makes a Body, and every        *)
(* http_read_body of the plugin ends in Body::read, which removes the      *)
(* framing (content-length or chunked) from the connection's byte stream.  *)
(*                                                                         *)
(* The stream is a sequence of bytes of which only the kind matters: a     *)
(* hexadecimal digit (0..15 is its value), a line feed, another blank that *)
(* trim_end removes, or anything else.  Payload bytes range over all of    *)
(* them, so payload that is taken for framing is read as framing.          *)
(*                                                                         *)
(* Reading is done by std's BufReader over the connection: a read returns  *)
(* any nonempty part of what was asked, Ok(0) only at the end of the       *)
(* stream, or an error; after an error the stream can be read again.       *)
(* read_line consumes what it has seen of a line also when it fails.       *)
(***************************************************************************)
EXTENDS Integers, Sequences, FiniteSets

CONSTANTS
  Messages,   \* the requests a peer may send, see WellFramed
  UsizeMax,   \* largest value of a usize
  MaxBuf,     \* longest buffer a plugin reads into
  MaxFaults   \* bound on the number of errors of the connection

LineFeed == 16
Blank    == 17
Other    == 18
Byte     == 0..18

Malformed == -1     \* from_str_radix or parse::<usize> returned Err

(***************************************************************************)
(* A request is a record:                                                  *)
(*   chunked  some transfer-encoding header is exactly "chunked"           *)
(*   length   the value of content-length, 0 without one, or Malformed     *)
(*   wire     all the bytes that follow the header block, those of a       *)
(*            pipelined request included                                   *)
(*   eof      how many of them arrive before the connection is closed      *)
(*   chunks   the chunks of a chunked body as the peer framed them, the    *)
(*            final chunk of size zero included: the offset of the size    *)
(*            line, of the first byte after it, and of the end of the data *)
(***************************************************************************)
Line(m, p, q) ==
  /\ p < q /\ q <= Len(m.wire)
  /\ m.wire[q] = LineFeed
  /\ \A i \in (p + 1)..(q - 1) : m.wire[i] # LineFeed

(* usize::from_str_radix(line.trim_end(), 16) of the bytes p+1..q          *)
ChunkSize(m, p, q) ==
  LET text == {i \in (p + 1)..q : m.wire[i] \notin {LineFeed, Blank}}
      last == CHOOSE t \in text : \A i \in text : i <= t
      value[i \in p..q] == IF i = p THEN 0 ELSE 16 * value[i - 1] + m.wire[i]
  IN  IF /\ text # {}
         /\ \A i \in (p + 1)..last : m.wire[i] \in 0..15
         /\ value[last] \in 0..UsizeMax
      THEN value[last]
      ELSE Malformed

WellFramed(m) ==
  /\ m.chunked \in BOOLEAN
  /\ m.length \in {Malformed} \cup 0..UsizeMax
  /\ m.wire \in Seq(Byte)
  /\ m.eof \in 0..Len(m.wire)
  /\ m.chunks \in Seq([size : Nat, first : Nat, last : Nat])
  /\ m.chunked =>
       /\ Len(m.chunks) > 0
       /\ m.chunks[1].size = 0
       /\ \A k \in 1..Len(m.chunks) :
            LET c == m.chunks[k]
            IN  /\ Line(m, c.size, c.first)
                /\ c.last \in c.first..Len(m.wire)
                /\ ChunkSize(m, c.size, c.first) = c.last - c.first
                /\ (c.last = c.first) <=> (k = Len(m.chunks))
       /\ \A k \in 1..(Len(m.chunks) - 1) :
            Line(m, m.chunks[k].last, m.chunks[k + 1].size)
       /\ \A j, k \in 1..Len(m.chunks) :
            j < k => m.chunks[j].last < m.chunks[k].size

ASSUME BoundsAssumption ==
  UsizeMax \in Nat /\ MaxBuf \in Nat /\ MaxFaults \in Nat

ASSUME MessagesAssumption == \A m \in Messages : WellFramed(m)

(* The offsets of the payload, and the offset at which the body's framing is complete. *)
Payload(m) ==
  IF m.chunked
  THEN UNION {(m.chunks[k].first + 1)..m.chunks[k].last : k \in 1..Len(m.chunks)}
  ELSE 1..m.length

End(m) == IF m.chunked THEN m.chunks[Len(m.chunks)].first ELSE m.length

-----------------------------------------------------------------------------
VARIABLES
  msg,               \* the request being read
  pos,               \* bytes of msg.wire consumed so far
  content_length,    \* Body.content_length, 0 for None
  chunked_encoding,  \* Body.chunked_encoding
  body,              \* "headers" before get_body_reader, then "open" or "refused"
  delivered,         \* offsets of the bytes copied into the plugin's buffers
  ended,             \* a read has returned Ok(0) although there was room
  broken,            \* why the framing was lost: "no" while it is not
  faults             \* errors of the connection so far

vars == <<msg, pos, content_length, chunked_encoding, body, delivered, ended,
          broken, faults>>

TypeOK ==
  /\ msg \in Messages
  /\ pos \in 0..msg.eof
  /\ content_length \in 0..UsizeMax
  /\ chunked_encoding \in BOOLEAN
  /\ body \in {"headers", "open", "refused"}
  /\ delivered \subseteq 1..msg.eof
  /\ ended \in BOOLEAN
  /\ broken \in {"no", "fault", "malformed", "overrun"}
  /\ faults \in 0..MaxFaults

Init ==
  /\ msg \in Messages
  /\ pos = 0
  /\ content_length = 0
  /\ chunked_encoding = FALSE
  /\ body = "headers"
  /\ delivered = {}
  /\ ended = FALSE
  /\ broken = "no"
  /\ faults = 0

-----------------------------------------------------------------------------
Smaller(a, b) == IF a <= b THEN a ELSE b

(* BufRead::read_line from offset p returns Ok and leaves the stream at q. *)
ReadLine(p, q) ==
  \/ q <= msg.eof /\ Line(msg, p, q)
  \/ q = msg.eof /\ \A i \in (p + 1)..q : msg.wire[i] # LineFeed

(* BufRead::read_line from offset p fails when the stream is at q.         *)
ReadLineFails(p, q) == \A i \in (p + 1)..q : msg.wire[i] # LineFeed

Fault ==
  /\ faults < MaxFaults
  /\ faults' = faults + 1

(* The first reason for which the framing is lost is kept.                 *)
Break(reason) == broken' = IF broken = "no" THEN reason ELSE broken

(* get_body_reader without chunked encoding.                               *)
OpenWithLength ==
  /\ body = "headers"
  /\ ~msg.chunked
  /\ IF msg.length = Malformed
     THEN body' = "refused" /\ UNCHANGED content_length
     ELSE body' = "open" /\ content_length' = msg.length
  /\ UNCHANGED <<msg, pos, chunked_encoding, delivered, ended, broken, faults>>

(* get_body_reader with chunked encoding: the first size line is read here. *)
OpenChunked ==
  /\ body = "headers"
  /\ msg.chunked
  /\ \E q \in pos..msg.eof :
       /\ ReadLine(pos, q)
       /\ pos' = q
       /\ LET size == ChunkSize(msg, pos, q)
          IN  IF size = Malformed
              THEN body' = "refused" /\ UNCHANGED <<content_length, chunked_encoding>>
              ELSE /\ body' = "open"
                   /\ content_length' = size
                   /\ chunked_encoding' = (size # 0)
  /\ UNCHANGED <<msg, delivered, ended, broken, faults>>

OpenChunkedFails ==
  /\ body = "headers"
  /\ msg.chunked
  /\ Fault
  /\ \E q \in pos..msg.eof : ReadLineFails(pos, q) /\ pos' = q
  /\ body' = "refused"
  /\ UNCHANGED <<msg, content_length, chunked_encoding, delivered, ended, broken>>

-----------------------------------------------------------------------------
(* Mutant: the buffer is not cut to the rest of the chunk.                 *)
ReadDataUncut(p, rest, len) ==
  \E n \in 0..Smaller(len, msg.eof - p) :
    /\ n = 0 => len = 0 \/ p = msg.eof
    /\ pos' = p + n
    /\ delivered' = delivered \cup (p + 1)..(p + n)
    /\ content_length' = IF n <= rest THEN rest - n ELSE 0
    /\ ended' = (ended \/ (n = 0 /\ len > 0))

(* Mutant: the end of the stream is not reported as the end of the body.   *)
ReadDataEndless(p, rest, len) ==
  \E n \in 0..Smaller(Smaller(len, rest), msg.eof - p) :
    /\ n = 0 => len = 0 \/ p = msg.eof
    /\ pos' = p + n
    /\ delivered' = delivered \cup (p + 1)..(p + n)
    /\ content_length' = rest - n
    /\ UNCHANGED ended

(* The end of Body::read: the buffer of len bytes is cut to the rest of    *)
(* the chunk, filled from offset p as far as the reader likes, and what    *)
(* was read is subtracted from content_length.                             *)
ReadData(p, rest, len) ==
  \E n \in 0..Smaller(Smaller(len, rest), msg.eof - p) :
    /\ n = 0 => len = 0 \/ p = msg.eof
    /\ pos' = p + n
    /\ delivered' = delivered \cup (p + 1)..(p + n)
    /\ content_length' = rest - n
    /\ ended' = (ended \/ (n = 0 /\ len > 0))

(* Body::read in the middle of a chunk or of a content-length body.        *)
ReadInside(len) ==
  /\ body = "open"
  /\ content_length > 0
  /\ ReadData(pos, content_length, len)
  /\ UNCHANGED <<msg, chunked_encoding, body, broken, faults>>

ReadInsideFails ==
  /\ body = "open"
  /\ content_length > 0
  /\ Fault
  /\ UNCHANGED <<msg, pos, content_length, chunked_encoding, body, delivered,
                 ended, broken>>

(* Body::read of a body without chunks that has been read to its end.      *)
ReadNothing(len) ==
  /\ body = "open"
  /\ content_length = 0
  /\ ~chunked_encoding
  /\ ended' = (ended \/ len > 0)
  /\ UNCHANGED <<msg, pos, content_length, chunked_encoding, body, delivered,
                 broken, faults>>

AtBoundary ==
  /\ body = "open"
  /\ content_length = 0
  /\ chunked_encoding

(* Body::read once the size line p+1..q of the next chunk is consumed.     *)
NextChunk(p, q, len) ==
  LET size == ChunkSize(msg, p, q)
  IN  CASE size = Malformed ->
             /\ pos' = q
             /\ Break(IF ended THEN "overrun" ELSE "malformed")
             /\ UNCHANGED <<content_length, delivered, ended>>
        [] size = 0 ->
             /\ pos' = q
             /\ IF ended THEN Break("overrun") ELSE UNCHANGED broken
             /\ ended' = TRUE
             /\ UNCHANGED <<content_length, delivered>>
        [] OTHER ->
             /\ ReadData(q, size, len)
             /\ IF ended THEN Break("overrun") ELSE UNCHANGED broken

(* Mutant: the line that ends the last chunk is not dropped.               *)
ReadBoundaryAtOnce(len) ==
  /\ AtBoundary
  /\ \E q \in pos..msg.eof : ReadLine(pos, q) /\ NextChunk(pos, q, len)
  /\ UNCHANGED <<msg, chunked_encoding, body, faults>>

(* Body::read between two chunks: the rest of the line that ends the last  *)
(* chunk is dropped, the next line is the size of the next chunk, and its  *)
(* data is read in the same call.                                          *)
ReadBoundary(len) ==
  /\ AtBoundary
  /\ \E p \in pos..msg.eof, q \in pos..msg.eof :
       ReadLine(pos, p) /\ ReadLine(p, q) /\ NextChunk(p, q, len)
  /\ UNCHANGED <<msg, chunked_encoding, body, faults>>

(* The connection fails while the end of the last chunk, the size line, or *)
(* the data after it is read.  What was consumed is not given back.        *)
ReadBoundaryFails ==
  /\ AtBoundary
  /\ Fault
  /\ \/ \E p \in pos..msg.eof :
          ReadLineFails(pos, p) /\ pos' = p
     \/ \E p \in pos..msg.eof, q \in pos..msg.eof :
          p <= q /\ ReadLine(pos, p) /\ ReadLineFails(p, q) /\ pos' = q
     \/ \E p \in pos..msg.eof, q \in pos..msg.eof :
          /\ ReadLine(pos, p) /\ ReadLine(p, q)
          /\ ChunkSize(msg, p, q) \notin {Malformed, 0}
          /\ pos' = q
  /\ IF ended THEN Break("overrun")
     ELSE IF pos' # pos THEN Break("fault") ELSE UNCHANGED broken
  /\ UNCHANGED <<msg, content_length, chunked_encoding, body, delivered, ended>>

(* Body::read, called with a buffer of len bytes, with its outcome.        *)
Read(len) == ReadInside(len) \/ ReadNothing(len) \/ ReadBoundary(len)

ReadFails == ReadInsideFails \/ ReadBoundaryFails

Next ==
  \/ OpenWithLength
  \/ OpenChunked
  \/ OpenChunkedFails
  \/ \E len \in 0..MaxBuf : Read(len)
  \/ ReadFails

(* A plugin reads until it is told to stop, into buffers that have room;   *)
(* the peer eventually sends the rest of the request or closes.            *)
Fairness ==
  /\ WF_vars(OpenWithLength \/ OpenChunked)
  /\ WF_vars(\E len \in 1..MaxBuf : Read(len))

Spec == Init /\ [][Next]_vars

FairSpec == Spec /\ Fairness

-----------------------------------------------------------------------------
(* While the framing is not lost, the plugin has been given exactly the    *)
(* payload bytes among those consumed: no size line or line end leaks into *)
(* the body and no payload byte is skipped, however reads are split over   *)
(* buffers and whatever errors were retried (Body::read).                  *)
BodyIntact == broken = "no" => delivered = Payload(msg) \cap 1..pos

(* Ok(0) for a buffer with room means that every payload byte the peer     *)
(* sent before closing has been handed over (Body::read, get_body_reader). *)
EndMeansAll ==
  ended /\ broken = "no" => Payload(msg) \cap 1..msg.eof \subseteq delivered

(* Reading the body never consumes bytes after its end, which belong to    *)
(* the next request on the connection (the cut of buf in Body::read).      *)
NoOverread == body = "open" /\ broken = "no" => pos <= End(msg)

(* A well-framed request is refused, and its framing lost, only for a      *)
(* reason outside of this code: an unreadable content-length, an error of  *)
(* the connection, a close before the end of the body, or a plugin that    *)
(* reads on after the end was reported (get_body_reader, Body::read).      *)
LossHasCause ==
  /\ broken = "malformed" => msg.eof < End(msg)
  /\ body = "refused" =>
       \/ ~msg.chunked /\ msg.length = Malformed
       \/ faults > 0
       \/ msg.eof < End(msg)

(* Every body comes to an end for a plugin that reads until Ok(0) or a     *)
(* request that cannot be read any more (the loop of test_chunked).        *)
EventuallyOver == <>(ended \/ body = "refused" \/ broken # "no")

(* Body::read implements the promise made to plugins.                      *)
Void == body = "refused" \/ broken # "no"

Promise == INSTANCE BodyStream WITH
  size  <- Cardinality(Payload(msg) \cap 1..msg.eof),
  taken <- IF Void THEN 0 ELSE Cardinality(delivered),
  phase <- IF Void THEN "void" ELSE IF ended THEN "ended" ELSE "open"

KeepsPromise == Promise!Spec
=============================================================================
