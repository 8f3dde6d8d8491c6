------------------------------- MODULE Frames -------------------------------
(***************************************************************************)
(* HTTP/2 frames other than SETTINGS: what the write_frame functions of    *)
(* http/src/http2/frame put on a connection, and what its owner gets who   *)
(* reads each header with http_frame_read_header and then calls the        *)
(* read_frame of its type.                                                 *)
(*                                                                         *)
(* The two ends run freely.  A sender uses the write functions, one of     *)
(* whose write_alls may fail with any part of the frame sent, after which  *)
(* it may go on with another frame; or it makes a frame of its own, that   *)
(* need not be well-formed.  A reader asks for a number of bytes           *)
(* (read_exact), waits until they are there, and fails if they will not    *)
(* come.  It keeps the objects that it reads into from one frame to the    *)
(* next, and has them from an earlier connection.                          *)
(*                                                                         *)
(* Payload bytes are known by their offsets.  Reading across the end of    *)
(* what was sent of a frame, or a header where there is none, ends the     *)
(* model ("lost").  The top bit of a 32-bit word, which is reserved or the  *)
(* exclusive bit, is apart from the rest.                                  *)
(***************************************************************************)
EXTENDS Integers, Sequences, FiniteSets

CONSTANTS
  Calls,     \* calls of write_frame functions, see Call
  Raws,      \* frames that are made without them, see Frame
  LenMod,    \* 2^24: a header has room for a length below it
  Limit,     \* MAX_FRAME_SIZE in the reader's context
  Leftovers, \* what an earlier connection may have left in a buffer
  Cuts,      \* how many bytes of a frame a write that fails may have sent, if any
  MaxSent,   \* bound on the frames that are sent
  MaxFaults, \* bound on the writes that fail
  MaxAhead   \* bound on the whole frames that the reader has not finished

HeaderSize == 9

Word == [low : Nat, top : {0, 1}]
Zero == [low |-> 0, top |-> 0]
Low(word) == [word EXCEPT !.top = 0]

DefaultWeight == [low |-> 16, top |-> 0]

Types    == {"data", "headers", "priority", "rst_stream", "ping", "go_away",
             "window_update", "continuation"}
OfStream == {"data", "headers", "priority", "rst_stream", "continuation"}
OfConn   == {"ping", "go_away"}
HasData  == {"data", "headers", "continuation", "go_away"}
CanPad   == {"data", "headers"}
Flags    == {"end_stream", "end_headers", "ack", "padded", "priority"}

(* The flags that a read_frame returns, and those that a write_frame sets. *)
EndsOf(type) ==
  CASE type = "data"         -> {"end_stream"}
    [] type = "headers"      -> {"end_stream", "end_headers"}
    [] type = "continuation" -> {"end_headers"}
    [] type = "ping"         -> {"ack"}
    [] OTHER                 -> {}

FlagsOf(type) ==
  EndsOf(type) \cup (IF type \in CanPad THEN {"padded"} ELSE {})
               \cup (IF type = "headers" THEN {"priority"} ELSE {})

(* The bytes of a payload in front of its data, and those behind it.       *)
Prefix(type, flags) ==
  CASE type = "data"    -> IF "padded" \in flags THEN 1 ELSE 0
    [] type = "headers" -> (IF "padded" \in flags THEN 1 ELSE 0)
                           + (IF "priority" \in flags THEN 5 ELSE 0)
    [] type = "continuation"                    -> 0
    [] type = "priority"                        -> 5
    [] type \in {"rst_stream", "window_update"} -> 4
    [] type \in OfConn                          -> 8

PadOf(f) == IF f.type \in CanPad /\ "padded" \in f.flags THEN f.pad ELSE 0

(* The arguments of a write function: n bytes of data, and what else its   *)
(* frame has of a stream id, a code, a weight or an increment.             *)
Call == [type : Types, stream : Word, flags : SUBSET Flags, pad : Nat, n : Nat,
         id : Word, exclusive : {0, 1}, value : Word]

IsCall(c) ==
  /\ c \in Call
  /\ c.n > 0 => c.type \in HasData

(* A frame: its header, the byte that tells its padding, the number of     *)
(* bytes between its prefix and its padding, its words.                    *)
Frame == [type : Types, flags : SUBSET Flags, stream : [low : Nat, top : {0}],
          len : 0..(LenMod - 1), pad : Nat, n : Nat, id : Word, value : Word]

IsFrame(f) ==
  /\ f \in Frame
  /\ f.len >= Prefix(f.type, f.flags) + PadOf(f)
       => f.len = Prefix(f.type, f.flags) + f.n + PadOf(f)

ASSUME FramesAssumption ==
  /\ LenMod \in Nat \ {0}
  /\ Cuts \cup Leftovers \cup {Limit, MaxSent, MaxFaults, MaxAhead} \subseteq Nat
  /\ 0 \notin Cuts
  /\ \A c \in Calls : IsCall(c)
  /\ \A f \in Raws : IsFrame(f)

VARIABLES
  sent,      \* frames that were sent: by which call, the frame, its bytes on the connection
  closed,    \* the sender has closed, or the connection has failed
  cur, used, \* the frame being read, and the bytes of it that were read
  pc,        \* what is read next
  left,      \* frame_len of the read_frame
  padding,   \* its padding length
  out,       \* the words that it returns
  data,      \* contents of the Buffers that frames are read into
  got,       \* what each read_frame that succeeded returned
  error      \* the code of the one that did not

sender == <<sent, closed>>
reader == <<cur, used, pc, left, padding, out, data, got, error>>
vars   == <<sender, reader>>

NoWords == [id |-> Zero, exclusive |-> 0, value |-> Zero]

Stale == [of |-> 0, byte |-> 0]

(* HEADERS and CONTINUATION frames are read into the same Buffer.          *)
Buffers == {"data", "headers", "go_away"}
BufferOf(type) == IF type = "continuation" THEN "headers" ELSE type

Init ==
  /\ sent = <<>> /\ closed = FALSE
  /\ cur = 1 /\ used = 0 /\ pc = "header" /\ left = 0 /\ padding = 0 /\ out = NoWords
  /\ \E n \in Leftovers : data = [b \in Buffers |-> [k \in 1..n |-> Stale]]
  /\ got = <<>> /\ error = "none"

-----------------------------------------------------------------------------
(* The sender.                                                             *)

Length(c) == Prefix(c.type, c.flags) + c.n + PadOf(c)

(* A HEADERS and a GOAWAY frame clear the top bit of a stream id; a        *)
(* PRIORITY frame has it as it is given.                                   *)
IdOf(c) ==
  LET id == IF c.type = "priority" THEN c.id ELSE Low(c.id)
  IN  IF c.exclusive = 1 THEN [id EXCEPT !.top = 1] ELSE id

(* What write_frame writes, write_header and write_u24 included.           *)
FrameOf(c) ==
  [type |-> c.type, flags |-> c.flags \cap FlagsOf(c.type), len |-> Length(c) % LenMod,
   stream |-> IF c.type \in OfConn THEN Zero ELSE Low(c.stream),
   pad |-> c.pad, n |-> c.n, id |-> IdOf(c), value |-> c.value]

(* A write that failed, and a frame of which less is there than its header *)
(* claims.                                                                 *)
Failed(k) == sent[k].call # <<>> /\ sent[k].size < HeaderSize + Length(sent[k].call[1])
Torn(k)   == sent[k].size < HeaderSize + sent[k].frame.len

Put(c, f, size) ==
  /\ ~closed
  /\ Len(sent) < MaxSent
  /\ Cardinality({k \in cur..Len(sent) : ~Torn(k)}) < MaxAhead
  /\ sent' = Append(sent, [call |-> c, frame |-> f, size |-> size])
  /\ UNCHANGED <<closed, reader>>

Write(c) == Put(<<c>>, FrameOf(c), HeaderSize + Length(c))

WriteFails(c) ==
  /\ Cardinality({k \in 1..Len(sent) : Failed(k)}) < MaxFaults
  /\ \E size \in Cuts : /\ size < HeaderSize + Length(c)
                       /\ Put(<<c>>, FrameOf(c), size)

PutRaw(f) == Put(<<>>, f, HeaderSize + f.len)

Close ==
  /\ ~closed /\ closed' = TRUE
  /\ UNCHANGED <<sent, reader>>

-----------------------------------------------------------------------------
(* The reader.                                                             *)
F == sent[cur].frame

Reading == {"header", "pad", "priority", "dependency", "weight", "word", "data", "padding"}

(* The bytes that the next read_exact asks for.                            *)
Need ==
  CASE pc = "header"     -> HeaderSize
    [] pc = "pad"        -> 1
    [] pc = "priority"   -> 5
    [] pc = "dependency" -> 4
    [] pc = "weight"     -> 1
    [] pc = "word"       -> IF F.type \in OfConn THEN 8 ELSE 4
    [] pc = "data"       -> left
    [] pc = "padding"    -> padding

Read ==
  /\ cur <= Len(sent) /\ used + Need <= sent[cur].size
  /\ used' = used + Need
  /\ UNCHANGED <<sender, cur, got>>

Refuse(code) == pc' = "refused" /\ error' = code
Go(to)       == pc' = to /\ UNCHANGED error

ReadHeader ==
  /\ pc = "header" /\ Read
  /\ left' = F.len /\ padding' = 0 /\ out' = NoWords
  /\ IF F.len > Limit THEN Refuse("FrameSizeError") ELSE Go("frame")
  /\ UNCHANGED data

(* The start of a read_frame, before it reads.                             *)
Check(type) ==
  /\ pc = "frame" /\ F.type = type
  /\ UNCHANGED <<sender, cur, used, left, padding, out, data, got>>

CheckData ==
  /\ Check("data")
  /\ IF F.stream = Zero \/ ("padded" \in F.flags /\ left = 0) THEN Refuse("ProtocolError")
     ELSE IF "padded" \in F.flags THEN Go("pad")
     ELSE Go("data")

(* Mutant: a frame that ends with its priority is refused.                 *)
AfterPadTight(l) ==
  IF "priority" \notin F.flags THEN Go("data")
  ELSE IF l <= 5 THEN Refuse("ProtocolError")
  ELSE Go("priority")

(* In a HEADERS frame, what comes first of padding length, priority and    *)
(* data; l is what is left of the frame.                                   *)
AfterPad(l) ==
  IF "priority" \notin F.flags THEN Go("data")
  ELSE IF l < 5 THEN Refuse("ProtocolError")
  ELSE Go("priority")

CheckHeaders ==
  /\ pc = "frame" /\ F.type = "headers"
  /\ IF F.stream = Zero \/ ("padded" \in F.flags /\ left = 0) THEN Refuse("ProtocolError")
     ELSE IF "padded" \in F.flags THEN Go("pad")
     ELSE AfterPad(left)
  /\ out' = [NoWords EXCEPT !.value = DefaultWeight]
  /\ UNCHANGED <<sender, cur, used, left, padding, data, got>>

CheckContinuation ==
  /\ Check("continuation")
  /\ IF F.stream = Zero THEN Refuse("ProtocolError") ELSE Go("data")

CheckPriority ==
  /\ Check("priority")
  /\ IF F.stream = Zero THEN Refuse("ProtocolError")
     ELSE IF left # 5 THEN Refuse("FrameSizeError")
     ELSE Go("dependency")

CheckRstStream ==
  /\ Check("rst_stream")
  /\ IF F.stream = Zero THEN Refuse("ProtocolError")
     ELSE IF left # 4 THEN Refuse("FrameSizeError")
     ELSE Go("word")

(* Mutant: a shorter PING frame is let through.                            *)
CheckPingLong ==
  /\ Check("ping")
  /\ IF F.stream # Zero THEN Refuse("ProtocolError")
     ELSE IF left > 8 THEN Refuse("FrameSizeError")
     ELSE Go("word")

CheckPing ==
  /\ Check("ping")
  /\ IF F.stream # Zero THEN Refuse("ProtocolError")
     ELSE IF left # 8 THEN Refuse("FrameSizeError")
     ELSE Go("word")

CheckGoAway ==
  /\ Check("go_away")
  /\ IF F.stream # Zero THEN Refuse("ProtocolError")
     ELSE IF left < 8 THEN Refuse("FrameSizeError")
     ELSE Go("word")

CheckWindowUpdate ==
  /\ Check("window_update")
  /\ IF left # 4 THEN Refuse("FrameSizeError") ELSE Go("word")

(* A DATA frame takes the padding off what is left at once, a HEADERS      *)
(* frame when it has read its priority.                                    *)
ReadPadLength ==
  /\ pc = "pad" /\ Read
  /\ padding' = F.pad
  /\ IF "priority" \in F.flags /\ F.type = "headers"
       THEN AfterPad(left - 1) /\ left' = left - 1
     ELSE IF F.pad > left - 1 THEN Refuse("ProtocolError") /\ left' = left - 1
     ELSE Go("data") /\ left' = left - 1 - F.pad
  /\ UNCHANGED <<out, data>>

ReadPriority ==
  /\ pc = "priority" /\ Read
  /\ out' = [id |-> Low(F.id), exclusive |-> F.id.top, value |-> F.value]
  /\ IF padding > left - 5 \/ Low(F.id) = F.stream
       THEN Refuse("ProtocolError") /\ left' = left - 5
       ELSE Go("data") /\ left' = left - 5 - padding
  /\ UNCHANGED <<padding, data>>

(* priority::read_frame                                                    *)
ReadDependency ==
  /\ pc = "dependency" /\ Read
  /\ out' = [id |-> Low(F.id), exclusive |-> F.id.top, value |-> Zero]
  /\ IF Low(F.id) = F.stream THEN Refuse("ProtocolError") ELSE Go("weight")
  /\ UNCHANGED <<left, padding, data>>

ReadWeight ==
  /\ pc = "weight" /\ Read
  /\ out' = [out EXCEPT !.value = F.value]
  /\ Go("return")
  /\ UNCHANGED <<left, padding, data>>

(* The words of RST_STREAM, PING, GOAWAY and WINDOW_UPDATE.                *)
ReadWord ==
  /\ pc = "word" /\ Read
  /\ out' = CASE F.type = "go_away"       -> [NoWords EXCEPT !.id = Low(F.id), !.value = F.value]
              [] F.type = "window_update" -> [NoWords EXCEPT !.value = Low(F.value)]
              [] OTHER                    -> [NoWords EXCEPT !.value = F.value]
  /\ IF F.type = "go_away" THEN Go("data") /\ left' = left - 8
     ELSE /\ IF F.type = "window_update" /\ Low(F.value) = Zero
               THEN Refuse("ProtocolError") ELSE Go("return")
          /\ UNCHANGED left
  /\ UNCHANGED <<padding, data>>

(* The byte at an offset of the payload: one of the data, or another one.  *)
Byte(offset) ==
  LET k == offset - Prefix(F.type, F.flags)
  IN  [of |-> cur, byte |-> IF k \in 1..F.n THEN k ELSE 0]

(* What is in the buffer when the data is read: a CONTINUATION frame goes  *)
(* behind it, another frame replaces it.                                   *)
Before == IF F.type = "continuation" THEN data["headers"] ELSE <<>>

(* Mutant: the buffer only grows.                                          *)
ReadDataBehind ==
  /\ pc = "data" /\ Read
  /\ LET bytes == [k \in 1..left |-> Byte(used - HeaderSize + k)]
         b     == BufferOf(F.type)
     IN  data' = [data EXCEPT ![b] = Before \o bytes
                    \o (IF F.type = "continuation" THEN <<>>
                        ELSE SubSeq(@, left + 1, Len(@)))]
  /\ Go(IF F.type \in CanPad THEN "padding" ELSE "return")
  /\ UNCHANGED <<left, padding, out>>

ReadData ==
  /\ pc = "data" /\ Read
  /\ data' = [data EXCEPT ![BufferOf(F.type)] =
                Before \o [k \in 1..left |-> Byte(used - HeaderSize + k)]]
  /\ Go(IF F.type \in CanPad THEN "padding" ELSE "return")
  /\ UNCHANGED <<left, padding, out>>

(* Mutant: the padding is left on the connection.                          *)
ReadPaddingNot ==
  /\ pc = "padding"
  /\ Go("return")
  /\ UNCHANGED <<sender, cur, used, got, left, padding, out, data>>

ReadPadding ==
  /\ pc = "padding" /\ Read
  /\ Go("return")
  /\ UNCHANGED <<left, padding, out, data>>

(* The read_frame returns Ok.  The next header is read at this place.      *)
Return ==
  /\ pc = "return"
  /\ got' = Append(got, [type |-> F.type, stream |-> F.stream,
                         ends |-> F.flags \cap EndsOf(F.type), words |-> out,
                         data |-> IF F.type \in HasData THEN data[BufferOf(F.type)] ELSE <<>>])
  /\ IF used = sent[cur].size
       THEN Go("header") /\ cur' = cur + 1 /\ used' = 0
       ELSE Go("lost") /\ UNCHANGED <<cur, used>>
  /\ UNCHANGED <<sender, left, padding, out, data>>

(* A read across the end of what was sent of a frame.                      *)
Lose ==
  /\ pc \in Reading
  /\ cur < Len(sent) /\ used + Need > sent[cur].size
  /\ Go("lost")
  /\ UNCHANGED <<sender, cur, used, left, padding, out, data, got>>

(* A read that fails.  The length of a buffer is already that of the data. *)
ReadFails ==
  /\ pc \in Reading /\ closed
  /\ Refuse("InternalError")
  /\ IF pc = "data"
       THEN data' = [data EXCEPT ![BufferOf(F.type)] = Before \o [k \in 1..left |-> Stale]]
       ELSE UNCHANGED data
  /\ UNCHANGED <<sender, cur, used, left, padding, out, got>>

Sender == (\E c \in Calls : Write(c) \/ WriteFails(c)) \/ (\E f \in Raws : PutRaw(f)) \/ Close

Checks == \/ CheckData \/ CheckHeaders \/ CheckContinuation \/ CheckPriority
          \/ CheckRstStream \/ CheckPing \/ CheckGoAway \/ CheckWindowUpdate

Reader == \/ ReadHeader \/ Checks \/ ReadPadLength \/ ReadPriority \/ ReadDependency
          \/ ReadWeight \/ ReadWord \/ ReadData \/ ReadPadding \/ Return
          \/ Lose \/ ReadFails

Next == Sender \/ Reader

Spec == Init /\ [][Next]_vars

-----------------------------------------------------------------------------
(* What the properties are about.                                          *)

(* Frames that a header cannot describe, and a word that carries more than *)
(* its field.                                                              *)
Overlong(k) == sent[k].call # <<>> /\ Length(sent[k].call[1]) >= LenMod
Careless(k) ==
  sent[k].call # <<>> /\ LET c == sent[k].call[1]
                         IN  c.type = "priority" /\ c.id.top = 1

HasDependency(type, flags) ==
  type = "priority" \/ (type = "headers" /\ "priority" \in flags)

(* What a sender means by a frame: the arguments of its call, or what the  *)
(* fields of its own frame stand for.                                      *)
Meaning(k) ==
  LET f == sent[k].frame
      meant(stream, flags, id, exclusive, value, n) ==
        [type   |-> f.type,
         stream |-> stream,
         ends   |-> flags \cap EndsOf(f.type),
         words  |-> LET has == HasDependency(f.type, flags)
                    IN [id        |-> IF has \/ f.type = "go_away" THEN Low(id) ELSE Zero,
                        exclusive |-> IF has THEN exclusive ELSE 0,
                        value     |-> CASE f.type = "window_update" -> Low(value)
                                        [] f.type \in {"data", "continuation"} -> Zero
                                        [] f.type = "headers" /\ ~has -> DefaultWeight
                                        [] OTHER -> value],
         data   |-> [i \in 1..n |-> [of |-> k, byte |-> i]]]
  IN  IF sent[k].call = <<>>
      THEN meant(f.stream, f.flags, f.id, f.id.top, f.value, f.n)
      ELSE LET c == sent[k].call[1]
           IN  meant(IF c.type \in OfConn THEN Zero ELSE Low(c.stream), c.flags, c.id,
                     c.exclusive, c.value, c.n)

(* The frames that HTTP/2 allows a peer to send: fields in their ranges,   *)
(* and a payload that the prefix, some data and the padding make up.       *)
Allowed(f) ==
  /\ f.type \in OfStream => f.stream # Zero
  /\ f.type \in OfConn => f.stream = Zero
  /\ f.len <= Limit
  /\ \E n \in 0..f.len : /\ f.len = Prefix(f.type, f.flags) + n + PadOf(f)
                         /\ n > 0 => f.type \in HasData
  /\ HasDependency(f.type, f.flags) => Low(f.id) # f.stream
  /\ f.type = "window_update" => Low(f.value) # Zero

Words == [id : Word, exclusive : {0, 1}, value : Word]

TypeOK ==
  /\ sent \in Seq([call : Seq(Calls), frame : Frame, size : Nat])
  /\ closed \in BOOLEAN
  /\ cur \in 1..(Len(sent) + 1) /\ used \in Nat
  /\ pc \in Reading \cup {"frame", "return", "lost", "refused"}
  /\ left \in Nat /\ padding \in Nat
  /\ out \in Words
  /\ data \in [Buffers -> Seq([of : Nat, byte : Nat])]
  /\ got \in Seq([type : Types, stream : Word, ends : SUBSET Flags, words : Words,
                  data : Seq([of : Nat, byte : Nat])])
  /\ error \in {"none", "ProtocolError", "FrameSizeError", "InternalError"}

(* What the buffer of a header block had before a CONTINUATION frame went  *)
(* behind it: what the frame of the block before it returned.              *)
BlockBefore(k) ==
  LET block == {j \in 1..(k - 1) : got[j].type \in {"headers", "continuation"}}
  IN  IF block = {} THEN SubSeq(got[k].data, 1, Len(got[k].data) - sent[k].frame.n)
      ELSE got[CHOOSE j \in block : \A i \in block : i <= j].data

(* Every frame that is read is what its sender meant, in the order in      *)
(* which they were sent: no field, padding or byte of another frame shows  *)
(* up in its data, and nothing that a buffer had before, except that a     *)
(* CONTINUATION frame goes behind its block (the read_frame and            *)
(* write_frame functions, http_frame_read_header).                         *)
AsMeant ==
  \A k \in 1..Len(got) :
    ~Overlong(k) /\ ~Careless(k) =>
      got[k] = IF got[k].type = "continuation"
               THEN [Meaning(k) EXCEPT !.data = BlockBefore(k) \o @]
               ELSE Meaning(k)

(* Just the frames that are not allowed are refused, whatever lengths,     *)
(* padding and flags they claim, and those that are have been read to      *)
(* their end (the checks of the read_frame functions).                     *)
Judged ==
  /\ error \in {"ProtocolError", "FrameSizeError"} => ~Allowed(F)
  /\ \A k \in 1..Len(got) : Allowed(sent[k].frame)

(* A read_frame never asks for a byte behind its frame, for which it might *)
(* wait for ever, or which it would take from the next frame.              *)
InFrame ==
  cur <= Len(sent) /\ pc \in Reading => used + Need <= HeaderSize + F.len

(* The boundaries between frames are lost only by a frame whose length     *)
(* does not fit its header, or by one that a failed write has cut off and  *)
(* the sender did not stop at (write_u24, write_header).                   *)
LossHasCause == pc = "lost" => Overlong(cur) \/ Torn(cur)
=============================================================================
