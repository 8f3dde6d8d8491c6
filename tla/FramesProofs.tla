---------------------------- MODULE FramesProofs ----------------------------
(***************************************************************************)
(* Proofs about Frames, for all calls and frames, all lengths and any      *)
(* number of them.                                                         *)
(***************************************************************************)
EXTENDS Frames, WellFoundedInduction, TLAPS

(* What is on the connection for a call or a frame of the sender's own.    *)
Entry(e) ==
  \/ e.call = <<>> /\ e.frame \in Raws /\ e.size = HeaderSize + e.frame.len
  \/ \E c \in Calls : /\ e.call = <<c>> /\ e.frame = FrameOf(c)
                      /\ e.size <= HeaderSize + Length(c)

Entries == \A k \in 1..Len(sent) : Entry(sent[k])

Pre(f) == Prefix(f.type, f.flags)

InBody == {"frame", "pad", "priority", "dependency", "weight", "word", "data", "padding",
           "return"}

(* How far a read_frame is in its frame, and what it has checked by then.  *)
Stage ==
  /\ pc = "header" => used = 0
  /\ pc \in InBody => cur <= Len(sent) /\ used <= sent[cur].size /\ F.len <= Limit
  /\ pc = "frame" => used = HeaderSize /\ left = F.len /\ padding = 0
  /\ pc \in InBody \ {"frame"} => /\ F.type \in OfStream => F.stream # Zero
                                  /\ F.type \in OfConn => F.stream = Zero
  /\ pc = "pad" => /\ F.type \in CanPad /\ "padded" \in F.flags
                   /\ used = HeaderSize /\ left = F.len /\ left > 0
  /\ pc = "priority" => /\ F.type = "headers" /\ "priority" \in F.flags
                        /\ padding = PadOf(F)
                        /\ used + 5 = HeaderSize + Pre(F)
                        /\ used + left = HeaderSize + F.len /\ left >= 5
  /\ pc = "dependency" => F.type = "priority" /\ used = HeaderSize /\ F.len = 5
  /\ pc = "weight" => /\ F.type = "priority" /\ used = HeaderSize + 4 /\ F.len = 5
                      /\ Low(F.id) # F.stream
  /\ pc = "word" => /\ F.type \in {"rst_stream", "window_update", "ping", "go_away"}
                    /\ used = HeaderSize /\ left = F.len /\ F.len >= Pre(F)
                    /\ padding = 0
                    /\ F.type # "go_away" => F.len = Pre(F)
  /\ pc \in {"data", "padding"} =>
       /\ padding = PadOf(F)
       /\ F.len = Pre(F) + left + padding
       /\ HasDependency(F.type, F.flags) => Low(F.id) # F.stream
  /\ pc = "data" => F.type \in HasData /\ used = HeaderSize + Pre(F)
  /\ pc = "padding" => F.type \in CanPad /\ used = HeaderSize + Pre(F) + left
  /\ pc = "return" => used = HeaderSize + F.len /\ Allowed(F)

(* The end of a connection's reading, and why.                             *)
Ended ==
  /\ error # "none" => pc = "refused"
  /\ pc = "lost" => cur <= Len(sent)
  /\ error \in {"ProtocolError", "FrameSizeError"} => cur <= Len(sent)
  /\ Len(got) <= cur /\ Len(got) <= Len(sent)
  /\ pc # "lost" => Len(got) = cur - 1

IInv == TypeOK /\ Entries /\ Stage /\ Ended /\ Judged /\ LossHasCause

-----------------------------------------------------------------------------
(* Lemmas.                                                                 *)

LEMMA Remainder ==
  ASSUME NEW m \in Nat \ {0}, NEW x \in Nat
  PROVE  x % m \in 0..(m - 1) /\ (x < m => x % m = x)
OBVIOUS

LEMMA PrefixType ==
  ASSUME NEW type \in Types, NEW flags
  PROVE  Prefix(type, flags) \in Nat
BY DEF Prefix, Types, OfConn

LEMMA LengthType == ASSUME NEW c \in Call PROVE Length(c) \in Nat
BY PrefixType DEF Length, Call, PadOf

LEMMA FrameType == ASSUME NEW c \in Call PROVE FrameOf(c) \in Frame
<1>1. Length(c) % LenMod \in 0..(LenMod - 1)
  BY LengthType, Remainder, FramesAssumption
<1>2. IdOf(c) \in Word
  BY DEF IdOf, Call, Word, Low
<1>3. (IF c.type \in OfConn THEN Zero ELSE Low(c.stream)) \in [low : Nat, top : {0}]
  BY DEF Call, Word, Low, Zero
<1>4. c.flags \cap FlagsOf(c.type) \in SUBSET Flags
  BY DEF Call
<1> QED BY <1>1, <1>2, <1>3, <1>4 DEF FrameOf, Frame, Call

(* The flags that a write_frame does not set stand for no part of a frame. *)
LEMMA FlagsKept ==
  ASSUME NEW c \in Call
  PROVE  Pre(FrameOf(c)) = Prefix(c.type, c.flags) /\ PadOf(FrameOf(c)) = PadOf(c)
<1>1. CASE c.type \in CanPad
  <2>1. "padded" \in c.flags \cap FlagsOf(c.type) <=> "padded" \in c.flags
    BY <1>1 DEF FlagsOf, CanPad
  <2>2. c.type = "headers" =>
          ("priority" \in c.flags \cap FlagsOf(c.type) <=> "priority" \in c.flags)
    BY DEF FlagsOf
  <2>3. FrameOf(c).type = c.type /\ FrameOf(c).flags = c.flags \cap FlagsOf(c.type)
          /\ FrameOf(c).pad = c.pad
    BY DEF FrameOf
  <2>4. Prefix(c.type, c.flags \cap FlagsOf(c.type)) = Prefix(c.type, c.flags)
    BY <1>1, <2>1, <2>2 DEF Prefix, CanPad
  <2> QED BY <2>1, <2>3, <2>4 DEF Pre, PadOf
<1>2. CASE c.type \notin CanPad
  <2>1. FrameOf(c).type = c.type /\ FrameOf(c).flags = c.flags \cap FlagsOf(c.type)
    BY DEF FrameOf
  <2>2. Prefix(c.type, c.flags \cap FlagsOf(c.type)) = Prefix(c.type, c.flags)
    BY <1>2 DEF Prefix, CanPad, Call, Types, OfConn
  <2> QED BY <1>2, <2>1, <2>2 DEF Pre, PadOf
<1> QED BY <1>1, <1>2

LEMMA EntryType ==
  ASSUME TypeOK, Entries, NEW k \in 1..Len(sent)
  PROVE  /\ sent[k] \in [call : Seq(Calls), frame : Frame, size : Nat]
         /\ sent[k].frame \in Frame /\ sent[k].size \in Nat /\ sent[k].call \in Seq(Calls)
         /\ Pre(sent[k].frame) \in Nat /\ PadOf(sent[k].frame) \in Nat
         /\ Entry(sent[k])
<1> DEFINE E == [call : Seq(Calls), frame : Frame, size : Nat]
<1>0. sent \in Seq(E)
  BY DEF TypeOK
<1>1. sent[k] \in E
  <2> HIDE DEF E
  <2> QED BY <1>0
<1>2. sent[k].frame \in Frame
  BY <1>1
<1>3. Pre(sent[k].frame) \in Nat
  <2>1. sent[k].frame.type \in Types
    BY <1>2 DEF Frame
  <2> QED BY <2>1, PrefixType DEF Pre
<1>4. PadOf(sent[k].frame) \in Nat
  BY <1>2 DEF PadOf, Frame
<1>5. Entry(sent[k])
  BY DEF Entries
<1>6. sent[k].size \in Nat /\ sent[k].call \in Seq(Calls)
  BY <1>1
<1> QED BY <1>1, <1>2, <1>3, <1>4, <1>5, <1>6

(* A frame has more on the connection than its header claims only if the   *)
(* header has no room for its length.                                      *)
LEMMA MoreIsOverlong ==
  ASSUME TypeOK, Entries, NEW k \in 1..Len(sent),
         sent[k].size > HeaderSize + sent[k].frame.len
  PROVE  Overlong(k)
<1>0. sent[k].size # HeaderSize + sent[k].frame.len
  BY EntryType DEF Frame, HeaderSize
<1>1. PICK c \in Calls : /\ sent[k].call = <<c>> /\ sent[k].frame = FrameOf(c)
                         /\ sent[k].size <= HeaderSize + Length(c)
  BY <1>0, EntryType DEF Entry
<1>2. c \in Call
  BY FramesAssumption DEF IsCall
<1>3. Length(c) \in Nat /\ LenMod \in Nat \ {0}
  BY <1>2, LengthType, FramesAssumption
<1>4. sent[k].frame.len = Length(c) % LenMod
  BY <1>1 DEF FrameOf
<1>5. Length(c) % LenMod \in Nat /\ (Length(c) < LenMod => Length(c) % LenMod = Length(c))
  <2>1. /\ Length(c) % LenMod \in 0..(LenMod - 1)
        /\ Length(c) < LenMod => Length(c) % LenMod = Length(c)
    BY <1>3, Remainder, Zenon
  <2> DEFINE r == Length(c) % LenMod
  <2>2. r \in 0..(LenMod - 1)
    BY <2>1
  <2>3. r \in Nat
    <3> HIDE DEF r
    <3> QED BY <2>2
  <2> QED BY <2>1, <2>3
<1>6. sent[k].size \in Nat
  BY EntryType
<1>7. ~(Length(c) < LenMod)
  <2> DEFINE r == Length(c) % LenMod
             l == Length(c)
  <2>1. l \in Nat /\ r \in Nat /\ sent[k].size > HeaderSize + r /\ sent[k].size <= HeaderSize + l
    BY <1>1, <1>3, <1>4, <1>5
  <2>2. r < l
    <3> HIDE DEF r, l
    <3> QED BY <2>1, <1>6 DEF HeaderSize
  <2> QED BY <1>5, <2>2, <2>1
<1> QED BY <1>1, <1>3, <1>7 DEF Overlong

(* What is known of the frame that is being read.                          *)
LEMMA Current ==
  ASSUME TypeOK, Entries, cur <= Len(sent)
  PROVE  /\ cur \in 1..Len(sent)
         /\ F.type \in Types /\ F.flags \subseteq Flags
         /\ F.len \in Nat /\ F.pad \in Nat /\ F.n \in Nat
         /\ F.id \in Word /\ F.value \in Word /\ F.stream \in Word
         /\ Pre(F) \in Nat /\ PadOf(F) \in Nat /\ sent[cur].size \in Nat
<1>1. cur \in 1..Len(sent)
  BY DEF TypeOK
<1>2. F \in Frame
  BY <1>1, EntryType DEF F
<1>3. Pre(F) \in Nat /\ PadOf(F) \in Nat /\ sent[cur].size \in Nat
  BY <1>1, EntryType DEF F
<1>4. LenMod \in Nat
  BY FramesAssumption
<1> QED BY <1>1, <1>2, <1>3, <1>4 DEF Frame, Word

LEMMA PrefixValues ==
  ASSUME NEW type \in Types, NEW flags
  PROVE  /\ type = "data" => Prefix(type, flags) = IF "padded" \in flags THEN 1 ELSE 0
         /\ type = "headers" => Prefix(type, flags) = (IF "padded" \in flags THEN 1 ELSE 0)
                                                     + (IF "priority" \in flags THEN 5 ELSE 0)
         /\ type = "continuation" => Prefix(type, flags) = 0
         /\ type = "priority" => Prefix(type, flags) = 5
         /\ type \in {"rst_stream", "window_update"} => Prefix(type, flags) = 4
         /\ type \in {"ping", "go_away"} => Prefix(type, flags) = 8
BY DEF Prefix, Types, OfConn

LEMMA Fits ==
  ASSUME NEW len \in Nat, NEW p \in Nat, NEW q \in Nat, NEW type
  PROVE  (\E n \in 0..len : len = p + n + q /\ (n > 0 => type \in HasData))
           <=> len >= p + q /\ (type \notin HasData => len = p + q)
<1>1. ASSUME len >= p + q, type \notin HasData => len = p + q
      PROVE  \E n \in 0..len : len = p + n + q /\ (n > 0 => type \in HasData)
  <2>1. len - p - q \in 0..len /\ len = p + (len - p - q) + q
    BY <1>1
  <2>2. len - p - q > 0 => type \in HasData
    BY <1>1
  <2> QED BY <2>1, <2>2
<1>2. ASSUME NEW n \in 0..len, len = p + n + q, n > 0 => type \in HasData
      PROVE  len >= p + q /\ (type \notin HasData => len = p + q)
  <2>1. len >= p + q
    BY <1>2
  <2>2. CASE n > 0
    BY <1>2, <2>1, <2>2
  <2>3. CASE n = 0
    BY <1>2, <2>1, <2>3
  <2> QED BY <2>2, <2>3
<1> QED BY <1>1, <1>2

(* The frames that are allowed, without the amount of their data.          *)
LEMMA AllowedIs ==
  ASSUME TypeOK, Entries, cur <= Len(sent)
  PROVE  Allowed(F) <=>
           /\ F.type \in OfStream => F.stream # Zero
           /\ F.type \in OfConn => F.stream = Zero
           /\ F.len <= Limit
           /\ F.len >= Pre(F) + PadOf(F)
           /\ F.type \notin HasData => F.len = Pre(F) + PadOf(F)
           /\ HasDependency(F.type, F.flags) => Low(F.id) # F.stream
           /\ F.type = "window_update" => Low(F.value) # Zero
<1>1. F.len \in Nat /\ Pre(F) \in Nat /\ PadOf(F) \in Nat
  BY Current
<1>2. (\E n \in 0..F.len : F.len = Pre(F) + n + PadOf(F) /\ (n > 0 => F.type \in HasData))
        <=> F.len >= Pre(F) + PadOf(F) /\ (F.type \notin HasData => F.len = Pre(F) + PadOf(F))
  BY <1>1, Fits, Zenon
<1> QED BY <1>2, Zenon DEF Allowed, Pre

(* The conjuncts of TypeOK that a step within a frame can change.          *)
LocalType ==
  /\ used \in Nat
  /\ pc \in Reading \cup {"frame", "return", "lost", "refused"}
  /\ left \in Nat /\ padding \in Nat
  /\ out \in Words
  /\ data \in [Buffers -> Seq([of : Nat, byte : Nat])]
  /\ error \in {"none", "ProtocolError", "FrameSizeError", "InternalError"}

(* A step within a frame: the reader goes on, refuses the frame for a      *)
(* reason, or loses the framing for one.                                   *)
LEMMA WithinFrame ==
  ASSUME IInv, UNCHANGED <<sender, cur, got>>, pc # "lost", LocalType', Stage',
         error' # "none" => pc' = "refused",
         error' \in {"ProtocolError", "FrameSizeError"} => cur <= Len(sent) /\ ~Allowed(F),
         pc' = "lost" => cur <= Len(sent) /\ (Overlong(cur) \/ Torn(cur))
  PROVE  IInv'
<1> USE DEF IInv
<1>1. sent' = sent /\ closed' = closed /\ cur' = cur /\ got' = got
  BY DEF sender
<1>2. TypeOK'
  BY <1>1 DEF TypeOK, LocalType
<1>3. Entries'
  BY <1>1 DEF Entries
<1>4. Ended'
  BY <1>1 DEF Ended
<1>5. Judged'
  BY <1>1 DEF Judged, F
<1>6. LossHasCause'
  BY <1>1 DEF LossHasCause, Overlong, Torn
<1> QED BY <1>2, <1>3, <1>4, <1>5, <1>6

(* A step that goes on in the frame, or finds it not allowed.              *)
LEMMA Onward ==
  ASSUME IInv, UNCHANGED <<sender, cur, got>>, cur <= Len(sent),
         pc \in Reading \cup {"frame"},
         used' \in Nat, padding' \in Nat, out' \in Words,
         data' \in [Buffers -> Seq([of : Nat, byte : Nat])],
         left' \in Nat,
         \/ pc' = "refused" /\ error' \in {"ProtocolError", "FrameSizeError"} /\ ~Allowed(F)
         \/ pc' \in InBody /\ error' = error /\ Stage'
  PROVE  IInv'
<1>1. error = "none" /\ pc # "lost"
  BY DEF IInv, Ended, Reading, TypeOK
<1>2. LocalType'
  BY <1>1 DEF LocalType, InBody, Reading
<1>3. Stage'
  BY DEF Stage, InBody
<1> QED BY <1>1, <1>2, <1>3, WithinFrame DEF InBody

LEMMA ReadHeaderInv == IInv /\ ReadHeader => IInv'
<1> SUFFICES ASSUME IInv, ReadHeader PROVE IInv'
  OBVIOUS
<1>1. cur <= Len(sent) /\ used + Need <= sent[cur].size /\ used' = used + Need
      /\ UNCHANGED <<sender, cur, got>> /\ pc = "header"
  BY DEF ReadHeader, Read
<1>2. Need = 9 /\ used = 0
  BY <1>1 DEF Need, HeaderSize, IInv, Stage
<1>3. F' = F /\ sent' = sent /\ cur' = cur
  BY <1>1 DEF F, sender
<1>4. used' \in Nat /\ left' \in Nat /\ padding' = 0 /\ out' = NoWords /\ data' = data
      /\ left' = F.len /\ used' = 9
  BY <1>1, <1>2, Current DEF IInv, ReadHeader
<1>5. F.len \in Nat /\ Limit \in Nat
  BY <1>1, Current, FramesAssumption DEF IInv
<1>6. \/ pc' = "refused" /\ error' = "FrameSizeError" /\ F.len > Limit
      \/ pc' = "frame" /\ error' = error /\ F.len <= Limit
  BY <1>5 DEF ReadHeader, Go, Refuse
<1>7. NoWords \in Words
  BY DEF NoWords, Words, Word, Zero
<1>8. data \in [Buffers -> Seq([of : Nat, byte : Nat])]
  BY DEF IInv, TypeOK
<1>9. CASE pc' = "frame" /\ error' = error /\ F.len <= Limit
  <2>1. Stage'
    BY <1>1, <1>2, <1>3, <1>4, <1>9, Current DEF IInv, Stage, HeaderSize, InBody
  <2> QED BY <1>1, <1>4, <1>7, <1>8, <1>9, <2>1, Onward DEF Reading, InBody
<1>10. CASE pc' = "refused" /\ error' = "FrameSizeError" /\ F.len > Limit
  <2>1. ~Allowed(F)
    BY <1>5, <1>10 DEF Allowed
  <2> QED BY <1>1, <1>4, <1>7, <1>8, <1>10, <2>1, Onward DEF Reading
<1> QED BY <1>6, <1>9, <1>10

(* The checks before a read_frame reads.                                   *)
LEMMA CheckInv ==
  ASSUME IInv, pc = "frame", UNCHANGED <<sender, cur, used, left, padding, data, got>>,
         out' \in Words,
         \/ pc' = "refused" /\ error' \in {"ProtocolError", "FrameSizeError"} /\ ~Allowed(F)
         \/ pc' \in {"pad", "priority", "dependency", "word", "data"} /\ error' = error
            /\ (F' = F => Stage')
  PROVE  IInv'
<1>1. cur <= Len(sent)
  BY DEF IInv, Stage, InBody
<1>2. F' = F
  BY DEF F, sender
<1>3. used \in Nat /\ left \in Nat /\ padding \in Nat
      /\ data \in [Buffers -> Seq([of : Nat, byte : Nat])]
  BY DEF IInv, TypeOK
<1> QED BY <1>1, <1>2, <1>3, Onward DEF InBody

LEMMA FrameFacts ==
  ASSUME IInv, pc = "frame"
  PROVE  /\ cur <= Len(sent) /\ used <= sent[cur].size /\ F.len <= Limit
         /\ used = HeaderSize /\ left = F.len /\ padding = 0
         /\ F.type \in Types /\ F.flags \subseteq Flags
         /\ F.len \in Nat /\ F.pad \in Nat /\ PadOf(F) \in Nat
         /\ out \in Words
<1>1. cur <= Len(sent) /\ used <= sent[cur].size /\ F.len <= Limit
      /\ used = HeaderSize /\ left = F.len /\ padding = 0
  BY DEF IInv, Stage, InBody
<1>2. out \in Words
  BY DEF IInv, TypeOK
<1> QED BY <1>1, <1>2, Current DEF IInv

LEMMA CheckDataInv == IInv /\ CheckData => IInv'
<1> SUFFICES ASSUME IInv, CheckData PROVE IInv'
  OBVIOUS
<1>1. pc = "frame" /\ F.type = "data" /\ out' = out
      /\ UNCHANGED <<sender, cur, used, left, padding, data, got>>
  BY DEF CheckData, Check
<1>2. CASE F.stream = Zero \/ ("padded" \in F.flags /\ left = 0)
  <2>1. pc' = "refused" /\ error' = "ProtocolError"
    BY <1>2 DEF CheckData, Refuse
  <2>2. "padded" \in F.flags => Pre(F) = 1
    BY <1>1, FrameFacts, PrefixValues DEF Pre
  <2>3. ~Allowed(F)
    BY <1>1, <1>2, <2>2, FrameFacts, AllowedIs DEF OfStream, IInv
  <2> QED BY <1>1, <2>1, <2>3, FrameFacts, CheckInv
<1>3. CASE F.stream # Zero /\ "padded" \in F.flags /\ left # 0
  <2>1. pc' = "pad" /\ error' = error
    BY <1>3 DEF CheckData, Go
  <2>2. F' = F => Stage'
    BY <1>1, <1>3, <2>1, FrameFacts DEF Stage, InBody, OfConn, CanPad, sender
  <2> QED BY <1>1, <2>1, <2>2, FrameFacts, CheckInv
<1>4. CASE F.stream # Zero /\ "padded" \notin F.flags
  <2>1. pc' = "data" /\ error' = error
    BY <1>4 DEF CheckData, Go
  <2>2. Pre(F) = 0 /\ PadOf(F) = 0 /\ ~HasDependency(F.type, F.flags)
    BY <1>1, <1>4, FrameFacts, PrefixValues DEF Pre, PadOf, HasDependency
  <2>3. F' = F => Stage'
    BY <1>1, <1>4, <2>1, <2>2, FrameFacts DEF Stage, InBody, OfConn, HasData, sender, HeaderSize
  <2> QED BY <1>1, <2>1, <2>3, FrameFacts, CheckInv
<1> QED BY <1>2, <1>3, <1>4

LEMMA CheckHeadersInv == IInv /\ CheckHeaders => IInv'
<1> SUFFICES ASSUME IInv, CheckHeaders PROVE IInv'
  OBVIOUS
<1>1. pc = "frame" /\ F.type = "headers"
      /\ UNCHANGED <<sender, cur, used, left, padding, data, got>>
      /\ out' = [NoWords EXCEPT !.value = DefaultWeight]
  BY DEF CheckHeaders
<1>2. out' \in Words
  BY <1>1 DEF NoWords, DefaultWeight, Words, Word, Zero
<1>3. Pre(F) = (IF "padded" \in F.flags THEN 1 ELSE 0)
                 + (IF "priority" \in F.flags THEN 5 ELSE 0)
  BY <1>1, FrameFacts, PrefixValues DEF Pre
<1>4. CASE F.stream = Zero \/ ("padded" \in F.flags /\ left = 0)
  <2>1. pc' = "refused" /\ error' = "ProtocolError"
    BY <1>4 DEF CheckHeaders, Refuse
  <2>2. "padded" \in F.flags => Pre(F) > 0
    BY <1>3
  <2>3. ~Allowed(F)
    BY <1>1, <1>4, <2>2, FrameFacts, AllowedIs, Current DEF OfStream, IInv
  <2> QED BY <1>1, <1>2, <2>1, <2>3, CheckInv
<1>5. CASE F.stream # Zero /\ "padded" \in F.flags /\ left # 0
  <2>1. pc' = "pad" /\ error' = error
    BY <1>5 DEF CheckHeaders, Go
  <2>2. F' = F => Stage'
    BY <1>1, <1>5, <2>1, FrameFacts DEF Stage, InBody, OfConn, CanPad, sender
  <2> QED BY <1>1, <1>2, <2>1, <2>2, CheckInv
<1>6. CASE F.stream # Zero /\ "padded" \notin F.flags
  <2>1. AfterPad(left) /\ PadOf(F) = 0
    BY <1>6 DEF CheckHeaders, PadOf
  <2>2. CASE "priority" \notin F.flags
    <3>1. pc' = "data" /\ error' = error
      BY <2>1, <2>2 DEF AfterPad, Go
    <3>2. Pre(F) = 0 /\ ~HasDependency(F.type, F.flags)
      BY <1>1, <1>3, <1>6, <2>2 DEF HasDependency
    <3>3. F' = F => Stage'
      BY <1>1, <1>6, <2>1, <3>1, <3>2, FrameFacts
         DEF Stage, InBody, OfConn, HasData, sender, HeaderSize
    <3> QED BY <1>1, <1>2, <3>1, <3>3, CheckInv
  <2>3. CASE "priority" \in F.flags /\ left < 5
    <3>1. pc' = "refused" /\ error' = "ProtocolError"
      BY <2>1, <2>3 DEF AfterPad, Refuse
    <3>2. Pre(F) = 5
      BY <1>3, <1>6, <2>3
    <3>3. ~(F.len >= Pre(F) + PadOf(F))
      BY <1>1, <2>1, <2>3, <3>2, FrameFacts
    <3>4. ~Allowed(F)
      BY <1>1, <3>3, FrameFacts, AllowedIs DEF IInv
    <3> QED BY <1>1, <1>2, <3>1, <3>4, CheckInv
  <2>4. CASE "priority" \in F.flags /\ ~(left < 5)
    <3>1. pc' = "priority" /\ error' = error
      BY <2>1, <2>4 DEF AfterPad, Go
    <3>2. Pre(F) = 5
      BY <1>3, <1>6, <2>4
    <3>3. F' = F => Stage'
      BY <1>1, <1>6, <2>1, <2>4, <3>1, <3>2, FrameFacts
         DEF Stage, InBody, OfConn, sender, HeaderSize
    <3> QED BY <1>1, <1>2, <3>1, <3>3, CheckInv
  <2> QED BY <2>2, <2>3, <2>4
<1> QED BY <1>4, <1>5, <1>6

LEMMA CheckContinuationInv == IInv /\ CheckContinuation => IInv'
<1> SUFFICES ASSUME IInv, CheckContinuation PROVE IInv'
  OBVIOUS
<1>1. pc = "frame" /\ F.type = "continuation" /\ out' = out
      /\ UNCHANGED <<sender, cur, used, left, padding, data, got>>
  BY DEF CheckContinuation, Check
<1>2. CASE F.stream = Zero
  <2>1. pc' = "refused" /\ error' = "ProtocolError"
    BY <1>2 DEF CheckContinuation, Refuse
  <2>2. ~Allowed(F)
    BY <1>1, <1>2 DEF Allowed, OfStream
  <2> QED BY <1>1, <2>1, <2>2, FrameFacts, CheckInv
<1>3. CASE F.stream # Zero
  <2>1. pc' = "data" /\ error' = error
    BY <1>3 DEF CheckContinuation, Go
  <2>2. Pre(F) = 0 /\ PadOf(F) = 0 /\ ~HasDependency(F.type, F.flags)
    BY <1>1, FrameFacts, PrefixValues DEF Pre, PadOf, CanPad, HasDependency
  <2>3. F' = F => Stage'
    BY <1>1, <1>3, <2>1, <2>2, FrameFacts DEF Stage, InBody, OfConn, HasData, sender, HeaderSize
  <2> QED BY <1>1, <2>1, <2>3, FrameFacts, CheckInv
<1> QED BY <1>2, <1>3

(* The frames of a fixed length, or of a least one: a check of their       *)
(* stream and of their length.                                             *)
LEMMA CheckWordsInv ==
  ASSUME IInv, pc = "frame", UNCHANGED <<sender, cur, used, left, padding, out, data, got>>,
         F.type \in {"priority", "rst_stream", "ping", "go_away", "window_update"},
         NEW bad \in BOOLEAN, NEW short \in BOOLEAN, NEW to,
         bad <=> (F.type \in OfStream /\ F.stream = Zero) \/ (F.type \in OfConn /\ F.stream # Zero),
         short <=> IF F.type = "go_away" THEN left < 8 ELSE left # Pre(F),
         to = IF F.type = "priority" THEN "dependency" ELSE "word",
         IF bad THEN Refuse("ProtocolError") ELSE IF short THEN Refuse("FrameSizeError")
         ELSE Go(to)
  PROVE  IInv'
<1>1. PadOf(F) = 0
  BY DEF PadOf, CanPad
<1>2. Pre(F) \in Nat /\ (F.type = "go_away" => Pre(F) = 8) /\ (F.type = "priority" => Pre(F) = 5)
  BY FrameFacts, PrefixValues, PrefixType DEF Pre
<1>3. CASE bad
  <2>1. pc' = "refused" /\ error' = "ProtocolError"
    BY <1>3 DEF Refuse
  <2>2. ~Allowed(F)
    BY <1>3 DEF Allowed
  <2> QED BY <2>1, <2>2, FrameFacts, CheckInv
<1>4. CASE ~bad /\ short
  <2>1. pc' = "refused" /\ error' = "FrameSizeError"
    BY <1>4 DEF Refuse
  <2>2. F.len # Pre(F) /\ (F.type = "go_away" => F.len < 8)
    BY <1>2, <1>4, FrameFacts
  <2>3. F.type # "go_away" => F.type \notin HasData
    BY DEF HasData
  <2>4. ~Allowed(F)
    BY <1>1, <1>2, <2>2, <2>3, FrameFacts, AllowedIs DEF IInv
  <2> QED BY <2>1, <2>4, FrameFacts, CheckInv
<1>5. CASE ~bad /\ ~short
  <2>1. pc' = to /\ error' = error
    BY <1>5 DEF Go
  <2>2. F.len >= Pre(F) /\ (F.type # "go_away" => F.len = Pre(F))
    BY <1>2, <1>5, FrameFacts
  <2>3. ASSUME F.type = "priority" PROVE F' = F => Stage'
    <3>1. F.len = 5 /\ pc' = "dependency" /\ F.stream # Zero
      BY <1>2, <1>5, <2>1, <2>2, <2>3 DEF OfStream
    <3> QED BY <2>3, <3>1, FrameFacts DEF Stage, InBody, OfConn, sender
  <2>4. ASSUME F.type # "priority" PROVE F' = F => Stage'
    <3>1. pc' = "word"
      BY <2>1, <2>4
    <3>2. /\ F.type \in OfStream => F.stream # Zero
          /\ F.type \in OfConn => F.stream = Zero
      BY <1>5
    <3> QED BY <2>2, <2>4, <3>1, <3>2, FrameFacts DEF Stage, InBody, sender
  <2>5. F' = F => Stage'
    BY <2>3, <2>4
  <2> QED BY <2>1, <2>5, FrameFacts, CheckInv
<1> QED BY <1>3, <1>4, <1>5

LEMMA CheckPriorityInv == IInv /\ CheckPriority => IInv'
<1> SUFFICES ASSUME IInv, CheckPriority PROVE IInv'
  OBVIOUS
<1>1. pc = "frame" /\ F.type = "priority"
      /\ UNCHANGED <<sender, cur, used, left, padding, out, data, got>>
  BY DEF CheckPriority, Check
<1>2. Pre(F) = 5
  BY <1>1, FrameFacts, PrefixValues DEF Pre
<1> DEFINE bad   == F.stream = Zero
           short == left # 5
<1>3. IF bad THEN Refuse("ProtocolError") ELSE IF short THEN Refuse("FrameSizeError")
      ELSE Go("dependency")
  BY DEF CheckPriority
<1>4. bad <=> (F.type \in OfStream /\ F.stream = Zero) \/ (F.type \in OfConn /\ F.stream # Zero)
  <2>1. F.type \in OfStream /\ F.type \notin OfConn
    BY <1>1 DEF OfStream, OfConn
  <2> QED BY <2>1
<1>5. short <=> IF F.type = "go_away" THEN left < 8 ELSE left # Pre(F)
  BY <1>1, <1>2
<1>6. bad \in BOOLEAN /\ short \in BOOLEAN
  OBVIOUS
<1>7. "dependency" = IF F.type = "priority" THEN "dependency" ELSE "word"
  BY <1>1
<1> HIDE DEF bad, short
<1> QED BY <1>1, <1>3, <1>4, <1>5, <1>6, <1>7, CheckWordsInv

LEMMA CheckRstStreamInv == IInv /\ CheckRstStream => IInv'
<1> SUFFICES ASSUME IInv, CheckRstStream PROVE IInv'
  OBVIOUS
<1>1. pc = "frame" /\ F.type = "rst_stream"
      /\ UNCHANGED <<sender, cur, used, left, padding, out, data, got>>
  BY DEF CheckRstStream, Check
<1>2. Pre(F) = 4
  BY <1>1, FrameFacts, PrefixValues DEF Pre
<1> DEFINE bad   == F.stream = Zero
           short == left # 4
<1>3. IF bad THEN Refuse("ProtocolError") ELSE IF short THEN Refuse("FrameSizeError")
      ELSE Go("word")
  BY DEF CheckRstStream
<1>4. bad <=> (F.type \in OfStream /\ F.stream = Zero) \/ (F.type \in OfConn /\ F.stream # Zero)
  <2>1. F.type \in OfStream /\ F.type \notin OfConn
    BY <1>1 DEF OfStream, OfConn
  <2> QED BY <2>1
<1>5. short <=> IF F.type = "go_away" THEN left < 8 ELSE left # Pre(F)
  BY <1>1, <1>2
<1>6. bad \in BOOLEAN /\ short \in BOOLEAN
  OBVIOUS
<1>7. "word" = IF F.type = "priority" THEN "dependency" ELSE "word"
  BY <1>1
<1> HIDE DEF bad, short
<1> QED BY <1>1, <1>3, <1>4, <1>5, <1>6, <1>7, CheckWordsInv

LEMMA CheckPingInv == IInv /\ CheckPing => IInv'
<1> SUFFICES ASSUME IInv, CheckPing PROVE IInv'
  OBVIOUS
<1>1. pc = "frame" /\ F.type = "ping"
      /\ UNCHANGED <<sender, cur, used, left, padding, out, data, got>>
  BY DEF CheckPing, Check
<1>2. Pre(F) = 8
  BY <1>1, FrameFacts, PrefixValues DEF Pre
<1> DEFINE bad   == F.stream # Zero
           short == left # 8
<1>3. IF bad THEN Refuse("ProtocolError") ELSE IF short THEN Refuse("FrameSizeError")
      ELSE Go("word")
  BY DEF CheckPing
<1>4. bad <=> (F.type \in OfStream /\ F.stream = Zero) \/ (F.type \in OfConn /\ F.stream # Zero)
  BY <1>1 DEF OfStream, OfConn
<1>5. short <=> IF F.type = "go_away" THEN left < 8 ELSE left # Pre(F)
  BY <1>1, <1>2
<1>6. bad \in BOOLEAN /\ short \in BOOLEAN
  OBVIOUS
<1>7. "word" = IF F.type = "priority" THEN "dependency" ELSE "word"
  BY <1>1
<1> HIDE DEF bad, short
<1> QED BY <1>1, <1>3, <1>4, <1>5, <1>6, <1>7, CheckWordsInv

LEMMA CheckGoAwayInv == IInv /\ CheckGoAway => IInv'
<1> SUFFICES ASSUME IInv, CheckGoAway PROVE IInv'
  OBVIOUS
<1>1. pc = "frame" /\ F.type = "go_away"
      /\ UNCHANGED <<sender, cur, used, left, padding, out, data, got>>
  BY DEF CheckGoAway, Check
<1>2. Pre(F) = 8
  BY <1>1, FrameFacts, PrefixValues DEF Pre
<1> DEFINE bad   == F.stream # Zero
           short == left < 8
<1>3. IF bad THEN Refuse("ProtocolError") ELSE IF short THEN Refuse("FrameSizeError")
      ELSE Go("word")
  BY DEF CheckGoAway
<1>4. bad <=> (F.type \in OfStream /\ F.stream = Zero) \/ (F.type \in OfConn /\ F.stream # Zero)
  BY <1>1 DEF OfStream, OfConn
<1>5. short <=> IF F.type = "go_away" THEN left < 8 ELSE left # Pre(F)
  BY <1>1, <1>2
<1>6. bad \in BOOLEAN /\ short \in BOOLEAN
  OBVIOUS
<1>7. "word" = IF F.type = "priority" THEN "dependency" ELSE "word"
  BY <1>1
<1> HIDE DEF bad, short
<1> QED BY <1>1, <1>3, <1>4, <1>5, <1>6, <1>7, CheckWordsInv

LEMMA CheckWindowUpdateInv == IInv /\ CheckWindowUpdate => IInv'
<1> SUFFICES ASSUME IInv, CheckWindowUpdate PROVE IInv'
  OBVIOUS
<1>1. pc = "frame" /\ F.type = "window_update"
      /\ UNCHANGED <<sender, cur, used, left, padding, out, data, got>>
  BY DEF CheckWindowUpdate, Check
<1>2. Pre(F) = 4
  BY <1>1, FrameFacts, PrefixValues DEF Pre
<1> DEFINE bad   == FALSE
           short == left # 4
<1>3. IF bad THEN Refuse("ProtocolError") ELSE IF short THEN Refuse("FrameSizeError")
      ELSE Go("word")
  BY DEF CheckWindowUpdate
<1>4. bad <=> (F.type \in OfStream /\ F.stream = Zero) \/ (F.type \in OfConn /\ F.stream # Zero)
  BY <1>1 DEF OfStream, OfConn
<1>5. short <=> IF F.type = "go_away" THEN left < 8 ELSE left # Pre(F)
  BY <1>1, <1>2
<1>6. bad \in BOOLEAN /\ short \in BOOLEAN
  OBVIOUS
<1>7. "word" = IF F.type = "priority" THEN "dependency" ELSE "word"
  BY <1>1
<1> HIDE DEF bad, short
<1> QED BY <1>1, <1>3, <1>4, <1>5, <1>6, <1>7, CheckWordsInv

-----------------------------------------------------------------------------
(* Reading.                                                                *)

(* What a read_frame asks for is within its frame.                         *)
LEMMA NeedWithin ==
  ASSUME IInv, pc \in Reading, cur <= Len(sent)
  PROVE  Need \in Nat /\ used + Need <= HeaderSize + F.len
<1>1. /\ used \in Nat /\ left \in Nat /\ padding \in Nat
      /\ F.type \in Types /\ F.len \in Nat /\ Pre(F) \in Nat /\ PadOf(F) \in Nat
  BY Current DEF IInv, TypeOK
<1>2. CASE pc = "header"
  BY <1>1, <1>2 DEF Need, IInv, Stage, HeaderSize
<1>3. CASE pc = "pad"
  BY <1>1, <1>3 DEF Need, IInv, Stage, HeaderSize
<1>4. CASE pc = "priority"
  BY <1>1, <1>4 DEF Need, IInv, Stage, HeaderSize
<1>5. CASE pc = "dependency"
  BY <1>1, <1>5 DEF Need, IInv, Stage, HeaderSize
<1>6. CASE pc = "weight"
  BY <1>1, <1>6 DEF Need, IInv, Stage, HeaderSize
<1>7. CASE pc = "word"
  <2>1. Need = IF F.type \in OfConn THEN 8 ELSE 4
    BY <1>7 DEF Need
  <2>2. Pre(F) = IF F.type \in OfConn THEN 8 ELSE 4
    BY <1>1, <1>7, PrefixValues DEF IInv, Stage, OfConn, Pre
  <2> QED BY <1>1, <1>7, <2>1, <2>2 DEF IInv, Stage, HeaderSize
<1>8. CASE pc = "data"
  BY <1>1, <1>8 DEF Need, IInv, Stage, HeaderSize
<1>9. CASE pc = "padding"
  BY <1>1, <1>9 DEF Need, IInv, Stage, HeaderSize
<1> QED BY <1>2, <1>3, <1>4, <1>5, <1>6, <1>7, <1>8, <1>9 DEF Reading

(* A read in a frame after its header.                                     *)
LEMMA ReadFacts ==
  ASSUME IInv, Read, pc \in Reading \ {"header"}
  PROVE  /\ cur <= Len(sent) /\ used' = used + Need /\ used + Need <= sent[cur].size
         /\ UNCHANGED <<sender, cur, got>> /\ F' = F /\ sent'[cur'] = sent[cur]
         /\ cur' <= Len(sent')
         /\ used \in Nat /\ Need \in Nat /\ used' \in Nat /\ left \in Nat /\ padding \in Nat
         /\ out \in Words /\ data \in [Buffers -> Seq([of : Nat, byte : Nat])]
         /\ F.type \in Types /\ F.flags \subseteq Flags /\ F.len <= Limit
         /\ F.len \in Nat /\ F.pad \in Nat /\ F.n \in Nat
         /\ F.id \in Word /\ F.value \in Word /\ F.stream \in Word
         /\ Pre(F) \in Nat /\ PadOf(F) \in Nat /\ sent[cur].size \in Nat
         /\ F.type \in OfStream => F.stream # Zero
         /\ F.type \in OfConn => F.stream = Zero
<1>1. /\ cur <= Len(sent) /\ used' = used + Need /\ used + Need <= sent[cur].size
      /\ UNCHANGED <<sender, cur, got>>
  BY DEF Read
<1>2. F' = F /\ sent'[cur'] = sent[cur] /\ cur' <= Len(sent')
  BY <1>1 DEF F, sender
<1>3. /\ used \in Nat /\ left \in Nat /\ padding \in Nat /\ out \in Words
      /\ data \in [Buffers -> Seq([of : Nat, byte : Nat])]
  BY DEF IInv, TypeOK
<1>4. pc \in InBody \ {"frame"}
  BY DEF InBody, Reading
<1>5. /\ F.len <= Limit
      /\ F.type \in OfStream => F.stream # Zero
      /\ F.type \in OfConn => F.stream = Zero
  BY <1>4 DEF IInv, Stage
<1>6. Need \in Nat
  BY <1>1, NeedWithin
<1>7. used' \in Nat
  BY <1>1, <1>3, <1>6
<1> QED BY <1>1, <1>2, <1>3, <1>5, <1>6, <1>7, Current DEF IInv

(* The read_frame goes on to its data.                                     *)
LEMMA ToData ==
  ASSUME IInv, Read, pc \in {"pad", "priority"}, data' = data, out' \in Words,
         padding' = PadOf(F), padding' <= left - Need, left' = left - Need - padding',
         pc' = "data", error' = error, F.type \in CanPad,
         used + left = HeaderSize + F.len, used + Need = HeaderSize + Pre(F),
         HasDependency(F.type, F.flags) => Low(F.id) # F.stream
  PROVE  IInv'
<1>1. padding' \in Nat /\ left' \in Nat /\ padding' + left' = left - Need
  <2> DEFINE p == PadOf(F)
  <2>1. p \in Nat /\ left \in Nat /\ Need \in Nat /\ p <= left - Need
    BY ReadFacts DEF Reading
  <2> HIDE DEF p
  <2>2. left - Need - p \in Nat /\ p + (left - Need - p) = left - Need
    BY <2>1
  <2> QED BY <2>1, <2>2 DEF p
<1>2. F.len = Pre(F) + left' + padding'
  <2>2. Pre(F) \in Nat /\ F.len \in Nat /\ used \in Nat /\ left \in Nat /\ Need \in Nat
    BY ReadFacts DEF Reading
  <2>1. F.len = Pre(F) + (left - Need)
    <3> DEFINE f == F.len
               q == Pre(F)
               n == Need
    <3>1. /\ used + left = 9 + f /\ used + n = 9 + q
          /\ f \in Nat /\ q \in Nat /\ n \in Nat /\ used \in Nat /\ left \in Nat
      BY <2>2 DEF HeaderSize
    <3> HIDE DEF f, q, n
    <3>2. f = q + (left - n)
      BY <3>1
    <3> QED BY <3>2 DEF f, q, n
  <2> DEFINE l == left'
             p == padding'
             n == left - Need
             f == F.len
             q == Pre(F)
  <2>3. f = q + n /\ p + l = n /\ l \in Nat /\ p \in Nat /\ q \in Nat
    BY <1>1, <2>1, <2>2
  <2> HIDE DEF l, p, n, f, q
  <2>4. f = q + l + p
    BY <2>3
  <2> QED BY <2>4 DEF l, p, f, q
<1>3. F.type \in HasData
  BY DEF CanPad, HasData
<1>4. Stage'
  BY <1>2, <1>3, ReadFacts DEF Stage, InBody, Reading
<1> QED BY <1>1, <1>4, ReadFacts, Onward DEF Reading, InBody

LEMMA ReadPadLengthInv == IInv /\ ReadPadLength => IInv'
<1> SUFFICES ASSUME IInv, ReadPadLength PROVE IInv'
  OBVIOUS
<1>1. /\ pc = "pad" /\ Read /\ padding' = F.pad /\ out' = out /\ data' = data
      /\ pc \in Reading \ {"header"}
  BY DEF ReadPadLength, Reading
<1>2. /\ F.type \in CanPad /\ "padded" \in F.flags /\ used = HeaderSize
      /\ left = F.len /\ left > 0 /\ PadOf(F) = F.pad
  BY <1>1 DEF IInv, Stage, PadOf
<1>3. Need = 1
  BY <1>1 DEF Need
<1>4. Pre(F) = 1 + (IF F.type = "headers" /\ "priority" \in F.flags THEN 5 ELSE 0)
  BY <1>1, <1>2, ReadFacts, PrefixValues, SMTT(30) DEF Pre, CanPad
<1>5. F.type \in HasData /\ left - 1 \in Nat
  BY <1>1, <1>2, ReadFacts, SMTT(30) DEF CanPad, HasData
<1>6. CASE "priority" \in F.flags /\ F.type = "headers"
  <2>1. AfterPad(left - 1) /\ left' = left - 1 /\ Pre(F) = 6
    BY <1>4, <1>6 DEF ReadPadLength
  <2>2. CASE left - 1 < 5
    <3>1. pc' = "refused" /\ error' = "ProtocolError"
      BY <1>6, <2>1, <2>2 DEF AfterPad, Refuse
    <3>2. ~(F.len >= Pre(F) + PadOf(F))
      BY <1>1, <1>2, <2>1, <2>2, ReadFacts, SMTT(30)
    <3>3. ~Allowed(F)
      BY <1>1, <3>2, ReadFacts, AllowedIs DEF IInv
    <3> QED BY <1>1, <1>5, <2>1, <3>1, <3>3, ReadFacts, Onward
  <2>3. CASE ~(left - 1 < 5)
    <3>1. pc' = "priority" /\ error' = error
      BY <1>6, <2>1, <2>3 DEF AfterPad, Go
    <3>2. used' = HeaderSize + 1 /\ left' >= 5
      BY <1>1, <1>2, <1>3, <1>5, <2>1, <2>3, ReadFacts
    <3>3. used' + 5 = HeaderSize + Pre(F) /\ used' + left' = HeaderSize + F.len
      BY <1>1, <1>2, <2>1, <3>2, ReadFacts DEF HeaderSize
    <3>4. Stage'
      BY <1>1, <1>2, <1>6, <3>1, <3>2, <3>3, ReadFacts DEF Stage, InBody
    <3> QED BY <1>1, <1>5, <2>1, <3>1, <3>4, ReadFacts, Onward DEF InBody
  <2> QED BY <2>2, <2>3
<1>7. CASE ~("priority" \in F.flags /\ F.type = "headers") /\ F.pad > left - 1
  <2>1. pc' = "refused" /\ error' = "ProtocolError" /\ left' = left - 1
    BY <1>7 DEF ReadPadLength, Refuse
  <2>2. ~(F.len >= Pre(F) + PadOf(F))
    BY <1>1, <1>2, <1>4, <1>7, ReadFacts
  <2>3. ~Allowed(F)
    BY <1>1, <2>2, ReadFacts, AllowedIs DEF IInv
  <2> QED BY <1>1, <1>5, <2>1, <2>3, ReadFacts, Onward
<1>8. CASE ~("priority" \in F.flags /\ F.type = "headers") /\ ~(F.pad > left - 1)
  <2>1. pc' = "data" /\ error' = error /\ left' = left - 1 - F.pad
    BY <1>8 DEF ReadPadLength, Go
  <2>2. ~HasDependency(F.type, F.flags)
    BY <1>2, <1>8 DEF HasDependency, CanPad
  <2>3. F.pad <= left - 1
    BY <1>1, <1>5, <1>8, ReadFacts
  <2>4. used + left = HeaderSize + F.len /\ used + Need = HeaderSize + Pre(F)
    BY <1>1, <1>2, <1>3, <1>4, <1>8, ReadFacts DEF HeaderSize
  <2> QED BY <1>1, <1>2, <1>3, <2>1, <2>2, <2>3, <2>4, ReadFacts, ToData
<1> QED BY <1>6, <1>7, <1>8

LEMMA ReadPriorityInv == IInv /\ ReadPriority => IInv'
<1> SUFFICES ASSUME IInv, ReadPriority PROVE IInv'
  OBVIOUS
<1>1. /\ pc = "priority" /\ Read /\ padding' = padding /\ data' = data
      /\ out' = [id |-> Low(F.id), exclusive |-> F.id.top, value |-> F.value]
      /\ pc \in Reading \ {"header"}
  BY DEF ReadPriority, Reading
<1>2. /\ F.type = "headers" /\ "priority" \in F.flags /\ padding = PadOf(F)
      /\ used + 5 = HeaderSize + Pre(F) /\ used + left = HeaderSize + F.len /\ left >= 5
  BY <1>1 DEF IInv, Stage
<1>3. out' \in Words
  BY <1>1, ReadFacts DEF Words, Word, Low
<1>4. left - 5 \in Nat /\ padding \in Nat
  BY <1>1, <1>2, ReadFacts
<1>5. Need = 5
  BY <1>1 DEF Need
<1>6. CASE padding > left - 5 \/ Low(F.id) = F.stream
  <2>1. pc' = "refused" /\ error' = "ProtocolError" /\ left' = left - 5
    BY <1>6 DEF ReadPriority, Refuse
  <2>2. CASE padding > left - 5
    <3>1. ~(F.len >= Pre(F) + PadOf(F))
      BY <1>1, <1>2, <2>2, ReadFacts, SMTT(30) DEF HeaderSize
    <3>2. ~Allowed(F)
      BY <1>1, <3>1, ReadFacts, AllowedIs DEF IInv
    <3> QED BY <1>1, <1>3, <1>4, <2>1, <3>2, ReadFacts, Onward
  <2>3. CASE Low(F.id) = F.stream
    <3>1. ~Allowed(F)
      BY <1>2, <2>3 DEF Allowed, HasDependency
    <3> QED BY <1>1, <1>3, <1>4, <2>1, <3>1, ReadFacts, Onward
  <2> QED BY <1>6, <2>2, <2>3
<1>7. CASE ~(padding > left - 5) /\ Low(F.id) # F.stream
  <2>1. pc' = "data" /\ error' = error /\ left' = left - 5 - padding
    BY <1>7 DEF ReadPriority, Go
  <2>2. padding <= left - 5 /\ F.type \in CanPad
    BY <1>2, <1>4, <1>7 DEF CanPad
  <2> QED BY <1>1, <1>2, <1>3, <1>5, <1>7, <2>1, <2>2, ToData
<1> QED BY <1>6, <1>7

LEMMA ReadDependencyInv == IInv /\ ReadDependency => IInv'
<1> SUFFICES ASSUME IInv, ReadDependency PROVE IInv'
  OBVIOUS
<1>1. /\ pc = "dependency" /\ Read /\ left' = left /\ padding' = padding /\ data' = data
      /\ out' = [id |-> Low(F.id), exclusive |-> F.id.top, value |-> Zero]
      /\ pc \in Reading \ {"header"}
  BY DEF ReadDependency, Reading
<1>2. F.type = "priority" /\ used = HeaderSize /\ F.len = 5 /\ Need = 4
  BY <1>1 DEF IInv, Stage, Need
<1>3. out' \in Words
  BY <1>1, ReadFacts DEF Words, Word, Low, Zero
<1>4. CASE Low(F.id) = F.stream
  <2>1. pc' = "refused" /\ error' = "ProtocolError"
    BY <1>4 DEF ReadDependency, Refuse
  <2>2. ~Allowed(F)
    BY <1>2, <1>4 DEF Allowed, HasDependency
  <2> QED BY <1>1, <1>3, <2>1, <2>2, ReadFacts, Onward
<1>5. CASE Low(F.id) # F.stream
  <2>1. pc' = "weight" /\ error' = error
    BY <1>5 DEF ReadDependency, Go
  <2>2. Stage'
    BY <1>1, <1>2, <1>5, <2>1, ReadFacts DEF Stage, InBody
  <2> QED BY <1>1, <1>3, <2>1, <2>2, ReadFacts, Onward DEF InBody
<1> QED BY <1>4, <1>5

LEMMA ReadWeightInv == IInv /\ ReadWeight => IInv'
<1> SUFFICES ASSUME IInv, ReadWeight PROVE IInv'
  OBVIOUS
<1>1. /\ pc = "weight" /\ Read /\ left' = left /\ padding' = padding /\ data' = data
      /\ out' = [out EXCEPT !.value = F.value] /\ pc' = "return" /\ error' = error
      /\ pc \in Reading \ {"header"}
  BY DEF ReadWeight, Go, Reading
<1>2. /\ F.type = "priority" /\ used = HeaderSize + 4 /\ F.len = 5 /\ Need = 1
      /\ Low(F.id) # F.stream
  BY <1>1 DEF IInv, Stage, Need
<1>3. out' \in Words
  BY <1>1, ReadFacts DEF Words
<1>4. used' = HeaderSize + F.len
  BY <1>1, <1>2, ReadFacts DEF HeaderSize
<1>5. Pre(F) = 5 /\ PadOf(F) = 0 /\ F.type \notin HasData
  BY <1>1, <1>2, ReadFacts, PrefixValues DEF Pre, PadOf, CanPad, HasData
<1>6. Allowed(F)
  BY <1>1, <1>2, <1>5, ReadFacts, AllowedIs DEF IInv
<1>7. Stage'
  BY <1>1, <1>2, <1>4, <1>6, ReadFacts DEF Stage, InBody, Allowed
<1> QED BY <1>1, <1>3, <1>7, ReadFacts, Onward DEF InBody

LEMMA ReadWordInv == IInv /\ ReadWord => IInv'
<1> SUFFICES ASSUME IInv, ReadWord PROVE IInv'
  OBVIOUS
<1>1. /\ pc = "word" /\ Read /\ padding' = padding /\ data' = data
      /\ pc \in Reading \ {"header"}
  BY DEF ReadWord, Reading
<1>2. /\ F.type \in {"rst_stream", "window_update", "ping", "go_away"}
      /\ used = HeaderSize /\ left = F.len /\ F.len >= Pre(F) /\ padding = 0
      /\ F.type # "go_away" => F.len = Pre(F)
  BY <1>1 DEF IInv, Stage
<1>3. Need = Pre(F) /\ PadOf(F) = 0 /\ ~HasDependency(F.type, F.flags)
  BY <1>1, <1>2, ReadFacts, PrefixValues DEF Pre, PadOf, CanPad, HasDependency, Need, OfConn
<1>4. out' \in Words
  <2>1. F.id \in Word /\ F.value \in Word /\ NoWords \in Words
    BY <1>1, ReadFacts DEF NoWords, Words, Word, Zero
  <2>2. Low(F.id) \in Word /\ Low(F.value) \in Word
    BY <2>1 DEF Low, Word
  <2>3. out' \in {[NoWords EXCEPT !.id = Low(F.id), !.value = F.value],
                  [NoWords EXCEPT !.value = Low(F.value)], [NoWords EXCEPT !.value = F.value]}
    BY <1>2 DEF ReadWord
  <2> QED BY <2>1, <2>2, <2>3 DEF Words
<1>5. CASE F.type = "go_away"
  <2>1. pc' = "data" /\ error' = error /\ left' = left - 8 /\ Pre(F) = 8
    BY <1>1, <1>5, ReadFacts, PrefixValues DEF ReadWord, Go, Pre
  <2>2. left' \in Nat /\ F.len = Pre(F) + left' + padding'
    BY <1>1, <1>2, <2>1, ReadFacts, SMTT(30)
  <2>3. used' = HeaderSize + Pre(F) /\ F.type \in HasData
    BY <1>1, <1>2, <1>3, <1>5, ReadFacts DEF HasData
  <2>4. Stage'
    BY <1>1, <1>2, <1>3, <2>1, <2>2, <2>3, ReadFacts DEF Stage, InBody
  <2> QED BY <1>1, <1>4, <2>1, <2>2, <2>4, ReadFacts, Onward DEF InBody
<1>6. CASE F.type = "window_update" /\ Low(F.value) = Zero
  <2>1. pc' = "refused" /\ error' = "ProtocolError" /\ left' = left
    BY <1>6 DEF ReadWord, Refuse
  <2>2. ~Allowed(F)
    BY <1>6 DEF Allowed
  <2> QED BY <1>1, <1>4, <2>1, <2>2, ReadFacts, Onward
<1>7. CASE F.type # "go_away" /\ ~(F.type = "window_update" /\ Low(F.value) = Zero)
  <2>1. pc' = "return" /\ error' = error /\ left' = left
    BY <1>7 DEF ReadWord, Go
  <2>2. F.len = Pre(F) + PadOf(F)
    BY <1>1, <1>2, <1>3, <1>7, ReadFacts
  <2>3. Allowed(F)
    BY <1>1, <1>2, <1>3, <1>7, <2>2, ReadFacts, AllowedIs DEF IInv
  <2>4. used' = HeaderSize + F.len
    BY <1>1, <1>2, <1>3, <1>7, ReadFacts
  <2>5. Stage'
    BY <1>1, <1>2, <2>1, <2>3, <2>4, ReadFacts DEF Stage, InBody, Allowed
  <2> QED BY <1>1, <1>4, <2>1, <2>5, ReadFacts, Onward DEF InBody
<1> QED BY <1>5, <1>6, <1>7

LEMMA BufferType ==
  ASSUME TypeOK, F.type \in HasData, NEW bytes \in Seq([of : Nat, byte : Nat])
  PROVE  [data EXCEPT ![BufferOf(F.type)] = Before \o bytes]
           \in [Buffers -> Seq([of : Nat, byte : Nat])]
<1> DEFINE B == [of : Nat, byte : Nat]
<1>1. data \in [Buffers -> Seq(B)]
  BY DEF TypeOK
<1>2. BufferOf(F.type) \in Buffers /\ "headers" \in Buffers
  BY DEF BufferOf, Buffers, HasData
<1> HIDE DEF B
<1>3. Before \in Seq(B)
  BY <1>1, <1>2 DEF Before
<1>4. bytes \in Seq(B)
  BY DEF B
<1>5. Before \o bytes \in Seq(B)
  BY <1>3, <1>4
<1> QED BY <1>1, <1>2, <1>5 DEF B

LEMMA ByteType ==
  ASSUME TypeOK, Entries, cur <= Len(sent), NEW o
  PROVE  Byte(o) \in [of : Nat, byte : Nat]
<1>1. cur \in Nat /\ F.n \in Nat
  BY Current
<1>2. PICK k : k = o - Prefix(F.type, F.flags)
  OBVIOUS
<1>3. (IF k \in 1..F.n THEN k ELSE 0) \in Nat
  BY <1>1
<1>4. Byte(o) = [of |-> cur, byte |-> IF k \in 1..F.n THEN k ELSE 0]
  BY <1>2 DEF Byte
<1> QED BY <1>1, <1>3, <1>4

LEMMA ReadDataInv == IInv /\ ReadData => IInv'
<1> SUFFICES ASSUME IInv, ReadData PROVE IInv'
  OBVIOUS
<1> DEFINE bytes == [k \in 1..left |-> Byte(used - HeaderSize + k)]
<1>1. /\ pc = "data" /\ Read /\ left' = left /\ padding' = padding /\ out' = out
      /\ data' = [data EXCEPT ![BufferOf(F.type)] = Before \o bytes]
      /\ pc' = (IF F.type \in CanPad THEN "padding" ELSE "return") /\ error' = error
      /\ pc \in Reading \ {"header"}
  BY DEF ReadData, Go, Reading
<1>2. /\ F.type \in HasData /\ used = HeaderSize + Pre(F) /\ padding = PadOf(F)
      /\ F.len = Pre(F) + left + padding
      /\ HasDependency(F.type, F.flags) => Low(F.id) # F.stream
  BY <1>1 DEF IInv, Stage
<1>3. Need = left
  BY <1>1 DEF Need
<1>4. bytes \in Seq([of : Nat, byte : Nat])
  <2>1. cur <= Len(sent)
    BY <1>1, ReadFacts
  <2>2. left \in Nat
    BY <1>1, ReadFacts
  <2>3. \A k \in 1..left : Byte(used - HeaderSize + k) \in [of : Nat, byte : Nat]
    BY <2>1, ByteType DEF IInv
  <2> QED BY <2>2, <2>3
<1>5. data' \in [Buffers -> Seq([of : Nat, byte : Nat])]
  <2> HIDE DEF bytes
  <2> QED BY <1>1, <1>2, <1>4, BufferType DEF IInv
<1>6. used' = HeaderSize + Pre(F) + left
  BY <1>1, <1>2, <1>3, ReadFacts
<1>7. CASE F.type \in CanPad
  <2>1. Stage'
    BY <1>1, <1>2, <1>6, <1>7, ReadFacts DEF Stage, InBody
  <2> QED BY <1>1, <1>5, <1>7, <2>1, ReadFacts, Onward DEF InBody
<1>8. CASE F.type \notin CanPad
  <2>1. PadOf(F) = 0 /\ F.type # "window_update"
    BY <1>2, <1>8 DEF PadOf, HasData
  <2>2. F.len >= Pre(F) + PadOf(F) /\ used' = HeaderSize + F.len
    BY <1>1, <1>2, <1>6, <2>1, ReadFacts, SMTT(30) DEF HeaderSize
  <2>3. Allowed(F)
    BY <1>1, <1>2, <2>1, <2>2, ReadFacts, AllowedIs DEF IInv
  <2>4. Stage'
    BY <1>1, <1>8, <2>2, <2>3, ReadFacts DEF Stage, InBody, Allowed
  <2> QED BY <1>1, <1>5, <1>8, <2>4, ReadFacts, Onward DEF InBody
<1> QED BY <1>7, <1>8

LEMMA ReadPaddingInv == IInv /\ ReadPadding => IInv'
<1> SUFFICES ASSUME IInv, ReadPadding PROVE IInv'
  OBVIOUS
<1>1. /\ pc = "padding" /\ Read /\ left' = left /\ padding' = padding /\ out' = out
      /\ data' = data /\ pc' = "return" /\ error' = error /\ pc \in Reading \ {"header"}
  BY DEF ReadPadding, Go, Reading
<1>2. /\ F.type \in CanPad /\ used = HeaderSize + Pre(F) + left /\ padding = PadOf(F)
      /\ F.len = Pre(F) + left + padding
      /\ HasDependency(F.type, F.flags) => Low(F.id) # F.stream
  BY <1>1 DEF IInv, Stage
<1>3. Need = padding
  BY <1>1 DEF Need
<1>4. F.len >= Pre(F) + PadOf(F) /\ used' = HeaderSize + F.len
  <2> DEFINE p == PadOf(F)
             q == Pre(F)
             n == F.len
  <2>1. /\ p \in Nat /\ q \in Nat /\ left \in Nat /\ n = q + left + p
        /\ used' = (9 + q + left) + p
    BY <1>1, <1>2, <1>3, ReadFacts DEF HeaderSize
  <2> HIDE DEF p, q, n
  <2>2. n >= q + p /\ used' = 9 + n
    BY <2>1
  <2> QED BY <2>2 DEF p, q, n, HeaderSize
<1>5. F.type \in HasData /\ F.type # "window_update"
  BY <1>2 DEF CanPad, HasData
<1>6. Allowed(F)
  BY <1>1, <1>2, <1>4, <1>5, ReadFacts, AllowedIs DEF IInv
<1>7. Stage'
  BY <1>1, <1>4, <1>6, ReadFacts DEF Stage, InBody, Allowed
<1> QED BY <1>1, <1>7, ReadFacts, Onward DEF InBody

LEMMA ReturnInv == IInv /\ Return => IInv'
<1> SUFFICES ASSUME IInv, Return PROVE IInv'
  OBVIOUS
<1> DEFINE result == [type |-> F.type, stream |-> F.stream,
                      ends |-> F.flags \cap EndsOf(F.type), words |-> out,
                      data |-> IF F.type \in HasData THEN data[BufferOf(F.type)] ELSE <<>>]
           G == [type : Types, stream : Word, ends : SUBSET Flags, words : Words,
                 data : Seq([of : Nat, byte : Nat])]
<1>1. /\ pc = "return" /\ got' = Append(got, result) /\ error' = error
      /\ sent' = sent /\ closed' = closed /\ left' = left /\ padding' = padding /\ out' = out
      /\ data' = data
      /\ \/ used = sent[cur].size /\ pc' = "header" /\ cur' = cur + 1 /\ used' = 0
         \/ used # sent[cur].size /\ pc' = "lost" /\ cur' = cur /\ used' = used
  BY DEF Return, Go, sender
<1>2. /\ cur <= Len(sent) /\ used <= sent[cur].size /\ used = HeaderSize + F.len /\ Allowed(F)
      /\ error = "none" /\ Len(got) = cur - 1
  BY <1>1 DEF IInv, Stage, InBody, Ended, TypeOK
<1>3. result \in G
  <2>1. (IF F.type \in HasData THEN data[BufferOf(F.type)] ELSE <<>>) \in Seq([of : Nat, byte : Nat])
    BY DEF IInv, TypeOK, BufferOf, Buffers, HasData
  <2>2. out \in Words
    BY DEF IInv, TypeOK
  <2>3. F.type \in Types /\ F.flags \subseteq Flags /\ F.stream \in Word
    BY <1>2, Current DEF IInv
  <2> QED BY <2>1, <2>2, <2>3
<1>4. /\ got \in Seq(G) /\ cur \in 1..Len(sent) /\ used \in Nat /\ sent[cur].size \in Nat
      /\ F.len \in Nat
  BY <1>2, Current DEF IInv, TypeOK
<1>5. /\ got' \in Seq(G) /\ Len(got') = cur
      /\ \A k \in 1..Len(got) : got'[k] = got[k]
  <2> HIDE DEF result, G
  <2> QED BY <1>1, <1>2, <1>3, <1>4
<1>6. TypeOK'
  BY <1>1, <1>4, <1>5, SMTT(30) DEF IInv, TypeOK, Reading
<1>7. Entries'
  BY <1>1 DEF IInv, Entries
<1>8. Stage'
  BY <1>1 DEF Stage, InBody
<1>9. Ended'
  BY <1>1, <1>2, <1>4, <1>5 DEF Ended
<1>10. Judged'
  <2>1. \A k \in 1..Len(got) : Allowed(sent[k].frame)
    BY DEF IInv, Judged
  <2>2. \A k \in 1..cur : Allowed(sent[k].frame)
    BY <1>2, <1>4, <2>1 DEF F
  <2> QED BY <1>1, <1>2, <1>5, <2>2 DEF Judged
<1>11. LossHasCause'
  <2>1. CASE pc' = "header"
    BY <2>1 DEF LossHasCause
  <2>2. CASE used # sent[cur].size /\ cur' = cur
    <3>1. sent[cur].size > HeaderSize + sent[cur].frame.len
      BY <1>2, <1>4, <2>2 DEF F, HeaderSize
    <3>2. Overlong(cur)
      BY <1>4, <3>1, MoreIsOverlong DEF IInv
    <3> QED BY <1>1, <2>2, <3>2 DEF LossHasCause, Overlong
  <2> QED BY <1>1, <2>1, <2>2
<1> QED BY <1>6, <1>7, <1>8, <1>9, <1>10, <1>11 DEF IInv

LEMMA LoseInv == IInv /\ Lose => IInv'
<1> SUFFICES ASSUME IInv, Lose PROVE IInv'
  OBVIOUS
<1>1. /\ pc \in Reading /\ cur < Len(sent) /\ used + Need > sent[cur].size
      /\ pc' = "lost" /\ error' = error
      /\ UNCHANGED <<sender, cur, used, left, padding, out, data, got>>
  BY DEF Lose, Go
<1>2. cur <= Len(sent)
  BY <1>1 DEF IInv, TypeOK
<1>3. Torn(cur)
  <2>1. Need \in Nat /\ used + Need <= HeaderSize + F.len /\ used \in Nat /\ F.len \in Nat
        /\ sent[cur].size \in Nat
    BY <1>1, <1>2, NeedWithin, Current DEF IInv, TypeOK
  <2>2. sent[cur].size < HeaderSize + F.len
    BY <1>1, <2>1 DEF HeaderSize
  <2> QED BY <2>2 DEF Torn, F
<1>4. error = "none" /\ pc # "lost"
  BY <1>1 DEF IInv, Ended, Reading, TypeOK
<1>5. LocalType'
  BY <1>1 DEF LocalType, IInv, TypeOK
<1>6. Stage'
  BY <1>1 DEF Stage, InBody
<1> QED BY <1>1, <1>2, <1>3, <1>4, <1>5, <1>6, WithinFrame

LEMMA ReadFailsInv == IInv /\ ReadFails => IInv'
<1> SUFFICES ASSUME IInv, ReadFails PROVE IInv'
  OBVIOUS
<1> DEFINE bytes == [k \in 1..left |-> Stale]
<1>1. /\ pc \in Reading /\ pc' = "refused" /\ error' = "InternalError"
      /\ UNCHANGED <<sender, cur, used, left, padding, out, got>>
      /\ IF pc = "data" THEN data' = [data EXCEPT ![BufferOf(F.type)] = Before \o bytes]
         ELSE data' = data
  BY DEF ReadFails, Refuse
<1>2. left \in Nat
  BY DEF IInv, TypeOK
<1>3. bytes \in Seq([of : Nat, byte : Nat])
  BY <1>2 DEF Stale
<1>4. data' \in [Buffers -> Seq([of : Nat, byte : Nat])]
  <2>1. CASE pc = "data"
    <3>1. F.type \in HasData
      BY <2>1 DEF IInv, Stage
    <3> HIDE DEF bytes
    <3> QED BY <1>1, <1>3, <2>1, <3>1, BufferType DEF IInv
  <2>2. CASE pc # "data"
    BY <1>1, <2>2 DEF IInv, TypeOK
  <2> QED BY <2>1, <2>2
<1>5. LocalType'
  BY <1>1, <1>4 DEF LocalType, IInv, TypeOK
<1>6. Stage'
  BY <1>1 DEF Stage, InBody
<1>7. pc # "lost"
  BY <1>1 DEF Reading
<1> QED BY <1>1, <1>5, <1>6, <1>7, WithinFrame

-----------------------------------------------------------------------------
(* Sending.                                                                *)

(* What is sent goes behind everything else, so that the frame that is     *)
(* being read is still the same.                                           *)
LEMMA PutInv ==
  ASSUME IInv, NEW c \in Seq(Calls), NEW f \in Frame, NEW size \in Nat,
         Entry([call |-> c, frame |-> f, size |-> size]), Put(c, f, size)
  PROVE  IInv'
<1> DEFINE e == [call |-> c, frame |-> f, size |-> size]
           E == [call : Seq(Calls), frame : Frame, size : Nat]
<1>1. sent' = Append(sent, e) /\ UNCHANGED <<closed, reader>>
  BY DEF Put
<1>2. sent \in Seq(E) /\ e \in E
  BY DEF IInv, TypeOK
<1>3. /\ sent' \in Seq(E) /\ Len(sent') = Len(sent) + 1 /\ Len(sent) \in Nat
      /\ \A k \in 1..Len(sent) : sent'[k] = sent[k]
      /\ sent'[Len(sent) + 1] = e
  <2> HIDE DEF e, E
  <2> QED BY <1>1, <1>2
<1>4. /\ cur' = cur /\ used' = used /\ pc' = pc /\ left' = left /\ padding' = padding
      /\ out' = out /\ data' = data /\ got' = got /\ error' = error
      /\ closed' = closed
  BY <1>1 DEF reader
<1>5. cur \in 1..(Len(sent) + 1)
  BY DEF IInv, TypeOK
<1>6. cur <= Len(sent) => sent'[cur'] = sent[cur] /\ F' = F /\ cur' <= Len(sent')
  BY <1>3, <1>4, <1>5 DEF F
<1>7. TypeOK'
  <2>1. cur' \in 1..(Len(sent') + 1)
    BY <1>3, <1>4, <1>5
  <2> QED BY <1>3, <1>4, <2>1 DEF IInv, TypeOK
<1>8. Entries'
  <2> SUFFICES ASSUME NEW k \in 1..(Len(sent) + 1) PROVE Entry(sent'[k])
    BY <1>3 DEF Entries, Entry
  <2>1. CASE k \in 1..Len(sent)
    BY <1>3, <2>1 DEF IInv, Entries
  <2>2. CASE k = Len(sent) + 1
    BY <1>3, <2>2
  <2> QED BY <1>3, <2>1, <2>2
<1>9. Stage'
  <2>1. CASE pc \in InBody
    BY <1>4, <1>6, <2>1 DEF IInv, Stage
  <2>2. CASE pc \notin InBody
    BY <1>4, <2>2 DEF IInv, Stage, InBody
  <2> QED BY <2>1, <2>2
<1>10. Ended'
  <2>1. Len(got) \in Nat
    BY DEF IInv, TypeOK
  <2> QED BY <1>3, <1>4, <1>6, <2>1 DEF IInv, Ended
<1>11. Judged'
  <2>1. error \in {"ProtocolError", "FrameSizeError"} => F' = F
    BY <1>6 DEF IInv, Ended
  <2>2. \A k \in 1..Len(got) : sent'[k] = sent[k]
    <3>1. Len(got) \in Nat /\ Len(got) <= Len(sent)
      BY DEF IInv, TypeOK, Ended
    <3> QED BY <1>3, <3>1
  <2> QED BY <1>4, <2>1, <2>2 DEF IInv, Judged
<1>12. LossHasCause'
  <2>1. pc = "lost" => sent'[cur'] = sent[cur]
    BY <1>6 DEF IInv, Ended
  <2> QED BY <1>4, <2>1 DEF IInv, LossHasCause, Overlong, Torn
<1> QED BY <1>7, <1>8, <1>9, <1>10, <1>11, <1>12 DEF IInv

LEMMA SenderInv == IInv /\ Sender => IInv'
<1> SUFFICES ASSUME IInv, Sender PROVE IInv'
  OBVIOUS
<1>1. ASSUME NEW c \in Calls, Write(c) PROVE IInv'
  <2>1. c \in Call /\ FrameOf(c) \in Frame /\ Length(c) \in Nat
    BY FramesAssumption, FrameType, LengthType DEF IsCall
  <2>2. Entry([call |-> <<c>>, frame |-> FrameOf(c), size |-> HeaderSize + Length(c)])
    BY <2>1 DEF Entry, HeaderSize
  <2>3. <<c>> \in Seq(Calls) /\ HeaderSize + Length(c) \in Nat
    BY <2>1 DEF HeaderSize
  <2> QED BY <1>1, <2>1, <2>2, <2>3, PutInv, Zenon DEF Write
<1>2. ASSUME NEW c \in Calls, WriteFails(c) PROVE IInv'
  <2>1. c \in Call /\ FrameOf(c) \in Frame /\ Length(c) \in Nat
    BY FramesAssumption, FrameType, LengthType DEF IsCall
  <2>2. PICK size \in Cuts : size < HeaderSize + Length(c) /\ Put(<<c>>, FrameOf(c), size)
    BY <1>2 DEF WriteFails
  <2>3. size \in Nat
    BY FramesAssumption
  <2>4. Entry([call |-> <<c>>, frame |-> FrameOf(c), size |-> size])
    BY <2>1, <2>2, <2>3 DEF Entry, HeaderSize
  <2>5. <<c>> \in Seq(Calls)
    OBVIOUS
  <2> QED BY <2>1, <2>2, <2>3, <2>4, <2>5, PutInv, Zenon
<1>3. ASSUME NEW f \in Raws, PutRaw(f) PROVE IInv'
  <2>1. f \in Frame /\ f.len \in Nat
    BY FramesAssumption DEF IsFrame, Frame
  <2>2. Entry([call |-> <<>>, frame |-> f, size |-> HeaderSize + f.len])
    BY DEF Entry
  <2>3. <<>> \in Seq(Calls) /\ HeaderSize + f.len \in Nat
    BY <2>1 DEF HeaderSize
  <2> QED BY <1>3, <2>1, <2>2, <2>3, PutInv, Zenon DEF PutRaw
<1>4. CASE Close
  <2>1. closed' \in BOOLEAN /\ sent' = sent /\ UNCHANGED reader
    BY <1>4 DEF Close
  <2> QED BY <2>1 DEF IInv, TypeOK, Entries, Stage, Ended, Judged, LossHasCause, reader, F,
                      Overlong, Torn
<1> QED BY <1>1, <1>2, <1>3, <1>4 DEF Sender

-----------------------------------------------------------------------------

LEMMA InitInv == Init => IInv
<1> SUFFICES ASSUME Init PROVE IInv
  OBVIOUS
<1>1. PICK n \in Leftovers : data = [b \in Buffers |-> [k \in 1..n |-> Stale]]
  BY DEF Init
<1>2. n \in Nat
  BY FramesAssumption
<1>3. data \in [Buffers -> Seq([of : Nat, byte : Nat])]
  <2>1. [k \in 1..n |-> Stale] \in Seq([of : Nat, byte : Nat])
    BY <1>2 DEF Stale
  <2> QED BY <1>1, <2>1
<1>4. NoWords \in Words
  BY DEF NoWords, Words, Word, Zero
<1>5. TypeOK
  <2>1. sent \in Seq([call : Seq(Calls), frame : Frame, size : Nat]) /\ Len(sent) = 0
    BY DEF Init
  <2>2. got \in Seq([type : Types, stream : Word, ends : SUBSET Flags, words : Words,
                     data : Seq([of : Nat, byte : Nat])])
    BY DEF Init
  <2>3. /\ closed \in BOOLEAN /\ cur \in 1..(Len(sent) + 1) /\ used \in Nat
        /\ pc \in Reading /\ left \in Nat /\ padding \in Nat /\ out \in Words
        /\ error \in {"none", "ProtocolError", "FrameSizeError", "InternalError"}
    <3>1. /\ closed = FALSE /\ cur = 1 /\ used = 0 /\ pc = "header" /\ left = 0
          /\ padding = 0 /\ out = NoWords /\ error = "none"
      BY DEF Init
    <3>2. cur \in 1..(Len(sent) + 1)
      BY <2>1, <3>1
    <3> QED BY <1>4, <3>1, <3>2 DEF Reading
  <2> QED BY <1>3, <2>1, <2>2, <2>3 DEF TypeOK
<1>6. Entries /\ Stage /\ Ended /\ Judged /\ LossHasCause
  BY DEF Init, Entries, Stage, Ended, Judged, LossHasCause, InBody
<1> QED BY <1>5, <1>6 DEF IInv

LEMMA NextInv == IInv /\ [Next]_vars => IInv'
<1> SUFFICES ASSUME IInv, [Next]_vars PROVE IInv'
  OBVIOUS
<1>1. CASE UNCHANGED vars
  <2>1. UNCHANGED sender /\ UNCHANGED reader
    BY <1>1 DEF vars
  <2> QED BY <2>1 DEF IInv, TypeOK, Entries, Stage, Ended, Judged, LossHasCause, reader, sender,
                      F, Overlong, Torn
<1>2. CASE Sender
  BY <1>2, SenderInv
<1>3. CASE Checks
  BY <1>3, CheckDataInv, CheckHeadersInv, CheckContinuationInv, CheckPriorityInv,
     CheckRstStreamInv, CheckPingInv, CheckGoAwayInv, CheckWindowUpdateInv DEF Checks
<1>4. CASE Reader /\ ~Checks
  BY <1>4, ReadHeaderInv, ReadPadLengthInv, ReadPriorityInv, ReadDependencyInv, ReadWeightInv,
     ReadWordInv, ReadDataInv, ReadPaddingInv, ReturnInv, LoseInv, ReadFailsInv DEF Reader
<1> QED BY <1>1, <1>2, <1>3, <1>4 DEF Next, Reader

LEMMA Inductive == Spec => []IInv
BY InitInv, NextInv, PTL DEF Spec

(* The lengths that a read_frame computes from the header, the padding and *)
(* the priority never fall below zero, and what it keeps has its type, for *)
(* all frames that a peer may send.                                        *)
THEOREM TypeCorrect == Spec => []TypeOK
<1>1. IInv => TypeOK
  BY DEF IInv
<1> QED BY <1>1, Inductive, PTL

(* No read of a read_frame function goes beyond the length in its header,  *)
(* whatever padding, flags and length the peer claims.                     *)
THEOREM NeverBeyondFrame == Spec => []InFrame
<1>1. IInv => InFrame
  BY NeedWithin DEF InFrame
<1> QED BY <1>1, Inductive, PTL

(* The read_frame functions refuse a frame just when HTTP/2 does not allow *)
(* it.                                                                     *)
THEOREM RightlyJudged == Spec => []Judged
<1>1. IInv => Judged
  BY DEF IInv
<1> QED BY <1>1, Inductive, PTL

(* A reader is in step with its sender, frame by frame, unless a frame was *)
(* cut off by a failed write or was too long for its header.               *)
THEOREM FramingKept == Spec => []LossHasCause
<1>1. IInv => LossHasCause
  BY DEF IInv
<1> QED BY <1>1, Inductive, PTL

-----------------------------------------------------------------------------
(***************************************************************************)
(* What the read_frame functions return.  Their words are gathered as they *)
(* are read; their data is in a buffer, behind what CONTINUATION found     *)
(* there: the data of the block before it, if there was a block.           *)
(***************************************************************************)
OfBlock == {"headers", "continuation"}

WordsOf(f) ==
  LET has == HasDependency(f.type, f.flags)
  IN  [id        |-> IF has \/ f.type = "go_away" THEN Low(f.id) ELSE Zero,
       exclusive |-> IF has THEN f.id.top ELSE 0,
       value     |-> CASE f.type = "window_update" -> Low(f.value)
                       [] f.type \in {"data", "continuation"} -> Zero
                       [] f.type = "headers" /\ ~has -> DefaultWeight
                       [] OTHER -> f.value]

Gathered ==
  /\ pc = "frame" => out = NoWords
  /\ pc = "pad" => out = IF F.type = "headers" THEN [NoWords EXCEPT !.value = DefaultWeight]
                         ELSE NoWords
  /\ pc = "weight" => out = [id |-> Low(F.id), exclusive |-> F.id.top, value |-> Zero]
  /\ pc \in {"data", "padding", "return"} => out = WordsOf(F)

Block(g, n) == {j \in 1..n : g[j].type \in OfBlock}
LastOf(S)   == CHOOSE j \in S : \A i \in S : i <= j

Bytes == Seq([of : Nat, byte : Nat])

Kept(bytes) ==
  LET block == Block(got, Len(got))
  IN  block # {} => bytes = got[LastOf(block)].data

Piece(k, f, n) == [i \in 1..n |-> [of |-> k, byte |-> IF i \in 1..f.n THEN i ELSE 0]]

Contents ==
  /\ pc \in InBody \cup {"header"} =>
       \/ pc \in {"padding", "return"} /\ F.type \in OfBlock
       \/ Kept(data["headers"])
  /\ pc \in {"padding", "return"} /\ F.type \in HasData =>
       /\ F.len = Pre(F) + left + PadOf(F)
       /\ \E p \in Bytes : /\ data[BufferOf(F.type)] = p \o Piece(cur, F, left)
                           /\ IF F.type = "continuation" THEN Kept(p) ELSE p = <<>>

(* The greatest of some of the first frames.                               *)
LEMMA HasLast ==
  ASSUME NEW end \in Nat, NEW S \in SUBSET (1..end), S # {}
  PROVE  LastOf(S) \in S /\ \A j \in S : j <= LastOf(S)
<1> DEFINE T == {end - i : i \in S}
<1>1. T \in SUBSET Nat /\ T # {}
  <2>1. \A j \in S : end - j \in Nat
    OBVIOUS
  <2> QED BY <2>1
<1>2. PICK m \in T : \A k \in T : ~(k < m)
  <2> DEFINE less == OpToRel(<, Nat)
  <2>1. IsWellFoundedOn(less, Nat)
    BY NatLessThanWellFounded
  <2>2. \A k, m \in Nat : k < m => <<k, m>> \in less
    BY DEF OpToRel
  <2>3. PICK m \in T : \A k \in T : ~(<<k, m>> \in less)
    <3> HIDE DEF T, less
    <3> QED BY <1>1, <2>1, WFMin
  <2> HIDE DEF T, less
  <2> QED BY <1>1, <2>2, <2>3
<1>3. PICK i \in S : m = end - i
  OBVIOUS
<1>4. ASSUME NEW j \in S PROVE j <= i
  <2>1. ~(end - j < end - i)
    <3>1. end - j \in T
      OBVIOUS
    <3> HIDE DEF T
    <3> QED BY <1>2, <1>3, <3>1
  <2>2. i \in 1..end /\ j \in 1..end
    <3> HIDE DEF T
    <3> QED OBVIOUS
  <2> HIDE DEF T
  <2> QED BY <2>1, <2>2
<1>5. \E j \in S : \A k \in S : k <= j
  <2> HIDE DEF T
  <2> QED BY <1>4
<1> HIDE DEF T
<1> QED BY <1>5 DEF LastOf

(* A frame that is as long as its header says has the data it was given.   *)
LEMMA DataLength ==
  ASSUME TypeOK, Entries, cur <= Len(sent), ~Overlong(cur),
         F.len >= Pre(F) + PadOf(F)
  PROVE  F.len = Pre(F) + F.n + PadOf(F)
<1>1. cur \in 1..Len(sent)
  BY Current
<1>2. Entry(sent[cur])
  BY <1>1, EntryType
<1>3. CASE sent[cur].call = <<>> /\ F \in Raws
  <2>1. IsFrame(F)
    BY <1>3, FramesAssumption
  <2> QED BY <2>1 DEF IsFrame, Pre
<1>4. ASSUME NEW c \in Calls, sent[cur].call = <<c>>, F = FrameOf(c)
      PROVE  F.len = Pre(F) + F.n + PadOf(F)
  <2>1. c \in Call /\ Length(c) \in Nat /\ LenMod \in Nat \ {0}
    BY LengthType, FramesAssumption DEF IsCall
  <2>2. ~(Length(c) >= LenMod)
    BY <1>4 DEF Overlong
  <2>3. Length(c) % LenMod = Length(c)
    <3> DEFINE l == Length(c)
    <3>1. l \in Nat /\ l < LenMod
      BY <2>1, <2>2
    <3> HIDE DEF l
    <3>2. l % LenMod = l
      BY <2>1, <3>1, Remainder
    <3> QED BY <3>2 DEF l
  <2>4. F.len = Length(c) /\ F.n = c.n
    BY <1>4, <2>3 DEF FrameOf
  <2>5. Pre(F) = Prefix(c.type, c.flags) /\ PadOf(F) = PadOf(c)
    BY <1>4, <2>1, FlagsKept
  <2> QED BY <2>4, <2>5 DEF Length
<1> QED BY <1>2, <1>3, <1>4 DEF Entry, F

(* Flags that a read_frame does not return, or a write_frame does not set, *)
(* make no difference.                                                     *)
LEMMA FlagsMeant ==
  ASSUME NEW c \in Call
  PROVE  /\ FrameOf(c).flags \cap EndsOf(c.type) = c.flags \cap EndsOf(c.type)
         /\ HasDependency(c.type, FrameOf(c).flags) <=> HasDependency(c.type, c.flags)
<1>1. FrameOf(c).flags = c.flags \cap FlagsOf(c.type)
  BY DEF FrameOf
<1>2. EndsOf(c.type) \subseteq FlagsOf(c.type)
  BY DEF FlagsOf
<1>3. c.type = "headers" => "priority" \in FlagsOf(c.type)
  BY DEF FlagsOf
<1> QED BY <1>1, <1>2, <1>3 DEF HasDependency

(* The stream and the exclusive bit of a dependency, put together in one   *)
(* word and taken apart again.                                             *)
LEMMA IdMeant ==
  ASSUME NEW c \in Call
  PROVE  /\ Low(IdOf(c)) = Low(c.id)
         /\ c.type # "priority" \/ c.id.top = 0 => IdOf(c).top = c.exclusive
<1>1. c.id \in Word /\ c.exclusive \in {0, 1}
  BY DEF Call
<1> DEFINE id == IF c.type = "priority" THEN c.id ELSE Low(c.id)
<1>2. id \in Word /\ Low(id) = Low(c.id)
      /\ (c.type # "priority" \/ c.id.top = 0 => id.top = 0)
  BY <1>1 DEF Low, Word
<1>3. IdOf(c) = IF c.exclusive = 1 THEN [id EXCEPT !.top = 1] ELSE id
  BY DEF IdOf
<1> HIDE DEF id
<1>4. Low(IdOf(c)) = Low(id)
  BY <1>2, <1>3 DEF Low, Word
<1>5. id.top = 0 => IdOf(c).top = c.exclusive
  BY <1>1, <1>2, <1>3 DEF Word
<1> QED BY <1>2, <1>4, <1>5

(* What a frame that is read stands for.                                   *)
Stood(k, f, bytes) ==
  [type |-> f.type, stream |-> f.stream, ends |-> f.flags \cap EndsOf(f.type),
   words |-> WordsOf(f), data |-> bytes]

Data(k, n) == [i \in 1..n |-> [of |-> k, byte |-> i]]

LEMMA MeaningIs ==
  ASSUME TypeOK, Entries, cur <= Len(sent), ~Careless(cur)
  PROVE  Meaning(cur) = Stood(cur, F, Data(cur, F.n))
<1>1. cur \in 1..Len(sent)
  BY Current
<1>2. Entry(sent[cur])
  BY <1>1, EntryType
<1>3. CASE sent[cur].call = <<>>
  BY <1>3 DEF Meaning, Stood, Data, WordsOf, F
<1>4. ASSUME NEW c \in Calls, sent[cur].call = <<c>>, F = FrameOf(c)
      PROVE  Meaning(cur) = Stood(cur, F, Data(cur, F.n))
  <2>1. c \in Call
    BY FramesAssumption DEF IsCall
  <2>2. sent[cur].call # <<>> /\ sent[cur].call[1] = c /\ sent[cur].frame = F
    BY <1>4 DEF F
  <2>3. /\ F.type = c.type /\ F.n = c.n /\ F.value = c.value /\ F.id = IdOf(c)
        /\ F.stream = IF c.type \in OfConn THEN Zero ELSE Low(c.stream)
    BY <1>4 DEF FrameOf
  <2>4. /\ F.flags \cap EndsOf(F.type) = c.flags \cap EndsOf(F.type)
        /\ HasDependency(F.type, F.flags) <=> HasDependency(F.type, c.flags)
    BY <1>4, <2>1, <2>3, FlagsMeant
  <2>5. c.type # "priority" \/ c.id.top = 0
    <3>1. c.id.top \in {0, 1}
      BY <2>1 DEF Call, Word
    <3> QED BY <2>2, <3>1 DEF Careless
  <2>6. Low(F.id) = Low(c.id) /\ F.id.top = c.exclusive
    BY <2>1, <2>3, <2>5, IdMeant
  <2> DEFINE has == HasDependency(F.type, c.flags)
             words == [id        |-> IF has \/ F.type = "go_away" THEN Low(c.id) ELSE Zero,
                       exclusive |-> IF has THEN c.exclusive ELSE 0,
                       value     |-> CASE F.type = "window_update" -> Low(c.value)
                                       [] F.type \in {"data", "continuation"} -> Zero
                                       [] F.type = "headers" /\ ~has -> DefaultWeight
                                       [] OTHER -> c.value]
  <2>7. Meaning(cur) = [type   |-> F.type,
                        stream |-> IF c.type \in OfConn THEN Zero ELSE Low(c.stream),
                        ends   |-> c.flags \cap EndsOf(F.type),
                        words  |-> words,
                        data   |-> [i \in 1..c.n |-> [of |-> cur, byte |-> i]]]
    BY <2>2 DEF Meaning
  <2>8. words = WordsOf(F)
    BY <2>3, <2>4, <2>6 DEF WordsOf
  <2> HIDE DEF words
  <2> QED BY <2>3, <2>4, <2>7, <2>8 DEF Stood, Data
<1> QED BY <1>2, <1>3, <1>4 DEF Entry, F

-----------------------------------------------------------------------------
AInv == Gathered /\ Contents /\ AsMeant

(* What was returned stays what was meant when more is sent.               *)
LEMMA SameMeant ==
  ASSUME AsMeant, got' = got, \A k \in 1..Len(got) : sent'[k] = sent[k]
  PROVE  AsMeant'
<1> SUFFICES ASSUME NEW k \in 1..Len(got), ~Overlong(k)', ~Careless(k)'
             PROVE  got[k] = IF got[k].type = "continuation"
                             THEN [Meaning(k)' EXCEPT !.data = BlockBefore(k)' \o @]
                             ELSE Meaning(k)'
  BY DEF AsMeant
<1>1. ~Overlong(k) /\ ~Careless(k)
  BY DEF Overlong, Careless
<1>2. Meaning(k)' = Meaning(k)
  BY DEF Meaning
<1>3. BlockBefore(k)' = BlockBefore(k)
  BY DEF BlockBefore
<1> QED BY <1>1, <1>2, <1>3 DEF AsMeant

(* A step in a frame that reads no data.                                   *)
LEMMA Further ==
  ASSUME IInv, AInv, UNCHANGED <<sender, cur, got>>, F' = F,
         pc \in {"header", "frame", "pad", "priority", "dependency", "weight", "word"},
         data' = data \/ pc' = "refused",
         \/ pc' \in {"refused", "lost", "priority", "dependency", "word"}
         \/ pc' = "frame" /\ out' = NoWords
         \/ pc' = "pad" /\ out' = IF F.type = "headers"
                                  THEN [NoWords EXCEPT !.value = DefaultWeight] ELSE NoWords
         \/ pc' = "weight" /\ out' = [id |-> Low(F.id), exclusive |-> F.id.top, value |-> Zero]
         \/ pc' = "data" /\ out' = WordsOf(F)
         \/ pc' = "return" /\ out' = WordsOf(F) /\ F.type \notin HasData
  PROVE  AInv'
<1>1. Gathered'
  BY DEF Gathered
<1>2. Kept(data["headers"])
  BY DEF AInv, Contents, InBody
<1>3. pc' # "refused" => Kept(data["headers"])'
  BY <1>2 DEF Kept, Block
<1>4. Contents'
  BY <1>3 DEF Contents, InBody
<1>5. AsMeant'
  BY SameMeant DEF AInv, sender
<1> QED BY <1>1, <1>4, <1>5 DEF AInv

(* A reader that has stopped.                                              *)
LEMMA Stopped ==
  ASSUME AInv, UNCHANGED <<sender, got>>, pc' \in {"refused", "lost"}
  PROVE  AInv'
<1>1. Gathered' /\ Contents'
  BY DEF Gathered, Contents, InBody
<1>2. AsMeant'
  BY SameMeant DEF AInv, sender
<1> QED BY <1>1, <1>2 DEF AInv

LEMMA ReadHeaderMeant == IInv /\ AInv /\ ReadHeader => AInv'
<1> SUFFICES ASSUME IInv, AInv, ReadHeader PROVE AInv'
  OBVIOUS
<1>1. /\ pc = "header" /\ UNCHANGED <<sender, cur, got>> /\ data' = data /\ out' = NoWords
      /\ pc' \in {"refused", "frame"}
  BY DEF ReadHeader, Read, Refuse, Go
<1>2. F' = F
  BY <1>1 DEF F, sender
<1> QED BY <1>1, <1>2, Further

LEMMA ChecksMeant == IInv /\ AInv /\ Checks => AInv'
<1> SUFFICES ASSUME IInv, AInv, Checks PROVE AInv'
  OBVIOUS
<1>1. pc = "frame" /\ UNCHANGED <<sender, cur, got>> /\ data' = data
  BY DEF Checks, Check, CheckData, CheckHeaders, CheckContinuation, CheckPriority,
         CheckRstStream, CheckPing, CheckGoAway, CheckWindowUpdate
<1>2. F' = F /\ out = NoWords
  BY <1>1 DEF F, sender, AInv, Gathered
<1>3. CASE CheckData
  <2>1. F.type = "data" /\ out' = out /\ pc' \in {"refused", "pad", "data"}
    BY <1>3 DEF CheckData, Check, Refuse, Go
  <2>2. WordsOf(F) = NoWords
    BY <2>1 DEF WordsOf, NoWords, HasDependency
  <2> QED BY <1>1, <1>2, <2>1, <2>2, Further
<1>4. CASE CheckHeaders
  <2>1. /\ F.type = "headers" /\ out' = [NoWords EXCEPT !.value = DefaultWeight]
        /\ \/ pc' \in {"refused", "pad", "priority"}
           \/ pc' = "data" /\ "priority" \notin F.flags
    BY <1>4 DEF CheckHeaders, AfterPad, Refuse, Go
  <2>2. "priority" \notin F.flags => WordsOf(F) = [NoWords EXCEPT !.value = DefaultWeight]
    BY <2>1 DEF WordsOf, NoWords, HasDependency
  <2> QED BY <1>1, <1>2, <2>1, <2>2, Further
<1>5. CASE CheckContinuation
  <2>1. F.type = "continuation" /\ out' = out /\ pc' \in {"refused", "data"}
    BY <1>5 DEF CheckContinuation, Check, Refuse, Go
  <2>2. WordsOf(F) = NoWords
    BY <2>1 DEF WordsOf, NoWords, HasDependency
  <2> QED BY <1>1, <1>2, <2>1, <2>2, Further
<1>6. CASE CheckPriority \/ CheckRstStream \/ CheckPing \/ CheckGoAway \/ CheckWindowUpdate
  <2>1. pc' \in {"refused", "dependency", "word"}
    BY <1>6 DEF CheckPriority, CheckRstStream, CheckPing, CheckGoAway, CheckWindowUpdate,
                Refuse, Go
  <2> QED BY <1>1, <1>2, <2>1, Further
<1> QED BY <1>3, <1>4, <1>5, <1>6 DEF Checks

LEMMA ReadPadLengthMeant == IInv /\ AInv /\ ReadPadLength => AInv'
<1> SUFFICES ASSUME IInv, AInv, ReadPadLength PROVE AInv'
  OBVIOUS
<1>1. pc = "pad" /\ Read /\ data' = data /\ out' = out
  BY DEF ReadPadLength
<1>2. UNCHANGED <<sender, cur, got>> /\ F' = F
  BY <1>1, ReadFacts DEF Reading
<1>3. /\ F.type \in CanPad
      /\ out = IF F.type = "headers" THEN [NoWords EXCEPT !.value = DefaultWeight] ELSE NoWords
  BY <1>1 DEF IInv, Stage, AInv, Gathered
<1>4. \/ pc' \in {"refused", "priority"}
      \/ pc' = "data" /\ ~("priority" \in F.flags /\ F.type = "headers")
  BY DEF ReadPadLength, AfterPad, Refuse, Go
<1>5. ~("priority" \in F.flags /\ F.type = "headers") => WordsOf(F) = out
  BY <1>3 DEF WordsOf, NoWords, HasDependency, CanPad
<1> QED BY <1>1, <1>2, <1>4, <1>5, Further

LEMMA ReadPriorityMeant == IInv /\ AInv /\ ReadPriority => AInv'
<1> SUFFICES ASSUME IInv, AInv, ReadPriority PROVE AInv'
  OBVIOUS
<1>1. /\ pc = "priority" /\ Read /\ data' = data
      /\ out' = [id |-> Low(F.id), exclusive |-> F.id.top, value |-> F.value]
      /\ pc' \in {"refused", "data"}
  BY DEF ReadPriority, Refuse, Go
<1>2. UNCHANGED <<sender, cur, got>> /\ F' = F
  BY <1>1, ReadFacts DEF Reading
<1>3. F.type = "headers" /\ "priority" \in F.flags
  BY <1>1 DEF IInv, Stage
<1>4. WordsOf(F) = out'
  BY <1>1, <1>3 DEF WordsOf, HasDependency
<1> QED BY <1>1, <1>2, <1>4, Further

LEMMA ReadDependencyMeant == IInv /\ AInv /\ ReadDependency => AInv'
<1> SUFFICES ASSUME IInv, AInv, ReadDependency PROVE AInv'
  OBVIOUS
<1>1. /\ pc = "dependency" /\ Read /\ data' = data
      /\ out' = [id |-> Low(F.id), exclusive |-> F.id.top, value |-> Zero]
      /\ pc' \in {"refused", "weight"}
  BY DEF ReadDependency, Refuse, Go
<1>2. UNCHANGED <<sender, cur, got>> /\ F' = F
  BY <1>1, ReadFacts DEF Reading
<1> QED BY <1>1, <1>2, Further

LEMMA ReadWeightMeant == IInv /\ AInv /\ ReadWeight => AInv'
<1> SUFFICES ASSUME IInv, AInv, ReadWeight PROVE AInv'
  OBVIOUS
<1>1. /\ pc = "weight" /\ Read /\ data' = data /\ out' = [out EXCEPT !.value = F.value]
      /\ pc' = "return"
  BY DEF ReadWeight, Go
<1>2. UNCHANGED <<sender, cur, got>> /\ F' = F
  BY <1>1, ReadFacts DEF Reading
<1>3. F.type = "priority" /\ out = [id |-> Low(F.id), exclusive |-> F.id.top, value |-> Zero]
  BY <1>1 DEF IInv, Stage, AInv, Gathered
<1>4. WordsOf(F) = out'
  BY <1>1, <1>3 DEF WordsOf, HasDependency
<1>5. F.type \notin HasData
  BY <1>3 DEF HasData
<1> QED BY <1>1, <1>2, <1>4, <1>5, Further

LEMMA ReadWordMeant == IInv /\ AInv /\ ReadWord => AInv'
<1> SUFFICES ASSUME IInv, AInv, ReadWord PROVE AInv'
  OBVIOUS
<1>1. /\ pc = "word" /\ Read /\ data' = data
      /\ out' = CASE F.type = "go_away"       -> [NoWords EXCEPT !.id = Low(F.id), !.value = F.value]
                  [] F.type = "window_update" -> [NoWords EXCEPT !.value = Low(F.value)]
                  [] OTHER                    -> [NoWords EXCEPT !.value = F.value]
      /\ \/ pc' = "data" \/ pc' = "refused"
         \/ pc' = "return" /\ F.type # "go_away"
  BY DEF ReadWord, Refuse, Go
<1>2. UNCHANGED <<sender, cur, got>> /\ F' = F
  BY <1>1, ReadFacts DEF Reading
<1>3. F.type \in {"rst_stream", "window_update", "ping", "go_away"}
  BY <1>1 DEF IInv, Stage
<1>4. WordsOf(F) = out'
  <2>1. ~HasDependency(F.type, F.flags)
    BY <1>3 DEF HasDependency
  <2> QED BY <1>1, <1>3, <2>1 DEF WordsOf, NoWords
<1>5. F.type # "go_away" => F.type \notin HasData
  BY <1>3 DEF HasData
<1> QED BY <1>1, <1>2, <1>4, <1>5, Further

(* The data of a frame is read behind what the buffer is to keep.          *)
LEMMA ReadDataMeant == IInv /\ AInv /\ ReadData => AInv'
<1> SUFFICES ASSUME IInv, AInv, ReadData PROVE AInv'
  OBVIOUS
<1> DEFINE bytes == [k \in 1..left |-> Byte(used - HeaderSize + k)]
           b     == BufferOf(F.type)
<1>1. /\ pc = "data" /\ Read /\ left' = left /\ out' = out
      /\ data' = [data EXCEPT ![b] = Before \o bytes]
      /\ pc' \in {"padding", "return"}
  BY DEF ReadData, Go
<1>2. /\ UNCHANGED <<sender, cur, got>> /\ F' = F /\ left \in Nat
      /\ Pre(F) \in Nat /\ data \in [Buffers -> Bytes]
  BY <1>1, ReadFacts DEF Reading, Bytes
<1>3. /\ F.type \in HasData /\ used = HeaderSize + Pre(F)
      /\ F.len = Pre(F) + left + PadOf(F)
  BY <1>1 DEF IInv, Stage
<1>4. bytes = Piece(cur, F, left)
  <2>1. ASSUME NEW k \in 1..left
        PROVE  Byte(used - HeaderSize + k) = [of |-> cur, byte |-> IF k \in 1..F.n THEN k ELSE 0]
    <3> DEFINE o == used - HeaderSize + k
    <3>1. o - Prefix(F.type, F.flags) = k
      BY <1>2, <1>3 DEF HeaderSize, Pre
    <3> HIDE DEF o
    <3>2. Byte(o) = [of |-> cur, byte |-> IF k \in 1..F.n THEN k ELSE 0]
      BY <3>1 DEF Byte
    <3> QED BY <3>2 DEF o
  <2> QED BY <2>1 DEF Piece
<1>5. Kept(data["headers"])
  BY <1>1 DEF AInv, Contents, InBody
<1>6. b \in Buffers /\ "headers" \in Buffers /\ (b = "headers" => F.type \in OfBlock)
  BY <1>3 DEF BufferOf, Buffers, HasData, OfBlock
<1>7. /\ Before \in Bytes
      /\ IF F.type = "continuation" THEN Kept(Before) ELSE Before = <<>>
  BY <1>2, <1>5, <1>6 DEF Before, Bytes
<1>8. data'[b] = Before \o Piece(cur, F, left) /\ (b # "headers" => data'["headers"] = data["headers"])
  <2> HIDE DEF bytes, b
  <2> QED BY <1>1, <1>2, <1>4, <1>6
<1>9. \A p : Kept(p)' <=> Kept(p)
  BY <1>2 DEF Kept, Block
<1>10. Contents'
  <2>1. F.type \in OfBlock \/ Kept(data["headers"])'
    BY <1>5, <1>6, <1>8, <1>9 DEF Kept
  <2>2. \E p \in Bytes : /\ data'[b] = p \o Piece(cur, F, left)
                         /\ IF F.type = "continuation" THEN Kept(p)' ELSE p = <<>>
    <3> DEFINE p == Before
    <3>1. p \in Bytes /\ data'[b] = p \o Piece(cur, F, left)
          /\ IF F.type = "continuation" THEN Kept(p) ELSE p = <<>>
      BY <1>7, <1>8
    <3> HIDE DEF p
    <3> QED BY <1>9, <3>1
  <2> QED BY <1>1, <1>2, <1>3, <2>1, <2>2 DEF Contents, Pre, PadOf
<1>11. Gathered'
  BY <1>1, <1>2 DEF AInv, Gathered
<1>12. AsMeant'
  BY <1>2, SameMeant DEF AInv, sender
<1> QED BY <1>10, <1>11, <1>12 DEF AInv

LEMMA ReadPaddingMeant == IInv /\ AInv /\ ReadPadding => AInv'
<1> SUFFICES ASSUME IInv, AInv, ReadPadding PROVE AInv'
  OBVIOUS
<1>1. /\ pc = "padding" /\ Read /\ left' = left /\ out' = out /\ data' = data /\ pc' = "return"
  BY DEF ReadPadding, Go
<1>2. UNCHANGED <<sender, cur, got>> /\ F' = F
  BY <1>1, ReadFacts DEF Reading
<1>3. \A p : Kept(p)' <=> Kept(p)
  BY <1>2 DEF Kept, Block
<1>4. Contents'
  <2>1. F.type \in OfBlock \/ Kept(data["headers"])'
    BY <1>1, <1>2 DEF AInv, Contents, InBody, Kept, Block
  <2>2. F.type \in HasData =>
          \E p \in Bytes : /\ data[BufferOf(F.type)] = p \o Piece(cur, F, left)
                           /\ IF F.type = "continuation" THEN Kept(p)' ELSE p = <<>>
    BY <1>1, <1>3 DEF AInv, Contents
  <2>3. F.type \in HasData => F.len = Pre(F) + left + PadOf(F)
    BY <1>1 DEF AInv, Contents
  <2> QED BY <1>1, <1>2, <2>1, <2>2, <2>3 DEF Contents, Pre, PadOf
<1>5. Gathered'
  BY <1>1, <1>2 DEF AInv, Gathered
<1>6. AsMeant'
  BY <1>2, SameMeant DEF AInv, sender
<1> QED BY <1>4, <1>5, <1>6 DEF AInv

(* What was read in front of a frame's data can be told from the length of *)
(* the data.                                                               *)
LEMMA Front ==
  ASSUME NEW S, NEW p \in Seq(S), NEW q \in Seq(S)
  PROVE  SubSeq(p \o q, 1, Len(p \o q) - Len(q)) = p
<1>1. Len(p \o q) = Len(p) + Len(q) /\ Len(p) \in Nat /\ Len(q) \in Nat
  OBVIOUS
<1>2. Len(p \o q) - Len(q) = Len(p)
  BY <1>1
<1> QED BY <1>1, <1>2

LEMMA PieceIsData ==
  ASSUME NEW k \in Nat, NEW f, f.n \in Nat
  PROVE  /\ Piece(k, f, f.n) = Data(k, f.n)
         /\ Data(k, f.n) \in Bytes /\ Len(Data(k, f.n)) = f.n
         /\ f.n = 0 => Data(k, f.n) = <<>>
<1>1. Piece(k, f, f.n) = Data(k, f.n)
  BY DEF Piece, Data
<1>2. Data(k, f.n) \in Bytes /\ Len(Data(k, f.n)) = f.n
  <2> DEFINE n == f.n
             B == [of : Nat, byte : Nat]
  <2>1. \A i \in 1..n : [of |-> k, byte |-> i] \in B
    OBVIOUS
  <2>2. n \in Nat
    OBVIOUS
  <2> HIDE DEF n, B
  <2>3. [i \in 1..n |-> [of |-> k, byte |-> i]] \in Seq(B)
        /\ Len([i \in 1..n |-> [of |-> k, byte |-> i]]) = n
    BY <2>1, <2>2
  <2> QED BY <2>3 DEF n, B, Data, Bytes
<1>3. f.n = 0 => Data(k, f.n) = <<>>
  BY <1>2 DEF Bytes
<1> QED BY <1>1, <1>2, <1>3

(* A frame that is read to its end has all of its data.                    *)
LEMMA ReturnedData ==
  ASSUME IInv, AInv, pc = "return", ~Overlong(cur), F.type \in HasData
  PROVE  \E p \in Bytes :
           /\ data[BufferOf(F.type)] = p \o Data(cur, F.n)
           /\ IF F.type = "continuation" THEN Kept(p) ELSE p = <<>>
<1>1. cur <= Len(sent) /\ Allowed(F)
  BY DEF IInv, Stage, InBody
<1>2. F.len >= Pre(F) + PadOf(F)
  BY <1>1, AllowedIs DEF IInv
<1>3. F.len = Pre(F) + F.n + PadOf(F)
  BY <1>1, <1>2, DataLength DEF IInv
<1>4. /\ Pre(F) \in Nat /\ PadOf(F) \in Nat /\ F.n \in Nat /\ left \in Nat /\ cur \in Nat
  BY <1>1, Current DEF IInv, TypeOK
<1>5. F.len = Pre(F) + left + PadOf(F)
  BY DEF AInv, Contents
<1>6. left = F.n
  <2> DEFINE a == Pre(F)
             c == PadOf(F)
             n == F.n
  <2>1. a \in Nat /\ c \in Nat /\ n \in Nat /\ left \in Nat /\ a + left + c = a + n + c
    BY <1>3, <1>4, <1>5
  <2> HIDE DEF a, c, n
  <2>2. left = n
    BY <2>1
  <2> QED BY <2>2 DEF n
<1>7. Piece(cur, F, left) = Data(cur, F.n)
  BY <1>4, <1>6, PieceIsData
<1> QED BY <1>7 DEF AInv, Contents

LEMMA NoData ==
  ASSUME IInv, AInv, pc = "return", ~Overlong(cur), F.type \notin HasData
  PROVE  Data(cur, F.n) = <<>>
<1>1. cur <= Len(sent) /\ Allowed(F)
  BY DEF IInv, Stage, InBody
<1>2. F.len = Pre(F) + PadOf(F)
  BY <1>1, AllowedIs DEF IInv
<1>3. Pre(F) \in Nat /\ PadOf(F) \in Nat /\ F.n \in Nat /\ cur \in Nat /\ F.len \in Nat
  BY <1>1, Current
     DEF IInv
<1>4. F.len = Pre(F) + F.n + PadOf(F)
  BY <1>1, <1>2, <1>3, DataLength DEF IInv
<1>5. F.n = 0
  <2> DEFINE a == Pre(F)
             c == PadOf(F)
             n == F.n
  <2>1. a \in Nat /\ c \in Nat /\ n \in Nat /\ a + c = a + n + c
    BY <1>2, <1>3, <1>4
  <2> HIDE DEF a, c, n
  <2>2. n = 0
    BY <2>1
  <2> QED BY <2>2 DEF n
<1> QED BY <1>3, <1>5, PieceIsData

(* What was returned before is what it was.                                *)
LEMMA BlocksKept ==
  ASSUME NEW g, NEW h, NEW n \in Nat, \A j \in 1..n : h[j] = g[j]
  PROVE  /\ Block(h, n) = Block(g, n)
         /\ Block(g, n) # {} => h[LastOf(Block(g, n))] = g[LastOf(Block(g, n))]
<1>1. Block(h, n) = Block(g, n) /\ Block(g, n) \in SUBSET (1..n)
  BY DEF Block
<1>2. ASSUME Block(g, n) # {} PROVE LastOf(Block(g, n)) \in 1..n
  <2> DEFINE S == Block(g, n)
  <2> HIDE DEF S
  <2>1. S \in SUBSET (1..n) /\ S # {}
    BY <1>1, <1>2 DEF S
  <2>2. LastOf(S) \in S
    BY <2>1, HasLast
  <2> QED BY <2>1, <2>2 DEF S
<1> QED BY <1>1, <1>2

LEMMA NewBlock ==
  ASSUME NEW h, NEW n \in Nat, h[n + 1].type \in OfBlock
  PROVE  Block(h, n + 1) # {} /\ LastOf(Block(h, n + 1)) = n + 1
<1> DEFINE S == Block(h, n + 1)
<1>1. S \in SUBSET (1..(n + 1)) /\ n + 1 \in S
  BY DEF Block
<1> HIDE DEF S
<1>2. LastOf(S) \in S /\ \A j \in S : j <= LastOf(S)
  BY <1>1, HasLast
<1>3. LastOf(S) \in 1..(n + 1) /\ n + 1 <= LastOf(S)
  BY <1>1, <1>2
<1>4. LastOf(S) = n + 1
  BY <1>3
<1> QED BY <1>1, <1>4 DEF S

LEMMA NoNewBlock ==
  ASSUME NEW h, NEW n \in Nat, h[n + 1].type \notin OfBlock
  PROVE  Block(h, n + 1) = Block(h, n)
BY DEF Block

(* The result of a read_frame.                                             *)
Result == [type |-> F.type, stream |-> F.stream,
           ends |-> F.flags \cap EndsOf(F.type), words |-> out,
           data |-> IF F.type \in HasData THEN data[BufferOf(F.type)] ELSE <<>>]

LEMMA Returned ==
  ASSUME IInv, Return
  PROVE  /\ pc = "return" /\ cur \in 1..Len(sent) /\ Len(got) = cur - 1
         /\ F.type \in Types
         /\ Len(got) \in Nat /\ Len(got') = Len(got) + 1
         /\ \A k \in 1..Len(got) : got'[k] = got[k]
         /\ got'[Len(got) + 1] = Result
         /\ UNCHANGED <<sender, data>> /\ pc' \in {"header", "lost"}
<1>1. pc = "return" /\ got' = Append(got, Result) /\ UNCHANGED <<sender, data>>
      /\ pc' \in {"header", "lost"}
  BY DEF Return, Go, Result
<1>2. cur <= Len(sent) /\ Len(got) = cur - 1
  BY <1>1 DEF IInv, Stage, Ended, InBody
<1>3. cur \in 1..Len(sent) /\ F.type \in Types
  BY <1>2, Current DEF IInv
<1>4. \E G : got \in Seq(G)
  BY DEF IInv, TypeOK
<1>5. PICK G : got \in Seq(G)
  BY <1>4
<1>6. /\ Len(got) \in Nat /\ Len(got') = Len(got) + 1
      /\ \A k \in 1..Len(got) : got'[k] = got[k]
      /\ got'[Len(got) + 1] = Result
  BY <1>1, <1>5
<1> QED BY <1>1, <1>2, <1>3, <1>6

Behind(r, p) == [r EXCEPT !.data = p \o @]

LEMMA StoodBehind ==
  ASSUME NEW k, NEW f, NEW p \in Bytes, NEW bytes \in Bytes, NEW r, r = Stood(k, f, bytes)
  PROVE  Behind(r, p) = Stood(k, f, p \o bytes)
<1> DEFINE d      == p \o bytes
           type   == f.type
           stream == f.stream
           ends   == f.flags \cap EndsOf(f.type)
           words  == WordsOf(f)
<1>1. r = [type |-> type, stream |-> stream, ends |-> ends, words |-> words, data |-> bytes]
  BY DEF Stood
<1>2. Stood(k, f, d) = [type |-> type, stream |-> stream, ends |-> ends, words |-> words,
                        data |-> d]
  BY DEF Stood
<1>3. d \in Bytes
  BY DEF Bytes
<1>4. p \o r.data = d
  BY <1>1
<1> HIDE DEF d, type, stream, ends, words
<1>5. [r EXCEPT !.data = d] = [type |-> type, stream |-> stream, ends |-> ends,
                               words |-> words, data |-> d]
  BY <1>1, <1>3
<1>6. [r EXCEPT !.data = p \o r.data] = Stood(k, f, d)
  BY <1>2, <1>4, <1>5, Zenon
<1> QED BY <1>6, Zenon DEF d, Behind

(* It is what the sender meant.                                            *)
LEMMA ReturnedMeant ==
  ASSUME IInv, AInv, Return, ~Overlong(cur), ~Careless(cur), NEW k, k = cur
  PROVE  Result = IF F.type = "continuation"
                  THEN Behind(Meaning(k), BlockBefore(k)')
                  ELSE Meaning(k)
<1>1. cur \in 1..Len(sent) /\ pc = "return" /\ cur <= Len(sent)
  BY Returned
<1>2. Meaning(k) = Stood(cur, F, Data(cur, F.n))
  BY <1>1, MeaningIs DEF IInv
<1>3. out = WordsOf(F)
  BY <1>1 DEF AInv, Gathered
<1>4. CASE F.type \notin HasData
  <2>1. Result = Stood(cur, F, <<>>)
    BY <1>3, <1>4 DEF Result, Stood
  <2>2. F.type # "continuation"
    BY <1>4 DEF HasData
  <2> QED BY <1>1, <1>2, <1>4, <2>1, <2>2, NoData
<1>5. CASE F.type \in HasData
  <2>1. PICK p \in Bytes :
          /\ data[BufferOf(F.type)] = p \o Data(cur, F.n)
          /\ IF F.type = "continuation" THEN Kept(p) ELSE p = <<>>
    BY <1>1, <1>5, ReturnedData
  <2>2. Result = Stood(cur, F, p \o Data(cur, F.n))
    BY <1>3, <1>5, <2>1 DEF Result, Stood
  <2>3. F.n \in Nat /\ cur \in Nat
    BY <1>1, Current DEF IInv
  <2>4. Data(cur, F.n) \in Bytes /\ Len(Data(cur, F.n)) = F.n
    BY <2>3, PieceIsData
  <2>5. CASE F.type # "continuation"
    <3>1. p \o Data(cur, F.n) = Data(cur, F.n)
      BY <2>1, <2>4, <2>5 DEF Bytes
    <3> QED BY <1>2, <2>2, <2>5, <3>1
  <2>6. CASE F.type = "continuation"
    <3> DEFINE n == Len(got)
    <3>1. n \in Nat /\ n + 1 = k /\ n = k - 1 /\ \A j \in 1..n : got'[j] = got[j]
      BY Returned
    <3>2. got'[k] = Result /\ sent'[k].frame = F
      BY <1>1, <3>1, Returned DEF sender, F
    <3> HIDE DEF n
    <3>3. /\ Block(got', n) = Block(got, n)
          /\ Block(got, n) # {} => got'[LastOf(Block(got, n))] = got[LastOf(Block(got, n))]
      BY <3>1, BlocksKept
    <3>4. BlockBefore(k)' = p
      <4>1. BlockBefore(k)' = IF Block(got', n) = {}
                                THEN SubSeq(got'[k].data, 1, Len(got'[k].data) - F.n)
                                ELSE got'[LastOf(Block(got', n))].data
        BY <3>1, <3>2 DEF BlockBefore, Block, LastOf, OfBlock
      <4>2. CASE Block(got, n) = {}
        <5>1. got'[k].data = p \o Data(cur, F.n)
          BY <2>2, <3>2 DEF Stood
        <5>2. SubSeq(p \o Data(cur, F.n), 1, Len(p \o Data(cur, F.n)) - Len(Data(cur, F.n))) = p
          BY <2>4, Front DEF Bytes
        <5> QED BY <2>4, <3>3, <4>1, <4>2, <5>1, <5>2
      <4>3. CASE Block(got, n) # {}
        BY <2>1, <2>6, <3>3, <4>1, <4>3 DEF Kept, n
      <4> QED BY <4>2, <4>3
    <3>5. Behind(Meaning(k), p) = Stood(cur, F, p \o Data(cur, F.n))
      <4> DEFINE r == Meaning(k)
                 d == Data(cur, F.n)
      <4>1. r = Stood(cur, F, d) /\ d \in Bytes
        BY <1>2, <2>4
      <4> HIDE DEF r, d
      <4>2. Behind(r, p) = Stood(cur, F, p \o d)
        BY <4>1, StoodBehind
      <4> QED BY <4>2 DEF r, d
    <3> QED BY <2>2, <2>6, <3>4, <3>5
  <2> QED BY <2>5, <2>6
<1> QED BY <1>4, <1>5

LEMMA ReturnMeant == IInv /\ AInv /\ Return => AInv'
<1> SUFFICES ASSUME IInv, AInv, Return PROVE AInv'
  OBVIOUS
<1> DEFINE n == Len(got)
<1>1. /\ pc = "return" /\ cur \in 1..Len(sent) /\ n = cur - 1 /\ F.type \in Types
      /\ n \in Nat /\ Len(got') = n + 1 /\ \A k \in 1..n : got'[k] = got[k]
      /\ got'[n + 1] = Result /\ UNCHANGED <<sender, data>> /\ pc' \in {"header", "lost"}
  BY Returned
<1>2. sent' = sent
  BY <1>1 DEF sender
<1>3. Result.type = F.type
  BY DEF Result
<1> HIDE DEF n
<1>4. Gathered'
  BY <1>1 DEF Gathered
<1>5. Contents'
  <2>1. Block(got', n + 1) # {} => data["headers"] = got'[LastOf(Block(got', n + 1))].data
    <3>1. CASE F.type \in OfBlock
      <4>1. Block(got', n + 1) # {} /\ LastOf(Block(got', n + 1)) = n + 1
        BY <1>1, <1>3, <3>1, NewBlock
      <4>2. Result.data = data["headers"]
        BY <3>1 DEF Result, OfBlock, BufferOf, HasData
      <4> QED BY <1>1, <4>1, <4>2
    <3>2. CASE F.type \notin OfBlock
      <4>1. Block(got', n + 1) = Block(got', n)
        BY <1>1, <1>3, <3>2, NoNewBlock
      <4>2. /\ Block(got', n) = Block(got, n)
            /\ Block(got, n) # {} => got'[LastOf(Block(got, n))] = got[LastOf(Block(got, n))]
        BY <1>1, BlocksKept
      <4>3. Block(got, n) # {} => data["headers"] = got[LastOf(Block(got, n))].data
        BY <1>1, <3>2 DEF AInv, Contents, InBody, Kept, n
      <4> QED BY <4>1, <4>2, <4>3
    <3> QED BY <3>1, <3>2
  <2>2. Kept(data["headers"])'
    BY <1>1, <2>1 DEF Kept
  <2> QED BY <1>1, <2>2 DEF Contents, InBody
<1>6. AsMeant'
  <2> SUFFICES ASSUME NEW k \in 1..(n + 1), ~Overlong(k)', ~Careless(k)'
               PROVE  got'[k] = IF got'[k].type = "continuation"
                                THEN [Meaning(k)' EXCEPT !.data = BlockBefore(k)' \o @]
                                ELSE Meaning(k)'
    BY <1>1 DEF AsMeant
  <2>1. ~Overlong(k) /\ ~Careless(k)
    BY <1>2 DEF Overlong, Careless
  <2>2. Meaning(k)' = Meaning(k)
    BY <1>2 DEF Meaning
  <2>3. CASE k \in 1..n
    <3>1. got[k] = IF got[k].type = "continuation"
                   THEN [Meaning(k) EXCEPT !.data = BlockBefore(k) \o @] ELSE Meaning(k)
      BY <2>1, <2>3 DEF AInv, AsMeant, n
    <3>2. BlockBefore(k)' = BlockBefore(k)
      <4>1. k - 1 \in Nat /\ \A j \in 1..(k - 1) : got'[j] = got[j]
        BY <1>1, <2>3
      <4>2. /\ Block(got', k - 1) = Block(got, k - 1)
            /\ Block(got, k - 1) # {} =>
                 got'[LastOf(Block(got, k - 1))] = got[LastOf(Block(got, k - 1))]
        BY <4>1, BlocksKept
      <4>3. BlockBefore(k) = IF Block(got, k - 1) = {}
                             THEN SubSeq(got[k].data, 1, Len(got[k].data) - sent[k].frame.n)
                             ELSE got[LastOf(Block(got, k - 1))].data
        BY DEF BlockBefore, Block, LastOf, OfBlock
      <4>4. BlockBefore(k)' = IF Block(got', k - 1) = {}
                              THEN SubSeq(got'[k].data, 1, Len(got'[k].data) - sent'[k].frame.n)
                              ELSE got'[LastOf(Block(got', k - 1))].data
        BY DEF BlockBefore, Block, LastOf, OfBlock
      <4>5. got'[k] = got[k]
        BY <1>1, <2>3
      <4> QED BY <1>2, <4>2, <4>3, <4>4, <4>5
    <3>3. got'[k] = got[k]
      BY <1>1, <2>3
    <3> QED BY <2>2, <3>1, <3>2, <3>3
  <2>4. CASE k = n + 1
    <3>1. k = cur
      BY <1>1, <2>4
    <3>2. Result = IF F.type = "continuation"
                   THEN Behind(Meaning(k), BlockBefore(k)') ELSE Meaning(k)
      BY <2>1, <3>1, ReturnedMeant
    <3>3. got'[k] = Result /\ got'[k].type = F.type
      BY <1>1, <1>3, <2>4
    <3> QED BY <2>2, <3>2, <3>3, Zenon DEF Behind
  <2> QED BY <1>1, <2>3, <2>4
<1> QED BY <1>4, <1>5, <1>6 DEF AInv

LEMMA SenderMeant == IInv /\ AInv /\ Sender => AInv'
<1> SUFFICES ASSUME IInv, AInv, Sender PROVE AInv'
  OBVIOUS
<1>1. UNCHANGED reader /\ (sent' = sent \/ \E e : sent' = Append(sent, e))
  BY DEF Sender, Write, WriteFails, PutRaw, Put, Close
<1>2. Len(sent) \in Nat /\ \A k \in 1..Len(sent) : sent'[k] = sent[k]
  <2>1. PICK S : sent \in Seq(S)
    BY DEF IInv, TypeOK
  <2> QED BY <1>1, <2>1
<1>3. /\ cur' = cur /\ pc' = pc /\ left' = left /\ out' = out /\ data' = data /\ got' = got
  BY <1>1 DEF reader
<1>4. pc \in InBody => F' = F
  <2> SUFFICES ASSUME pc \in InBody PROVE F' = F
    OBVIOUS
  <2>1. cur \in 1..Len(sent)
    BY Current DEF IInv, Stage
  <2> QED BY <1>2, <1>3, <2>1 DEF F
<1>5. Gathered'
  BY <1>3, <1>4 DEF AInv, Gathered, InBody
<1>6. \A p : Kept(p)' <=> Kept(p)
  BY <1>3 DEF Kept, Block
<1>7. Contents'
  <2>1. CASE pc \in InBody
    <3>1. \/ pc \in {"padding", "return"} /\ F.type \in OfBlock
          \/ Kept(data["headers"])'
      BY <1>3, <2>1 DEF AInv, Contents, Kept, Block
    <3>2. pc \in {"padding", "return"} /\ F.type \in HasData =>
            /\ F.len = Pre(F) + left + PadOf(F)
            /\ \E p \in Bytes : /\ data[BufferOf(F.type)] = p \o Piece(cur, F, left)
                                /\ IF F.type = "continuation" THEN Kept(p)' ELSE p = <<>>
      BY <1>6 DEF AInv, Contents
    <3> QED BY <1>3, <1>4, <2>1, <3>1, <3>2 DEF Contents, Pre, PadOf
  <2>2. CASE pc \notin InBody
    <3>1. pc = "header" => Kept(data["headers"])'
      BY <1>3, <2>2 DEF AInv, Contents, Kept, Block, InBody
    <3> QED BY <1>3, <2>2, <3>1 DEF Contents, InBody
  <2> QED BY <2>1, <2>2
<1>8. AsMeant'
  <2>1. \A k \in 1..Len(got) : sent'[k] = sent[k]
    <3>1. Len(got) \in Nat /\ Len(got) <= Len(sent)
      BY DEF IInv, TypeOK, Ended
    <3> QED BY <1>2, <3>1
  <2> QED BY <1>3, <2>1, SameMeant DEF AInv
<1> QED BY <1>5, <1>7, <1>8 DEF AInv

LEMMA InitMeant == Init => AInv
<1> SUFFICES ASSUME Init PROVE AInv
  OBVIOUS
<1>1. pc = "header" /\ got = <<>> /\ Len(got) = 0
  BY DEF Init
<1>2. Block(got, Len(got)) = {}
  BY <1>1 DEF Block
<1> QED BY <1>1, <1>2 DEF AInv, Gathered, Contents, AsMeant, Kept

LEMMA NextMeant == IInv /\ AInv /\ [Next]_vars => AInv'
<1> SUFFICES ASSUME IInv, AInv, [Next]_vars PROVE AInv'
  OBVIOUS
<1>1. CASE UNCHANGED vars
  <2>1. UNCHANGED sender /\ UNCHANGED reader /\ F' = F
    BY <1>1 DEF vars, F, sender, reader
  <2>2. Gathered' /\ AsMeant'
    BY <2>1, SameMeant DEF AInv, Gathered, reader, sender
  <2>3. Contents'
    BY <2>1 DEF AInv, Contents, Kept, reader
  <2> QED BY <2>2, <2>3 DEF AInv
<1>2. CASE Sender
  BY <1>2, SenderMeant
<1>3. CASE Checks
  BY <1>3, ChecksMeant
<1>4. CASE Lose \/ ReadFails
  <2>1. pc' \in {"refused", "lost"} /\ UNCHANGED <<sender, got>>
    BY <1>4 DEF Lose, ReadFails, Go, Refuse
  <2> QED BY <2>1, Stopped
<1>5. CASE Reader /\ ~Checks /\ ~(Lose \/ ReadFails)
  BY <1>5, ReadHeaderMeant, ReadPadLengthMeant, ReadPriorityMeant, ReadDependencyMeant,
     ReadWeightMeant, ReadWordMeant, ReadDataMeant, ReadPaddingMeant, ReturnMeant DEF Reader
<1> QED BY <1>1, <1>2, <1>3, <1>4, <1>5 DEF Next, Reader

(* Whatever is sent, and with whatever the buffers still hold, a frame     *)
(* that is read is what its sender meant, and data is put behind other     *)
(* data only when a CONTINUATION frame goes on with its block.             *)
THEOREM ReadAsMeant == Spec => []AsMeant
<1>1. Init => IInv /\ AInv
  BY InitInv, InitMeant
<1>2. (IInv /\ AInv) /\ [Next]_vars => (IInv /\ AInv)'
  BY NextInv, NextMeant
<1>3. IInv /\ AInv => AsMeant
  BY DEF AInv
<1> QED BY <1>1, <1>2, <1>3, PTL DEF Spec
=============================================================================
