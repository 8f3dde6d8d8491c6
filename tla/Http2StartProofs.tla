-------------------------- MODULE Http2StartProofs --------------------------
(***************************************************************************)
(* Proofs about Http2Start for all settings, limits and frames: what the   *)
(* start consumes, whom it refuses, what both sides have agreed on, and    *)
(* whose limits hold afterwards.                                           *)
(***************************************************************************)
EXTENDS Http2Start, SequenceTheorems, WellFoundedInduction, TLAPS

(* The settings that the client's frame has are where its header says, and *)
(* what follows them is another header.                                    *)
Due(cells) == SettingsDue(cells[2])

ClientFrame ==
  /\ Len(sent) < 2 => due = 0
  /\ Len(sent) >= 1 => sent[1].kind = "preface"
  /\ Len(sent) >= 2 =>
       /\ sent[2] \in Headers
       /\ Len(sent) <= 2 + Due(sent) => due = 2 + Due(sent) - Len(sent)
       /\ \A i \in 3..Len(sent) : i <= 2 + Due(sent) => sent[i] \in Cells
       /\ Len(sent) > 2 + Due(sent) => sent[3 + Due(sent)] \in Headers

(* The server has read a good preface and the header of a good frame.      *)
Begun ==
  /\ at >= 2 /\ sent[1].good
  /\ sent[2].len <= Value(own, MaxFrameSize) /\ Acceptable(sent[2])

(* What has been read and what is left make up the frame.                  *)
Reading ==
  /\ pc = "preface" => at = 0 /\ settings = Default
  /\ pc = "header" => at = 1 /\ sent[1].good /\ settings = Default
  /\ pc = "settings" =>
       Begun /\ left + 6 * (at - 2) = sent[2].len /\ settings = Told(sent, at)
  /\ pc = "broken" /\ at >= 2 => at <= FrameEnd(sent)
  /\ pc = "refused" => Broke /\ (at > 2 => at <= FrameEnd(sent))

(* The whole frame has been read and checked.                              *)
Checked ==
  Begun /\ at = FrameEnd(sent) + Len(next) /\ Valid(ToldByClient)

Answering ==
  /\ pc \in {"ack", "size", "values", "started"} => Checked /\ settings = ToldByClient
  /\ wire # <<>> => Checked /\ wire[1] = Ack
  /\ pc \in {"size", "values"} => wire # <<>>
  /\ pc \in {"preface", "header", "settings", "ack", "refused"} => wire = <<>>
  /\ pc # "started" => ctx = <<>> /\ next = <<>> /\ contexts = 0
  /\ pc = "started" =>
       /\ Len(ctx) = 1 /\ ctx[1].settings = settings /\ ctx[1].table \in Nat
       /\ contexts = 1

IInv == TypeOK /\ ClientFrame /\ Reading /\ Answering /\ LimitOfClient
-----------------------------------------------------------------------------
(* What settings say.                                                      *)

(* A set of positions that is not empty has a last one.                    *)
LEMMA HasLast ==
  ASSUME NEW end \in Nat, NEW S \in SUBSET (3..end), S # {}
  PROVE  \E i \in S : \A j \in S : j <= i
<1> DEFINE T == {end - i : i \in S}
<1>1. \A j \in S : end - j \in Nat
  OBVIOUS
<1>2. T \in SUBSET Nat /\ T # {}
  BY <1>1
<1>3. PICK m \in T : \A k \in T : m <= k
  <2> DEFINE less == OpToRel(<, Nat)
  <2>1. IsWellFoundedOn(less, Nat)
    BY NatLessThanWellFounded
  <2>2. \A k, m \in Nat : k < m => <<k, m>> \in less
    BY DEF OpToRel
  <2>3. PICK m \in T : \A k \in T : ~(<<k, m>> \in less)
    <3> HIDE DEF T, less
    <3> QED
      BY <1>2, <2>1, WFMin
  <2>4. ASSUME NEW k \in T PROVE m <= k
    <3>1. ~(k < m)
      BY <1>2, <2>2, <2>3
    <3> HIDE DEF T
    <3> QED
      BY <1>2, <3>1
  <2> QED
    BY <2>4
<1>4. PICK i \in S : m = end - i
  OBVIOUS
<1>5. ASSUME NEW j \in S PROVE j <= i
  <2>1. m <= end - j
    <3>1. end - j \in T
      OBVIOUS
    <3> HIDE DEF T
    <3> QED
      BY <1>3, <3>1
  <2>2. i \in 3..end /\ j \in 3..end
    <3> HIDE DEF T
    <3> QED
      OBVIOUS
  <2>3. i \in Int /\ j \in Int /\ m = end - i /\ m <= end - j
    BY <1>4, <2>1, <2>2
  <2> HIDE DEF T
  <2> QED
    BY <2>3
<1> QED
  BY <1>5

(* The position that decides about a name is one that names it.            *)
LEMMA Decides ==
  ASSUME NEW cells, NEW end \in Nat, NEW n, Naming(cells, end, n) # {},
         NEW i, i = CHOOSE k \in Naming(cells, end, n) : \A j \in Naming(cells, end, n) : j <= k
  PROVE  i \in Naming(cells, end, n) /\ \A j \in Naming(cells, end, n) : j <= i
<1>1. Naming(cells, end, n) \in SUBSET (3..end)
  BY DEF Naming
<1> QED
  BY <1>1, HasLast

(* What comes later changes nothing.                                       *)
LEMMA ToldStable ==
  ASSUME NEW cells, NEW end \in Nat, NEW more, \A i \in 3..end : more[i] = cells[i]
  PROVE  Told(more, end) = Told(cells, end)
<1>1. ASSUME NEW n \in SettingNames PROVE Told(more, end)[n] = Told(cells, end)[n]
  <2>1. Naming(more, end, n) = Naming(cells, end, n)
    BY DEF Naming
  <2>2. CASE Naming(cells, end, n) = {}
    BY <2>1, <2>2 DEF Told
  <2>3. CASE Naming(cells, end, n) # {}
    <3> DEFINE last == CHOOSE i \in Naming(cells, end, n) :
                         \A j \in Naming(cells, end, n) : j <= i
    <3>1. last \in Naming(cells, end, n)
      <4> HIDE DEF last
      <4>1. last = CHOOSE i \in Naming(cells, end, n) : \A j \in Naming(cells, end, n) : j <= i
        BY DEF last
      <4> QED
        BY <2>3, <4>1, Decides
    <3>2. more[last] = cells[last]
      BY <3>1 DEF Naming
    <3>3. Told(more, end)[n] = <<more[last].value>> /\ Told(cells, end)[n] = <<cells[last].value>>
      BY <2>1, <2>3 DEF Told
    <3> QED
      BY <3>2, <3>3
  <2> QED
    BY <2>2, <2>3
<1> QED
  BY <1>1 DEF Told

(* Reading one more setting is what SettingName::try_from and set_value do.*)
LEMMA ToldMore ==
  ASSUME NEW cells, NEW end \in Nat, end >= 2,
         cells[end + 1].kind = "setting", cells[end + 1].name \in Nat
  PROVE  Told(cells, end + 1) = Updated(Told(cells, end), cells[end + 1])
<1> DEFINE c == cells[end + 1]
           old == Told(cells, end)
           new == Updated(old, c)
<1>1. new = [n \in SettingNames |-> IF n = c.name THEN <<c.value>> ELSE old[n]]
  <2>1. old = [n \in SettingNames |-> old[n]]
    BY DEF Told
  <2> HIDE DEF old, c
  <2>2. c.kind = "setting"
    BY DEF c
  <2>3. CASE c.name \in SettingNames
    BY <2>1, <2>2, <2>3 DEF Updated
  <2>4. CASE c.name \notin SettingNames
    <3>1. new = old
      BY <2>4 DEF Updated
    <3> QED
      BY <2>1, <2>4, <3>1
  <2> QED
    BY <2>3, <2>4
<1>2. ASSUME NEW n \in SettingNames PROVE Told(cells, end + 1)[n] = new[n]
  <2>1. CASE n = c.name
    <3>1. end + 1 \in Naming(cells, end + 1, n)
      BY <2>1 DEF Naming
    <3> DEFINE last == CHOOSE i \in Naming(cells, end + 1, n) :
                         \A j \in Naming(cells, end + 1, n) : j <= i
    <3>2. last \in Naming(cells, end + 1, n) /\ \A j \in Naming(cells, end + 1, n) : j <= last
      <4> HIDE DEF last
      <4>1. last = CHOOSE i \in Naming(cells, end + 1, n) :
                     \A j \in Naming(cells, end + 1, n) : j <= i
        BY DEF last
      <4>2. end + 1 \in Nat /\ Naming(cells, end + 1, n) # {}
        BY <3>1
      <4> QED
        BY <4>1, <4>2, Decides
    <3>3. last = end + 1
      <4>1. last \in 3..(end + 1) /\ end + 1 <= last
        BY <3>1, <3>2 DEF Naming
      <4> QED
        BY <4>1
    <3>4. Told(cells, end + 1)[n] = <<cells[last].value>>
      BY <3>1 DEF Told
    <3> QED
      BY <1>1, <2>1, <3>3, <3>4
  <2>2. CASE n # c.name
    <3>1. Naming(cells, end + 1, n) = Naming(cells, end, n)
      BY <2>2 DEF Naming
    <3>2. CASE Naming(cells, end, n) = {}
      BY <1>1, <2>2, <3>1, <3>2 DEF Told
    <3>3. CASE Naming(cells, end, n) # {}
      <4> DEFINE last == CHOOSE i \in Naming(cells, end, n) :
                           \A j \in Naming(cells, end, n) : j <= i
      <4>1. old[n] = <<cells[last].value>>
        BY <3>3 DEF Told
      <4>2. Told(cells, end + 1)[n] = <<cells[last].value>>
        BY <3>1, <3>3 DEF Told
      <4> QED
        BY <1>1, <2>2, <4>1, <4>2
    <3> QED
      BY <3>2, <3>3
  <2> QED
    BY <2>1, <2>2
<1> QED
  BY <1>1, <1>2 DEF Told

LEMMA ToldNothing == ASSUME NEW cells PROVE Told(cells, 2) = Default
<1>1. \A n \in SettingNames : Naming(cells, 2, n) = {}
  BY DEF Naming
<1> QED
  BY <1>1 DEF Told, Default

LEMMA ValueType ==
  ASSUME NEW s, IsSettings(s), NEW n \in SettingNames
  PROVE  Value(s, n) \in Nat
BY DEF IsSettings, Value

LEMMA PartType ==
  ASSUME NEW s, IsSettings(s), NEW n \in SettingNames
  PROVE  Part(s, n) \in Seq(Written)
<1>1. Value(s, n) \in Nat
  BY ValueType
<1>2. [kind |-> "setting", name |-> n, value |-> Value(s, n)] \in Written
  BY <1>1 DEF Written
<1> QED
  BY <1>2 DEF Part

(* What the server writes of its settings is made of settings.             *)
LEMMA PayloadType ==
  ASSUME NEW s, IsSettings(s)
  PROVE  Payload(s) \in Seq(Written)
<1>1. {1, 2, 3, 4, 5, 6} \subseteq SettingNames
  BY DEF SettingNames
<1> QED
  BY <1>1, PartType, ConcatProperties DEF Payload
-----------------------------------------------------------------------------
(* The invariant.                                                          *)

LEMMA DefaultType == IsSettings(Default) /\ Default[MaxFrameSize] = <<MinFrame>>
<1>1. {DefaultTable, DefaultWindow, MinFrame} \subseteq Nat
  BY StartAssumption
<1>2. \A n \in SettingNames : Default[n] \in Seq(Nat) /\ Len(Default[n]) <= 1
  BY <1>1 DEF Default
<1>3. \A n \in SettingNames \ Optional : Default[n] # <<>>
  BY <1>1 DEF Default, SettingNames, Optional, HeaderTableSize, EnablePush,
     MaxConcurrentStreams, InitialWindowSize, MaxFrameSize, MaxHeaderListSize
<1>4. Default[MaxFrameSize] = <<MinFrame>>
  BY DEF Default, SettingNames, HeaderTableSize, EnablePush, InitialWindowSize, MaxFrameSize
<1> QED
  BY <1>2, <1>3, <1>4 DEF IsSettings, Default

LEMMA InitIInv == Init => IInv
<1> SUFFICES ASSUME Init PROVE IInv
  OBVIOUS
<1> USE DEF Init
<1>1. TypeOK
  <2>1. IsSettings(settings) /\ own \in Owns
    BY DefaultType
  <2>2. /\ sent \in Seq(Sendable) /\ wire \in Seq(Written)
        /\ Len(sent) = 0 /\ Len(ctx) = 0 /\ Len(next) = 0
    BY EmptySeq
  <2>3. next \in Seq([header : Headers, ok : BOOLEAN])
    BY EmptySeq
  <2>4. closed \in BOOLEAN
    OBVIOUS
  <2>5. at \in 0..Len(sent)
    BY <2>2
  <2> QED
    BY <2>1, <2>2, <2>3, <2>4, <2>5 DEF TypeOK
<1>2. ClientFrame /\ Reading /\ Answering /\ LimitOfClient
  BY DEF ClientFrame, Reading, Answering, LimitOfClient
<1> QED
  BY <1>1, <1>2 DEF IInv

(* A cell that is put behind those sent changes nothing of what they say.  *)
LEMMA Longer ==
  ASSUME NEW s \in Seq(Sendable), NEW c \in Sendable, NEW end \in Nat, end <= Len(s)
  PROVE  Told(Append(s, c), end) = Told(s, end)
<1> DEFINE v == Append(s, c)
<1>1. Len(s) \in Nat /\ \A i \in 1..Len(s) : v[i] = s[i]
  BY AppendProperties, LenProperties
<1> HIDE DEF v
<1>2. Told(v, end) = Told(s, end)
  <2>1. \A i \in 3..end : v[i] = s[i]
    BY <1>1
  <2> QED
    BY <2>1, ToldStable
<1> QED
  BY <1>2 DEF v

(* The length that a header announces, in settings.                        *)
LEMMA FrameLength ==
  ASSUME NEW cells, cells[2].len \in Nat
  PROVE  /\ FrameEnd(cells) \in Nat /\ FrameEnd(cells) >= 2
         /\ cells[2].len % 6 = 0 => 6 * (FrameEnd(cells) - 2) = cells[2].len
BY DEF FrameEnd

(* What the client sends behind leaves all that the server has read.       *)
LEMMA ClientKeeps ==
  ASSUME IInv, NEW c \in Sendable, sent' = Append(sent, c), due' \in Nat, ClientFrame',
         UNCHANGED <<closed, own, at, pc, left, settings, wire, contexts, ctx, next>>
  PROVE  IInv'
<1> DEFINE v == Append(sent, c)
<1>1. /\ sent \in Seq(Sendable) /\ at \in 0..Len(sent)
  BY DEF IInv, TypeOK
<1>2. /\ v \in Seq(Sendable)
      /\ Len(sent) \in Nat /\ Len(v) = Len(sent) + 1
      /\ \A i \in 1..Len(sent) : v[i] = sent[i]
      /\ \A end \in Nat : end <= Len(sent) => Told(v, end) = Told(sent, end)
  <2>1. /\ v \in Seq(Sendable)
        /\ Len(sent) \in Nat /\ Len(v) = Len(sent) + 1
        /\ \A i \in 1..Len(sent) : v[i] = sent[i]
    BY <1>1, AppendProperties, LenProperties
  <2>2. ASSUME NEW end \in Nat, end <= Len(sent) PROVE Told(v, end) = Told(sent, end)
    BY <1>1, <2>2, Longer
  <2> QED
    BY <2>1, <2>2
<1>3. sent' = v
  OBVIOUS
<1> HIDE DEF v
<1>4. TypeOK'
  BY <1>1, <1>2, <1>3 DEF IInv, TypeOK
<1>5. Len(sent) >= 2 => /\ v[2] = sent[2] /\ sent[2] \in Headers /\ sent[2].len \in Nat
                        /\ FrameEnd(v) = FrameEnd(sent)
                        /\ FrameEnd(sent) \in Nat /\ FrameEnd(sent) >= 2
  <2>1. Len(sent) >= 2 => sent[2] \in Headers /\ sent[2].len \in Nat
    BY StartAssumption DEF IInv, ClientFrame
  <2> QED
    BY <1>2, <2>1, FrameLength DEF FrameEnd
<1>6. Len(sent) >= 1 => v[1] = sent[1]
  BY <1>2
<1>7. Begun => Len(sent) >= 2 /\ Begun'
  BY <1>1, <1>2, <1>3, <1>5, <1>6 DEF Begun
<1>8. Complete(sent) => /\ Complete(v)
                        /\ Told(v, FrameEnd(v)) = Told(sent, FrameEnd(sent))
  BY <1>2, <1>5 DEF Complete
<1>9. Broke => Broke'
  <2>1. CASE sent # <<>> /\ ~sent[1].good
    <3>1. Len(sent) >= 1
      BY <1>1, <1>2, <2>1, EmptySeq
    <3> QED
      BY <1>2, <1>3, <1>6, <2>1, <3>1, EmptySeq DEF Broke
  <2>2. CASE Len(sent) >= 2 /\ (sent[2].len > Value(own, MaxFrameSize) \/ ~Acceptable(sent[2]))
    BY <1>2, <1>3, <1>5, <2>2 DEF Broke
  <2>3. CASE Complete(sent) /\ ~Valid(ToldByClient)
    BY <1>3, <1>8, <2>3 DEF Broke, ToldByClient
  <2> QED
    BY <2>1, <2>2, <2>3 DEF Broke
<1>10. Reading'
  <2>1. Reading /\ Answering
    BY DEF IInv
  <2>2. pc = "header" => sent'[1].good
    BY <1>1, <1>3, <1>6, <2>1 DEF Reading
  <2>3. pc = "settings" => Told(sent', at) = Told(sent, at)
    BY <1>1, <1>2, <1>3
  <2>4. pc = "settings" => sent'[2] = sent[2]
    BY <1>3, <1>5, <1>7, <2>1 DEF Reading
  <2>5. at >= 2 => FrameEnd(sent') = FrameEnd(sent)
    BY <1>1, <1>2, <1>3, <1>5
  <2>6. at \in Int
    BY <1>1
  <2> QED
    BY <1>7, <1>9, <2>1, <2>2, <2>3, <2>4, <2>5, <2>6 DEF Reading
<1>11. Checked => /\ Complete(sent) /\ Checked' /\ ToldByClient' = ToldByClient
  <2> SUFFICES ASSUME Checked PROVE Complete(sent) /\ Checked' /\ ToldByClient' = ToldByClient
    OBVIOUS
  <2>1. Len(sent) >= 2 /\ Begun' /\ at = FrameEnd(sent) + Len(next) /\ Len(next) \in Nat
    BY <1>7 DEF Checked, IInv, TypeOK
  <2>2. Complete(sent)
    BY <1>1, <1>2, <1>5, <2>1 DEF Complete
  <2>3. ToldByClient' = ToldByClient
    BY <1>3, <1>8, <2>2 DEF ToldByClient
  <2> QED
    BY <1>3, <1>5, <2>1, <2>2, <2>3 DEF Checked
<1>12. Answering'
  BY <1>11 DEF IInv, Answering
<1>13. LimitOfClient'
  <2>1. next # <<>> => Checked
    BY DEF IInv, Answering
  <2> QED
    BY <1>11, <2>1 DEF IInv, LimitOfClient
<1> QED
  BY <1>4, <1>10, <1>12, <1>13 DEF IInv

LEMMA SendPrefaceKeeps == IInv /\ SendPreface => IInv'
<1> SUFFICES ASSUME IInv, SendPreface PROVE IInv'
  OBVIOUS
<1>1. PICK good \in BOOLEAN : Put([kind |-> "preface", good |-> good])
  BY DEF SendPreface
<1> DEFINE c == [kind |-> "preface", good |-> good]
<1>2. sent = <<>> /\ sent' = Append(sent, c) /\ due' = due
  BY <1>1 DEF SendPreface, Put
<1>3. c \in Sendable
  BY DEF Sendable
<1>4. sent' = <<c>> /\ Len(sent) = 0
  BY <1>2
<1>5. ClientFrame'
  BY <1>2, <1>4 DEF IInv, ClientFrame
<1> HIDE DEF c
<1> QED
  BY <1>1, <1>2, <1>3, <1>5, ClientKeeps DEF Put, IInv, TypeOK, c

LEMMA DueType == \A h \in Headers : h.len \in Nat /\ SettingsDue(h) \in Nat
BY StartAssumption DEF SettingsDue

LEMMA SendHeaderKeeps == IInv /\ SendHeader => IInv'
<1> SUFFICES ASSUME IInv, SendHeader PROVE IInv'
  OBVIOUS
<1>1. PICK h \in Headers : Put(h) /\ due' = SettingsDue(h)
  BY DEF SendHeader
<1>2. sent # <<>> /\ due = 0 /\ sent' = Append(sent, h)
  BY <1>1 DEF SendHeader, Put
<1>3. h \in Sendable /\ due' \in Nat
  BY <1>1, DueType DEF Sendable
<1>4. sent \in Seq(Sendable) /\ ClientFrame
  BY DEF IInv, TypeOK
<1> DEFINE v == Append(sent, h)
<1>5. /\ Len(sent) \in Nat /\ Len(v) = Len(sent) + 1
      /\ \A i \in 1..Len(sent) : v[i] = sent[i]
      /\ v[Len(sent) + 1] = h
  BY <1>3, <1>4, AppendProperties, LenProperties
<1>6. Len(sent) >= 1
  BY <1>2, <1>4, <1>5, EmptySeq
<1>7. sent' = v
  BY <1>2
<1> HIDE DEF v
<1>8. ClientFrame'
  <2>1. v[1].kind = "preface"
    BY <1>4, <1>5, <1>6 DEF ClientFrame
  <2>2. CASE Len(sent) = 1
    <3>1. v[2] = h /\ Len(v) = 2 /\ Due(v) = SettingsDue(h) /\ SettingsDue(h) \in Nat
      BY <1>5, <2>2, DueType DEF Due
    <3> QED
      BY <1>1, <1>7, <2>1, <3>1 DEF ClientFrame
  <2>3. CASE Len(sent) >= 2
    <3>1. sent[2] \in Headers /\ v[2] = sent[2] /\ Due(v) = Due(sent) /\ Due(sent) \in Nat
      BY <1>4, <1>5, <2>3, DueType DEF ClientFrame, Due
    <3>2. Len(sent) >= 2 + Due(sent)
      BY <1>2, <1>4, <1>5, <2>3, <3>1 DEF ClientFrame
    <3>3. ASSUME NEW i \in 3..Len(v), i <= 2 + Due(v) PROVE v[i] \in Cells
      <4>1. i \in 3..Len(sent) /\ v[i] = sent[i]
        BY <1>5, <3>1, <3>2, <3>3
      <4> QED
        BY <1>4, <2>3, <3>1, <3>3, <4>1 DEF ClientFrame
    <3>4. v[3 + Due(v)] \in Headers
      <4>1. CASE Len(sent) = 2 + Due(sent)
        BY <1>5, <3>1, <4>1
      <4>2. CASE Len(sent) > 2 + Due(sent)
        <5>1. 3 + Due(sent) \in 1..Len(sent)
          BY <1>5, <3>1, <4>2
        <5> QED
          BY <1>4, <1>5, <2>3, <3>1, <4>2, <5>1 DEF ClientFrame
      <4> QED
        BY <1>5, <3>1, <3>2, <4>1, <4>2
    <3>5. Len(v) > 2 + Due(v) /\ Len(v) >= 2
      BY <1>5, <3>1, <3>2
    <3> QED
      BY <1>5, <1>7, <2>1, <3>1, <3>3, <3>4, <3>5 DEF ClientFrame
  <2> QED
    BY <1>5, <1>6, <2>2, <2>3
<1> QED
  BY <1>1, <1>2, <1>3, <1>8, ClientKeeps DEF Put

LEMMA SendSettingKeeps == IInv /\ SendSetting => IInv'
<1> SUFFICES ASSUME IInv, SendSetting PROVE IInv'
  OBVIOUS
<1>1. PICK c \in Cells : Put(c)
  BY DEF SendSetting
<1>2. due > 0 /\ due' = due - 1 /\ due \in Nat /\ sent' = Append(sent, c)
  BY <1>1 DEF SendSetting, Put, IInv, TypeOK
<1>3. c \in Sendable /\ due' \in Nat
  BY <1>2 DEF Sendable
<1>4. sent \in Seq(Sendable) /\ ClientFrame
  BY DEF IInv, TypeOK
<1> DEFINE v == Append(sent, c)
<1>5. /\ Len(sent) \in Nat /\ Len(v) = Len(sent) + 1
      /\ \A i \in 1..Len(sent) : v[i] = sent[i]
      /\ v[Len(sent) + 1] = c
  BY <1>3, <1>4, AppendProperties, LenProperties
<1>6. Len(sent) >= 2
  BY <1>2, <1>4, <1>5 DEF ClientFrame
<1>7. sent' = v
  BY <1>2
<1> HIDE DEF v
<1>8. ClientFrame'
  <2>1. v[1].kind = "preface"
    BY <1>4, <1>5, <1>6 DEF ClientFrame
  <2>2. sent[2] \in Headers /\ v[2] = sent[2] /\ Due(v) = Due(sent) /\ Due(sent) \in Nat
    BY <1>4, <1>5, <1>6, DueType DEF ClientFrame, Due
  <2>3. Len(v) <= 2 + Due(v) => due' = 2 + Due(v) - Len(v)
    BY <1>2, <1>4, <1>5, <1>6, <2>2 DEF ClientFrame
  <2>4. ASSUME NEW i \in 3..Len(v), i <= 2 + Due(v) PROVE v[i] \in Cells
    <3>1. CASE i = Len(sent) + 1
      BY <1>5, <3>1
    <3>2. CASE i <= Len(sent)
      <4>1. i \in 3..Len(sent) /\ v[i] = sent[i]
        BY <1>5, <3>2
      <4> QED
        BY <1>4, <1>6, <2>2, <2>4, <4>1 DEF ClientFrame
    <3> QED
      BY <1>5, <3>1, <3>2
  <2>5. Len(v) > 2 + Due(v) => v[3 + Due(v)] \in Headers
    <3> SUFFICES ASSUME Len(v) > 2 + Due(v) PROVE v[3 + Due(v)] \in Headers
      OBVIOUS
    <3>1. Len(sent) # 2 + Due(sent)
      BY <1>2, <1>4, <1>5, <1>6, <2>2 DEF ClientFrame
    <3>2. Len(sent) > 2 + Due(sent) /\ 3 + Due(sent) \in 1..Len(sent)
      BY <1>5, <2>2, <3>1
    <3> QED
      BY <1>4, <1>5, <1>6, <2>2, <3>2 DEF ClientFrame
  <2>6. Len(v) >= 2
    BY <1>5, <1>6
  <2> QED
    BY <1>5, <1>7, <2>1, <2>2, <2>3, <2>4, <2>5, <2>6 DEF ClientFrame
<1> QED
  BY <1>1, <1>2, <1>3, <1>8, ClientKeeps DEF Put
-----------------------------------------------------------------------------
(* The steps of the server, which leave the client's part alone.           *)

LEMMA ClientFrameStays == ClientFrame /\ UNCHANGED client => ClientFrame'
BY DEF ClientFrame, client

LEMMA CloseKeeps == IInv /\ Close => IInv'
BY DEF IInv, Close, TypeOK, ClientFrame, Reading, Answering, Checked, Begun, Broke, LimitOfClient,
   ToldByClient

LEMMA ReadPrefaceKeeps == IInv /\ ReadPreface => IInv'
<1> SUFFICES ASSUME IInv, ReadPreface PROVE IInv'
  OBVIOUS
<1> USE DEF ReadPreface, Take, Refuse, client
<1>1. at = 0 /\ at' = 1 /\ settings = Default /\ wire = <<>> /\ Len(sent) \in Nat /\ Len(sent) >= 1
  BY LenProperties DEF IInv, Reading, Answering, TypeOK
<1>2. sent[1] \in [kind : {"preface"}, good : BOOLEAN]
  <2>1. sent[1] \in Sendable
    BY <1>1 DEF IInv, TypeOK
  <2>2. sent[1].kind = "preface"
    BY <1>1 DEF IInv, ClientFrame
  <2>3. sent[1] \notin Headers /\ sent[1] \notin Cells
    BY <2>2, StartAssumption
  <2> QED
    BY <2>1, <2>3 DEF Sendable
<1>3. TypeOK'
  BY <1>1 DEF IInv, TypeOK
<1>4. CASE sent[1] = [kind |-> "preface", good |-> TRUE]
  <2>1. pc' = "header" /\ sent[1].good
    BY <1>1, <1>4
  <2>2. Reading' /\ Answering' /\ LimitOfClient'
    BY <1>1, <2>1 DEF IInv, Reading, Answering, LimitOfClient
  <2> QED
    BY <1>3, <2>2, ClientFrameStays DEF IInv
<1>5. CASE sent[1] # [kind |-> "preface", good |-> TRUE]
  <2>1. pc' = "refused" /\ sent # <<>> /\ ~sent[1].good
    <3>1. PICK b \in BOOLEAN : sent[1] = [kind |-> "preface", good |-> b]
      BY <1>2
    <3>2. b = FALSE
      <4>1. CASE b = TRUE
        BY <1>5, <3>1, <4>1
      <4> QED
        BY <4>1
    <3>3. sent[1].good = FALSE
      <4>1. sent[1] = [kind |-> "preface", good |-> FALSE]
        BY <3>1, <3>2
      <4> QED
        BY <4>1
    <3>4. pc' = "refused"
      BY <1>1, <1>5
    <3>5. sent # <<>>
      BY <1>1
    <3> QED
      BY <3>3, <3>4, <3>5
  <2>2. Broke'
    BY <2>1 DEF Broke
  <2>3. Reading' /\ Answering' /\ LimitOfClient'
    BY <1>1, <2>1, <2>2 DEF IInv, Reading, Answering, LimitOfClient
  <2> QED
    BY <1>3, <2>3, ClientFrameStays DEF IInv
<1> QED
  BY <1>4, <1>5

LEMMA ReadHeaderKeeps == IInv /\ ReadHeader => IInv'
<1> SUFFICES ASSUME IInv, ReadHeader PROVE IInv'
  OBVIOUS
<1> USE DEF ReadHeader, Take, Refuse, client
<1>1. /\ at = 1 /\ at' = 2 /\ settings = Default /\ wire = <<>> /\ sent[1].good
      /\ Len(sent) \in Nat /\ Len(sent) >= 2
  BY LenProperties DEF IInv, Reading, Answering, TypeOK
<1>2. sent[2] \in Headers /\ sent[2].len \in Nat
  BY <1>1, StartAssumption DEF IInv, ClientFrame
<1>3. TypeOK'
  BY <1>1, <1>2 DEF IInv, TypeOK
<1>4. Value(own, MaxFrameSize) \in Nat
  BY StartAssumption, ValueType DEF IInv, TypeOK, MaxFrameSize, SettingNames
<1>5. CASE ~TooLarge(sent[2], own) /\ Acceptable(sent[2])
  <2>1. pc' = "settings" /\ left' = sent[2].len
    BY <1>1, <1>5
  <2>2. Begun'
    BY <1>1, <1>2, <1>4, <1>5 DEF Begun, TooLarge
  <2>3. settings' = Told(sent', at')
    BY <1>1, ToldNothing
  <2>4. Reading' /\ Answering' /\ LimitOfClient'
    BY <1>1, <1>2, <2>1, <2>2, <2>3 DEF IInv, Reading, Answering, LimitOfClient
  <2> QED
    BY <1>3, <2>4, ClientFrameStays DEF IInv
<1>6. CASE TooLarge(sent[2], own) \/ ~Acceptable(sent[2])
  <2>1. pc' = "refused"
    BY <1>1, <1>6
  <2>2. Broke'
    BY <1>1, <1>2, <1>4, <1>6 DEF Broke, TooLarge
  <2>3. Reading' /\ Answering' /\ LimitOfClient'
    BY <1>1, <2>1, <2>2 DEF IInv, Reading, Answering, LimitOfClient
  <2> QED
    BY <1>3, <2>3, ClientFrameStays DEF IInv
<1> QED
  BY <1>5, <1>6

(* What the counters say of the frame while it is read.                    *)
LEMMA InFrame ==
  ASSUME IInv, pc = "settings"
  PROVE  /\ Begun /\ at \in Nat /\ left \in Nat /\ Len(sent) \in Nat /\ at <= Len(sent)
         /\ sent[2] \in Headers /\ sent[2].len \in Nat
         /\ FrameEnd(sent) \in Nat /\ 6 * (FrameEnd(sent) - at) = left
         /\ Due(sent) = FrameEnd(sent) - 2
         /\ wire = <<>> /\ next = <<>> /\ ctx = <<>> /\ contexts = 0
<1>1. Begun /\ left + 6 * (at - 2) = sent[2].len
  BY DEF IInv, Reading
<1>2. at \in Nat /\ left \in Nat /\ Len(sent) \in Nat /\ at <= Len(sent)
  BY LenProperties DEF IInv, TypeOK
<1>3. Len(sent) >= 2
  BY <1>1, <1>2 DEF Begun
<1>4. sent[2] \in Headers /\ sent[2].len \in Nat
  BY <1>3, DueType DEF IInv, ClientFrame
<1>5. sent[2].len % 6 = 0 /\ sent[2].settings
  BY <1>1 DEF Begun, Acceptable
<1>6. /\ FrameEnd(sent) \in Nat
      /\ 6 * (FrameEnd(sent) - 2) = sent[2].len
  BY <1>4, <1>5, FrameLength
<1>7. Due(sent) = FrameEnd(sent) - 2
  <2>1. Due(sent) = sent[2].len \div 6
    BY <1>5 DEF Due, SettingsDue
  <2>2. sent[2].len \div 6 \in Nat
    BY <1>4
  <2> QED
    BY <2>1, <2>2 DEF FrameEnd
<1>8. 6 * (FrameEnd(sent) - at) = left
  BY <1>1, <1>2, <1>4, <1>6
<1> QED
  BY <1>1, <1>2, <1>4, <1>6, <1>7, <1>8 DEF IInv, Answering

LEMMA ReadSettingKeeps == IInv /\ ReadSetting => IInv'
<1> SUFFICES ASSUME IInv, ReadSetting PROVE IInv'
  OBVIOUS
<1> DEFINE c == sent[at + 1]
<1>1. /\ pc = "settings" /\ left > 0 /\ at < Len(sent) /\ at' = at + 1 /\ left' = left - 6
      /\ settings' = Updated(settings, c) /\ pc' = "settings"
      /\ UNCHANGED <<own, client, wire, contexts, ctx, next>>
  BY DEF ReadSetting, Take
<1>2. /\ Begun /\ at \in Nat /\ left \in Nat /\ Len(sent) \in Nat
      /\ sent[2].len \in Nat
      /\ FrameEnd(sent) \in Nat /\ 6 * (FrameEnd(sent) - at) = left
      /\ Due(sent) = FrameEnd(sent) - 2
      /\ wire = <<>> /\ next = <<>> /\ ctx = <<>> /\ contexts = 0
  BY <1>1, InFrame
<1>3. at >= 2 /\ settings = Told(sent, at) /\ left + 6 * (at - 2) = sent[2].len
  BY <1>1 DEF IInv, Reading, Begun
<1>4. at + 1 <= FrameEnd(sent) /\ left >= 6
  BY <1>1, <1>2
<1>5. c \in Cells
  <2>1. at + 1 \in 3..Len(sent) /\ at + 1 <= 2 + Due(sent) /\ Len(sent) >= 2
    BY <1>1, <1>2, <1>3, <1>4
  <2> QED
    BY <2>1 DEF IInv, ClientFrame
<1>6. c.kind = "setting" /\ c.name \in Nat /\ c.value \in Nat
  BY <1>5, StartAssumption
<1>7. IsSettings(settings')
  <2> HIDE DEF c
  <2>1. IsSettings(settings)
    BY DEF IInv, TypeOK
  <2>2. <<c.value>> \in Seq(Nat) /\ Len(<<c.value>>) = 1 /\ <<c.value>> # <<>>
    BY <1>6
  <2> QED
    BY <1>1, <1>6, <2>1, <2>2 DEF IsSettings, Updated
<1>8. settings' = Told(sent, at + 1)
  BY <1>1, <1>2, <1>3, <1>6, ToldMore
<1>9. TypeOK'
  <2>1. at' \in 0..Len(sent) /\ left' \in Nat /\ sent' = sent
    BY <1>1, <1>2, <1>4 DEF client
  <2> QED
    BY <1>1, <1>2, <1>7, <2>1 DEF IInv, TypeOK, client
<1>10. Begun'
  BY <1>1, <1>2, <1>3 DEF Begun, client
<1>11. left' + 6 * (at' - 2) = sent[2].len
  BY <1>1, <1>2, <1>3, SMTT(30)
<1>12. Reading' /\ Answering' /\ LimitOfClient'
  BY <1>1, <1>2, <1>8, <1>10, <1>11 DEF IInv, Reading, Answering, LimitOfClient, client
<1> QED
  BY <1>1, <1>9, <1>12, ClientFrameStays DEF IInv

LEMMA CheckSettingsKeeps == IInv /\ CheckSettings => IInv'
<1> SUFFICES ASSUME IInv, CheckSettings PROVE IInv'
  OBVIOUS
<1> USE DEF CheckSettings, Refuse, client
<1>1. /\ Begun /\ at \in Nat /\ Len(sent) \in Nat /\ at <= Len(sent)
      /\ FrameEnd(sent) \in Nat /\ 6 * (FrameEnd(sent) - at) = 0
      /\ wire = <<>> /\ next = <<>> /\ ctx = <<>> /\ contexts = 0
  BY InFrame
<1>2. at = FrameEnd(sent) /\ at >= 2
  BY <1>1 DEF Begun
<1>3. settings = ToldByClient /\ Complete(sent)
  BY <1>1, <1>2 DEF IInv, Reading, ToldByClient, Complete
<1>4. TypeOK'
  BY DEF IInv, TypeOK
<1>5. CASE Valid(settings)
  <2>1. pc' = "ack"
    BY <1>5
  <2>2. Checked'
    BY <1>1, <1>2, <1>3, <1>5 DEF Checked, Begun, ToldByClient
  <2>3. Reading' /\ Answering' /\ LimitOfClient'
    BY <1>1, <1>3, <2>1, <2>2 DEF Reading, Answering, LimitOfClient, ToldByClient
  <2> QED
    BY <1>4, <2>3, ClientFrameStays DEF IInv
<1>6. CASE ~Valid(settings)
  <2>1. pc' = "refused"
    BY <1>6
  <2>2. Broke'
    BY <1>3, <1>6 DEF Broke, ToldByClient
  <2>3. Reading' /\ Answering' /\ LimitOfClient'
    BY <1>1, <1>2, <2>1, <2>2 DEF Reading, Answering, LimitOfClient
  <2> QED
    BY <1>4, <2>3, ClientFrameStays DEF IInv
<1> QED
  BY <1>5, <1>6

LEMMA ReadFailsKeeps == IInv /\ ReadFails => IInv'
<1> SUFFICES ASSUME IInv, ReadFails PROVE IInv'
  OBVIOUS
<1> USE DEF ReadFails, client
<1>1. pc' = "broken" /\ pc \in {"preface", "header", "settings"}
  OBVIOUS
<1>2. at >= 2 => at <= FrameEnd(sent)
  <2>1. CASE pc \in {"preface", "header"}
    BY <2>1 DEF IInv, Reading
  <2>2. CASE pc = "settings"
    <3>1. at \in Nat /\ left \in Nat /\ FrameEnd(sent) \in Nat /\ 6 * (FrameEnd(sent) - at) = left
      BY <2>2, InFrame
    <3> QED
      BY <3>1
  <2> QED
    BY <1>1, <2>1, <2>2
<1>3. TypeOK'
  BY <1>1 DEF IInv, TypeOK
<1>4. Reading' /\ Answering' /\ LimitOfClient'
  BY <1>1, <1>2 DEF IInv, Reading, Answering, LimitOfClient
<1> QED
  BY <1>3, <1>4, ClientFrameStays DEF IInv

LEMMA WriteAckKeeps == IInv /\ WriteAck => IInv'
<1> SUFFICES ASSUME IInv, WriteAck PROVE IInv'
  OBVIOUS
<1> USE DEF WriteAck, client
<1>1. Ack \in Written
  BY DEF Ack, Written
<1>2. wire' = <<Ack>> /\ Checked
  BY DEF IInv, Answering
<1>3. TypeOK'
  BY <1>1 DEF IInv, TypeOK
<1>4. Checked'
  BY <1>2 DEF Checked, Begun, ToldByClient
<1>5. wire'[1] = Ack /\ wire' # <<>>
  BY <1>2
<1>6. Reading' /\ Answering' /\ LimitOfClient'
  BY <1>4, <1>5 DEF IInv, Reading, Answering, LimitOfClient, ToldByClient
<1> QED
  BY <1>3, <1>6, ClientFrameStays DEF IInv

(* Writing more leaves the first cell.                                     *)
LEMMA FirstStays ==
  ASSUME NEW w \in Seq(Written), w # <<>>, NEW more \in Seq(Written)
  PROVE  w \o more \in Seq(Written) /\ w \o more # <<>> /\ (w \o more)[1] = w[1]
<1>1. Len(w) \in Nat /\ Len(w) >= 1 /\ Len(more) \in Nat
  BY LenProperties, EmptySeq
<1>2. /\ w \o more \in Seq(Written) /\ Len(w \o more) = Len(w) + Len(more)
      /\ \A i \in 1..(Len(w) + Len(more)) :
           (w \o more)[i] = IF i <= Len(w) THEN w[i] ELSE more[i - Len(w)]
  BY ConcatProperties
<1>3. 1 \in 1..(Len(w) + Len(more))
  BY <1>1
<1>4. w \o more # <<>>
  BY <1>1, <1>2, EmptySeq
<1> QED
  BY <1>1, <1>2, <1>3, <1>4

LEMMA WriteSizeKeeps == IInv /\ WriteSize => IInv'
<1> SUFFICES ASSUME IInv, WriteSize PROVE IInv'
  OBVIOUS
<1> USE DEF WriteSize, client
<1> DEFINE h == FrameOf(6 * Len(Payload(own)))
<1>1. Payload(own) \in Seq(Written)
  BY PayloadType, StartAssumption DEF IInv, TypeOK
<1>2. h \in Written
  BY <1>1, LenProperties DEF FrameOf, Written
<1>3. wire \in Seq(Written) /\ wire # <<>> /\ wire[1] = Ack /\ Checked
  BY DEF IInv, TypeOK, Answering
<1>4. wire' = wire \o <<h>>
  BY <1>2, <1>3, AppendIsConcat
<1>5. <<h>> \in Seq(Written)
  BY <1>2
<1>6. wire' \in Seq(Written) /\ wire' # <<>> /\ wire'[1] = Ack
  <2> HIDE DEF h
  <2> QED
    BY <1>3, <1>4, <1>5, FirstStays
<1>7. TypeOK'
  BY <1>6 DEF IInv, TypeOK
<1>8. Checked'
  BY <1>3 DEF Checked, Begun, ToldByClient
<1>9. Reading' /\ Answering' /\ LimitOfClient'
  BY <1>6, <1>8 DEF IInv, Reading, Answering, LimitOfClient, ToldByClient
<1> QED
  BY <1>7, <1>9, ClientFrameStays DEF IInv

LEMMA WriteSettingsKeeps == IInv /\ WriteSettings => IInv'
<1> SUFFICES ASSUME IInv, WriteSettings PROVE IInv'
  OBVIOUS
<1> USE DEF WriteSettings, client
<1> DEFINE new == [settings |-> settings, table |-> Value(own, HeaderTableSize)]
<1>1. Payload(own) \in Seq(Written)
  BY PayloadType, StartAssumption DEF IInv, TypeOK
<1>2. wire \in Seq(Written) /\ wire # <<>> /\ wire[1] = Ack /\ Checked /\ settings = ToldByClient
  BY DEF IInv, TypeOK, Answering
<1>3. wire' \in Seq(Written) /\ wire' # <<>> /\ wire'[1] = Ack
  BY <1>1, <1>2, FirstStays
<1>4. Value(own, HeaderTableSize) \in Nat
  BY StartAssumption, ValueType, SMTT(30) DEF IInv, TypeOK, HeaderTableSize, SettingNames
<1>5. ctx' = <<new>> /\ Len(ctx') = 1 /\ ctx'[1] = new /\ next = <<>> /\ contexts' = 1
  BY DEF IInv, Answering
<1>6. new.settings = settings /\ new.table \in Nat
  BY <1>4
<1>7. Valid(settings) /\ IsSettings(settings)
  BY <1>2 DEF Checked, IInv, TypeOK
<1> HIDE DEF new
<1>8. TypeOK'
  <2>1. IsSettings(ctx'[1].settings) /\ Valid(ctx'[1].settings) /\ ctx'[1].table \in Nat
    BY <1>5, <1>6, <1>7
  <2>2. Len(ctx') <= 1 /\ contexts' \in Nat
    BY <1>5
  <2> QED
    BY <1>3, <2>1, <2>2 DEF IInv, TypeOK
<1>9. Checked'
  BY <1>2 DEF Checked, Begun, ToldByClient
<1>10. Reading' /\ Answering' /\ LimitOfClient'
  BY <1>2, <1>3, <1>5, <1>6, <1>9 DEF IInv, Reading, Answering, LimitOfClient, ToldByClient
<1> QED
  BY <1>8, <1>10, ClientFrameStays DEF IInv

LEMMA WriteFailsKeeps == IInv /\ WriteFails => IInv'
<1> SUFFICES ASSUME IInv, WriteFails PROVE IInv'
  OBVIOUS
<1> USE DEF WriteFails, client
<1>1. /\ pc \in {"ack", "size", "values"} /\ pc' = "broken" /\ next = <<>>
      /\ UNCHANGED <<own, sent, due, closed, at, left, settings, contexts, ctx, next>>
  BY DEF IInv, Answering
<1>2. Checked
  BY <1>1 DEF IInv, Answering
<1>3. wire' \in Seq(Written) /\ (wire' # <<>> => wire'[1] = Ack)
  <2>1. wire \in Seq(Written) /\ (wire # <<>> => wire[1] = Ack)
    BY DEF IInv, TypeOK, Answering
  <2>2. CASE pc = "values"
    <3>1. PICK k \in 0..(Len(Payload(own)) - 1) : wire' = wire \o SubSeq(Payload(own), 1, k)
      BY <2>2
    <3>2. Payload(own) \in Seq(Written)
      BY PayloadType, StartAssumption DEF IInv, TypeOK
    <3>3. SubSeq(Payload(own), 1, k) \in Seq(Written)
      <4>1. k \in 0..Len(Payload(own))
        BY <3>2, LenProperties
      <4> QED
        BY <3>2, <4>1, SubSeqProperties
    <3>4. wire # <<>>
      BY <2>2 DEF IInv, Answering
    <3> QED
      BY <2>1, <3>1, <3>3, <3>4, FirstStays
  <2>3. CASE pc # "values"
    BY <2>1, <2>3
  <2> QED
    BY <2>2, <2>3
<1>4. TypeOK'
  BY <1>1, <1>3 DEF IInv, TypeOK
<1>5. Checked'
  BY <1>1, <1>2 DEF Checked, Begun, ToldByClient
<1>6. at <= FrameEnd(sent)
  <2>1. at \in Nat /\ at = FrameEnd(sent) + Len(next) /\ Len(next) = 0
    BY <1>1, <1>2 DEF Checked, IInv, TypeOK
  <2>2. sent[2].len \in Nat
    <3>1. Len(sent) >= 2
      BY <1>2, LenProperties DEF Checked, Begun, IInv, TypeOK
    <3> QED
      BY <3>1, DueType DEF IInv, ClientFrame
  <2> QED
    BY <2>1, <2>2, FrameLength
<1>7. Reading' /\ Answering' /\ LimitOfClient'
  BY <1>1, <1>3, <1>5, <1>6 DEF IInv, Reading, Answering, LimitOfClient
<1> QED
  BY <1>1, <1>4, <1>7, ClientFrameStays DEF IInv

LEMMA ReadNextKeeps == IInv /\ ReadNext => IInv'
<1> SUFFICES ASSUME IInv, ReadNext PROVE IInv'
  OBVIOUS
<1> USE DEF ReadNext, Take, client
<1> DEFINE answer == [header |-> sent[at + 1], ok |-> ~TooLarge(sent[at + 1], ctx[1].settings)]
<1>1. Checked /\ ctx[1].settings = ToldByClient /\ next = <<>> /\ pc = "started"
  BY DEF IInv, Answering
<1>2. Len(sent) \in Nat /\ at \in Nat /\ at <= Len(sent) /\ at >= 2
  BY <1>1, LenProperties DEF IInv, TypeOK, Checked, Begun
<1>3. sent[2] \in Headers /\ sent[2].len \in Nat /\ sent[2].settings
  BY <1>1, <1>2, DueType DEF IInv, ClientFrame, Checked, Begun, Acceptable
<1>4. at = FrameEnd(sent) /\ FrameEnd(sent) \in Nat /\ Due(sent) = FrameEnd(sent) - 2
  <2>1. Due(sent) = sent[2].len \div 6 /\ sent[2].len \div 6 \in Nat
    BY <1>3 DEF Due, SettingsDue
  <2>2. FrameEnd(sent) = Due(sent) + 2
    BY <2>1 DEF FrameEnd
  <2>3. at = FrameEnd(sent) + Len(next) /\ Len(next) = 0
    BY <1>1 DEF Checked
  <2> QED
    BY <2>1, <2>2, <2>3
<1>5. sent[at + 1] \in Headers
  <2>1. Len(sent) > 2 + Due(sent) /\ at + 1 = 3 + Due(sent)
    BY <1>2, <1>4
  <2> QED
    BY <1>2, <2>1 DEF IInv, ClientFrame
<1>6. answer \in [header : Headers, ok : BOOLEAN]
  BY <1>5
<1>7. /\ next' = <<answer>> /\ Len(next') = 1 /\ next'[1] = answer /\ at' = at + 1
      /\ answer.header = sent[at + 1] /\ answer.header.len \in Nat
      /\ answer.ok = ~TooLarge(sent[at + 1], ctx[1].settings)
  BY <1>5, DueType
<1>8. TypeOK'
  <2>1. next' \in Seq([header : Headers, ok : BOOLEAN])
    <3> HIDE DEF answer
    <3> QED
      BY <1>6, <1>7
  <2>2. at' \in 0..Len(sent') /\ Len(next') <= 1
    BY <1>2, <1>7
  <2> QED
    BY <2>1, <2>2 DEF IInv, TypeOK
<1> HIDE DEF answer
<1>9. at' >= 2 /\ at' = FrameEnd(sent) + Len(next') /\ next' # <<>>
  BY <1>2, <1>4, <1>7
<1>10. Checked'
  BY <1>1, <1>9 DEF Checked, Begun, ToldByClient
<1>11. Value(ToldByClient, MaxFrameSize) \in Nat
  <2>1. IsSettings(ToldByClient)
    BY <1>1 DEF IInv, TypeOK, Answering
  <2> QED
    BY <2>1, ValueType DEF MaxFrameSize, SettingNames
<1>12. LimitOfClient'
  <2>1. answer.ok <=> answer.header.len <= Value(ToldByClient, MaxFrameSize)
    <3>1. answer.ok = ~TooLarge(answer.header, ToldByClient)
      BY <1>1, <1>7
    <3>2. TooLarge(answer.header, ToldByClient)
            <=> ~(answer.header.len <= Value(ToldByClient, MaxFrameSize))
      BY <1>7, <1>11 DEF TooLarge
    <3> QED
      BY <3>1, <3>2
  <2> QED
    BY <1>7, <2>1 DEF LimitOfClient, ToldByClient
<1>13. Reading' /\ Answering'
  BY <1>1, <1>9, <1>10 DEF IInv, Reading, Answering, ToldByClient
<1> QED
  BY <1>8, <1>12, <1>13, ClientFrameStays DEF IInv
-----------------------------------------------------------------------------
(* The theorems.                                                           *)

LEMMA NextIInv == IInv /\ [Next]_vars => IInv'
<1> SUFFICES ASSUME IInv, [Next]_vars PROVE IInv'
  OBVIOUS
<1>1. CASE Client
  BY <1>1, SendPrefaceKeeps, SendHeaderKeeps, SendSettingKeeps, CloseKeeps DEF Client
<1>2. CASE Server
  BY <1>2, ReadPrefaceKeeps, ReadHeaderKeeps, ReadSettingKeeps, ReadFailsKeeps, ReadNextKeeps,
     CheckSettingsKeeps, WriteAckKeeps, WriteSizeKeeps, WriteSettingsKeeps, WriteFailsKeeps
     DEF Server, Reads, Writes
<1>3. CASE UNCHANGED vars
  BY <1>3 DEF vars, client, IInv, TypeOK, ClientFrame, Reading, Answering, Checked, Begun, Broke,
     LimitOfClient, ToldByClient
<1> QED
  BY <1>1, <1>2, <1>3 DEF Next

(* The invariant holds in every state of every behaviour: what the server  *)
(* has read, what it has written and what it has made of it agree.         *)
THEOREM AlwaysIInv == Spec => []IInv
BY InitIInv, NextIInv, PTL DEF Spec

(* Whatever the client sends, the state keeps its types, and a context     *)
(* only ever has settings in their ranges.                                 *)
THEOREM StartTypeCorrect == Spec => []TypeOK
<1>1. IInv => TypeOK
  BY DEF IInv
<1> QED
  BY <1>1, AlwaysIInv, PTL

(* The start of a connection consumes the client's preface and SETTINGS    *)
(* frame and nothing behind them, whatever the frame announces.            *)
THEOREM NeverOverreads == Spec => []NoOverread
<1>1. IInv => NoOverread
  <2> SUFFICES ASSUME IInv PROVE NoOverread
    OBVIOUS
  <2>1. at \in Nat /\ Len(next) \in Nat /\ Len(sent) \in Nat /\ at <= Len(sent)
    BY LenProperties DEF IInv, TypeOK
  <2>2. pc = "started" => at = FrameEnd(sent) + Len(next)
    BY DEF IInv, Answering, Checked
  <2>3. ASSUME at > 2 PROVE at <= FrameEnd(sent) + Len(next)
    <3>1. sent[2].len \in Nat
      BY <2>1, <2>3, DueType DEF IInv, ClientFrame
    <3>2. FrameEnd(sent) \in Nat
      BY <3>1, FrameLength
    <3>3. CASE pc \in {"preface", "header"}
      BY <2>1, <2>3, <3>3 DEF IInv, Reading
    <3>4. CASE pc = "settings"
      <4>1. 6 * (FrameEnd(sent) - at) = left /\ left \in Nat
        BY <3>4, InFrame
      <4> QED
        BY <2>1, <3>2, <4>1
    <3>5. CASE pc \in {"ack", "size", "values", "started"}
      BY <2>1, <3>2, <3>5 DEF IInv, Answering, Checked
    <3>6. CASE pc \in {"refused", "broken"}
      <4>1. at <= FrameEnd(sent)
        BY <2>1, <2>3, <3>6 DEF IInv, Reading
      <4> QED
        BY <2>1, <3>2, <4>1
    <3> QED
      BY <3>3, <3>4, <3>5, <3>6 DEF IInv, TypeOK
  <2> QED
    BY <2>2, <2>3 DEF NoOverread
<1> QED
  BY <1>1, AlwaysIInv, PTL

(* A start is refused only to a client that broke a rule, and the server   *)
(* writes nothing before a client has sent all of its settings and they    *)
(* were found good.                                                        *)
THEOREM RightlyJudged == Spec => []Judged
<1>1. IInv => Judged
  <2> SUFFICES ASSUME IInv PROVE Judged
    OBVIOUS
  <2>1. pc = "refused" => Broke
    BY DEF IInv, Reading
  <2>2. ASSUME wire # <<>> PROVE ~Broke /\ Complete(sent) /\ wire[1] = Ack
    <3>1. Checked /\ wire[1] = Ack
      BY <2>2 DEF IInv, Answering
    <3>2. at \in Nat /\ Len(next) \in Nat /\ Len(sent) \in Nat /\ at <= Len(sent)
      BY LenProperties DEF IInv, TypeOK
    <3>3. Len(sent) >= 2
      BY <3>1, <3>2 DEF Checked, Begun
    <3>4. sent[2].len \in Nat /\ FrameEnd(sent) \in Nat
      <4>1. sent[2].len \in Nat
        BY <3>3, DueType DEF IInv, ClientFrame
      <4> QED
        BY <4>1, FrameLength
    <3>5. Complete(sent)
      BY <3>1, <3>2, <3>3, <3>4 DEF Complete, Checked
    <3>6. Value(own, MaxFrameSize) \in Nat
      BY StartAssumption, ValueType DEF IInv, TypeOK, MaxFrameSize, SettingNames
    <3>7. ~Broke
      BY <3>1, <3>4, <3>6 DEF Broke, Checked, Begun
    <3> QED
      BY <3>1, <3>5, <3>7
  <2> QED
    BY <2>1, <2>2 DEF Judged
<1> QED
  BY <1>1, AlwaysIInv, PTL

(* After the start, a frame header is accepted just if its length is       *)
(* within the limit that the client has announced for itself.              *)
THEOREM LimitIsOfClient == Spec => []LimitOfClient
<1>1. IInv => LimitOfClient
  BY DEF IInv
<1> QED
  BY <1>1, AlwaysIInv, PTL
-----------------------------------------------------------------------------
(* What the client is told.                                                *)

LEMMA OneValue ==
  ASSUME NEW q \in Seq(Nat), Len(q) <= 1, q # <<>>
  PROVE  q = <<q[1]>>
<1> DEFINE m == Len(q)
<1>1. m \in Nat \ {0} /\ m <= 1
  BY EmptySeq
<1>2. Len(q) = 1
  <2> HIDE DEF m
  <2>1. m = 1
    BY <1>1
  <2> QED
    BY <2>1 DEF m
<1> QED
  BY <1>2, LenProperties

LEMMA Regroup ==
  ASSUME NEW p \in Seq(Written), NEW q \in Seq(Written), NEW r \in Seq(Written)
  PROVE  p \o (q \o r) = (p \o q) \o r /\ q \o r \in Seq(Written)
BY ConcatAssociative, ConcatProperties

LEMMA AppendSecond ==
  ASSUME NEW a \in Written, NEW b \in Written
  PROVE  Append(<<a>>, b) = <<a, b>>
<1>1. <<a>> \in Seq(Written) /\ Len(<<a>>) = 1 /\ <<a>>[1] = a
  OBVIOUS
<1>2. /\ Append(<<a>>, b) \in Seq(Written) /\ Len(Append(<<a>>, b)) = 2
      /\ Append(<<a>>, b)[1] = a /\ Append(<<a>>, b)[2] = b
  BY <1>1, AppendProperties
<1>3. <<a, b>> \in Seq(Written) /\ Len(<<a, b>>) = 2 /\ <<a, b>>[1] = a /\ <<a, b>>[2] = b
  OBVIOUS
<1>4. \A i \in 1..2 : Append(<<a>>, b)[i] = <<a, b>>[i]
  <2>1. \A i \in 1..2 : i = 1 \/ i = 2
    OBVIOUS
  <2> QED
    BY <1>2, <1>3, <2>1
<1> QED
  BY <1>2, <1>3, <1>4, SeqEqual

(* One part of the payload tells one setting: that which is not sent is    *)
(* the default of its name.                                                *)
LEMMA PartTold ==
  ASSUME NEW w \in Seq(Written), Len(w) >= 2, NEW s, IsSettings(s), NEW n \in SettingNames,
         Told(w, Len(w))[n] = Default[n]
  PROVE  LET v == w \o Part(s, n)
         IN  /\ v \in Seq(Written) /\ Len(v) >= 2 /\ v[1] = w[1] /\ v[2] = w[2]
             /\ \A m \in SettingNames :
                  Told(v, Len(v))[m] = IF m = n THEN s[n] ELSE Told(w, Len(w))[m]
<1> DEFINE v == w \o Part(s, n)
<1> DEFINE told == Told(w, Len(w))
<1>1. Len(w) \in Nat /\ told = [m \in SettingNames |-> told[m]]
  BY LenProperties DEF Told
<1>2. CASE s[n] = Default[n]
  <2>1. v = w
    BY <1>2, ConcatEmptySeq DEF Part
  <2> QED
    BY <1>1, <1>2, <2>1
<1>3. CASE s[n] # Default[n]
  <2> DEFINE c == [kind |-> "setting", name |-> n, value |-> Value(s, n)]
  <2>1. c \in Written /\ c.kind = "setting" /\ c.name = n /\ c.value = Value(s, n)
    BY ValueType DEF Written
  <2>2. Part(s, n) = <<c>>
    BY <1>3 DEF Part
  <2> HIDE DEF c
  <2>3. v = Append(w, c)
    BY <2>1, <2>2, AppendIsConcat
  <2>4. /\ v \in Seq(Written) /\ Len(v) = Len(w) + 1 /\ v[Len(w) + 1] = c
        /\ \A i \in 1..Len(w) : v[i] = w[i]
    BY <2>1, <2>3, AppendProperties
  <2>5. Told(v, Len(w)) = told
    <3>1. \A i \in 3..Len(w) : v[i] = w[i]
      BY <1>1, <2>4
    <3> QED
      BY <1>1, <3>1, ToldStable
  <2>6. Told(v, Len(w) + 1) = Updated(told, c)
    <3>1. n \in Nat
      BY DEF SettingNames
    <3>2. v[Len(w) + 1].kind = "setting" /\ v[Len(w) + 1].name \in Nat
      BY <2>1, <2>4, <3>1
    <3>3. Told(v, Len(w) + 1) = Updated(Told(v, Len(w)), v[Len(w) + 1])
      BY <1>1, <3>2, ToldMore
    <3> QED
      BY <2>4, <2>5, <3>3
  <2>7. <<Value(s, n)>> = s[n]
    <3>1. s[n] # <<>>
      <4>1. CASE n \in Optional
        BY <1>3, <4>1 DEF Default, Optional, HeaderTableSize, EnablePush, MaxConcurrentStreams,
           InitialWindowSize, MaxFrameSize, MaxHeaderListSize
      <4>2. CASE n \notin Optional
        BY <4>2 DEF IsSettings
      <4> QED
        BY <4>1, <4>2
    <3>2. s[n] \in Seq(Nat) /\ Len(s[n]) <= 1
      BY DEF IsSettings
    <3>3. s[n] = <<s[n][1]>>
      BY <3>1, <3>2, OneValue
    <3> QED
      BY <3>1, <3>3 DEF Value
  <2>8. Updated(told, c) = [told EXCEPT ![n] = s[n]]
    BY <2>1, <2>7 DEF Updated
  <2>9. Told(v, Len(v)) = [told EXCEPT ![n] = s[n]]
    BY <2>4, <2>6, <2>8
  <2>10. \A m \in SettingNames : Told(v, Len(v))[m] = IF m = n THEN s[n] ELSE told[m]
    <3> HIDE DEF told
    <3> QED
      BY <1>1, <2>9
  <2> QED
    BY <1>1, <2>4, <2>10
<1> QED
  BY <1>2, <1>3

(* A frame of settings tells them: the peer that starts from the defaults  *)
(* ends with the settings that the frame was made of.                      *)
LEMMA PayloadTold ==
  ASSUME NEW s, IsSettings(s), NEW a \in Written, NEW h \in Written,
         h.len = 6 * Len(Payload(s)), NEW w, w = <<a, h>> \o Payload(s)
  PROVE  w \in Seq(Written) /\ Complete(w) /\ Told(w, FrameEnd(w)) = s
<1> DEFINE w0 == <<a, h>>
           w1 == w0 \o Part(s, 1)
           w2 == w1 \o Part(s, 2)
           w3 == w2 \o Part(s, 3)
           w4 == w3 \o Part(s, 4)
           w5 == w4 \o Part(s, 5)
           w6 == w5 \o Part(s, 6)
           Good(v, k) == /\ v \in Seq(Written) /\ Len(v) >= 2 /\ v[1] = a /\ v[2] = h
                         /\ \A n \in SettingNames :
                              Told(v, Len(v))[n] = IF n <= k THEN s[n] ELSE Default[n]
<1>1. Good(w0, 0)
  <2>1. w0 \in Seq(Written) /\ Len(w0) = 2 /\ w0[1] = a /\ w0[2] = h
    OBVIOUS
  <2>2. Told(w0, 2) = Default
    BY ToldNothing
  <2>3. \A n \in SettingNames : ~(n <= 0)
    BY DEF SettingNames
  <2> QED
    BY <2>1, <2>2, <2>3
<1>2. ASSUME NEW k \in 0..5, NEW v, Good(v, k) PROVE Good(v \o Part(s, k + 1), k + 1)
  <2>1. k + 1 \in SettingNames /\ Told(v, Len(v))[k + 1] = Default[k + 1]
    BY <1>2 DEF SettingNames
  <2> DEFINE u == v \o Part(s, k + 1)
  <2>2. /\ u \in Seq(Written) /\ Len(u) >= 2 /\ u[1] = v[1] /\ u[2] = v[2]
        /\ \A n \in SettingNames :
             Told(u, Len(u))[n] = IF n = k + 1 THEN s[k + 1] ELSE Told(v, Len(v))[n]
    <3> DEFINE j == k + 1
    <3>1. /\ v \in Seq(Written) /\ Len(v) >= 2
          /\ j \in SettingNames /\ Told(v, Len(v))[j] = Default[j]
      BY <1>2, <2>1
    <3>2. u = v \o Part(s, j)
      OBVIOUS
    <3> HIDE DEF j, u, Good
    <3>3. /\ u \in Seq(Written) /\ Len(u) >= 2 /\ u[1] = v[1] /\ u[2] = v[2]
          /\ \A n \in SettingNames :
               Told(u, Len(u))[n] = IF n = j THEN s[j] ELSE Told(v, Len(v))[n]
      BY <3>1, <3>2, PartTold
    <3> QED
      BY <3>3 DEF j
  <2>3. \A n \in SettingNames : n <= k + 1 <=> n <= k \/ n = k + 1
    BY DEF SettingNames
  <2>4. Good(u, k + 1)
    <3> HIDE DEF u
    <3> QED
      BY <1>2, <2>1, <2>2, <2>3
  <2> HIDE DEF u
  <2> QED
    BY <2>4 DEF u
<1> HIDE DEF Good
<1>3. Good(w1, 1) /\ Good(w2, 2) /\ Good(w3, 3) /\ Good(w4, 4) /\ Good(w5, 5) /\ Good(w6, 6)
  <2> HIDE DEF w0
  <2>1. Good(w1, 1)
    BY <1>1, <1>2
  <2> HIDE DEF w1
  <2>2. Good(w2, 2)
    BY <2>1, <1>2
  <2> HIDE DEF w2
  <2>3. Good(w3, 3)
    BY <2>2, <1>2
  <2> HIDE DEF w3
  <2>4. Good(w4, 4)
    BY <2>3, <1>2
  <2> HIDE DEF w4
  <2>5. Good(w5, 5)
    BY <2>4, <1>2
  <2> HIDE DEF w5
  <2>6. Good(w6, 6)
    BY <2>5, <1>2
  <2> QED
    BY <2>1, <2>2, <2>3, <2>4, <2>5, <2>6
<1>4. w = w6 /\ Payload(s) \in Seq(Written) /\ Len(w) = 2 + Len(Payload(s))
  <2> DEFINE p1 == Part(s, 1)
             p2 == Part(s, 2)
             p3 == Part(s, 3)
             p4 == Part(s, 4)
             p5 == Part(s, 5)
             p6 == Part(s, 6)
             q2 == p1 \o p2
             q3 == q2 \o p3
             q4 == q3 \o p4
             q5 == q4 \o p5
             q6 == q5 \o p6
  <2>1. w0 \in Seq(Written)
    OBVIOUS
  <2>2. /\ p1 \in Seq(Written) /\ p2 \in Seq(Written) /\ p3 \in Seq(Written)
        /\ p4 \in Seq(Written) /\ p5 \in Seq(Written) /\ p6 \in Seq(Written)
    BY PartType DEF SettingNames
  <2>3. Payload(s) = q6
    BY DEF Payload
  <2> HIDE DEF p1, p2, p3, p4, p5, p6, w0
  <2>4. q2 \in Seq(Written) /\ w0 \o q2 = (w0 \o p1) \o p2
    <3>1. p1 \in Seq(Written) /\ p2 \in Seq(Written)
      BY <2>2
    <3>2. q2 = p1 \o p2
      OBVIOUS
    <3> HIDE DEF q2
    <3>3. QED
      BY <2>1, <3>1, <3>2, Regroup
  <2> HIDE DEF q2
  <2>5. q3 \in Seq(Written) /\ w0 \o q3 = (w0 \o q2) \o p3
    <3>1. q2 \in Seq(Written) /\ p3 \in Seq(Written)
      BY <2>2, <2>4
    <3>2. q3 = q2 \o p3
      OBVIOUS
    <3> HIDE DEF q3
    <3>3. QED
      BY <2>1, <3>1, <3>2, Regroup
  <2> HIDE DEF q3
  <2>6. q4 \in Seq(Written) /\ w0 \o q4 = (w0 \o q3) \o p4
    <3>1. q3 \in Seq(Written) /\ p4 \in Seq(Written)
      BY <2>2, <2>5
    <3>2. q4 = q3 \o p4
      OBVIOUS
    <3> HIDE DEF q4
    <3>3. QED
      BY <2>1, <3>1, <3>2, Regroup
  <2> HIDE DEF q4
  <2>7. q5 \in Seq(Written) /\ w0 \o q5 = (w0 \o q4) \o p5
    <3>1. q4 \in Seq(Written) /\ p5 \in Seq(Written)
      BY <2>2, <2>6
    <3>2. q5 = q4 \o p5
      OBVIOUS
    <3> HIDE DEF q5
    <3>3. QED
      BY <2>1, <3>1, <3>2, Regroup
  <2> HIDE DEF q5
  <2>8. q6 \in Seq(Written) /\ w0 \o q6 = (w0 \o q5) \o p6
    <3>1. q5 \in Seq(Written) /\ p6 \in Seq(Written)
      BY <2>2, <2>7
    <3>2. q6 = q5 \o p6
      OBVIOUS
    <3> HIDE DEF q6
    <3>3. QED
      BY <2>1, <3>1, <3>2, Regroup
  <2>9. Len(w0 \o q6) = Len(w0) + Len(q6)
    BY <2>1, <2>8, ConcatProperties
  <2> HIDE DEF q6
  <2>10. w0 \o q6 = w6
    BY <2>4, <2>5, <2>6, <2>7, <2>8 DEF p1, p2, p3, p4, p5, p6
  <2>11. w = w0 \o q6 /\ Len(w0) = 2
    BY <2>3 DEF w0
  <2> QED
    BY <2>3, <2>8, <2>9, <2>10, <2>11
<1> HIDE DEF w6
<1>5. /\ w \in Seq(Written) /\ Len(w) >= 2 /\ w[2] = h
      /\ \A n \in SettingNames : Told(w, Len(w))[n] = IF n <= 6 THEN s[n] ELSE Default[n]
  BY <1>3, <1>4 DEF Good
<1>6. FrameEnd(w) = Len(w)
  <2>1. Len(Payload(s)) \in Nat
    BY <1>4, LenProperties
  <2>2. w[2].len \div 6 = Len(Payload(s))
    BY <1>5, <2>1
  <2> QED
    BY <1>4, <2>1, <2>2 DEF FrameEnd
<1>7. Told(w, Len(w)) = s
  <2>1. s = [n \in SettingNames |-> s[n]]
    BY DEF IsSettings
  <2>2. \A n \in SettingNames : n <= 6
    BY DEF SettingNames
  <2> QED
    BY <1>5, <2>1, <2>2 DEF Told
<1> QED
  BY <1>5, <1>6, <1>7 DEF Complete

(* How far the answer of the server has come.                              *)
Answered ==
  /\ pc = "size" => wire = <<Ack>>
  /\ pc = "values" => wire = <<Ack, FrameOf(6 * Len(Payload(own)))>>
  /\ pc = "started" =>
       /\ wire = <<Ack, FrameOf(6 * Len(Payload(own)))>> \o Payload(own)
       /\ ctx[1].table = Value(own, HeaderTableSize)

LEMMA NextAnswered == IInv /\ Answered /\ [Next]_vars => Answered'
<1> SUFFICES ASSUME IInv, Answered, [Next]_vars PROVE Answered'
  OBVIOUS
<1>1. CASE WriteAck
  <2>1. wire = <<>> /\ wire' = Append(wire, Ack) /\ pc' = "size"
    BY <1>1 DEF WriteAck, IInv, Answering
  <2> QED
    BY <2>1 DEF Answered
<1>2. CASE WriteSize
  <2>1. /\ wire = <<Ack>> /\ pc' = "values" /\ own' = own
        /\ wire' = Append(wire, FrameOf(6 * Len(Payload(own))))
    BY <1>2 DEF WriteSize, Answered
  <2>2. wire' = <<Ack, FrameOf(6 * Len(Payload(own)))>>
    <3> DEFINE h == FrameOf(6 * Len(Payload(own)))
    <3>1. wire = <<Ack>> /\ wire' = Append(wire, h)
      BY <2>1
    <3>2. IsSettings(own)
      BY StartAssumption DEF IInv, TypeOK
    <3>3. Len(Payload(own)) \in Nat
      BY <3>2, PayloadType, LenProperties
    <3>4. Ack \in Written /\ h \in Written
      BY <3>3 DEF Ack, FrameOf, Written
    <3> HIDE DEF h
    <3>5. wire' = <<Ack, h>>
      BY <3>1, <3>4, AppendSecond
    <3> QED
      BY <3>5 DEF h
  <2> QED
    BY <2>1, <2>2 DEF Answered
<1>3. CASE WriteSettings
  BY <1>3 DEF WriteSettings, Answered
<1>4. CASE WriteFails \/ ReadFails
  BY <1>4 DEF WriteFails, ReadFails, Answered
<1>5. CASE ReadPreface \/ ReadHeader \/ CheckSettings
  BY <1>5 DEF ReadPreface, ReadHeader, CheckSettings, Refuse, Answered
<1>6. CASE ReadSetting \/ ReadNext \/ Client \/ UNCHANGED vars
  <2>1. UNCHANGED <<own, pc, wire, ctx>>
    BY <1>6 DEF ReadSetting, ReadNext, Client, SendPreface, SendHeader, SendSetting, Put, Close,
       vars
  <2> QED
    BY <2>1 DEF Answered
<1> QED
  BY <1>1, <1>2, <1>3, <1>4, <1>5, <1>6 DEF Next, Server, Reads, Writes

(* A start that succeeds leaves both sides with the same settings, for     *)
(* every set of settings that the server is started with and every frame   *)
(* of the client: the context has those that the client's frame tells, the *)
(* frame that the server wrote tells the server's own, one that it left    *)
(* out for being the default included, and there is one context, the       *)
(* caller's (http_http2_start_connection, settings::read_frame and         *)
(* write_frame).                                                           *)
THEOREM BothAgree == Spec => []Agreed
<1>1. Init => Answered
  BY DEF Init, Answered
<1>2. IInv /\ Answered => Agreed
  <2> SUFFICES ASSUME IInv, Answered PROVE Agreed
    OBVIOUS
  <2>1. /\ contexts = Len(ctx) /\ (pc = "started" <=> ctx # <<>>)
        /\ pc = "started" => ctx[1].settings = ToldByClient
    <3>1. CASE pc = "started"
      BY <3>1 DEF IInv, Answering
    <3>2. CASE pc # "started"
      BY <3>2 DEF IInv, Answering
    <3> QED
      BY <3>1, <3>2
  <2>2. ASSUME pc = "started"
        PROVE  Complete(wire) /\ ToldByServer = own /\ ctx[1].table = Value(own, HeaderTableSize)
    <3> DEFINE h == FrameOf(6 * Len(Payload(own)))
    <3>1. IsSettings(own)
      BY StartAssumption DEF IInv, TypeOK
    <3>2. Len(Payload(own)) \in Nat
      BY <3>1, PayloadType, LenProperties
    <3>3. Ack \in Written /\ h \in Written /\ h.len = 6 * Len(Payload(own))
      BY <3>2 DEF Ack, FrameOf, Written
    <3>4. wire = <<Ack, h>> \o Payload(own) /\ ctx[1].table = Value(own, HeaderTableSize)
      BY <2>2 DEF Answered
    <3> HIDE DEF h
    <3>5. Complete(wire) /\ Told(wire, FrameEnd(wire)) = own
      BY <3>1, <3>3, <3>4, PayloadTold
    <3> QED
      BY <3>4, <3>5 DEF ToldByServer
  <2> QED
    BY <2>1, <2>2 DEF Agreed
<1> QED
  BY <1>1, <1>2, AlwaysIInv, InitIInv, NextIInv, NextAnswered, PTL DEF Spec
=============================================================================
