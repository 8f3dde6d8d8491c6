---------------------------- MODULE HeaderBlock -----------------------------
(***************************************************************************)
(* The header fields of a HEADERS frame and its CONTINUATION frames: the   *)
(* peer encodes each into a representation of some bytes, the frames cut   *)
(* the bytes anywhere, and read_header (http/src/http2/frame/header.rs)    *)
(* decodes the representations one by one from what has come.  If the next *)
(* one is not all there it returns TooSmall, and is called again with the  *)
(* same bytes and more, as http/src/http2/frame/continuation.rs says.      *)
(*                                                                         *)
(* Both sides keep a dynamic table, as the list of headers that            *)
(* DynamicTable implements.  Peer and receiver share nothing but bytes.    *)
(*                                                                         *)
(* A byte that begins an integer has the tag of its use and as much of the *)
(* integer as its prefix holds; if the prefix is full, one more byte has   *)
(* the rest.  Huffman codes are left out: a string is its own bytes.       *)
(***************************************************************************)
EXTENDS Integers, Sequences, FiniteSets

CONSTANTS
  Names,      \* header names, nonempty sequences of bytes
  Values,     \* header values
  Static,     \* the headers of the static table
  Sizes,      \* sizes that the peer may resize the tables to
  Permitted,  \* SETTINGS_HEADER_TABLE_SIZE
  Full,       \* for each use of an integer, the prefix that is full
  MaxEarlier, \* bound on the headers in the tables at the start
  MaxSent     \* bound on the representations that the peer sends

ASSUME BlockAssumption ==
  /\ Names \subseteq Seq(Nat) /\ Values \subseteq Seq(Nat)
  /\ Static \in Seq([name : Names, value : Values])
  /\ Permitted \in Nat /\ Sizes \subseteq 0..Permitted /\ MaxEarlier \in Nat
  /\ Full \in [{"indexed", "incremental", "size", "plain", "length"} -> Nat]

VARIABLES
  earlier,    \* the headers that earlier blocks left in the tables
  peerList,   \* the peer's dynamic table, the newest header first
  peerMax,    \* its size
  fields,     \* what each representation stands for, how many bytes the peer has
              \* sent by its end, and the peer's table after it
  coming,     \* bytes that the peer has sent and no frame has brought yet
  data,       \* HeaderFrame.data or ContinuationFrame.data: bytes to be decoded
  list, max,  \* Context.header_table
  name,       \* the buffers given to read_header
  value,
  returned,   \* what read_header returned last
  got         \* name and value after each Ok of read_header

encoderVars == <<earlier, peerList, peerMax, fields>>
tableVars   == <<list, max>>
outVars     == <<name, value, returned, got>>
blockVars   == <<encoderVars, coming, data, tableVars, outVars>>

PeerTable == INSTANCE HeaderList WITH list <- peerList, max <- peerMax,
                                      permitted <- Permitted, answer <- 0
Table     == INSTANCE HeaderList WITH permitted <- Permitted, answer <- 0

Header == [name : Names, value : Values]
Nothing == [name |-> <<>>, value |-> <<>>]    \* what a change of the size leaves in the buffers

Fatal == {"IndexNotFound", "TableTooSmall"}

BlockByte ==
  [tag : {"indexed", "incremental", "size", "plain", "length", "rest", "text"}, n : Nat]

BlockTypeOK ==
  /\ earlier \in Seq(Header) /\ peerList \in Seq(Header) /\ list \in Seq(Header)
  /\ peerMax \in 0..Permitted /\ max \in 0..Permitted
  /\ fields \in Seq([header : Header \cup {Nothing}, upto : Nat, legal : BOOLEAN,
                     list : Seq(Header), max : 0..Permitted])
  /\ coming \in Seq(BlockByte) /\ data \in Seq(BlockByte)
  /\ name \in Names \cup {<<>>}
  /\ value \in Values \cup {<<>>}
  /\ returned \in {"Ok", "TooSmall"} \cup Fatal
  /\ got \in Seq(Header \cup {Nothing})

BlockInit ==
  /\ earlier \in UNION {[1..k -> Header] : k \in 0..MaxEarlier}
  /\ earlier = PeerTable!Fitting(earlier, Permitted)
  /\ peerList = earlier /\ peerMax = Permitted
  /\ fields = <<>> /\ coming = <<>> /\ data = <<>>
  /\ list = earlier /\ max = Permitted
  /\ name = <<>> /\ value = <<>> /\ returned = "Ok" /\ got = <<>>

-----------------------------------------------------------------------------
IntBytes(tag, n) ==
  IF n < Full[tag] THEN <<[tag |-> tag, n |-> n]>>
  ELSE <<[tag |-> tag, n |-> Full[tag]], [tag |-> "rest", n |-> n - Full[tag]]>>

StrBytes(s) == IntBytes("length", Len(s)) \o [i \in 1..Len(s) |-> [tag |-> "text", n |-> s[i]]]

(* Bytes and tables after k representations.                               *)
Upto(k)      == IF k = 0 THEN 0 ELSE fields[k].upto
ListAfter(k) == IF k = 0 THEN earlier ELSE fields[k].list
MaxAfter(k)  == IF k = 0 THEN Permitted ELSE fields[k].max

(* The peer sends a representation, with its table as it is then.          *)
Send(bytes, header, legal) ==
  /\ Len(fields) < MaxSent
  /\ Len(fields) > 0 => fields[Len(fields)].legal
  /\ fields' = Append(fields, [header |-> header, upto |-> Upto(Len(fields)) + Len(bytes),
                               legal |-> legal, list |-> peerList', max |-> peerMax'])
  /\ coming' = coming \o bytes
  /\ UNCHANGED <<earlier, data, tableVars, outVars>>

Indices(n) == {i \in 1..(Len(Static) + Len(peerList)) : PeerTable!Entry(i)[1].name = n}

SendIndexed ==
  \E i \in 1..(Len(Static) + Len(peerList)) :
    /\ UNCHANGED <<peerList, peerMax>>
    /\ Send(IntBytes("indexed", i), PeerTable!Entry(i)[1], TRUE)

Field(tag, h, i) ==
  IntBytes(tag, i) \o (IF i = 0 THEN StrBytes(h.name) ELSE <<>>) \o StrBytes(h.value)

SendIncremental ==
  \E h \in Header : \E i \in {0} \cup Indices(h.name) :
    /\ peerList' = PeerTable!Fitting(<<h>> \o peerList, peerMax)
    /\ UNCHANGED peerMax
    /\ Send(Field("incremental", h, i), h, TRUE)

SendPlain ==
  \E h \in Header : \E i \in {0} \cup Indices(h.name) :
    /\ UNCHANGED <<peerList, peerMax>>
    /\ Send(Field("plain", h, i), h, TRUE)

SendSize ==
  \E size \in Sizes :
    /\ peerList' = PeerTable!Fitting(peerList, size)
    /\ peerMax' = size
    /\ Send(IntBytes("size", size), Nothing, TRUE)

(* A peer that keeps to no rules, once.                                    *)
SendIllegal ==
  /\ UNCHANGED <<peerList, peerMax>>
  /\ LET beyond == Len(Static) + Len(peerList) + 1
     IN  \/ \E i \in {0, beyond} : Send(IntBytes("indexed", i), Nothing, FALSE)
         \/ Send(IntBytes("incremental", beyond) \o StrBytes(<<>>), Nothing, FALSE)
         \/ Send(IntBytes("size", Permitted + 1), Nothing, FALSE)

(* read_frame of continuation.rs, and of header.rs at first: the bytes of  *)
(* the frame follow those that are left to be decoded.                     *)
Receive ==
  /\ returned \notin Fatal
  /\ \E n \in 1..Len(coming) :
       /\ data' = data \o SubSeq(coming, 1, n)
       /\ coming' = SubSeq(coming, n + 1, Len(coming))
  /\ UNCHANGED <<encoderVars, tableVars, outVars>>

-----------------------------------------------------------------------------
(* parse_integer and parse_string; read is 0 if the bytes are too few.     *)
parse_integer(tag, d) ==
  IF d = <<>> \/ (d[1].n >= Full[tag] /\ Len(d) = 1) THEN [read |-> 0, n |-> 0]
  ELSE IF d[1].n < Full[tag] THEN [read |-> 1, n |-> d[1].n]
  ELSE [read |-> 2, n |-> d[1].n + d[2].n]

(* Mutant: one more byte is asked for.                                     *)
parse_stringGreedy(d) ==
  LET int == parse_integer("length", d)
      end == int.read + int.n
  IN  IF int.read = 0 \/ Len(d) <= end THEN [read |-> 0, s |-> <<>>]
      ELSE [read |-> end, s |-> [i \in 1..int.n |-> d[int.read + i].n]]

parse_string(d) ==
  LET int == parse_integer("length", d)
      end == int.read + int.n
  IN  IF int.read = 0 \/ Len(d) < end THEN [read |-> 0, s |-> <<>>]
      ELSE [read |-> end, s |-> [i \in 1..int.n |-> d[int.read + i].n]]

After(d, read) == SubSeq(d, read + 1, Len(d))

(* read_header returns an error: only the two buffers are touched.         *)
Fails(error, n, v) ==
  /\ returned' = error
  /\ name' = n /\ value' = v
  /\ UNCHANGED <<data, got>>

Returns(read, n, v) ==
  /\ returned' = "Ok"
  /\ name' = n /\ value' = v
  /\ got' = Append(got, [name |-> n, value |-> v])
  /\ data' = After(data, read)

(* HeaderTable::insert and resize                                          *)
insert(h) ==
  /\ list' = Table!Fitting(<<h>> \o list, max)
  /\ UNCHANGED max

resize(size) ==
  /\ list' = Table!Fitting(list, size)
  /\ max' = size

(* The representation of an indexed header.                                *)
Indexed ==
  LET int   == parse_integer("indexed", data)
      entry == Table!Entry(int.n)
  IN  /\ data[1].tag = "indexed"
      /\ \/ int.read = 0 /\ Fails("TooSmall", <<>>, <<>>)
         \/ int.read # 0 /\ entry = <<>> /\ Fails("IndexNotFound", <<>>, <<>>)
         \/ int.read # 0 /\ entry # <<>> /\ Returns(int.read, entry[1].name, entry[1].value)
      /\ UNCHANGED tableVars

(* The name of a literal: the index of an entry, or a string.              *)
NameOf(tag) ==
  LET int   == parse_integer(tag, data)
      str   == parse_string(After(data, int.read))
      entry == Table!Entry(int.n)
  IN  IF int.read = 0 \/ (int.n = 0 /\ str.read = 0) THEN [error |-> "TooSmall"]
      ELSE IF int.n = 0 THEN [error |-> "none", read |-> int.read + str.read, s |-> str.s]
      ELSE IF entry = <<>> THEN [error |-> "IndexNotFound"]
      ELSE [error |-> "none", read |-> int.read, s |-> entry[1].name]

(* What both literals do before one of them goes to the table.             *)
Literal(tag) ==
  LET n == NameOf(tag)
      v == parse_string(After(data, n.read))
  IN  /\ data[1].tag = tag
      /\ \/ n.error # "none" /\ Fails(n.error, <<>>, <<>>)
         \/ n.error = "none" /\ v.read = 0 /\ Fails("TooSmall", n.s, <<>>)
         \/ n.error = "none" /\ v.read # 0 /\ Returns(n.read + v.read, n.s, v.s)

(* Mutant: the header goes to the table before its value is there.         *)
IncrementalEarly ==
  /\ Literal("incremental")
  /\ IF name' # <<>> THEN insert([name |-> name', value |-> value'])
     ELSE UNCHANGED tableVars

(* A literal that goes to the table.                                       *)
Incremental ==
  /\ Literal("incremental")
  /\ IF returned' = "Ok" THEN insert([name |-> name', value |-> value'])
     ELSE UNCHANGED tableVars

(* Mutant: the permitted size itself is refused.                           *)
ResizeBelow ==
  LET int == parse_integer("size", data)
  IN  /\ data[1].tag = "size"
      /\ \/ int.read = 0 /\ Fails("TooSmall", <<>>, <<>>) /\ UNCHANGED tableVars
         \/ int.read # 0 /\ int.n >= Permitted
              /\ Fails("TableTooSmall", <<>>, <<>>) /\ UNCHANGED tableVars
         \/ int.read # 0 /\ int.n < Permitted
              /\ Returns(int.read, <<>>, <<>>) /\ resize(int.n)

(* A change of the size of the table.                                      *)
Resize ==
  LET int == parse_integer("size", data)
  IN  /\ data[1].tag = "size"
      /\ \/ int.read = 0 /\ Fails("TooSmall", <<>>, <<>>) /\ UNCHANGED tableVars
         \/ int.read # 0 /\ int.n > Permitted
              /\ Fails("TableTooSmall", <<>>, <<>>) /\ UNCHANGED tableVars
         \/ int.read # 0 /\ int.n <= Permitted
              /\ Returns(int.read, <<>>, <<>>) /\ resize(int.n)

(* A literal that does not.                                                *)
Plain ==
  /\ Literal("plain")
  /\ UNCHANGED tableVars

(* read_header                                                             *)
read_header ==
  /\ data # <<>>
  /\ returned \notin Fatal
  /\ Indexed \/ Incremental \/ Resize \/ Plain
  /\ UNCHANGED <<encoderVars, coming>>

BlockNext ==
  \/ SendIndexed \/ SendIncremental \/ SendPlain \/ SendSize \/ SendIllegal
  \/ Receive
  \/ read_header

BlockSpec == BlockInit /\ [][BlockNext]_blockVars

-----------------------------------------------------------------------------
(* However the frames cut the block, and however often read_header says    *)
(* TooSmall in the middle of a field, what it has decoded is what the peer *)
(* encoded, and its table is the peer's as it was at that field            *)
(* (read_header, parse_string, HeaderTable).  Name and value are always    *)
(* whole ones (BlockTypeOK).                                               *)
InStep ==
  LET k == Len(got)
  IN  /\ BlockTypeOK
      /\ k <= Len(fields)
      /\ \A i \in 1..k : got[i] = fields[i].header
      /\ list = ListAfter(k)
      /\ max = MaxAfter(k)

(* Only a peer that breaks the rules is refused, at the field that does,   *)
(* and then for good (IndexNotFound, TableTooSmall).                       *)
OnlyIllegal ==
  LET k == Len(got)
  IN  /\ \A i \in 1..k : fields[i].legal
      /\ returned \in Fatal => k < Len(fields) /\ ~fields[k + 1].legal

(* A field that has come completely is not put off: TooSmall means that    *)
(* more bytes are needed, so that a caller who waits for the next          *)
(* CONTINUATION frame does not wait for one that is not to come.           *)
FieldNotPutOff ==
  [][read_header /\ returned' = "TooSmall" =>
       Len(data) < Upto(Len(got) + 1) - Upto(Len(got))]_blockVars
=============================================================================
