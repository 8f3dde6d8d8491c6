------------------------------ MODULE Literals ------------------------------
(***************************************************************************)
(* The integers and strings of HPACK (http/src/http2/hpack/literal.rs): a  *)
(* peer sends one, with write_integer or digit by digit as it likes, and   *)
(* parse_integer or parse_string is called on what has come of it, again   *)
(* with more after every TooSmall.                                         *)
(*                                                                         *)
(* An integer has a first byte, whose prefix is the integer if it is below *)
(* the mask; if not, further bytes follow with its digits in base 128, the *)
(* least first, all but the last with their top bit set.  The sums that    *)
(* the code computes have the width of u64.                                *)
(*                                                                         *)
(* place is 2^m for the m of parse_integer, so that m < 64 reads           *)
(* place < Limit.                                                          *)
(***************************************************************************)
EXTENDS Integers, Sequences

CONSTANTS
  Base,       \* 128
  Limit,      \* 2^64: a u64 and a usize are below it
  Masks,      \* 2^bits - 1 for the prefixes in use, that of parse_string among them
  StringMask, \* 127
  Builds,     \* "debug" panics on an overflow, "release" wraps
  Text,       \* bytes of strings
  Decode(_),  \* what decode_bytes makes of bytes: its result and its output
  Leftover,   \* what the buffer had before
  MaxBytes    \* bound on the bytes sent

DecodeErrors == {"FoundEOS", "IncompleteData"}

ASSUME LiteralsAssumption ==
  /\ Base \in Nat \ {0, 1} /\ Limit \in Nat \ {0}
  /\ MaxBytes \in 0..(Limit - 1)    \* no slice is longer than a usize says
  /\ Masks \subseteq 1..(Limit - 1) /\ StringMask \in Masks
  /\ Builds \subseteq {"debug", "release"}
  /\ Leftover \in Seq(Text)

Decoded == [result : {"Ok"} \cup DecodeErrors, out : Seq(Text)]

ASSUME DecodeAssumption ==
  \A n \in 0..MaxBytes : \A s \in [1..n -> Text] : Decode(s) \in Decoded

VARIABLES
  kind,    \* whether an integer or a string is sent, and parsed
  mask,
  huffman, \* the top bit of a string
  number,  \* the integer that write_integer was given, or -1
  int,     \* what is left of it
  sent,    \* the bytes of an integer
  text,    \* the bytes of a string, behind its length
  come,    \* how many bytes have come
  pc,      \* what is parsed next
  offset, place, output,
  result,  \* what the last call returned, None before it and when more has come
  used,    \* how many bytes the call took
  out      \* the buffer given to parse_string

inputVars == <<kind, mask, huffman, number>>
peerVars  == <<int, sent, text>>
parseVars == <<pc, offset, place, output, result, used, out>>
vars      == <<inputVars, peerVars, come, parseVars>>

(* A byte has the number that stands for it and those before it, and what  *)
(* the digit of the next one counts.                                       *)
Byte == [digit : Nat, more : BOOLEAN, sum : Nat, next : Nat]

TypeOK ==
  /\ kind \in {"integer", "string"} /\ mask \in Masks /\ huffman \in BOOLEAN
  /\ number \in -1..(Limit - 1) /\ int \in 0..(Limit - 1)
  /\ sent \in Seq(Byte) /\ text \in Seq(Text)
  /\ come \in 0..(Len(sent) + Len(text))
  /\ pc \in {"idle", "first", "digits", "text", "over"}
  /\ offset \in 0..Len(sent) /\ offset <= come
  /\ place \in Nat /\ output \in 0..(Limit - 1) /\ used \in Nat
  /\ result \in {"None", "Ok", "TooSmall", "Overflow", "panic"} \cup DecodeErrors
  /\ out \in Seq(Text)

Init ==
  /\ \/ kind = "integer" /\ mask \in Masks /\ huffman = FALSE
     \/ kind = "string" /\ mask = StringMask /\ huffman \in BOOLEAN
  /\ number \in -1..(Limit - 1)
  /\ int = 0 /\ sent = <<>> /\ text = <<>> /\ come = 0
  /\ pc = "idle" /\ offset = 0 /\ place = 1 /\ output = 0
  /\ result = "None" /\ used = 0 /\ out = Leftover

-----------------------------------------------------------------------------
(* The peer, which may stop anywhere.                                      *)
Last == sent[Len(sent)]

HasRoom == Len(sent) + Len(text) < MaxBytes

PutFirst(d) ==
  /\ HasRoom /\ sent = <<>>
  /\ sent' = <<[digit |-> d, more |-> d = mask, sum |-> d, next |-> 1]>>
  /\ UNCHANGED <<inputVars, text, come, parseVars>>

PutDigit(d, more) ==
  /\ HasRoom /\ sent # <<>> /\ Last.more
  /\ sent' = Append(sent, [digit |-> d, more |-> more, sum |-> Last.sum + d * Last.next,
                           next |-> Last.next * Base])
  /\ UNCHANGED <<inputVars, text, come, parseVars>>

(* write_integer.                                                          *)
WriteFirst ==
  /\ number >= 0
  /\ PutFirst(IF number < mask THEN number ELSE mask)
  /\ int' = IF number < mask THEN 0 ELSE number - mask

(* Mutant: the loop leaves the digit 128 to the last byte.                 *)
WriteDigitLate ==
  /\ number >= 0
  /\ PutDigit(int % Base, int > Base)
  /\ int' = int \div Base

WriteDigit ==
  /\ number >= 0
  /\ PutDigit(int % Base, int >= Base)
  /\ int' = int \div Base

(* A peer with an encoder of its own.                                      *)
RawFirst ==
  /\ number = -1
  /\ \E d \in 0..mask : PutFirst(d)
  /\ UNCHANGED int

RawDigit ==
  /\ number = -1
  /\ \E d \in 0..(Base - 1), more \in BOOLEAN : PutDigit(d, more)
  /\ UNCHANGED int

PutText ==
  /\ HasRoom /\ kind = "string" /\ sent # <<>> /\ ~Last.more
  /\ \E t \in Text : text' = Append(text, t)
  /\ UNCHANGED <<inputVars, int, sent, come, parseVars>>

-----------------------------------------------------------------------------
(* The caller calls, and again when more has come after TooSmall.          *)
Come ==
  /\ pc = "idle"
  /\ \E n \in (come + 1)..(Len(sent) + Len(text)) : come' = n
  /\ result' = "None"
  /\ UNCHANGED <<inputVars, peerVars, pc, offset, place, output, used, out>>

Call ==
  /\ pc = "idle" /\ result = "None"
  /\ pc' = "first" /\ offset' = 0 /\ place' = 1 /\ output' = 0
  /\ UNCHANGED <<inputVars, peerVars, come, result, used, out>>

(* The call returns r; the caller puts off what is too small and ends      *)
(* otherwise.                                                              *)
Return(r) ==
  /\ result' = r
  /\ pc' = IF r = "TooSmall" THEN "idle" ELSE "over"

Unused == UNCHANGED <<inputVars, peerVars, come>>

(* Ok((output, offset)) of parse_integer: the end, or the ? in parse_string. *)
Number ==
  IF kind = "integer" THEN Return("Ok") /\ used' = offset'
  ELSE pc' = "text" /\ UNCHANGED <<result, used>>

ParseFirst ==
  /\ pc = "first"
  /\ IF come = 0 THEN Return("TooSmall") /\ UNCHANGED <<offset, place, output, used>>
     ELSE /\ offset' = 1 /\ output' = sent[1].digit
          /\ IF sent[1].digit < mask THEN Number ELSE pc' = "digits" /\ UNCHANGED <<result, used>>
          /\ UNCHANGED place
  /\ UNCHANGED out /\ Unused

(* Mutant: the bytes are complete one byte after they are.                 *)
AvailableLate == offset + 1 < come

Available == offset < come

(* Mutant: m += 8.                                                         *)
NextPlaceWide == place * Base * 2

NextPlace == place * Base

Wrapped(sum) == sum % Limit

ParseDigit ==
  /\ pc = "digits" /\ place < Limit
  /\ IF ~Available THEN Return("TooSmall") /\ UNCHANGED <<offset, place, output, used>>
     ELSE LET byte == sent[offset + 1]
              sum  == output + Wrapped(byte.digit * place)
          IN  /\ offset' = offset + 1
              /\ place' = NextPlace
              /\ \/ /\ sum >= Limit /\ "debug" \in Builds
                    /\ Return("panic") /\ UNCHANGED <<output, used>>
                 \/ /\ sum < Limit \/ "release" \in Builds
                    /\ output' = Wrapped(sum)
                    /\ IF byte.more THEN UNCHANGED <<pc, result, used>> ELSE Number
  /\ UNCHANGED out /\ Unused

TooLong ==
  /\ pc = "digits" /\ place >= Limit
  /\ Return("Overflow")
  /\ UNCHANGED <<offset, place, output, used, out>> /\ Unused

(* parse_string behind its length.  If parsed + len wraps, the range ends  *)
(* before it starts and there is no such slice.                            *)
StringEnd == Wrapped(offset + output)

(* Mutant: all that has come is taken, data.get(parsed..).                 *)
SliceOpen == SubSeq(text, 1, come - offset)

Slice == SubSeq(text, 1, StringEnd - offset)

ParseText ==
  /\ pc = "text"
  /\ \/ /\ offset + output >= Limit /\ "debug" \in Builds
        /\ Return("panic") /\ UNCHANGED <<used, out>>
     \/ /\ offset + output < Limit \/ "release" \in Builds
        /\ IF offset <= StringEnd /\ StringEnd <= come
           THEN LET r == IF huffman THEN Decode(Slice) ELSE [result |-> "Ok", out |-> Slice]
                IN  /\ Return(r.result) /\ out' = r.out
                    /\ used' = IF r.result = "Ok" THEN offset + output ELSE used
           ELSE Return("TooSmall") /\ UNCHANGED <<used, out>>
  /\ UNCHANGED <<offset, place, output>> /\ Unused

Peer  == WriteFirst \/ WriteDigit \/ RawFirst \/ RawDigit \/ PutText
Parse == ParseFirst \/ ParseDigit \/ TooLong \/ ParseText

Next == Peer \/ Come \/ Call \/ Parse

Spec == Init /\ [][Next]_vars

-----------------------------------------------------------------------------
(* What the bytes that were parsed stand for.                              *)
Meant == sent[offset].sum

(* A number that fits a u64 is parsed as what its bytes stand for, however *)
(* they are cut and with digits of zero at the end too, and takes just its *)
(* own bytes; only for another one, or a string with such a length, does   *)
(* the program panic (parse_integer).                                      *)
Exact ==
  /\ pc \in {"over", "text"} /\ result \notin {"panic", "Overflow"} =>
       /\ offset = Len(sent) /\ ~Last.more
       /\ Meant < Limit => output = Meant
  /\ kind = "integer" /\ result = "Ok" => used = Len(sent)
  /\ result = "panic" => Meant + (IF kind = "string" THEN offset ELSE 0) >= Limit

(* What write_integer writes is parsed as the same integer, and never      *)
(* refused, for every integer and every prefix.                            *)
RoundTrip ==
  number >= 0 =>
    /\ result # "Overflow"
    /\ pc \in {"over", "text"} => output = number /\ offset = Len(sent)
    /\ kind = "integer" => result # "panic"

(* TooSmall is only returned when the bytes that have come are not all     *)
(* there are of the integer or string, so a caller that waits for more     *)
(* waits for something that must come.                                     *)
NotPutOff ==
  result = "TooSmall" =>
    \/ come = 0
    \/ come <= Len(sent) /\ sent[come].more
    \/ kind = "string" /\ come < Len(sent) + Last.sum

(* A string that is taken is all there, is just as long as it says and as  *)
(* it was sent or decoded from it; until one is decoded the buffer keeps   *)
(* what it had (parse_string).                                             *)
StringWhole ==
  kind = "string" =>
    /\ result = "Ok" /\ Meant < Limit =>
         /\ used = Len(sent) + Meant /\ used <= come
         /\ out = IF huffman THEN Decode(SubSeq(text, 1, Meant)).out
                  ELSE SubSeq(text, 1, Meant)
    /\ pc # "over" \/ result \in {"Overflow", "panic"} => out = Leftover

(* Integers that a u64 has no room for are refused, as the Overflow of     *)
(* DecodeError says in huffman.rs: "Data overflowed type".                 *)
OverflowRefused == result = "Ok" => Meant < Limit
=============================================================================
