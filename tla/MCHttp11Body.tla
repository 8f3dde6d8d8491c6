---------------------------- MODULE MCHttp11Body ----------------------------
(***************************************************************************)
(* Requests for Http11Body: a client frames small payloads, and the        *)
(* connection is closed after any number of their bytes.                   *)
(***************************************************************************)
EXTENDS Http11Body

(* Payload that reads as a size line, as a line end, and as neither.       *)
Payloads == {<<1>>, <<Other, LineFeed>>, <<2, LineFeed>>}

LineEnds == {<<LineFeed>>, <<Blank, LineFeed>>}

(* A size line may carry leading zeros.                                    *)
SizeDigits(size) == {<<size>>, <<0, size>>}

(* What follows the body: the end of the trailers and a pipelined request, *)
(* which may look like another chunk.                                      *)
Rests == {<<>>, <<LineFeed, 1, LineFeed, Other>>}

(* A chunked body under construction: its bytes and its chunks so far.     *)
Nothing == [wire |-> <<>>, chunks |-> <<>>]

AddChunk(b, digits, eol, data) ==
  LET size  == Len(b.wire)
      first == size + Len(digits) + Len(eol)
  IN  [wire   |-> b.wire \o digits \o eol \o data,
       chunks |-> Append(b.chunks, [size |-> size, first |-> first,
                                    last |-> first + Len(data)])]

AddBytes(b, bytes) == [b EXCEPT !.wire = @ \o bytes]

OneMore(b, eol, data) ==
  {AddBytes(AddChunk(b, d, eol, data), eol) : d \in SizeDigits(Len(data))}

OneChunk == UNION {OneMore(Nothing, eol, data) : eol \in LineEnds, data \in Payloads}

TwoChunks == UNION {OneMore(b, <<LineFeed>>, data) : b \in OneChunk, data \in Payloads}

(* The body is completed, and the connection closed after any prefix.     *)
Chunked(bodies, eols) ==
  LET whole == {AddBytes(AddChunk(b, <<0>>, eol, <<>>), rest) :
                  b \in bodies, eol \in eols, rest \in Rests}
  IN  UNION {{[chunked |-> TRUE, length |-> Malformed, wire |-> w.wire,
               eof |-> cut, chunks |-> w.chunks] : cut \in 0..Len(w.wire)} : w \in whole}

Counted ==
  {[chunked |-> FALSE, length |-> n, wire |-> w, eof |-> cut, chunks |-> <<>>] :
     n \in {Malformed, 0, 1, 3}, cut \in 0..4,
     w \in {<<Other, LineFeed, 2, LineFeed>>}}

AllMessages ==
  {m : m \in Chunked({Nothing} \cup OneChunk, LineEnds) \cup Counted
               \cup Chunked(TwoChunks, {<<LineFeed>>})}

MCMessages == AllMessages
=============================================================================
