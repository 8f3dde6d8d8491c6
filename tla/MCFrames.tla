------------------------------ MODULE MCFrames ------------------------------
(***************************************************************************)
(* Headers with room for lengths below 16, and a reader that takes up to   *)
(* 12: three calls of the write functions, or two frames of which a peer   *)
(* has made some itself, with lengths and paddings around every limit.     *)
(***************************************************************************)
EXTENDS Frames, TLC

W(n)   == [low |-> n, top |-> 0]
Top(n) == [low |-> n, top |-> 1]

Args(type, stream) ==
  [type |-> type, stream |-> stream, flags |-> {}, pad |-> 0, n |-> 0, id |-> Zero,
   exclusive |-> 0, value |-> W(1)]

Data(flags, pad, n) == [Args("data", W(1)) EXCEPT !.flags = flags, !.pad = pad, !.n = n]

Headers(flags, pad, n, id, exclusive) ==
  [Args("headers", W(1)) EXCEPT !.flags = flags, !.pad = pad, !.n = n, !.id = id,
                                !.exclusive = exclusive, !.value = W(3)]

SomeCalls ==
  {Data({}, 0, 0), Data({"end_stream"}, 0, 2), Data({"padded"}, 0, 1), Data({"padded"}, 2, 1),
   Data({}, 0, 17), [Args("data", Top(0)) EXCEPT !.n = 1],
   Headers({"end_headers"}, 0, 2, Zero, 0),
   [Args("headers", Top(1)) EXCEPT !.n = 1, !.pad = 2, !.flags = {"end_stream", "padded", "ack"}],
   Headers({"priority"}, 0, 1, W(2), 1), Headers({"priority", "padded"}, 1, 1, Top(2), 0),
   Headers({"priority"}, 0, 1, Top(1), 0),
   [Args("continuation", W(1)) EXCEPT !.n = 2],
   [Args("continuation", W(1)) EXCEPT !.flags = {"end_headers"}],
   [Args("priority", W(1)) EXCEPT !.id = W(2), !.exclusive = 1],
   [Args("priority", W(1)) EXCEPT !.id = Top(2)], [Args("priority", W(1)) EXCEPT !.id = W(1)],
   Args("rst_stream", W(1)),
   [Args("ping", W(1)) EXCEPT !.flags = {"ack"}],
   [Args("go_away", Zero) EXCEPT !.id = Top(2), !.n = 1], [Args("go_away", Zero) EXCEPT !.n = 5],
   Args("window_update", Zero), [Args("window_update", W(1)) EXCEPT !.value = Top(0)]}

(* As many bytes are data as there is room for.                            *)
Raw(type, flags, stream, len, pad) ==
  LET f == [type |-> type, flags |-> flags, stream |-> W(stream), len |-> len, pad |-> pad,
            id |-> W(2), value |-> W(3)]
      room == len - Prefix(type, flags) - PadOf(f)
  IN  f @@ ("n" :> IF room > 0 THEN room ELSE 0)

SomeRaws ==
  {Raw("data", {"padded"}, 1, len, pad) : len \in 0..3, pad \in 0..3} \cup
  {Raw("headers", {"padded", "priority"}, 1, len, pad) :
     len \in {0, 5, 6, 7, 8, 12}, pad \in 0..2} \cup
  {Raw("headers", {"priority", "end_headers"}, 1, len, 0) : len \in 4..6} \cup
  {Raw("headers", {"padded", "ack"}, stream, 2, pad) : stream \in 0..1, pad \in 1..2} \cup
  {Raw("data", {}, 0, 0, 0), Raw("data", {"priority"}, 1, 13, 0),
   Raw("continuation", {"padded"}, 1, 1, 3), Raw("continuation", {}, 0, 0, 0),
   Raw("headers", {"priority"}, 2, 5, 0)} \cup
  {Raw(type, {"padded"}, stream, len, 1) :
     type \in {"priority", "rst_stream", "ping", "window_update"}, stream \in 0..1,
     len \in {4, 5, 8}} \cup
  {Raw("go_away", {}, stream, len, 0) : stream \in 0..1, len \in {7, 8, 9}}

(* A third frame is sent only after two calls.                             *)
RawsInTwo == Len(sent) = 3 => \A k \in 1..3 : sent[k].call # <<>>
=============================================================================
