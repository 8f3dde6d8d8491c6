---------------------------- MODULE MCHttp2Start ----------------------------
(* A frame size in 12..23, a window of at most 9; settings at and beside   *)
(* every limit, an unknown one, and repeated ones, since two or three go   *)
(* into a frame.                                                           *)
EXTENDS Http2Start

Setting(n, v) == [kind |-> "setting", name |-> n, value |-> v]

SomeCells ==
  {Setting(1, 0), Setting(1, 4), Setting(2, 0), Setting(2, 2), Setting(3, 0), Setting(4, 9),
   Setting(4, 10), Setting(5, 11), Setting(5, 12), Setting(5, 18), Setting(5, 23),
   Setting(5, 24), Setting(7, 1)}

Header(isSettings, isAck, n, stream) ==
  [kind |-> "header", settings |-> isSettings, ack |-> isAck, len |-> n, stream |-> stream]

SomeHeaders ==
  {Header(TRUE, FALSE, n, 0) : n \in {0, 6, 12, 13, 18}} \cup
  {Header(FALSE, FALSE, 12, 0), Header(TRUE, TRUE, 0, 0), Header(TRUE, TRUE, 6, 0),
   Header(TRUE, FALSE, 6, 1)}

Own(table, push, streams, window, frame, list) ==
  <<<<table>>, <<push>>, streams, <<window>>, <<frame>>, list>>

(* All defaults, none of them, and an optional one that is zero.           *)
SomeOwns ==
  {Own(4, 1, <<>>, 7, 12, <<>>), Own(0, 0, <<5>>, 0, 18, <<3>>), Own(4, 1, <<0>>, 7, 18, <<>>)}
=============================================================================
