---------------------------- MODULE MCHeaderBlock ---------------------------
(* Headers of 33 and 34 bytes; a table for two of them, but not for the    *)
(* two longest; prefixes that are full for some indices, sizes and         *)
(* lengths, but not for all.                                               *)
EXTENDS HeaderBlock

OneName   == {<<1>>}
TwoValues == {<<>>, <<3>>}
OneStatic == <<[name |-> <<1>>, value |-> <<3>>]>>
SomeSizes == {34, 67}
Prefixes  == [indexed |-> 3, incremental |-> 2, plain |-> 1, size |-> 40, length |-> 1]
=============================================================================
