--------------------------- MODULE MCDynamicTable ---------------------------
(* Headers of 33 to 35 bytes, and sizes at and next to the sizes of one,   *)
(* two, three and four of them.                                            *)
EXTENDS DynamicTable

TwoNames   == {<<"n">>, <<"n", "m">>}
TwoValues  == {<<>>, <<"v">>}
TwoStatics == <<[name |-> <<"n">>, value |-> <<"v">>], [name |-> <<"n", "m">>, value |-> <<>>]>>
SomeSizes  == {0, 33, 34, 67, 70, 101, 138}
=============================================================================
