---------------------------- MODULE MCHttp11Head ----------------------------
(***************************************************************************)
(* Requests for Http11Head: first lines with and without faults, up to     *)
(* two fields that name the host and the length of the body, twice, in     *)
(* another case, and not as they should; each cut off after every symbol.  *)
(***************************************************************************)
EXTENDS Http11Head

MCSymbols == {" ", "CR", "LF", ":", "/", ".", "0", "1", "2", "bad", "GET", "HTTP/", "https", "h", "x", "X",
              "Host", "host", "Content-Length", "content-length", "transfer-encoding", "chunked"}

MCLower == ("Host" :> "host") @@ ("X" :> "x") @@ ("Content-Length" :> "content-length")

Version(minor) == <<"HTTP/", "1", ".", minor>>

Absolute == Https \o <<"h", "/", "x">>

Good == {<<<<"GET">>, <<"/">>, Version("1")>>, <<<<"GET">>, Absolute, Version("1")>>}

Odd == {<<<<>>>>, <<<<"GET">>>>, <<<<>>, <<"/">>, Version("1")>>, <<<<"GET">>, <<>>, Version("1")>>,
        <<<<"GET">>, <<"/">>>>, <<<<"GET">>, <<"/">>, <<"1", ".", "1">>>>,
        <<<<"GET">>, <<"/">>, <<"HTTP/", "1", "1">>>>, <<<<"GET">>, <<"/">>, Version("0")>>,
        <<<<"GET">>, <<"/">>, Version("1"), <<>>>>, <<<<"GET">>, <<"/">>, Version("1"), <<"x">>>>,
        <<<<"GET">>, <<"bad">>, Version("1")>>, <<<<"GET">>, Https \o <<"h">>, Version("1")>>,
        <<<<"GET">>, <<>>, <<"x">>, <<>>, <<>>>>, <<<<"GET">>, Absolute, Append(Version("1"), "x")>>,
        <<<<"GET">>, Absolute, Version("1"), <<>>, <<"x">>>>}

Field(name, sep, v) == [name |-> <<name>>, sep |-> sep, value |-> v]

Host == {Field("Host", <<":", " ">>, <<"h", ":", "1">>)}

Some == Host \cup
  {Field("host", <<":">>, <<"bad">>), Field("Host", <<>>, <<"h">>),
   Field("Content-Length", <<":", " ">>, <<"1", "2">>), Field("content-length", <<":">>, <<"2">>),
   Field("content-length", <<":">>, <<"1", " ">>), Field("content-length", <<":">>, <<"bad">>),
   Field("transfer-encoding", <<":">>, <<"x">>), Field("transfer-encoding", <<":", " ">>, <<"chunked">>),
   Field("X", <<":">>, <<>>), Field("x", <<":", " ">>, <<"x", " ", ":">>)}

Pairs == {<<f, g>> : f, g \in Some}

Sent(starts, lists, eols, rests) ==
  UNION {{[start |-> s, fields |-> l, eol |-> e, rest |-> t, eof |-> cut] :
            cut \in 0..Len(Wire([start |-> s, fields |-> l, eol |-> e, rest |-> t]))} :
           s \in starts, l \in lists, e \in eols, t \in rests}

Sizes == {<<"2", "CR", "LF", "x">>, <<"0", "LF">>, <<"x">>}

MCRequests ==
  Sent(Good, {<<>>} \cup {<<f>> : f \in Some}, {<<"LF">>, <<"CR", "LF">>}, Sizes)
    \cup Sent(Odd, {<<>>} \cup {<<f>> : f \in Host}, {<<"CR", "LF">>}, {<<>>})
    \cup Sent({<<<<"GET">>, Absolute, Version("1")>>}, Pairs, {<<"LF">>}, {<<"2", "LF">>})

MCLookups == {<<"x">>, <<"X">>, <<"content-length">>}
=============================================================================
