----------------------------- MODULE Http11Head -----------------------------
(***************************************************************************)
(* The head of an HTTP/1.1 request: http_parse_http11_request reads it     *)
(* line by line, makes headers of the lines and a body of what follows     *)
(* (get_body_reader), and the functions of request.rs tell a plugin what   *)
(* the resulting Request says.                                             *)
(*                                                                         *)
(* Bytes come as symbols: a blank " ", "CR", "LF", ":", "/", ".", a digit, *)
(* or a word that the code compares or passes on as it is.  A value cut in *)
(* two is a shorter sequence.  "bad" stands for bytes that are not UTF-8,  *)
(* and "?" for what they are replaced by.  A peer may close its end after  *)
(* any symbol.                                                             *)
(***************************************************************************)
EXTENDS Integers, SequencesExt, FiniteSetsExt

CONSTANTS
  Symbols,    \* what the bytes come as
  Requests,   \* what peers send, see Peer
  Lower,      \* the lower case of each symbol that has another one
  Lookups,    \* the names that a plugin looks up
  MaxIndex,   \* and the highest index
  MaxNumber,  \* the largest value of a usize
  MaxErrors,  \* bound on the errors of the connection
  None

White == {" ", "CR", "LF"}

Digit == ("0" :> 0) @@ ("1" :> 1) @@ ("2" :> 2)

NotANumber == -1

(***************************************************************************)
(* A request as its peer has made it: the words of its first line, its     *)
(* fields, each with what is between name and value, the end of a line,    *)
(* what follows the head, and how much of it all is sent.                  *)
(***************************************************************************)
FieldLine(f) == f.name \o f.sep \o f.value

Spaced(ws) == FlattenSeq([i \in 1..Len(ws) |-> Append(ws[i], " ")])

Words(ws) == Front(Spaced(ws))

(* The lines of the first n fields.                                        *)
Lines(r, n) == FlattenSeq([i \in 1..n |-> FieldLine(r.fields[i]) \o r.eol])

HeadOf(r) == Words(r.start) \o r.eol \o Lines(r, Len(r.fields)) \o r.eol

Wire(r) == HeadOf(r) \o r.rest

Text == Seq(Symbols)

ASSUME PeerAssumption ==
  /\ {" ", ":", "CR", "LF"} \subseteq Symbols
  /\ None \notin Text
  /\ {MaxIndex, MaxNumber, MaxErrors} \subseteq Nat
  /\ \A r \in Requests :
       /\ r.start \in Seq(Text) /\ r.start # <<>>
       /\ r.fields \in Seq([name : Text, sep : {<<>>, <<":">>, <<":", " ">>}, value : Text])
       /\ r.eol \in {<<"LF">>, <<"CR", "LF">>}
       /\ r.rest \in Text
       /\ r.eof \in 0..Len(Wire(r))
       /\ \A i \in 1..Len(r.start) : ToSet(r.start[i]) \cap White = {}
       /\ \A i \in 1..Len(r.fields) :
            LET f == r.fields[i]
            IN  /\ FieldLine(f) # <<>>
                /\ ToSet(FieldLine(f)) \cap {"CR", "LF"} = {}
                /\ ":" \notin ToSet(f.name)
                /\ f.sep = <<>> => ":" \notin ToSet(f.value)
                /\ f.value = <<>> \/ f.value[1] # " "

VARIABLES
  req,      \* the request of the peer
  input,    \* what has come of it and is not read yet
  line,     \* the line that was read and is not parsed yet, without its end
  phase,    \* where http_parse_http11_request is
  uri,      \* its local variables: the second word of the first line,
  headers,  \* and headers
  length,   \* Body.content_length
  chunked,  \* Body.chunked_encoding
  method,   \* the fields of Request
  path,
  host,
  res,      \* the HttpResult
  got,      \* the last call of a plugin,
  value,    \* and the Buffer that it has passed
  errors

parsing == <<uri, headers, length, chunked, method, path, host>>
plugin  == <<got, value>>
headVars    == <<req, input, line, phase, parsing, res, plugin, errors>>

Phase == {"status", "headers", "body", "request", "parsed", "refused", "destroyed"}

HeadTypeOK ==
  /\ Len(input) <= req.eof
  /\ phase \in Phase
  /\ \A name \in DOMAIN headers : Len(headers[name]) > 0
  /\ length \in 0..MaxNumber /\ chunked \in BOOLEAN
  /\ res.ok \in BOOLEAN
  /\ got.index \in 0..MaxIndex /\ got.code \in Nat
  /\ errors \in 0..MaxErrors

NoCall == [call |-> "none", name |-> <<>>, index |-> 0, code |-> 0]

(* The caller's result may be left from an earlier call, its buffer too.   *)
HeadInit ==
  /\ req \in Requests
  /\ input = SubSeq(Wire(req), 1, req.eof)
  /\ line = None
  /\ phase = "status"
  /\ uri = <<>> /\ headers = << >> /\ length = 0 /\ chunked = FALSE
  /\ method = <<>> /\ path = <<>> /\ host = <<>>
  /\ res \in {[ok |-> TRUE, err |-> ""], [ok |-> FALSE, err |-> "stale"]}
  /\ got = NoCall /\ value = <<"stale">>
  /\ errors = 0

-----------------------------------------------------------------------------
(* Of a sequence: where x is first, what is before and behind a place, and *)
(* without the blanks at its end (trim_end) or start (trim_ascii_start).   *)
Find(s, x) == LET Is(e) == e = x IN SelectInSeq(s, Is)

Upto(s, n) == SubSeq(s, 1, n)

Behind(s, n) == SubSeq(s, n + 1, Len(s))

Solid(e) == e \notin White

TrimEnd(s) == Upto(s, SelectLastInSeq(s, Solid))

TrimStart(s) ==
  LET i == SelectInSeq(s, Solid) IN IF i = 0 THEN <<>> ELSE Behind(s, i - 1)

StripSuffix(s, e) == IF s # <<>> /\ Last(s) = e THEN Front(s) ELSE s

(* Mutant: only the LF of a line is taken off.                             *)
StripLineFeed(s) == StripSuffix(s, "LF")

Strip(s) == StripSuffix(StripSuffix(s, "LF"), "CR")

(* read_line and read_until: up to the end of a line, or of the input.     *)
LineEnd(s) == IF Find(s, "LF") = 0 THEN Len(s) ELSE Find(s, "LF")

Eol == LineEnd(input)

NextLine == Upto(input, Eol)

Lossy(s) == ReplaceAll(s, "bad", "?")

LowerCase(s) == [i \in DOMAIN s |-> IF s[i] \in DOMAIN Lower THEN Lower[s[i]] ELSE s[i]]

(* parse and from_str_radix: a number that a usize can hold.               *)
Number(s, base) ==
  LET Add(n, e) == base * n + Digit[e]
      n == FoldLeft(Add, 0, s)
  IN  IF s # <<>> /\ ToSet(s) \subseteq DOMAIN Digit /\ n \in 0..MaxNumber THEN n ELSE NotANumber

set_ok == res' = [ok |-> TRUE, err |-> ""]

set_err(err) == res' = [ok |-> FALSE, err |-> err]

(* Drop of RAIIReader, and of the BufReader with what it has buffered.     *)
DropReader == input' = <<>>

Refuse(err) ==
  /\ phase' = "refused"
  /\ set_err(err)
  /\ DropReader
  /\ UNCHANGED parsing

-----------------------------------------------------------------------------
(* Mutant: the loop waits for more at the end of the input.                *)
ReadSomeLine ==
  /\ line = None /\ input # <<>>
  /\ \/ phase = "status" /\ line' = TrimEnd(NextLine)
     \/ phase = "headers" /\ line' = Strip(NextLine)
  /\ input' = Behind(input, Eol)
  /\ UNCHANGED <<req, phase, parsing, res, plugin, errors>>

(* The next line of the loop, which is empty at the end of the input.      *)
ReadHeadLine ==
  /\ line = None
  /\ \/ phase = "status" /\ line' = TrimEnd(NextLine)
     \/ phase = "headers" /\ line' = Strip(NextLine)
  /\ input' = Behind(input, Eol)
  /\ UNCHANGED <<req, phase, parsing, res, plugin, errors>>

ReadHeadFails ==
  /\ phase \in {"status", "headers"} /\ line = None
  /\ errors < MaxErrors
  /\ errors' = errors + 1
  /\ Refuse(IF phase = "status" THEN "Failed to read status line"
                                ELSE "Failed to read header line")
  /\ UNCHANGED <<req, line, plugin>>

(* Where the words of the first line end (splitn).                         *)
Blanks == {i \in DOMAIN line : line[i] = " "}

First == Min(Blanks)

Second == Min(Blanks \ {First})

(* What is wrong with the first line.                                      *)
StatusError ==
  LET version == Behind(line, Second)
  IN  IF "bad" \in ToSet(line)                    THEN "Failed to read status line"
      ELSE IF line = <<>> \/ 1 \in Blanks         THEN "No method found"
      ELSE IF Blanks = {}                         THEN "No URI found"
      ELSE IF Blanks = {First}                    THEN "No version found"
      ELSE IF version[1] # "HTTP/"                THEN "No http prefix"
      ELSE IF "." \notin ToSet(version)           THEN "Version not split"
      ELSE IF version # <<"HTTP/", "1", ".", "1">> THEN "HTTP not version 1.1"
      ELSE "none"

ParseStatusLine ==
  /\ phase = "status" /\ line # None
  /\ IF StatusError # "none"
     THEN Refuse(StatusError)
     ELSE /\ phase' = "headers"
          /\ method' = Upto(line, First - 1)
          /\ uri' = SubSeq(line, First + 1, Second - 1)
          /\ UNCHANGED <<input, headers, length, chunked, path, host, res>>
  /\ line' = None
  /\ UNCHANGED <<req, plugin, errors>>

(* The values of a name, in the order of the lines.                        *)
Values(name) == IF name \in DOMAIN headers THEN headers[name] ELSE <<>>

Push(name, v) ==
  headers' = [n \in DOMAIN headers \cup {name} |->
                IF n = name THEN Append(Values(name), v) ELSE headers[n]]

Colon == Find(line, ":")

ParseHeaderLine ==
  /\ phase = "headers" /\ line # None
  /\ \/ line = <<>> /\ phase' = "body" /\ UNCHANGED <<input, parsing, res>>
     \/ line # <<>> /\ Colon = 0 /\ Refuse("No colon")
     \/ /\ Colon # 0
        /\ Push(LowerCase(Upto(line, Colon - 1)), TrimStart(Behind(line, Colon)))
        /\ UNCHANGED <<input, phase, uri, length, chunked, method, path, host, res>>
  /\ line' = None
  /\ UNCHANGED <<req, plugin, errors>>

-----------------------------------------------------------------------------
(* Mutant: only the first transfer-encoding is looked at.                  *)
FirstIsChunked ==
  /\ Values(<<"transfer-encoding">>) # <<>>
  /\ Values(<<"transfer-encoding">>)[1] = <<"chunked">>

IsChunked == \E i \in 1..Len(Values(<<"transfer-encoding">>)) :
               Values(<<"transfer-encoding">>)[i] = <<"chunked">>

(* The length that the headers give; one that is not UTF-8 is 0.           *)
ContentLength ==
  LET values == Values(<<"content-length">>)
  IN  IF values = <<>> \/ "bad" \in ToSet(values[1]) THEN 0 ELSE Number(values[1], 10)

(* get_body_reader                                                         *)
OpenBody ==
  /\ phase = "body"
  /\ \/ /\ IsChunked
        /\ LET size == Number(TrimEnd(NextLine), 16)
           IN  IF size = NotANumber
               THEN Refuse("Failed to create body")
               ELSE /\ phase' = "request"
                    /\ length' = size
                    /\ chunked' = (size # 0)
                    /\ input' = Behind(input, Eol)
                    /\ UNCHANGED <<uri, headers, method, path, host, res>>
     \/ /\ ~IsChunked
        /\ IF ContentLength = NotANumber
           THEN Refuse("Failed to create body")
           ELSE /\ phase' = "request"
                /\ length' = ContentLength
                /\ UNCHANGED <<input, uri, headers, chunked, method, path, host, res>>
  /\ UNCHANGED <<req, line, plugin, errors>>

OpenBodyFails ==
  /\ phase = "body"
  /\ IsChunked
  /\ errors < MaxErrors
  /\ errors' = errors + 1
  /\ Refuse("Failed to create body")
  /\ UNCHANGED <<req, line, plugin>>

Https == <<"https", ":", "/", "/">>

(* The path and the host, and Request::new with set_ok.                    *)
MakeRequest ==
  /\ phase = "request"
  /\ LET names == Values(<<"host">>)
         rest  == Behind(uri, 4)
         slash == Find(rest, "/")
     IN  IF names = <<>> /\ ~IsPrefix(Https, uri)
         THEN Refuse("Invalid URI scheme")
         ELSE IF names = <<>> /\ slash = 0
         THEN Refuse("Invalid URI path")
         ELSE /\ phase' = "parsed"
              /\ path' = IF names # <<>> THEN uri ELSE Behind(rest, slash - 1)
              /\ host' = IF names # <<>> THEN Lossy(names[1]) ELSE Upto(rest, slash - 1)
              /\ set_ok
              /\ UNCHANGED <<input, uri, headers, length, chunked, method>>
  /\ UNCHANGED <<req, line, plugin, errors>>

-----------------------------------------------------------------------------
(* The plugin, which asks in any order.                                    *)
Answer(call, name, index, code) ==
  /\ phase = "parsed"
  /\ got' = [call |-> call, name |-> name, index |-> index, code |-> code]
  /\ UNCHANGED <<req, input, line, phase, parsing, res, errors>>

GetMethod == Answer("method", <<>>, 0, 0) /\ value' = method

GetPath == Answer("path", <<>>, 0, 0) /\ value' = path

GetUri == Answer("uri", <<>>, 0, 0) /\ value' = Https \o host \o path

GetHeaderCount(name) ==
  /\ Answer("count", name, 0, Len(Values(name)))
  /\ UNCHANGED value

(* Mutant: the buffer is emptied first.                                    *)
GetHeaderCleared(name, index) ==
  LET code == IF name \notin DOMAIN headers THEN 1
              ELSE IF index >= Len(headers[name]) THEN 2 ELSE 0
  IN  /\ Answer("header", name, index, code)
      /\ value' = IF code = 0 THEN headers[name][index + 1] ELSE <<>>

(* 1 if there is no such name, 2 if it has no value with this index.       *)
GetHeader(name, index) ==
  LET code == IF name \notin DOMAIN headers THEN 1
              ELSE IF index >= Len(headers[name]) THEN 2 ELSE 0
  IN  /\ Answer("header", name, index, code)
      /\ value' = IF code = 0 THEN headers[name][index + 1] ELSE value

DestroyRequest ==
  /\ phase = "parsed"
  /\ phase' = "destroyed"
  /\ DropReader
  /\ UNCHANGED <<req, line, parsing, res, plugin, errors>>

Parse == ReadHeadLine \/ ParseStatusLine \/ ParseHeaderLine \/ OpenBody \/ MakeRequest

Fails == ReadHeadFails \/ OpenBodyFails

HeadNext ==
  \/ Parse \/ Fails
  \/ GetMethod \/ GetPath \/ GetUri
  \/ \E name \in Lookups :
       GetHeaderCount(name) \/ \E index \in 0..MaxIndex : GetHeader(name, index)
  \/ DestroyRequest

(* A peer sends or closes, so that no read waits for ever.                 *)
HeadSpec == HeadInit /\ [][HeadNext]_headVars /\ WF_headVars(Parse)

-----------------------------------------------------------------------------
(* What has come of the peer's fields: each line that has begun to come,   *)
(* cut where the connection was closed.                                    *)
Begins(r, i) == Len(Words(r.start) \o r.eol) + Len(Lines(r, i - 1))

Cut(s, n) == Upto(s, IF n < 0 THEN 0 ELSE IF n < Len(s) THEN n ELSE Len(s))

Arrived(r) ==
  [i \in {j \in 1..Len(r.fields) : Begins(r, j) < r.eof} |->
     LET n == r.eof - Begins(r, i)
         f == r.fields[i]
     IN  [name  |-> Cut(f.name, n),
          sep   |-> Cut(f.sep, n - Len(f.name)),
          value |-> Cut(f.value, n - Len(f.name \o f.sep))]]

(* The values that the peer has given under a name, in any case, with the  *)
(* first n fields that have come, or all of them.                          *)
GivenBy(r, name, n) ==
  FlattenSeq([i \in 1..n |->
    IF LowerCase(Arrived(r)[i].name) = name THEN <<Arrived(r)[i].value>> ELSE <<>>])

Given(r, name) == GivenBy(r, name, Len(Arrived(r)))

SentChunked(r) == \E i \in DOMAIN Given(r, <<"transfer-encoding">>) :
                    Given(r, <<"transfer-encoding">>)[i] = <<"chunked">>

SentLength(r) ==
  LET sent == Given(r, <<"content-length">>)
  IN  IF sent = <<>> \/ "bad" \in ToSet(sent[1]) THEN 0 ELSE Number(sent[1], 10)

(* The bytes of the first size line.                                       *)
SizeLine(r) ==
  LET rest == SubSeq(Wire(r), Len(HeadOf(r)) + 1, r.eof) IN Upto(rest, LineEnd(rest))

Whole(r) == Len(HeadOf(r)) <= r.eof

(* A request that is handed to a plugin is the one that was sent: all its  *)
(* fields with all their values in order, none of them cut but the last    *)
(* one of a head that was cut off by a close, and its body begins just     *)
(* behind the head, with the length that the head gives                    *)
(* (http_parse_http11_request, get_body_reader).                           *)
AsSent ==
  phase = "parsed" =>
    /\ method = req.start[1]
    /\ DOMAIN headers = {LowerCase(Arrived(req)[i].name) : i \in DOMAIN Arrived(req)}
    /\ \A name \in DOMAIN headers : headers[name] = Given(req, name)
    /\ LET sent == Given(req, <<"host">>)
       IN  IF sent # <<>>
           THEN path = req.start[2] /\ host = Lossy(sent[1])
           ELSE Https \o host \o path = req.start[2] /\ path[1] = "/"
    /\ LET skip == IF SentChunked(req) THEN Len(SizeLine(req)) ELSE 0
       IN  input = IF Whole(req) THEN SubSeq(Wire(req), Len(HeadOf(req)) + skip + 1, req.eof)
                                 ELSE <<>>
    /\ IF SentChunked(req)
       THEN length = Number(TrimEnd(SizeLine(req)), 16) /\ chunked = (length # 0)
       ELSE length = SentLength(req) /\ ~chunked

(* What has come of the words of the first line: where each begins, and    *)
(* each that has begun before the blanks at the end, cut like the fields.  *)
WordAt(r, i) == Len(Spaced(Upto(r.start, i - 1)))

Said(r) ==
  LET n == Len(TrimEnd(Cut(Words(r.start), r.eof)))
  IN  [i \in {j \in 1..Len(r.start) : WordAt(r, j) <= n} |-> Cut(r.start[i], n - WordAt(r, i))]

(* What is wrong with the first line of a request, by its words.           *)
WrongStart(r) ==
  LET ws == Said(r)
  IN  {err \in {"Failed to read status line", "No method found", "No URI found",
               "No version found", "No http prefix", "Version not split",
               "HTTP not version 1.1"} :
        \/ err = "Failed to read status line" /\ \E i \in DOMAIN ws : "bad" \in ToSet(ws[i])
        \/ err = "No method found" /\ ws[1] = <<>>
        \/ err = "No URI found" /\ 2 \notin DOMAIN ws
        \/ err = "No version found" /\ 3 \notin DOMAIN ws
        \/ /\ 3 \in DOMAIN ws
           /\ \/ err = "No http prefix" /\ (ws[3] = <<>> \/ ws[3][1] # "HTTP/")
              \/ err = "Version not split" /\ "." \notin ToSet(ws[3])
              \/ err = "HTTP not version 1.1" /\ ws[3] # <<"HTTP/", "1", ".", "1">>
        \/ err = "HTTP not version 1.1" /\ 4 \in DOMAIN ws}

(* What is wrong with the rest, by the fields and the first size line.     *)
WrongFields(r) ==
  LET fs == Arrived(r)
      ws == Said(r)
  IN  {err \in {"No colon", "Failed to create body", "Invalid URI scheme", "Invalid URI path"} :
        \/ err = "No colon" /\ \E i \in DOMAIN fs : fs[i].sep = <<>>
        \/ /\ err = "Failed to create body"
           /\ NotANumber = IF SentChunked(r) THEN Number(TrimEnd(SizeLine(r)), 16) ELSE SentLength(r)
        \/ /\ 2 \in DOMAIN ws /\ Given(r, <<"host">>) = <<>>
           /\ \/ err = "Invalid URI scheme" /\ ~IsPrefix(Https, ws[2])
              \/ err = "Invalid URI path" /\ "/" \notin ToSet(Behind(ws[2], 4))}

Wrong(r) == WrongStart(r) \cup WrongFields(r)

(* A request is refused only for something that is wrong with it or an     *)
(* error of its connection, the result names what it is, and nothing of an *)
(* earlier result is left (set_ok, set_err!, test_parse_errors).           *)
Verdict ==
  /\ HeadTypeOK
  /\ phase = "parsed" => Wrong(req) = {} /\ res = [ok |-> TRUE, err |-> ""]
  /\ phase = "refused" => ~res.ok /\ (errors = 0 => res.err \in Wrong(req))

(* A plugin gets what the peer has sent: under a name in lower case every  *)
(* value of it by its index; its buffer is kept if there is none           *)
(* (http_get_header_count, http_get_header, http_get_uri).                 *)
Answers ==
  [][LET sent == Given(req, got'.name)
         k    == got'.index
     IN  /\ got'.call \in {"none", "count"} => value' = value
         /\ got'.call = "count" => got'.code = Len(sent)
         /\ got'.call = "header" =>
              /\ got'.code = IF sent = <<>> THEN 1 ELSE IF k < Len(sent) THEN 0 ELSE 2
              /\ value' = IF k < Len(sent) THEN sent[k + 1] ELSE value
         /\ got'.call = "method" => value' = req.start[1]
         /\ got'.call = "uri" /\ Given(req, <<"host">>) = <<>> => value' = req.start[2]
    ]_headVars

(* Every request is parsed or refused, one that was cut off too: the loop  *)
(* over the lines ends at the end of the input.                            *)
EventuallyParsed == <>(phase \in {"parsed", "refused", "destroyed"})
=============================================================================
