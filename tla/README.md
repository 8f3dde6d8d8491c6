# A verification of proxy_rs in TLA+

proxy_rs is a small TLS proxy server that hands each HTTP request to a plugin.
This directory keeps specifications of its protocol code, the TLC runs that
check them on small instances, and proofs checked by TLAPS. The reference of
every definition is the source: `PROJECT.json`, under "map", gives the lines
each one stands for.

## The system

| part | source | state it keeps | operations | who calls it |
| --- | --- | --- | --- | --- |
| server loop | `src/main.rs` | the listener, one plugin | accept, split, parse, handle, drop; one connection at a time | the process |
| plugin loader | `src/plugin.rs` | library handle, plugin data, two functions | load, handle_request, close | server loop |
| TLS | `src/tls/*.rs` | OpenSSL context and connection pointers, two halves of a split stream | accept, handshake, ALPN, read, write, drop | server loop, Reader/Writer |
| Reader, Writer | `http/src/bio.rs` | a data pointer and its read/write/clear functions | one read or write with its result, destroy | everything that does I/O |
| result | `http/src/result.rs` | ok flag, value pointer, error text | set_ok, set_err! | every C function |
| buffer | `http/src/buffer.rs` | length, capacity, allocation, allocator | reserve, push, extend, clear, free | HPACK, frames, accessors, errors |
| request head | `http/src/http11.rs` 140-260 | none | parse the request line and headers | server loop |
| request body | `http/src/http11.rs` 15-115 | bytes left of the current chunk, whether chunked | open by the headers, read | plugin, through http_read_body |
| request | `http/src/request.rs` | method, path, host, headers, body reader | accessors, read body, destroy | plugin |
| response | `http/src/response.rs`, `http11.rs` 262-327 | header map, `written` | add/remove header, write status, write body | plugin |
| HTTP/2 start | `http/src/http2/mod.rs` | none until it returns a context | preface, settings both ways | (server loop, disabled) |
| context, settings | `http2/context.rs`, `frame/settings.rs` | six settings, header table, hash state | get, set, read and write a SETTINGS frame | frames |
| frames | `http2/frame/*.rs` | none of their own; position in the stream | read and write each frame type | caller of the C functions |
| HPACK tables | `http2/hpack/tables.rs` | ring of encoded entries, two limits, a count | insert, get, resize, reset | HEADERS, CONTINUATION |
| HPACK literals, Huffman | `http2/hpack/literal.rs`, `huffman.rs` | none | integers, strings, codes | HEADERS, CONTINUATION |
| Rust bindings | `http_rs/src/*.rs` | a pointer each | forward to the C functions | plugins in Rust, server loop |

How they interact: everything is synchronous calls on one thread. The peer is
the only concurrent actor; it reaches the program through `Reader::read` and
`Writer::write`, which may take or give any part of what was asked, fail, or
meet the end of the stream. The plugin is the other actor: it calls the C
functions in any order and retries what failed. So the hard behaviours are
short reads and writes, an error in the middle of an operation that has already
consumed or produced something, retries after it, early closes, payload that
looks like framing, call orders nobody tested, and limits (usize, the 8 KiB
buffers, table sizes). In the server loop it is ownership: descriptors and
OpenSSL objects are raw numbers and pointers that are released by hand, on each
of many ways through the loop. Nothing is persisted, and there are no timeouts.
A plugin may run threads of its own, which matters only in that it opens and
closes files while the server works.

What makes each part correct:

- request body: the plugin gets the payload, all of it, in order, and nothing
  else; it learns the end; nothing after the body is consumed.
- response: one complete head, then the body in order; counts that are true;
  headers as they were asked for.
- HPACK table: behaves as the first-in first-out list of RFC 7541 with its size
  accounting, whatever is evicted or resized; the limit is never exceeded.
- buffer: length within capacity, released with the size it was allocated with.
- frames: a frame that is read successfully consumes exactly its length;
  limits are checked before use.
- HTTP/2 start: the order of preface and settings, and which side's settings
  limit what.
- request head: the request that a plugin gets is the one that was sent, and
  one that is refused has something wrong with it, which is named.
- server loop: everything a connection takes is released once, on every path,
  and no connection's bytes end up in another; every peer is dealt with.

## The plan

In this order; a later module may use an earlier one.

| | module | about | state |
| --- | --- | --- | --- |
| 1 | `BodyStream`, `Http11Body`, `Http11RequestProofs` | the request body and what it promises to a plugin | checked; every safety invariant and the refinement proved |
| 2 | `Http11Response`, `Http11ResponseProofs` | the response on the wire, and its headers | checked; every safety invariant proved |
| 3 | `HeaderList`, `DynamicTable`, `StorageProofs` | the HPACK table as a list, and as the ring of bytes that implements it | checked; every property proved, the refinement included |
| 4 | `HeaderBlock`, `HpackProofs` | an HPACK encoder and `read_header` with its table | checked; every property proved |
| 5 | `Http2Start`, `Http2StartProofs` | preface, settings and the limits that follow | checked; every safety invariant proved |
| 6 | `Frames`, `FramesProofs` | what each reader of a frame consumes, refuses and returns, and what each writer puts on the wire | checked; every safety invariant proved |
| 7 | `Buffer`, `StorageProofs` | growth, contents, release with the right size and allocator | checked; every safety invariant proved |
| 8 | `Literals`, `HpackProofs` | HPACK integers with the width of their sums, and strings, cut anywhere | checked; all invariants proved |
| 9 | `HuffmanTables`, `Huffman`, `HuffmanProofs` | the Huffman code: the size told, encoding, decoding of any data | checked with the tables of the source; all invariants proved for any prefix code |
| 10 | `Server`, `ServerProofs` | the server loop with TLS, its plugin and the bindings: what a connection owns and who releases it, on every path; liveness of the loop | checked; all safety invariants proved |
| 11 | `Http11Head`, `Http11RequestProofs` | the request line and header parser, the opening of the body, and what a plugin is told | checked; every safety property proved |

Every safety invariant and action property that a run checks is a theorem, and so
are the two refinements; liveness is left to TLC.

## The modules

### Http11Body, BodyStream

`Http11Body` models `Body` (`http11.rs` 15-115), opened by
`get_body_reader` and read through `http_read_body`. Its state is that of the
code (`remaining`, whether it is chunked) and the position in what the peer
sends. A byte is a digit, a line feed, a blank or anything else, which is what
the parser of size lines can tell apart; the contents of a line are parsed by
what `from_str_radix` and `trim` do with these. The actions are the opening
with a length and with chunks, and the branches of `read`: within a chunk, at
a chunk boundary, without room, past the end; each of them in the form where
the connection gives what is asked for, gives less, or fails. A connection
error can hit the inside of a size line, after which the code has consumed part
of the line: `LossHasCause` says that this, an early close, an unreadable
length and a read past the end are the only ways to lose the framing.

`BodyStream` is what a plugin may rely on: bytes of the payload in their order,
an error at any time, the end only when everything has been handed over. The
refinement forgets the wire and the parser; it is the property `KeepsPromise`.

### Http11Response

`ResponseWriter` (`response.rs`) and `http11_write_status` (`http11.rs`
262-327). `headers` and `written` are the fields of the code. A call of a
plugin that writes is a sequence of steps, one for each write to the
connection, since any of these may be short or fail: `Push` into the
`BufWriter`, `Overflow` and the flush it causes, a piece that is larger than the
buffer and goes past it, the flush at the end, the attempt to write the rest
when the `BufWriter` is dropped, and then the body. The result of the flush is
known before the drop; an error in between loses part of a head and the
property `WireInOrder` says precisely what is then on the wire. The order in
which a hash map lists the headers is chosen freely.

### HeaderList, DynamicTable

`HeaderList` is the table of RFC 7541 as the code uses it: newest first, each
entry with its size, evicted from the end. `DynamicTable` is the code
(`tables.rs`): the ring, a `VecDeque` and in the model a sequence of bytes, in
which each entry stands between two copies of its size, with the length of its
name and of its value; the two limits; and the count. Entries are encoded and
decoded as the code does it. `IsList`
is the refinement: after every insertion, resize or reset, `get` answers what
the list answers for every index, static ones included. `DoubleEnded` says that
the sizes in front of an entry and behind it agree, so that `evict`, which
walks from the oldest, and `get`, which walks from the newest, cut the ring
into the same entries.

### HeaderBlock

A peer's encoder with its own table (`PeerTable`), and `read_header`
(`header.rs`) with `HeaderList`'s, which `DynamicTable` implements. `data` are
the bytes a caller of `read_header` has, `name` and `value` its two buffers,
`returned` what it was told last; `fields` remembers what each representation
that was sent stands for, where its bytes end and the peer's table behind it.
The encoder sends
representations of every kind, legal and illegal, and cuts the bytes anywhere,
at the end of a HEADERS frame and of each CONTINUATION. `InStep` says that after
each field that was decoded both tables are equal and the headers are the ones
sent so far, `OnlyIllegal` that a legal representation is never refused,
`FieldNotPutOff` that `read_header` asks for more bytes only when more are needed.

### Http2Start

`http_http2_start_connection` (`http2/mod.rs`) with `settings.rs` and
`context.rs`, and the first `http_frame_read_header` after it. The client is a
process of its own: it sends a preface, frame headers and settings, well formed
or not, and closes when it likes. The server's actions are the steps between
two reads or writes, in the code's order; a write may fail with some of it
sent. `settings` is what `read_frame` builds, `ctx` the context that the caller
gets.

### Frames

The readers and writers of all frame types but SETTINGS (`http2/frame/*.rs`)
over one connection. A sender calls the write functions, any of whose writes
may fail with part of the frame sent, or makes frames of its own with fields
at and beyond the limits; the owner of the other end reads each header and then
calls the reader of its type, with the buffers it used before. A frame is its
header and the offsets of its payload bytes, so that a byte taken from the
wrong place shows. Each `read_exact` is a step, which waits for its bytes and
fails if they cannot come. `AsMeant` says that what a reader returns is what the
sender meant, `InFrame` that no read goes beyond its frame, `Judged` that just
the frames that are not allowed are refused, `LossHasCause` what alone can make
a reader lose the borders between frames. `LenMod` stands for the 24 bits of a
length: a writer that is given more data writes the length truncated (the
further truncation to `u32` is the same fault). A word is its low part and its
top bit, since the code treats the top bit apart. A write that fails before it
sent anything changes nothing and is left out.

### Buffer

`buffer.rs`: `data`, `len`, `cap` and `allocator` are the fields of the code;
`heap` is the memory they point to, blocks with a size and cells that are
written or not. A call is split into the steps whose order matters: making room
(`reserve_len` allocates a block, copies, releases the old one, updates the
fields), filling, setting the length. The callers are those of the library:
`push_slice`, `copy_slice`, `extend` and `push`, the readers of frames that read
into the front or behind the contents, `clear` and `http_clear_buffer`. The
allocator may return any block that is not in use, the old one after its
release among them. `expected` remembers what the buffer should hold. After a
read that failed the contents are undefined, as the code documents
(`len` stays set), and the model lets them be anything.

### Literals

`parse_integer`, `write_integer` and `parse_string` (`literal.rs`). The peer
sends an integer as `write_integer` does, or digit by digit as it likes, with
trailing digits of zero and without an end too, and behind the length of a
string its bytes. Any number of them have come when `parse_integer` or
`parse_string` is called; after `TooSmall` more come and it is called again, as
`read_header` does. `sum` and `next` of a byte say what the bytes so far stand
for, so that `Exact` need not know how the code computes it. The code's sums
are taken modulo `Limit`, and `Builds` says whether an overflow panics or
wraps. `decode_bytes` is an operator `Decode` of which only its type is known.

### Huffman, HuffmanTables

`huffman.rs`: `get_size`, `encode_bytes` and `decode_bytes`, one after the
other on a string, or `decode_bytes` alone on data that a peer made. A byte is
eight bits, since the code works on bits: a step of the model is one round of
an inner loop, with the code's `offset`, `index` and `all_ones`. The length of
the data in bits and the bits that are ones are all that `out.push(0)` and
`|=` change. `ends` and `starts` remember where codes end and start.
`HuffmanTables` has the numbers of `HUFFMAN_CODES`, `HUFFMAN_CODE_LEN` and
`TREE_LIST`, the tree as two lists.

Its assumptions are part of what is checked: no code begins another
(`CodesAssumption`), and the tree leads from its root to each leaf by the code
of the leaf's symbol (`TreeAssumption`, in which `Path` is the way to a node).
TLC evaluates them on the tables of the source; a wrong number in
any of them violates one.

### Server

`main` (`src/main.rs`) with the modules it calls: `TlsListener` and `TlsStream`
(`src/tls`), `Plugin` (`src/plugin.rs`), and the boxes of `http_rs` and `http`
around the halves of the stream. Each step of the loop is an action, and each of
its failures another one, since they differ in what they release: compare
`DupFails` with `CloneFails` and `HandshakeFails` with `AttachFails`. `tls`,
`reader` and `writer` are `TlsStream`, `TlsReadStream` and `TlsWriteStream` with
their fields `ssl` and `fd` (`stream`); `Drop` of each is part of the action in
which it goes out of scope.

Around them is what the code relies on and Rust does not know of. `table` says
what each descriptor of the process refers to: `accept`, `dup` (`try_clone`) and
a plugin's `open` take any free number, and one that was closed is given out
again. `refs`, `bound` and `peer` are OpenSSL's: the references it counts for an
object, the descriptor it reads and writes, and the connection it was made for.
`SSL_dup` past a handshake returns the object itself with one more reference, so
that `SSL_set_fd` on the copy redirects both halves to the cloned descriptor.
Both are bounded and can run out. `boxes` are the objects of the `http` library
that exist, `traffic` remembers through whose socket a connection's bytes went.

`OwnedOnce` and `NothingForgotten` are the two sides of ownership: what will be
released is there, and what is there will be released, with the two leaks that
the code has named precisely. `OwnTraffic` says that the shared object, its two
descriptors and numbers used again never mix connections up.
`EveryoneAnswered` says what a peer that connects can hope for; a request that
does not parse ends the server (`main.rs` 58), and failed splits may use the
descriptors up.

### Http11Head

`http_parse_http11_request` and `get_body_reader` (`http11.rs` 57-260) and the
functions of `request.rs`. `phase` is the place in the parser, `line` the line
it has read and not parsed yet; the other variables are its locals and the
fields of `Request` and `Body`. `ReadHeadLine` takes a line, `ParseStatusLine` and
`ParseHeaderLine` do what the code does with it, `OpenBody` is
`get_body_reader`, `MakeRequest` the rest; `Refuse` is `set_err!` with the `Drop`
of the reader. An error of the connection can come at each line
(`ReadHeadFails`, `OpenBodyFails`). Afterwards a plugin asks for anything, in any
order, and destroys the request.

Bytes are symbols; words that the code only copies or compares are one symbol,
so that a cut falls between symbols. What a peer sends is a record of its words
and fields, and the properties are stated on this record, never on the bytes:
`AsSent` compares the request with what the peer meant, `Verdict` the refusal
with what is wrong in it (`Wrong`), and `Answers` each answer with the fields of
the peer under that name. What the connection cut off counts as not said:
`Arrived` has the fields that came, the last one cut, and `Said` the words, those
that the blanks at the end of the line leave. The text of an error is its fixed part; which
detail follows is left out.

`Http11Body` starts where this module ends. It has `get_body_reader` as well,
over the bytes of the body; `AsSent` says that the body begins just behind the
head, with the length and framing of the headers, which is how `Http11Body`
begins.

## The runs

Every run bounds what would grow without end: bytes that arrive, calls of the
plugin, failures. The bounds are constants of the modules; where two questions
share a run, a constraint of the MC module keeps their bounds apart.

- `http11_body` (`MCHttp11Body`): chunked bodies of none, one and two chunks
  whose payload looks like a size line, like a line end and like neither; size
  lines with leading zeros and trailing blanks; a request or nothing behind the
  body; the connection closed after any number of bytes; lengths that are not
  numbers. Buffers of 0 to 3 bytes (`MaxBuf`), so shorter than, as long as and
  longer than what is left of a chunk; two failures (`MaxFaults`), so one after
  a failed retry. `UsizeMax` is 255: the code reads sizes with a checked parse,
  a value above it is one it refuses. Shows that the plugin gets the payload
  and nothing else, learns of the end only at the end, that losses have one of
  the known causes, that reading comes to an end, and that `BodyStream` is
  implemented. (That nothing behind the body is consumed is proved.)
- `http11_response` (`MCHttp11Response`): one header name with up to two values,
  heads of two to four cells, a `BufWriter` of two, so that a head fits, fills
  it, overflows it or goes past it; body calls of 0 to 2 cells; two failures.
  Shows the order on the wire (`WireInOrder`); that between two calls as many
  cells of the body are on the wire as the plugin was told, and all of a head
  that was reported written, unless the head was torn by a failure
  (`Accounted`); and that without a failed write every head succeeds, there is
  at most one, and nothing is lost (`FaultsOnly`).
  Up to four changes of headers with names in two spellings (`InHead`) show that a
  head lists exactly the headers that were added and not removed, according to
  the calls and in whatever spelling (`HeadFaithful`), with one exception:
  values that stood when a removal spelled their name in another way than lower
  case (`Missed`), which the code looks up in vain; the wire is explored after two of them with one
  name (`OnWire`), since only the length of a head matters there.
- `dynamic_table` (`MCDynamicTable`): headers of 33 to 35 bytes and sizes next
  to what one, two, three and four of them take, so that entries wrap around the
  ring at several places and every eviction path is taken.
- `header_block` (`MCHeaderBlock`): two headers, a table with room for two of
  them but not for the two longest, up to three representations, prefixes that
  make some integers one byte long and others two, cut at every place.
- `http2_start` (`MCHttp2Start`): frames of none to three settings, values at
  and next to every limit, unknown and repeated names, a server with all, some
  and none of the default settings, and an optional setting of zero, which is
  not the same as none. One cell is on the way at most: the client's choices
  do not depend on the server's, so a longer queue only reorders independent
  steps; the proofs hold for every `MaxAhead`.

- `frames` (`MCFrames`): up to three calls of the write functions, of every
  type, with top bits set, paddings and flags that do not belong to a type, and
  lengths up to one that does not fit (`LenMod` 16); a write that fails at the
  border of, within and behind a header (`Cuts`); one frame may wait while one
  is read (`MaxAhead`), since the reader's steps do not depend on later frames.
  Instead of one or both of two calls a peer may send frames of its own, with
  lengths around every fixed size and the limit (12) and paddings around what is
  left of the payload (`RawsInTwo` keeps these out of three). Shows that each
  frame is read as what it means, that exactly what HTTP/2 does not allow is
  refused, that no read goes beyond its frame, and what alone can make a reader
  lose the borders between frames.
- `buffer` (`MCBuffer`): bytes of two kinds, pieces of none, one and three
  bytes, buffers up to four bytes, two blocks, so that a reallocation finds
  the room taken, is needed and not needed, and doubles more than once.

- `literals` (`MCLiterals`): digits in base 4 and sums below 32, since the last
  place before the limit then has room for one bit of a digit, as the tenth byte
  of an integer has with base 128 and 2^64; masks of 1, the string's, and 7, so
  that short and long forms occur; up to five bytes, one more than an integer
  that fits can need; both builds. Shows that every integer that fits is parsed
  as what it stands for, that `parse_integer` undoes `write_integer`, that
  nothing complete is put off, and that a string is taken whole or not at all.
- `literal_overflow` (expected to fail, see the finding in `PROJECT.json`): in a
  release build `parse_integer` returns `Ok` for an integer beyond the limit,
  the bits that do not fit dropped, where `DecodeError` has an `Overflow` for
  "Data overflowed type". `Exact` says what remains true: integers that fit are
  exact, and only others panic in a debug build.
- `huffman` (`MCHuffman`): the tables of the source; each byte alone, and
  strings of two and three bytes with codes of 5, 6, 7, 8, 13 and 30 bits, which
  together begin and end at every position in a byte; and data that no encoder
  would send: codes followed by part of another one and filled up, with up to
  four more bytes, by zeros or ones, so that the end-of-string symbol, too much
  padding and padding with a zero in it occur.

- `http11_head` (`MCHttp11Head`): first lines that are right, that lack a word or
  have one or two too many, with another version, a URI with and without a host; up to
  one field with each line ending, and pairs of eleven fields which name the
  host, the length, the encoding and something else, in two cases, repeated,
  empty, with blanks, without a colon and not in UTF-8; three bodies; all of it
  cut after every symbol; one error of the connection. `MaxNumber` is 20, so that
  one of the lengths does not fit. Two values of a name are enough for their
  order and index, `MaxIndex` is one more.
- `server` (`MCServer`): three connections, so that one can meet what two others
  left; three descriptors, of which a connection needs two and the plugin takes
  up to two, so that a split may find none, numbers are used again at once, and
  one is left to accept with unless a split has lost it;
  two SSL objects, so that one leak is survived and a second is not.

`CHECK_DEADLOCK FALSE` stands where a system ends: a request or a start is
over, or a bound is reached.

## Fairness

`Http11Body` assumes that the plugin goes on reading with a buffer with room
(the loop that `test_chunked` in `http11.rs` writes), and that a read returns:
the connection gives bytes, an end or an error. `Http2Start` assumes that the
server runs on while it can, and that a client finishes the frame it has begun
or closes. The code has no timeout, so without the latter the server waits
for ever; `EventuallyOver` claims nothing about such a client. `Buffer` assumes
that the steps of one call follow each other, which holds in a sequential
program, and that a reader which was asked gives bytes or an error; that every
call comes to an end (`EventuallyIdle`) follows. `Http11Head` assumes that the
parser goes on: a peer sends or closes. `Server` assumes the same of each step of
`main` that waits for a peer or for the plugin: a peer goes through with its
handshake and request or closes, a plugin returns. Nothing in the code forces
them to; without it one peer or one call holds up all others, since there is one
thread and no timeout. Fairness of `accept` is only that some connection is
taken, not each: that each is follows, for there are finitely many. Which of
success and failure a step meets is never assumed. All other specifications are
safety only.

## The proofs

The assumptions are those of the modules (`MessagesAssumption`,
`NamesAssumption`, `BoundsAssumption`, `StartAssumption`, `LiteralsAssumption`,
`DecodeAssumption`, `PeerAssumption`, `BlockAssumption`, `TableAssumption`, `CodesAssumption`, `TreeAssumption` and
others like them):
the types of the constants, that a message is what its framing says, that
lower-casing twice is lower-casing once, that the Huffman code has no prefixes
and the tree is its tree. TLC evaluates each on its run. Messages, heads, frames,
buffers and failures are otherwise of any size and number.

- `Http11RequestProofs`, about `Http11Body`: `TypeOK`, `BodyIntact`, `LossHasCause`, `NoOverread` and
  `EndMeansAll`, and that every step is one of `BodyStream` or changes nothing of
  what a plugin sees (`PromiseIsKept`). They say where the reader must be in relation to what it gave
  out, which is not inductive: a step needs to know in which chunk the reader
  stands and how much of it is left. `Sync`, the added conjunct, says so: while
  the framing is kept, the position is in a chunk with `remaining` bytes before
  its end, or at a boundary. The lemmas on lines show that the size line at a
  boundary is read as that chunk's size.
- `Http11RequestProofs`, about `Http11Head`: `AsSent`, `Verdict` and `Answers`, for
  requests of any number of words and fields, of any length, closed anywhere. The
  parser only sees symbols, so the first lemmas say where each word and line
  is in what was sent (`WordsAre`, `RequestPlaced`), and what the searches and
  folds over a part of it give: the line that is read is the peer's line, cut where the
  connection was (`StatusRead`, `LineReadIs`), its blanks are where the words that
  were said begin (`SaidIs`, `BlanksAre`), so that `StatusError` names what is wrong
  with them (`StatusIs`), and its first colon parts name and value (`FieldReadIs`).
  `HeadInv` says for each phase what is left to read and that the headers are
  those of the first fields (`HeadersAre`), for a number of fields that grows
  by one with each line (`GivenAre`, `PushIs`). `Told` is what a plugin was told
  last.
- `Http11ResponseProofs`: `TypeOK`, `WireInOrder`, `Accounted`, `FaultsOnly` and
  `HeadFaithful`. The strengthening relates
  the counters of the `BufWriter` to the wire: how many cells of a head are
  there for each result a write of it had (`Outcomes`), that what has been
  pushed and not flushed is in the buffer (`Buffered`), how the body is counted
  (`BodyCount`), and what the last cell on the wire is (`LastCell`), from which
  the order of any two neighbours follows. `Counts` adds how many cells of each
  head and of the body are on the wire, as sets of places of which the lemmas
  count the size; `Untroubled`, what has to be true while no write failed. For the
  headers `Kept` says that the table holds, for each name, the values of the
  calls that still count, in their order, and every head that was begun goes on
  listing what they were then, whatever is called later. There a removal counts
  as the code takes it, in lower case only (`Stored`); this is proved without
  an exception (`HeadsAsSpelled`), and `HeadFaithful` follows because what is
  asked for (`Wanted`) and what is stored are the same unless a removal was
  missed.
- `Http2StartProofs`: `TypeOK`, `NoOverread`, `Judged`, `LimitOfClient` and
  `Agreed`. The
  strengthening says how far a client is in its frame (`ClientFrame`), that the
  settings which `read_frame` has so far are those of the cells it consumed
  (`Reading`), and what has been checked before an answer (`Answering`).
  `Answered` adds what of the server's answer has been written at each step, and
  which of its settings sizes the header table of the context.
- `FramesProofs`: `TypeOK`, `InFrame`, `LossHasCause`, `Judged` and `AsMeant`. The
  strengthening says where the entries of the frames sent lie on the wire
  (`Entries`), how far into which of them the reader is at each of its steps
  (`Stage`), and what can have ended the conversation (`Ended`); `InFrame`
  follows from `Stage`. For `AsMeant`, `Gathered` says that the fields read so
  far are those of the frame, and `Contents` which bytes of which frames are in
  the buffers, in which a block of headers gathers over several frames.
- `StorageProofs`, about `Buffer`: `TypeOK`, `Owned`, `InBounds`, `KeepsBytes`
  and `GrowthBounded`. Between the steps of a reallocation the fields do not
  describe the block that they point to, so the invariant says for each step
  which blocks are alive and whose they are (`Shape`, `Owned`), how much room the
  call has made sure of (`Stage`), that every access is within it (`InBounds`),
  and which cells already hold what they should (`Contents`).
- `StorageProofs`, about `DynamicTable`: `DoubleEnded`, `Budget` and `IsList`, for
  any headers, static table and sizes. `DoubleEnded` needs to know what the bytes
  are: `RingInv` says that the ring holds, one behind the other, the codes of some
  list of headers, oldest first, and at which positions (`Keeps`). Lemmas say what
  `get_size` and the copying read of an entry's code (`CodeParts`, `ReadSize`,
  `ReadEntry`), that the walk from the front and the one from the back both find
  the positions (`StartIs`, `OffsetIs`), and that evicting and appending leave such
  a list (`EvictedHolds`, `AppendedHolds`). The newest first, it is the list that
  the ring stands for (`ListedIs`), of which `Fitting` of `HeaderList` keeps
  exactly what `evict` leaves (`ResizeFits`, `InsertFits`); each action of
  `DynamicTable` then is the one of `HeaderList` with the same name.
- `HpackProofs`, about `Literals`: `TypeOK`, `Exact`, `RoundTrip`, `NotPutOff`
  and `StringWhole`, for every base and limit. The strengthening says how the bytes
  sent add up (`Bytes`), that what `write_integer` has written and has left make
  its number (`Written`), and that while digits are parsed `place` is the next
  digit's and the sum so far is that of the bytes, or these are beyond the limit
  already (`Stage`, `Right`).
- `HpackProofs`, about `HeaderBlock`: `InStep`, `OnlyIllegal` and
  `FieldNotPutOff`, for any headers, static table, prefixes, sizes and number of
  fields. `BlockInv` says that the bytes which are not decoded yet, those in the
  frames to come among them, are the encodings of the fields not decoded yet,
  each of them made with the peer's table as it was then (`Coded`). The lemmas
  say what `parse_integer`, `parse_string` and `read_header` make of data that
  begins as an encoding does (`Begins`): of less than all of it `TooSmall`, of all
  of it the field, whatever follows (`Stands`), and of a forbidden one
  the error (`Wrong`). That both tables stay equal then needs only that
  `Fitting` gives both sides the same list, and a list of headers.
- `HuffmanProofs`: `TypeOK`, `RoundTrip`, `SizeTold`, `Decoded` and `Verdict`,
  for every prefix code whose padding is not a code. `Written` says which bits
  are written and that all others of the last byte are zero, `Whole` that
  the codes of the string and less than a byte of ones are there in the end;
  while decoding, the bits since the last code are the way to `index` (`At`),
  contain no code (`NoCode`), and `all_ones` tells of their zeros (`OnesSince`).
  `Follow` is the step from `Decoded` to `RoundTrip`: the code that is found is
  the next one written, since neither begins the other.

- `ServerProofs`: `TypeOK`, `OwnedOnce`, `NothingForgotten` and `OwnTraffic`, for
  any number of connections, descriptors and SSL objects. None is inductive:
  that `Drop` may close what it holds depends on how the halves came about. The
  strengthening says for each place in the loop what the connection holds and
  in which form (`Place`), which boxes exist (`Boxed`), whose fate is decided
  (`Decided`), that what is held is open and its own (`Ours`), and of what is
  held no more, descriptors (`Lost`) and SSL objects (`Leaked`), which failure
  left it. `OwnTraffic` then is `Ours` at the moment of a use.

The runs leave out what is proved and takes a type invariant, or a bound that
follows from the rest, to see. `TypeOK` of `Http11Body`, `Http11Response`,
`Http2Start`, `Frames`, `Buffer`, `Literals`, `Huffman` and `Server`, `NoOverread`
and `EndMeansAll` of `Http11Body`, `NoOverread` and `LimitOfClient` of
`Http2Start`, `SizeTold` of `Huffman` and `GrowthBounded` of `Buffer` are theorems
only. `DoubleEnded`, `InStep` and `Verdict` of `Http11Head` include the type
invariants of their modules.

Where a fact about a recursive function or a sequence of any length would take
an induction, the proofs take the least counterexample instead, which the
natural numbers have (`WFMin` of the library): that the sum in `Fitting` is
defined for every list, that the walks over the ring reach every entry at its
position, that a head lists its headers in some order, that the sums of a fold over the
lines of a request exist and grow, that a block and a setting have a last frame
and a last value.

Only model-checked: liveness, which is beyond TLAPS.

## What is abstracted, and what is left out

- Bytes are cells of a few kinds wherever their values do not matter: a header
  line, a setting, a preface is one cell. Cutting a cell would only add reads
  that block within it (`read_exact`, `write_all`).
- In `HeaderBlock` strings are not Huffman coded, and integers have at most two
  bytes. `Literals` and `Huffman` have the rest.
- `write_string` (`literal.rs` 95-116) is not modelled; nothing calls it.
- `get_size` adds up in a `u32`, which only a string of more than 143 million
  bytes would overflow; the model's sums do not wrap.
- A header without a value and one with an empty value are the same to
  `http11_write_status` and in the model.
- `http11_write_status` reports a number of bytes that leaves out the line end
  of the status line (`http11.rs` 299). The count is not modelled, no caller
  uses it.
- In `Http11Head` numbers have no leading `+`, which `parse` would take, there is
  no CR within a line, and no blank beyond ASCII, which `trim_end` would take off
  the first line. `http_get_version` is left out, it writes 1 and 1.
- In `Server` the request and the response are one step each for the plugin's
  reads and writes, their contents are the other modules'. OpenSSL's queue of
  errors, which makes the texts of the errors, is left out; so are the
  symbols of the plugin, whose absence only ends the process at its start, and
  `dlclose`.
- Not modelled: `http_write_err` (`result.rs`), the empty and null readers
  and writers (`bio.rs`), the table and hash of static headers
  (`context.rs`), the numbers of the error codes (`error.rs`), the wrappers of
  `http_rs` that only forward a call, the headers under `plugin/include` and
  `test_plugin.c`. They keep no state, or that of what they wrap.

Noted on the way:

- `SSL_dup` of a stream past its handshake counts a reference and returns the same
  object (`tls/stream.rs` 70), so the two halves of a split stream share it, and
  `SSL_set_fd` (86) redirects both. The comments that make the halves `Send` and
  `Sync` (164, 217, 271) have each hold exclusive access to its SSL stream, which
  is so for a stream that was not split. `OwnedOnce` and `OwnTraffic` say that the
  server's use of them, on one thread, is sound all the same.

- `http2/mod.rs` 89-96 sends the acknowledgement before the server's own
  SETTINGS; 108 makes a context from the client's settings, so the frames the
  client sends later are limited by the frame size that the client announced
  for those sent to it (`LimitOfClient` states what the code does).
- `http_rs` declares `http_remove_headers`, `http` exports
  `http_remove_header`; the `Buffer` of `plugin/include/common.h` and `http_rs`
  has two fields where the one of `http` has four.
- `http_add_header` folds a name to lower case (`response.rs` 281-282), while
  `http_remove_header` looks it up as it is spelled (314): after add "A" and
  remove "A" the header still goes out. Nothing in the repository says which
  spelling a caller has to use; `HeadFaithful` takes names to be the same in
  any case and has this as its exception (`Missed`). `http_get_header_count`
  and `http_get_header` (`request.rs` 264, 305) find names in lower case only,
  too, which `Answers` takes as it is.
- `write_string` (`literal.rs` 100) uses a prefix of one bit where
  `parse_string` expects seven; nothing calls it.
- `decode_bytes` takes padding of any length as long as it is ones and not the
  end-of-string symbol; RFC 7541 would have more than seven bits refused.
- `main.rs` 58 ends the server when a request is malformed (`EveryoneAnswered`).
- `TlsStream::new` (`tls/stream.rs` 41) leaves the SSL object behind when the
  handshake fails; `split` leaves the SSL object and its descriptors behind when
  `try_clone` or `SSL_set_fd` fails (81, 88): `NothingForgotten` has these as its
  exceptions, but not a failed `SSL_dup`, after which all is given back.
- The end of the stream within a head ends the head (`http11.rs` 205, 215): the
  request is taken with what has come, the value of its last field cut. Blanks
  at the end of a value stay with it, and an empty URI is taken.
- `SSL_read_ex` returns 0 for a connection that was closed in order, which
  `TlsReadStream::read` (204) makes an error: behind TLS an end is an error.
- A PRIORITY frame is written with the top bit of `stream_dep` as it is given
  (`priority.rs` 106), where the HEADERS writer clears it; `AsMeant` leaves such
  calls out (`Careless`).
- `http_rs` calls functions of `http` that it does not export (`http_res_new_ok`)
  or with other parameters (`http_parse_http11_request`); the plugin
  `test_plugin.c` uses the older interface as well. The bindings and the server
  loop therefore fit an earlier `http` than the one in the repository.

## Running it

    tlc -config MCHttp11Body.cfg MCHttp11Body
    tlapm Http11RequestProofs.tla

and likewise for the others; the longest run takes two minutes.
