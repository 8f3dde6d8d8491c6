------------------------------- MODULE Server -------------------------------
(***************************************************************************)
(* The proxy's main loop (src/main.rs) and everything a connection owns on *)
(* its way through it: the descriptor that accept returns, the SSL object  *)
(* and TlsStream around it (src/tls), the two halves that split makes of   *)
(* them, the Reader and the Writer that http_rs boxes them in, and the     *)
(* Request and the ResponseWriter that a plugin is lent (src/plugin.rs).   *)
(*                                                                         *)
(* None of these is counted by Rust: they are raw pointers and integers    *)
(* that are released by hand, in Drop or on the error paths.  The module   *)
(* keeps the table of descriptors of the process, where a number that was  *)
(* closed is given out again, and the reference counts of OpenSSL.         *)
(*                                                                         *)
(* OpenSSL is modelled as the code uses it: SSL_dup of a connection past   *)
(* its handshake counts up and returns the same object, SSL_set_fd changes *)
(* the descriptor of that object and leaves closing it to the caller, and  *)
(* SSL_free counts down.                                                   *)
(***************************************************************************)
EXTENDS Integers, FiniteSets

CONSTANTS
  Conns,     \* connections made by peers
  Ssl,       \* memory for SSL objects
  Fd,        \* descriptors the process may open besides the listener's
  MaxFiles,  \* bound on the files that the plugin holds open
  Unused,    \* a descriptor that is closed
  File,      \* a descriptor of the plugin's own
  None

ASSUME FilesAssumption == MaxFiles \in Nat

ASSUME ValuesAssumption ==
  /\ None \notin Conns \cup Ssl \cup Fd
  /\ Unused \notin Conns /\ File \notin Conns /\ Unused # File

VARIABLES
  phase,    \* where main is
  plugin,   \* "absent", "loaded" or "closed"
  conn,     \* the connection at hand, None between two of them
  alpn,     \* the protocol its handshake selected
  table,    \* what each descriptor refers to
  refs,     \* the references that OpenSSL counts for each SSL object,
  bound,    \* the descriptor it reads and writes,
  peer,     \* and the connection it was made for
  tls,      \* the TlsStream, in its constructor also while it has no ssl yet
  reader,   \* the TlsReadStream, and
  writer,   \* the TlsWriteStream
  boxes,    \* the objects of the http library for this connection
  shut,     \* the directions of each connection that were shut down
  outcome,  \* what has become of each connection
  traffic   \* pairs of a connection and a socket its bytes went through

vars == <<phase, plugin, conn, alpn, table, refs, bound, peer, tls, reader, writer,
          boxes, shut, outcome, traffic>>

objects == <<refs, bound, peer>>

held == <<tls, reader, writer>>

Nothing == [ssl |-> None, fd |-> None]

Phase == {"binding", "keys", "loading", "accepting", "attaching", "handshake",
          "splitting", "wrapping", "parsing", "serving", "dropping", "ended"}

Outcome == {"waiting", "current", "gone", "no ssl", "no handshake", "unshared",
            "unsplit", "unsupported", "refused", "served"}

Stream == [ssl : Ssl \cup {None}, fd : Fd \cup {None}]

TypeOK ==
  /\ phase \in Phase
  /\ plugin \in {"absent", "loaded", "closed"}
  /\ conn \in Conns \cup {None}
  /\ alpn \in {"http/1.1", "none"}
  /\ table \in [Fd -> Conns \cup {Unused, File}]
  /\ refs \in [Ssl -> 0..2]
  /\ bound \in [Ssl -> Fd \cup {None}]
  /\ peer \in [Ssl -> Conns \cup {None}]
  /\ tls \in Stream /\ reader \in Stream /\ writer \in Stream
  /\ boxes \subseteq {"Reader", "Writer", "Body", "Request", "ResponseWriter"}
  /\ shut \in [Conns -> SUBSET {"read", "write"}]
  /\ outcome \in [Conns -> Outcome]
  /\ traffic \subseteq Conns \X (Conns \cup {Unused, File})

Init ==
  /\ phase = "binding"
  /\ plugin = "absent"
  /\ conn = None
  /\ alpn = "none"
  /\ table = [f \in Fd |-> Unused]
  /\ refs = [s \in Ssl |-> 0]
  /\ bound = [s \in Ssl |-> None]
  /\ peer = [s \in Ssl |-> None]
  /\ tls = Nothing /\ reader = Nothing /\ writer = Nothing
  /\ boxes = {}
  /\ shut = [c \in Conns |-> {}]
  /\ outcome = [c \in Conns |-> "waiting"]
  /\ traffic = {}

-----------------------------------------------------------------------------
(* The start of main: each failure is an expect, which ends the process.   *)
Bind ==
  /\ phase = "binding"
  /\ phase' \in {"keys", "ended"}
  /\ UNCHANGED <<plugin, conn, alpn, table, objects, held, boxes, shut, outcome, traffic>>

SetKeyPair ==
  /\ phase = "keys"
  /\ phase' \in {"loading", "ended"}
  /\ UNCHANGED <<plugin, conn, alpn, table, objects, held, boxes, shut, outcome, traffic>>

(* load_plugin: dlopen, the three symbols, and init.                       *)
LoadPlugin ==
  /\ phase = "loading"
  /\ \/ phase' = "accepting" /\ plugin' = "loaded"
     \/ phase' = "ended" /\ UNCHANGED plugin
  /\ UNCHANGED <<conn, alpn, table, objects, held, boxes, shut, outcome, traffic>>

(* The descriptors that open, accept and dup may return: POSIX gives the   *)
(* lowest, nothing here depends on which one it is.                        *)
Unopened == {f \in Fd : table[f] = Unused}

Files == {f \in Fd : table[f] = File}

(* A plugin may run threads and open files of its own at any time.         *)
OpenFile(f) ==
  /\ plugin = "loaded"
  /\ f \in Unopened /\ Cardinality(Files) < MaxFiles
  /\ table' = [table EXCEPT ![f] = File]
  /\ UNCHANGED <<phase, plugin, conn, alpn, objects, held, boxes, shut, outcome, traffic>>

CloseFile(f) ==
  /\ plugin = "loaded"
  /\ table[f] = File
  /\ table' = [table EXCEPT ![f] = Unused]
  /\ UNCHANGED <<phase, plugin, conn, alpn, objects, held, boxes, shut, outcome, traffic>>

-----------------------------------------------------------------------------
(* The next turn of the loop.                                              *)
Finish(result) ==
  /\ phase' = "accepting"
  /\ conn' = None
  /\ tls' = Nothing /\ reader' = Nothing /\ writer' = Nothing
  /\ boxes' = {}
  /\ outcome' = [outcome EXCEPT ![conn] = result]
  /\ UNCHANGED <<plugin, alpn, traffic>>

Free(s) == refs' = [refs EXCEPT ![s] = @ - 1] /\ UNCHANGED <<bound, peer>>

Close(f) == table' = [table EXCEPT ![f] = Unused]

Shutdown(ways) == shut' = [shut EXCEPT ![conn] = @ \cup ways]

(* TcpListener::accept.                                                    *)
Accept(c) ==
  /\ phase = "accepting"
  /\ outcome[c] = "waiting"
  /\ phase' = "attaching"
  /\ conn' = c
  /\ outcome' = [outcome EXCEPT ![c] = "current"]
  /\ \E f \in Unopened :
       /\ table' = [table EXCEPT ![f] = c]
       /\ tls' = [ssl |-> None, fd |-> f]
  /\ UNCHANGED <<plugin, alpn, objects, reader, writer, boxes, shut, traffic>>

(* Mutant: a failed accept is an expect.                                   *)
AcceptEnds(c) ==
  /\ phase = "accepting"
  /\ outcome[c] = "waiting"
  /\ outcome' = [outcome EXCEPT ![c] = "gone"]
  /\ phase' = "ended"
  /\ UNCHANGED <<plugin, conn, alpn, table, objects, held, boxes, shut, traffic>>

(* The peer is gone before accept, which returns its error.  An accept     *)
(* that finds no free descriptor changes nothing, and the loop tries again. *)
AcceptFails(c) ==
  /\ phase = "accepting"
  /\ outcome[c] = "waiting"
  /\ outcome' = [outcome EXCEPT ![c] = "gone"]
  /\ UNCHANGED <<phase, plugin, conn, alpn, table, objects, held, boxes, shut, traffic>>

(* TlsStream::new up to the handshake: SSL_new and SSL_set_fd.             *)
Attach ==
  /\ phase = "attaching"
  /\ phase' = "handshake"
  /\ \E s \in Ssl :
       /\ refs[s] = 0
       /\ refs' = [refs EXCEPT ![s] = 1]
       /\ bound' = [bound EXCEPT ![s] = tls.fd]
       /\ peer' = [peer EXCEPT ![s] = conn]
       /\ tls' = [ssl |-> s, fd |-> tls.fd]
  /\ UNCHANGED <<plugin, conn, alpn, table, reader, writer, boxes, shut, outcome, traffic>>

(* Either of them fails: the SSL object, if any, is freed, and stream is   *)
(* dropped.                                                                *)
AttachFails ==
  /\ phase = "attaching"
  /\ Finish("no ssl")
  /\ Close(tls.fd)
  /\ UNCHANGED <<objects, shut>>

(* SSL_accept, with select_alpn: a client that offers http/1.1 gets it, one *)
(* that offers only other protocols is refused, one may offer none.        *)
Handshake ==
  /\ phase = "handshake"
  /\ phase' = "splitting"
  /\ alpn' \in {"http/1.1", "none"}
  /\ UNCHANGED <<plugin, conn, table, objects, held, boxes, shut, outcome, traffic>>

(* Mutant: the failed handshake forgets the stream as well.                *)
HandshakeForgets ==
  /\ phase = "handshake"
  /\ Finish("no handshake")
  /\ UNCHANGED <<table, objects, shut>>

(* stream is dropped, and the SSL object is not freed.                     *)
HandshakeFails ==
  /\ phase = "handshake"
  /\ Finish("no handshake")
  /\ Close(tls.fd)
  /\ UNCHANGED <<objects, shut>>

-----------------------------------------------------------------------------
(* Mutant: the descriptor is not cloned, both halves have the same.        *)
SplitUncloned ==
  /\ phase = "splitting"
  /\ phase' = "wrapping"
  /\ refs' = [refs EXCEPT ![tls.ssl] = @ + 1]
  /\ reader' = tls
  /\ writer' = tls
  /\ tls' = Nothing
  /\ UNCHANGED <<plugin, conn, alpn, table, bound, peer, boxes, shut, outcome, traffic>>

(* TlsStream::split: SSL_dup, try_clone, SSL_set_fd.                       *)
Split ==
  /\ phase = "splitting"
  /\ phase' = "wrapping"
  /\ refs' = [refs EXCEPT ![tls.ssl] = @ + 1]
  /\ \E f \in Unopened :
       /\ table' = [table EXCEPT ![f] = conn]
       /\ bound' = [bound EXCEPT ![tls.ssl] = f]
       /\ writer' = [ssl |-> tls.ssl, fd |-> f]
  /\ reader' = tls
  /\ tls' = Nothing
  /\ UNCHANGED <<plugin, conn, alpn, peer, boxes, shut, outcome, traffic>>

(* SSL_dup fails: self is dropped.                                         *)
DupFails ==
  /\ phase = "splitting"
  /\ Finish("unshared")
  /\ Free(tls.ssl)
  /\ Close(tls.fd)
  /\ Shutdown({"read", "write"})

(* try_clone fails: the reference of SSL_dup is freed again; self, which   *)
(* was taken out of the reach of Drop, is not.                             *)
CloneFails ==
  /\ phase = "splitting"
  /\ Finish("unsplit")
  /\ UNCHANGED <<table, objects, shut>>

(* SSL_set_fd fails: the cloned descriptor is left open, too.              *)
SetFdFails ==
  /\ phase = "splitting"
  /\ Finish("unsplit")
  /\ \E f \in Unopened : table' = [table EXCEPT ![f] = conn]
  /\ UNCHANGED <<objects, shut>>

-----------------------------------------------------------------------------
(* Drop of TlsWriteStream and of TlsReadStream.                            *)
DropWriter ==
  /\ Free(writer.ssl)
  /\ Close(writer.fd)
  /\ Shutdown({"write"})
  /\ writer' = Nothing

DropReader ==
  /\ Free(reader.ssl)
  /\ Close(reader.fd)
  /\ Shutdown({"read"})
  /\ reader' = Nothing

(* Both of them, one after the other.                                      *)
DropBoth ==
  /\ refs' = [[refs EXCEPT ![writer.ssl] = @ - 1] EXCEPT ![reader.ssl] = @ - 1]
  /\ table' = [f \in Fd |-> IF f \in {writer.fd, reader.fd} THEN Unused ELSE table[f]]
  /\ Shutdown({"read", "write"})
  /\ UNCHANGED <<bound, peer>>

(* get_selected_alpn, which has a text of its own if there is no protocol. *)
SelectedHttp11 == alpn = "http/1.1"

(* No protocol was negotiated: the halves go out of scope.                 *)
Unsupported ==
  /\ phase = "wrapping"
  /\ ~SelectedHttp11
  /\ Finish("unsupported")
  /\ DropBoth

(* Mutant: the Writer does not keep the half that it was given.            *)
WrapReader ==
  /\ phase = "wrapping"
  /\ SelectedHttp11
  /\ phase' = "parsing"
  /\ boxes' = {"Reader", "Writer"}
  /\ Free(writer.ssl)
  /\ Close(writer.fd)
  /\ UNCHANGED <<plugin, conn, alpn, held, shut, outcome, traffic>>

(* Reader::new and Writer::new.                                            *)
Wrap ==
  /\ phase = "wrapping"
  /\ SelectedHttp11
  /\ phase' = "parsing"
  /\ boxes' = {"Reader", "Writer"}
  /\ UNCHANGED <<plugin, conn, alpn, table, objects, held, shut, outcome, traffic>>

(* A half reads or writes by its SSL object, through that object's socket. *)
Use(half) == traffic' = traffic \cup {<<conn, table[bound[half.ssl]]>>}

(* parse_request makes a Request whose body owns the Reader, and           *)
(* new_response_writer a ResponseWriter that owns the Writer.              *)
ParseRequest ==
  /\ phase = "parsing"
  /\ phase' = "serving"
  /\ boxes' = boxes \cup {"Body", "Request", "ResponseWriter"}
  /\ Use(reader)
  /\ UNCHANGED <<plugin, conn, alpn, table, objects, held, shut, outcome>>

(* The request is malformed or cut off: its Reader is destroyed, and the   *)
(* expect unwinds main, which drops the Writer, the plugin, the listener.  *)
ParseFails ==
  /\ phase = "parsing"
  /\ phase' = "ended"
  /\ plugin' = "closed"
  /\ conn' = None
  /\ tls' = Nothing /\ reader' = Nothing /\ writer' = Nothing
  /\ boxes' = {}
  /\ outcome' = [outcome EXCEPT ![conn] = "refused"]
  /\ DropBoth
  /\ Use(reader)
  /\ UNCHANGED alpn

(* The plugin reads the body and writes the response.                      *)
PluginReads ==
  /\ phase = "serving"
  /\ Use(reader)
  /\ UNCHANGED <<phase, plugin, conn, alpn, table, objects, held, boxes, shut, outcome>>

PluginWrites ==
  /\ phase = "serving"
  /\ Use(writer)
  /\ UNCHANGED <<phase, plugin, conn, alpn, table, objects, held, boxes, shut, outcome>>

(* handle_request returns and drops its arguments, res before req:         *)
(* http_destroy_response_writer, http_destroy_writer, TlsWriteStream.      *)
DestroyWriter ==
  /\ phase = "serving"
  /\ phase' = "dropping"
  /\ boxes' = boxes \ {"ResponseWriter", "Writer"}
  /\ DropWriter
  /\ UNCHANGED <<plugin, conn, alpn, tls, reader, outcome, traffic>>

(* http_destroy_request, http_destroy_reader of its body and of the        *)
(* connection, TlsReadStream.                                              *)
DestroyRequest ==
  /\ phase = "dropping"
  /\ phase' = "accepting"
  /\ conn' = None
  /\ boxes' = boxes \ {"Request", "Body", "Reader"}
  /\ DropReader
  /\ outcome' = [outcome EXCEPT ![conn] = "served"]
  /\ UNCHANGED <<plugin, alpn, tls, writer, traffic>>

-----------------------------------------------------------------------------
NextFile == \E f \in Fd : OpenFile(f) \/ CloseFile(f)

Start == Bind \/ SetKeyPair \/ LoadPlugin

Next ==
  \/ Start
  \/ NextFile
  \/ \E c \in Conns : Accept(c) \/ AcceptFails(c)
  \/ Attach \/ AttachFails
  \/ Handshake \/ HandshakeFails
  \/ Split \/ DupFails \/ CloneFails \/ SetFdFails
  \/ Wrap \/ Unsupported
  \/ ParseRequest \/ ParseFails
  \/ PluginReads \/ PluginWrites
  \/ DestroyWriter \/ DestroyRequest

Spec == Init /\ [][Next]_vars

(* Nothing but the peer and the plugin can hold main up: a peer goes       *)
(* through with its handshake and its request or closes, a plugin returns. *)
Fairness ==
  /\ WF_vars(Start)
  /\ WF_vars(\E c \in Conns : Accept(c))
  /\ WF_vars(Attach \/ AttachFails)
  /\ WF_vars(Handshake \/ HandshakeFails)
  /\ WF_vars(Split \/ DupFails \/ CloneFails \/ SetFdFails)
  /\ WF_vars(Wrap \/ Unsupported)
  /\ WF_vars(ParseRequest \/ ParseFails)
  /\ WF_vars(DestroyWriter)
  /\ WF_vars(DestroyRequest)

FairSpec == Spec /\ Fairness

-----------------------------------------------------------------------------
Counts(stream, s) == IF stream.ssl = s THEN 1 ELSE 0

References(s) == Counts(tls, s) + Counts(reader, s) + Counts(writer, s)

Owned(f) == f \in {tls.fd, reader.fd, writer.fd}

(* Whatever will be released is there to be released, once, and has not    *)
(* been given to somebody else in the meantime: every descriptor held by   *)
(* TlsStream or a half is open, refers to the connection at hand and is    *)
(* held once, the SSL object has a reference for each of them, and no      *)
(* direction is shut down before its half is dropped (the Drops of         *)
(* stream.rs, with ManuallyDrop and mem::forget before them).              *)
OwnedOnce ==
  /\ \A f \in Fd : Owned(f) => conn # None /\ table[f] = conn
  /\ tls.fd # None => reader = Nothing /\ writer = Nothing
  /\ reader.fd # None => reader.fd # writer.fd /\ "read" \notin shut[conn]
  /\ writer.fd # None => "write" \notin shut[conn]
  /\ \A s \in Ssl : References(s) <= refs[s]

(* What nothing will release any more is what a split has left open that   *)
(* failed behind SSL_dup, and the SSL object of a failed handshake: every  *)
(* other way through the loop, other failures included, gives back all it  *)
(* took (main, TlsStream).                                                 *)
NothingForgotten ==
  /\ \A f \in Fd : table[f] \in Conns /\ ~Owned(f) => outcome[table[f]] = "unsplit"
  /\ \A s \in Ssl : refs[s] # References(s) =>
       refs[s] = 1 /\ outcome[peer[s]] \in {"unsplit", "no handshake"}
  /\ conn = None => boxes = {}

(* The bytes of a connection go through its own socket: at each use the    *)
(* SSL object that the two halves share names an open descriptor of this   *)
(* connection, though one of two descriptors, which are closed one after   *)
(* the other, and though numbers are given out again (TlsReadStream::read, *)
(* TlsWriteStream::write, split).                                          *)
OwnTraffic == \A t \in traffic : t[1] = t[2]

Stray == {f \in Fd : table[f] \in Conns /\ outcome[table[f]] = "unsplit"}

(* Every peer that connects is dealt with, whatever became of those before *)
(* it, except that a request that cannot be parsed ends the server and     *)
(* that a split that failed may have taken the last descriptor (main).     *)
EveryoneAnswered ==
  \A c \in Conns :
    outcome[c] = "waiting" ~>
      \/ outcome[c] \notin {"waiting", "current"}
      \/ phase = "ended" /\ (plugin = "absent" \/ \E d \in Conns : outcome[d] = "refused")
      \/ Stray # {}
=============================================================================
