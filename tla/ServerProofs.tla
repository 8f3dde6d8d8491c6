---------------------------- MODULE ServerProofs ----------------------------
(***************************************************************************)
(* Proofs about Server for any number of connections, SSL objects and      *)
(* descriptors: what is held at each point of the loop is there to be      *)
(* released, what was released or lost is accounted for.                   *)
(***************************************************************************)
EXTENDS Server, TLAPS

(* Who holds what, at each point of the loop.                              *)
Idle == {"binding", "keys", "loading", "accepting", "ended"}

Bare == tls.fd # None /\ reader = Nothing /\ writer = Nothing

Halved ==
  /\ tls = Nothing
  /\ reader.fd # None /\ writer.fd # None /\ reader.fd # writer.fd
  /\ reader.ssl # None /\ writer.ssl = reader.ssl

Place ==
  /\ phase \in Idle => conn = None /\ tls = Nothing /\ reader = Nothing /\ writer = Nothing
  /\ phase \notin Idle => conn # None
  /\ phase = "attaching" => Bare /\ tls.ssl = None
  /\ phase \in {"handshake", "splitting"} =>
       Bare /\ tls.ssl # None /\ refs[tls.ssl] = 1
  /\ phase \in {"wrapping", "parsing", "serving"} =>
       Halved /\ refs[reader.ssl] = 2 /\ bound[reader.ssl] = writer.fd
  /\ phase = "dropping" =>
       /\ tls = Nothing /\ writer = Nothing
       /\ reader.fd # None /\ reader.ssl # None
       /\ refs[reader.ssl] = 1

Boxed ==
  /\ phase \notin {"parsing", "serving", "dropping"} => boxes = {}
  /\ phase = "dropping" => boxes \subseteq {"Request", "Body", "Reader"}

(* Only the connection at hand is undecided.                               *)
Decided ==
  /\ \A c \in Conns : outcome[c] = "current" <=> c = conn
  /\ \A c \in Conns : outcome[c] = "waiting" => shut[c] = {}
  /\ conn # None => shut[conn] = IF phase = "dropping" THEN {"write"} ELSE {}

(* What refers to the connection at hand, and what refers to others.       *)
Ours == \A f \in Fd : Owned(f) => table[f] = conn

Lost ==
  \A f \in Fd : table[f] \in Conns /\ ~Owned(f) => outcome[table[f]] = "unsplit"

Settled(s) ==
  IF s \in {tls.ssl, reader.ssl, writer.ssl}
  THEN peer[s] = conn
  ELSE \/ refs[s] = 0
       \/ /\ refs[s] = 1 /\ peer[s] \in Conns
          /\ outcome[peer[s]] \in {"unsplit", "no handshake"}

Leaked == \A s \in Ssl : Settled(s)

IInv == /\ TypeOK /\ Place /\ Boxed /\ Decided /\ Ours /\ Lost /\ Leaked
        /\ OwnTraffic
-----------------------------------------------------------------------------
LEMMA KeepStart ==
  ASSUME IInv, Start
  PROVE  IInv'
<1> USE ValuesAssumption DEF IInv, Nothing, held, objects, Start, Bind, SetKeyPair, LoadPlugin
<1>a. tls = Nothing /\ reader = Nothing /\ writer = Nothing
  BY DEF Place, Idle
<1>1. TypeOK'
  BY DEF TypeOK, Place, Stream, Bare, Halved, Phase, Outcome, Boxed, Idle
<1>2. Place'
  BY <1>a DEF TypeOK, Stream, Place, Bare, Halved, Idle, Leaked, Settled
<1>3. Boxed'
  BY <1>a DEF Boxed, Place, Idle
<1>4. Decided'
  BY DEF TypeOK, Decided, Place, Idle
<1>5. Ours'
  BY DEF TypeOK, Stream, Ours, Owned, Place, Bare, Halved, Idle
<1>6. Lost'
  BY <1>a DEF TypeOK, Stream, Lost, Owned, Ours, Place, Bare, Halved, Idle, Decided
<1>7. Leaked'
  <2> SUFFICES ASSUME NEW s \in Ssl PROVE Settled(s)'
    BY DEF Leaked
  <2>1. Settled(s)
    BY DEF Leaked
  <2>2. s # None
    OBVIOUS
  <2>3. QED
    BY <1>a, <2>1, <2>2 DEF Settled, TypeOK, Decided
<1>8. OwnTraffic'
  BY DEF TypeOK, Stream, OwnTraffic, Ours, Owned, Place, Bare, Halved
<1>9. QED
  BY <1>1, <1>2, <1>3, <1>4, <1>5, <1>6, <1>7, <1>8

LEMMA KeepOpenFile ==
  ASSUME NEW f \in Fd, IInv, OpenFile(f)
  PROVE  IInv'
<1> USE ValuesAssumption DEF IInv, Nothing, held, objects, OpenFile, Unopened
<1>1. TypeOK'
  BY ZenonT(30) DEF TypeOK, Place, Stream, Bare, Halved, Phase, Outcome, Boxed, Idle
<1>2. Place'
  BY DEF TypeOK, Stream, Place, Bare, Halved, Idle, Leaked, Settled
<1>3. Boxed'
  BY DEF Boxed, Place, Idle
<1>4. Decided'
  BY DEF TypeOK, Decided, Place, Idle
<1>5. Ours'
  BY DEF TypeOK, Stream, Ours, Owned, Place, Bare, Halved, Idle
<1>6. Lost'
  BY DEF TypeOK, Stream, Lost, Owned, Ours, Place, Bare, Halved, Idle, Decided
<1>7. Leaked'
  BY DEF TypeOK, Stream, Leaked, Settled, Place, Bare, Halved, Idle, Decided
<1>8. OwnTraffic'
  BY DEF TypeOK, Stream, OwnTraffic, Ours, Owned, Place, Bare, Halved
<1>9. QED
  BY <1>1, <1>2, <1>3, <1>4, <1>5, <1>6, <1>7, <1>8

LEMMA KeepCloseFile ==
  ASSUME NEW f \in Fd, IInv, CloseFile(f)
  PROVE  IInv'
<1> USE ValuesAssumption DEF IInv, Nothing, held, objects, CloseFile, Close
<1>1. TypeOK'
  BY ZenonT(30) DEF TypeOK, Place, Stream, Bare, Halved, Phase, Outcome, Boxed, Idle
<1>2. Place'
  BY DEF TypeOK, Stream, Place, Bare, Halved, Idle, Leaked, Settled
<1>3. Boxed'
  BY DEF Boxed, Place, Idle
<1>4. Decided'
  BY DEF TypeOK, Decided, Place, Idle
<1>5. Ours'
  BY DEF TypeOK, Stream, Ours, Owned, Place, Bare, Halved, Idle
<1>6. Lost'
  BY DEF TypeOK, Stream, Lost, Owned, Ours, Place, Bare, Halved, Idle, Decided
<1>7. Leaked'
  BY DEF TypeOK, Stream, Leaked, Settled, Place, Bare, Halved, Idle, Decided
<1>8. OwnTraffic'
  BY DEF TypeOK, Stream, OwnTraffic, Ours, Owned, Place, Bare, Halved
<1>9. QED
  BY <1>1, <1>2, <1>3, <1>4, <1>5, <1>6, <1>7, <1>8

LEMMA KeepAccept ==
  ASSUME NEW c \in Conns, IInv, Accept(c)
  PROVE  IInv'
<1> USE ValuesAssumption DEF IInv, Nothing, held, objects, Accept, Unopened
<1>a. tls = Nothing /\ reader = Nothing /\ writer = Nothing
  BY DEF Place, Idle
<1>1. TypeOK'
  <2>1. table' \in [Fd -> Conns \cup {Unused, File}]
    BY <1>a DEF TypeOK
  <2>2. refs' \in [Ssl -> 0..2] /\ bound' \in [Ssl -> Fd \cup {None}]
    BY <1>a DEF TypeOK
  <2>3. shut' \in [Conns -> SUBSET {"read", "write"}]
    BY <1>a DEF TypeOK
  <2>4. outcome' \in [Conns -> Outcome]
    BY <1>a DEF TypeOK, Outcome
  <2>5. tls' \in Stream /\ reader' \in Stream /\ writer' \in Stream
    BY <1>a DEF TypeOK, Stream
  <2>6. traffic' \subseteq Conns \X (Conns \cup {Unused, File})
    BY <1>a DEF TypeOK, Use
  <2>7. peer' \in [Ssl -> Conns \cup {None}] /\ conn' \in Conns \cup {None}
    BY <1>a DEF TypeOK
  <2>8. boxes' \subseteq {"Reader", "Writer", "Body", "Request", "ResponseWriter"}
    BY <1>a DEF TypeOK
  <2>9. /\ phase' \in Phase /\ plugin' \in {"absent", "loaded", "closed"}
        /\ alpn' \in {"http/1.1", "none"}
    BY <1>a DEF TypeOK, Phase
  <2>10. QED
    BY <2>1, <2>2, <2>3, <2>4, <2>5, <2>6, <2>7, <2>8, <2>9 DEF TypeOK
<1>2. Place'
  <2>1. phase' = "attaching" /\ conn' # None
    OBVIOUS
  <2>2. Bare' /\ tls'.ssl = None
    BY <1>a DEF Bare, Unopened
  <2>3. QED
    BY <2>1, <2>2 DEF Place, Idle
<1>3. Boxed'
  BY <1>a DEF Boxed, Place, Idle
<1>4. Decided'
  BY DEF TypeOK, Decided, Place, Idle
<1>5. Ours'
  BY DEF TypeOK, Stream, Ours, Owned, Place, Bare, Halved, Idle
<1>6. Lost'
  BY <1>a DEF TypeOK, Stream, Lost, Owned, Ours, Place, Bare, Halved, Idle, Decided
<1>7. Leaked'
  <2> SUFFICES ASSUME NEW s \in Ssl PROVE Settled(s)'
    BY DEF Leaked
  <2>1. Settled(s)
    BY DEF Leaked
  <2>2. s # None
    OBVIOUS
  <2>3. CASE refs[s] = 0
    BY <1>a, <2>1, <2>2, <2>3 DEF Settled
  <2>4. CASE refs[s] # 0
    <3>1. peer[s] \in Conns /\ outcome[peer[s]] \in {"unsplit", "no handshake"} /\ refs[s] = 1
      BY <1>a, <2>1, <2>2, <2>4 DEF Settled
    <3>2. peer[s] # c
      BY <3>1
    <3>3. outcome'[peer[s]] = outcome[peer[s]]
      BY <3>1, <3>2 DEF TypeOK
    <3>4. s \notin {tls'.ssl, reader'.ssl, writer'.ssl} /\ refs' = refs /\ peer' = peer
      BY <1>a, <2>2
    <3>5. QED
      BY <3>1, <3>3, <3>4 DEF Settled
  <2>5. QED
    BY <2>3, <2>4
<1>8. OwnTraffic'
  BY DEF TypeOK, Stream, OwnTraffic, Ours, Owned, Place, Bare, Halved
<1>9. QED
  BY <1>1, <1>2, <1>3, <1>4, <1>5, <1>6, <1>7, <1>8

LEMMA KeepAcceptFails ==
  ASSUME NEW c \in Conns, IInv, AcceptFails(c)
  PROVE  IInv'
<1> USE ValuesAssumption DEF IInv, Nothing, held, objects, AcceptFails
<1>1. TypeOK'
  BY DEF TypeOK, Place, Stream, Bare, Halved, Phase, Outcome, Boxed, Idle
<1>2. Place'
  BY DEF TypeOK, Stream, Place, Bare, Halved, Idle, Leaked, Settled
<1>3. Boxed'
  BY DEF Boxed, Place, Idle
<1>4. Decided'
  BY DEF TypeOK, Decided, Place, Idle
<1>5. Ours'
  BY DEF TypeOK, Stream, Ours, Owned, Place, Bare, Halved, Idle
<1>6. Lost'
  BY DEF TypeOK, Stream, Lost, Owned, Ours, Place, Bare, Halved, Idle, Decided
<1>7. Leaked'
  BY DEF TypeOK, Stream, Leaked, Settled, Place, Bare, Halved, Idle, Decided
<1>8. OwnTraffic'
  BY DEF TypeOK, Stream, OwnTraffic, Ours, Owned, Place, Bare, Halved
<1>9. QED
  BY <1>1, <1>2, <1>3, <1>4, <1>5, <1>6, <1>7, <1>8

LEMMA KeepAttach ==
  ASSUME IInv, Attach
  PROVE  IInv'
<1> USE ValuesAssumption DEF IInv, Nothing, held, objects, Attach
<1>a. /\ conn \in Conns /\ tls.ssl = None /\ tls.fd \in Fd
      /\ reader = Nothing /\ writer = Nothing
  BY DEF TypeOK, Place, Stream, Bare, Idle
<1>1. TypeOK'
  <2>1. table' \in [Fd -> Conns \cup {Unused, File}]
    BY <1>a DEF TypeOK
  <2>2. refs' \in [Ssl -> 0..2] /\ bound' \in [Ssl -> Fd \cup {None}]
    BY <1>a DEF TypeOK
  <2>3. shut' \in [Conns -> SUBSET {"read", "write"}]
    BY <1>a DEF TypeOK
  <2>4. outcome' \in [Conns -> Outcome]
    BY <1>a DEF TypeOK, Outcome
  <2>5. tls' \in Stream /\ reader' \in Stream /\ writer' \in Stream
    BY <1>a DEF TypeOK, Stream
  <2>6. traffic' \subseteq Conns \X (Conns \cup {Unused, File})
    BY <1>a DEF TypeOK, Use
  <2>7. peer' \in [Ssl -> Conns \cup {None}] /\ conn' \in Conns \cup {None}
    BY <1>a DEF TypeOK
  <2>8. boxes' \subseteq {"Reader", "Writer", "Body", "Request", "ResponseWriter"}
    BY <1>a DEF TypeOK
  <2>9. /\ phase' \in Phase /\ plugin' \in {"absent", "loaded", "closed"}
        /\ alpn' \in {"http/1.1", "none"}
    BY <1>a DEF TypeOK, Phase
  <2>10. QED
    BY <2>1, <2>2, <2>3, <2>4, <2>5, <2>6, <2>7, <2>8, <2>9 DEF TypeOK
<1>2. Place'
  <2>1. phase' = "handshake" /\ conn' # None
    BY <1>a
  <2>2. Bare' /\ tls'.ssl # None
    BY <1>a DEF Bare
  <2>3. refs'[tls'.ssl] = 1
    BY DEF TypeOK
  <2>4. QED
    BY <2>1, <2>2, <2>3 DEF Place, Idle
<1>3. Boxed'
  BY <1>a DEF Boxed, Place, Idle
<1>4. Decided'
  BY DEF TypeOK, Decided, Place, Idle
<1>5. Ours'
  BY DEF TypeOK, Stream, Ours, Owned, Place, Bare, Halved, Idle
<1>6. Lost'
  BY <1>a DEF TypeOK, Stream, Lost, Owned, Ours, Place, Bare, Halved, Idle, Decided
<1>7. Leaked'
  <2> SUFFICES ASSUME NEW s \in Ssl PROVE Settled(s)'
    BY DEF Leaked
  <2>1. Settled(s)
    BY DEF Leaked
  <2>2. s # None
    OBVIOUS
  <2>3. PICK z \in Ssl : /\ refs[z] = 0 /\ refs' = [refs EXCEPT ![z] = 1]
                        /\ peer' = [peer EXCEPT ![z] = conn]
                        /\ tls' = [ssl |-> z, fd |-> tls.fd]
    OBVIOUS
  <2>4. CASE s = z
    BY <2>3, <2>4 DEF Settled, TypeOK
  <2>5. CASE s # z
    <3>1. refs'[s] = refs[s] /\ peer'[s] = peer[s] /\ tls'.ssl = z
      BY <2>3, <2>5 DEF TypeOK
    <3>2. s \notin {tls.ssl, reader.ssl, writer.ssl} /\ s \notin {tls'.ssl, reader'.ssl, writer'.ssl}
      BY <1>a, <2>2, <2>5, <3>1
    <3>3. QED
      BY <2>1, <3>1, <3>2 DEF Settled
  <2>6. QED
    BY <2>4, <2>5
<1>8. OwnTraffic'
  BY DEF TypeOK, Stream, OwnTraffic, Ours, Owned, Place, Bare, Halved
<1>9. QED
  BY <1>1, <1>2, <1>3, <1>4, <1>5, <1>6, <1>7, <1>8

LEMMA KeepAttachFails ==
  ASSUME IInv, AttachFails
  PROVE  IInv'
<1> USE ValuesAssumption DEF IInv, Nothing, held, objects, AttachFails, Finish, Close
<1>1. TypeOK'
  BY DEF TypeOK, Place, Stream, Bare, Halved, Phase, Outcome, Boxed, Idle
<1>2. Place'
  BY DEF TypeOK, Stream, Place, Bare, Halved, Idle, Leaked, Settled
<1>3. Boxed'
  BY DEF Boxed, Place, Idle
<1>4. Decided'
  BY ZenonT(30) DEF TypeOK, Decided, Place, Idle
<1>5. Ours'
  BY DEF TypeOK, Stream, Ours, Owned, Place, Bare, Halved, Idle
<1>6. Lost'
  BY ZenonT(30) DEF TypeOK, Stream, Lost, Owned, Ours, Place, Bare, Halved, Idle, Decided
<1>7. Leaked'
  BY ZenonT(30) DEF TypeOK, Stream, Leaked, Settled, Place, Bare, Halved, Idle, Decided
<1>8. OwnTraffic'
  BY DEF TypeOK, Stream, OwnTraffic, Ours, Owned, Place, Bare, Halved
<1>9. QED
  BY <1>1, <1>2, <1>3, <1>4, <1>5, <1>6, <1>7, <1>8

LEMMA KeepHandshake ==
  ASSUME IInv, Handshake
  PROVE  IInv'
<1> USE ValuesAssumption DEF IInv, Nothing, held, objects, Handshake
<1>1. TypeOK'
  BY DEF TypeOK, Place, Stream, Bare, Halved, Phase, Outcome, Boxed, Idle
<1>2. Place'
  BY DEF TypeOK, Stream, Place, Bare, Halved, Idle, Leaked, Settled
<1>3. Boxed'
  BY DEF Boxed, Place, Idle
<1>4. Decided'
  BY DEF TypeOK, Decided, Place, Idle
<1>5. Ours'
  BY DEF TypeOK, Stream, Ours, Owned, Place, Bare, Halved, Idle
<1>6. Lost'
  BY DEF TypeOK, Stream, Lost, Owned, Ours, Place, Bare, Halved, Idle, Decided
<1>7. Leaked'
  BY DEF TypeOK, Stream, Leaked, Settled, Place, Bare, Halved, Idle, Decided
<1>8. OwnTraffic'
  BY DEF TypeOK, Stream, OwnTraffic, Ours, Owned, Place, Bare, Halved
<1>9. QED
  BY <1>1, <1>2, <1>3, <1>4, <1>5, <1>6, <1>7, <1>8

LEMMA KeepHandshakeFails ==
  ASSUME IInv, HandshakeFails
  PROVE  IInv'
<1> USE ValuesAssumption DEF IInv, Nothing, held, objects, HandshakeFails, Finish, Close
<1>a. /\ conn \in Conns /\ tls.ssl \in Ssl /\ tls.fd \in Fd /\ refs[tls.ssl] = 1
      /\ reader = Nothing /\ writer = Nothing
  BY DEF TypeOK, Place, Stream, Bare, Idle
<1>1. TypeOK'
  BY DEF TypeOK, Place, Stream, Bare, Halved, Phase, Outcome, Boxed, Idle
<1>2. Place'
  BY <1>a DEF TypeOK, Stream, Place, Bare, Halved, Idle, Leaked, Settled
<1>3. Boxed'
  BY <1>a DEF Boxed, Place, Idle
<1>4. Decided'
  BY DEF TypeOK, Decided, Place, Idle
<1>5. Ours'
  BY DEF TypeOK, Stream, Ours, Owned, Place, Bare, Halved, Idle
<1>6. Lost'
  <2> SUFFICES ASSUME NEW f \in Fd, (table[f] \in Conns /\ ~Owned(f))'
               PROVE  (outcome[table[f]] = "unsplit")'
    BY DEF Lost
  <2>1. f # tls.fd /\ table'[f] = table[f]
    BY <1>a DEF TypeOK
  <2>2. ~Owned(f) /\ outcome[table[f]] = "unsplit"
    BY <1>a, <2>1 DEF Owned, Lost
  <2>3. QED
    BY <1>a, <2>1, <2>2 DEF Decided, TypeOK
<1>7. Leaked'
  <2> SUFFICES ASSUME NEW s \in Ssl PROVE Settled(s)'
    BY DEF Leaked
  <2>1. Settled(s)
    BY DEF Leaked
  <2>2. s # None
    OBVIOUS
  <2>3. QED
    BY <1>a, <2>1, <2>2, ZenonT(30) DEF Settled, TypeOK, Decided
<1>8. OwnTraffic'
  BY DEF TypeOK, Stream, OwnTraffic, Ours, Owned, Place, Bare, Halved
<1>9. QED
  BY <1>1, <1>2, <1>3, <1>4, <1>5, <1>6, <1>7, <1>8

LEMMA KeepSplit ==
  ASSUME IInv, Split
  PROVE  IInv'
<1> USE ValuesAssumption DEF IInv, Nothing, held, objects, Split, Unopened
<1>a. /\ conn \in Conns /\ tls.ssl \in Ssl /\ tls.fd \in Fd /\ refs[tls.ssl] = 1
      /\ reader = Nothing /\ writer = Nothing
  BY DEF TypeOK, Place, Stream, Bare, Idle
<1>1. TypeOK'
  <2>1. table' \in [Fd -> Conns \cup {Unused, File}]
    BY <1>a DEF TypeOK
  <2>2. refs' \in [Ssl -> 0..2] /\ bound' \in [Ssl -> Fd \cup {None}]
    BY <1>a DEF TypeOK
  <2>3. shut' \in [Conns -> SUBSET {"read", "write"}]
    BY <1>a DEF TypeOK
  <2>4. outcome' \in [Conns -> Outcome]
    BY <1>a DEF TypeOK, Outcome
  <2>5. tls' \in Stream /\ reader' \in Stream /\ writer' \in Stream
    BY <1>a DEF TypeOK, Stream
  <2>6. traffic' \subseteq Conns \X (Conns \cup {Unused, File})
    BY <1>a DEF TypeOK, Use
  <2>7. peer' \in [Ssl -> Conns \cup {None}] /\ conn' \in Conns \cup {None}
    BY <1>a DEF TypeOK
  <2>8. boxes' \subseteq {"Reader", "Writer", "Body", "Request", "ResponseWriter"}
    BY <1>a DEF TypeOK
  <2>9. /\ phase' \in Phase /\ plugin' \in {"absent", "loaded", "closed"}
        /\ alpn' \in {"http/1.1", "none"}
    BY <1>a DEF TypeOK, Phase
  <2>10. QED
    BY <2>1, <2>2, <2>3, <2>4, <2>5, <2>6, <2>7, <2>8, <2>9 DEF TypeOK
<1>2. Place'
  <2>1. phase' = "wrapping" /\ conn' # None
    BY <1>a
  <2>2. PICK f \in Unopened : /\ bound' = [bound EXCEPT ![tls.ssl] = f]
                             /\ writer' = [ssl |-> tls.ssl, fd |-> f]
    OBVIOUS
  <2>3. f # tls.fd
    BY <1>a, <2>2 DEF Ours, Owned
  <2>4. Halved'
    BY <1>a, <2>2, <2>3 DEF Halved
  <2>5. refs'[reader'.ssl] = 2 /\ bound'[reader'.ssl] = writer'.fd
    BY <1>a, <2>2 DEF TypeOK
  <2>6. QED
    BY <2>1, <2>4, <2>5 DEF Place, Idle
<1>3. Boxed'
  BY <1>a DEF Boxed, Place, Idle
<1>4. Decided'
  BY DEF TypeOK, Decided, Place, Idle
<1>5. Ours'
  BY DEF TypeOK, Stream, Ours, Owned, Place, Bare, Halved, Idle
<1>6. Lost'
  BY <1>a DEF TypeOK, Stream, Lost, Owned, Ours, Place, Bare, Halved, Idle, Decided
<1>7. Leaked'
  <2> SUFFICES ASSUME NEW s \in Ssl PROVE Settled(s)'
    BY DEF Leaked
  <2>1. Settled(s)
    BY DEF Leaked
  <2>2. s # None
    OBVIOUS
  <2>3. peer' = peer /\ conn' = conn /\ outcome' = outcome /\ tls' = Nothing
    OBVIOUS
  <2>4. reader'.ssl = tls.ssl /\ writer'.ssl = tls.ssl
    OBVIOUS
  <2>5. s # tls.ssl => refs'[s] = refs[s]
    BY DEF TypeOK
  <2>6. QED
    BY <1>a, <2>1, <2>2, <2>3, <2>4, <2>5 DEF Settled
<1>8. OwnTraffic'
  BY DEF TypeOK, Stream, OwnTraffic, Ours, Owned, Place, Bare, Halved
<1>9. QED
  BY <1>1, <1>2, <1>3, <1>4, <1>5, <1>6, <1>7, <1>8

LEMMA KeepDupFails ==
  ASSUME IInv, DupFails
  PROVE  IInv'
<1> USE ValuesAssumption DEF IInv, Nothing, held, objects, DupFails, Finish, Free, Close, Shutdown
<1>a. /\ conn \in Conns /\ tls.ssl \in Ssl /\ tls.fd \in Fd /\ refs[tls.ssl] = 1
      /\ reader = Nothing /\ writer = Nothing
  BY DEF TypeOK, Place, Stream, Bare, Idle
<1>1. TypeOK'
  <2>1. table' \in [Fd -> Conns \cup {Unused, File}]
    BY <1>a DEF TypeOK
  <2>2. refs' \in [Ssl -> 0..2] /\ bound' \in [Ssl -> Fd \cup {None}]
    BY <1>a DEF TypeOK
  <2>3. shut' \in [Conns -> SUBSET {"read", "write"}]
    BY <1>a DEF TypeOK
  <2>4. outcome' \in [Conns -> Outcome]
    BY <1>a DEF TypeOK, Outcome
  <2>5. tls' \in Stream /\ reader' \in Stream /\ writer' \in Stream
    BY <1>a DEF TypeOK, Stream
  <2>6. traffic' \subseteq Conns \X (Conns \cup {Unused, File})
    BY <1>a DEF TypeOK, Use
  <2>7. peer' \in [Ssl -> Conns \cup {None}] /\ conn' \in Conns \cup {None}
    BY <1>a DEF TypeOK
  <2>8. boxes' \subseteq {"Reader", "Writer", "Body", "Request", "ResponseWriter"}
    BY <1>a DEF TypeOK
  <2>9. /\ phase' \in Phase /\ plugin' \in {"absent", "loaded", "closed"}
        /\ alpn' \in {"http/1.1", "none"}
    BY <1>a DEF TypeOK, Phase
  <2>10. QED
    BY <2>1, <2>2, <2>3, <2>4, <2>5, <2>6, <2>7, <2>8, <2>9 DEF TypeOK
<1>2. Place'
  BY <1>a DEF TypeOK, Stream, Place, Bare, Halved, Idle, Leaked, Settled
<1>3. Boxed'
  BY <1>a DEF Boxed, Place, Idle
<1>4. Decided'
  BY DEF TypeOK, Decided, Place, Idle
<1>5. Ours'
  BY DEF TypeOK, Stream, Ours, Owned, Place, Bare, Halved, Idle
<1>6. Lost'
  BY <1>a DEF TypeOK, Stream, Lost, Owned, Ours, Place, Bare, Halved, Idle, Decided
<1>7. Leaked'
  <2> SUFFICES ASSUME NEW s \in Ssl PROVE Settled(s)'
    BY DEF Leaked
  <2>1. Settled(s)
    BY DEF Leaked
  <2>2. s # None
    OBVIOUS
  <2>3. CASE s = tls.ssl
    <3>1. refs'[s] = 0
      BY <1>a, <2>3 DEF TypeOK
    <3>2. QED
      BY <1>a, <2>2, <3>1 DEF Settled
  <2>4. CASE s # tls.ssl
    <3>1. refs'[s] = refs[s] /\ peer' = peer
      BY <1>a, <2>4 DEF TypeOK
    <3>2. refs[s] # 0 => peer[s] # conn
      BY <1>a, <2>1, <2>2, <2>4 DEF Settled, Decided
    <3>3. \A c \in Conns : c # conn => outcome'[c] = outcome[c]
      BY <1>a DEF TypeOK
    <3>4. QED
      BY <1>a, <2>1, <2>2, <2>4, <3>1, <3>2, <3>3 DEF Settled
  <2>5. QED
    BY <2>3, <2>4
<1>8. OwnTraffic'
  BY DEF TypeOK, Stream, OwnTraffic, Ours, Owned, Place, Bare, Halved
<1>9. QED
  BY <1>1, <1>2, <1>3, <1>4, <1>5, <1>6, <1>7, <1>8

LEMMA KeepCloneFails ==
  ASSUME IInv, CloneFails
  PROVE  IInv'
<1> USE ValuesAssumption DEF IInv, Nothing, held, objects, CloneFails, Finish
<1>a. /\ conn \in Conns /\ tls.ssl \in Ssl /\ tls.fd \in Fd /\ refs[tls.ssl] = 1
      /\ reader = Nothing /\ writer = Nothing
  BY DEF TypeOK, Place, Stream, Bare, Idle
<1>1. TypeOK'
  BY DEF TypeOK, Place, Stream, Bare, Halved, Phase, Outcome, Boxed, Idle
<1>2. Place'
  BY <1>a DEF TypeOK, Stream, Place, Bare, Halved, Idle, Leaked, Settled
<1>3. Boxed'
  BY <1>a DEF Boxed, Place, Idle
<1>4. Decided'
  BY DEF TypeOK, Decided, Place, Idle
<1>5. Ours'
  BY DEF TypeOK, Stream, Ours, Owned, Place, Bare, Halved, Idle
<1>6. Lost'
  BY <1>a DEF TypeOK, Stream, Lost, Owned, Ours, Place, Bare, Halved, Idle, Decided
<1>7. Leaked'
  <2> SUFFICES ASSUME NEW s \in Ssl PROVE Settled(s)'
    BY DEF Leaked
  <2>1. Settled(s)
    BY DEF Leaked
  <2>2. s # None
    OBVIOUS
  <2>3. QED
    BY <1>a, <2>1, <2>2, ZenonT(30) DEF Settled, TypeOK, Decided
<1>8. OwnTraffic'
  BY DEF TypeOK, Stream, OwnTraffic, Ours, Owned, Place, Bare, Halved
<1>9. QED
  BY <1>1, <1>2, <1>3, <1>4, <1>5, <1>6, <1>7, <1>8

LEMMA KeepSetFdFails ==
  ASSUME IInv, SetFdFails
  PROVE  IInv'
<1> USE ValuesAssumption DEF IInv, Nothing, held, objects, SetFdFails, Finish, Unopened
<1>a. /\ conn \in Conns /\ tls.ssl \in Ssl /\ tls.fd \in Fd /\ refs[tls.ssl] = 1
      /\ reader = Nothing /\ writer = Nothing
  BY DEF TypeOK, Place, Stream, Bare, Idle
<1>1. TypeOK'
  <2>1. table' \in [Fd -> Conns \cup {Unused, File}]
    BY <1>a DEF TypeOK
  <2>2. refs' \in [Ssl -> 0..2] /\ bound' \in [Ssl -> Fd \cup {None}]
    BY <1>a DEF TypeOK
  <2>3. shut' \in [Conns -> SUBSET {"read", "write"}]
    BY <1>a DEF TypeOK
  <2>4. outcome' \in [Conns -> Outcome]
    BY <1>a DEF TypeOK, Outcome
  <2>5. tls' \in Stream /\ reader' \in Stream /\ writer' \in Stream
    BY <1>a DEF TypeOK, Stream
  <2>6. traffic' \subseteq Conns \X (Conns \cup {Unused, File})
    BY <1>a DEF TypeOK, Use
  <2>7. peer' \in [Ssl -> Conns \cup {None}] /\ conn' \in Conns \cup {None}
    BY <1>a DEF TypeOK
  <2>8. boxes' \subseteq {"Reader", "Writer", "Body", "Request", "ResponseWriter"}
    BY <1>a DEF TypeOK
  <2>9. /\ phase' \in Phase /\ plugin' \in {"absent", "loaded", "closed"}
        /\ alpn' \in {"http/1.1", "none"}
    BY <1>a DEF TypeOK, Phase
  <2>10. QED
    BY <2>1, <2>2, <2>3, <2>4, <2>5, <2>6, <2>7, <2>8, <2>9 DEF TypeOK
<1>2. Place'
  BY <1>a DEF TypeOK, Stream, Place, Bare, Halved, Idle, Leaked, Settled
<1>3. Boxed'
  BY <1>a DEF Boxed, Place, Idle
<1>4. Decided'
  BY DEF TypeOK, Decided, Place, Idle
<1>5. Ours'
  BY DEF TypeOK, Stream, Ours, Owned, Place, Bare, Halved, Idle
<1>6. Lost'
  BY <1>a DEF TypeOK, Stream, Lost, Owned, Ours, Place, Bare, Halved, Idle, Decided
<1>7. Leaked'
  <2> SUFFICES ASSUME NEW s \in Ssl PROVE Settled(s)'
    BY DEF Leaked
  <2>1. Settled(s)
    BY DEF Leaked
  <2>2. s # None
    OBVIOUS
  <2>3. refs' = refs /\ peer' = peer /\ outcome' = [outcome EXCEPT ![conn] = "unsplit"]
    OBVIOUS
  <2>4. CASE s = tls.ssl
    BY <1>a, <2>1, <2>2, <2>3, <2>4 DEF Settled, TypeOK
  <2>5. CASE s # tls.ssl
    <3>1. refs[s] # 0 => peer[s] # conn
      BY <1>a, <2>1, <2>2, <2>5 DEF Settled, Decided
    <3>2. QED
      BY <1>a, <2>1, <2>2, <2>3, <2>5, <3>1 DEF Settled, TypeOK
  <2>6. QED
    BY <2>4, <2>5
<1>8. OwnTraffic'
  BY DEF TypeOK, Stream, OwnTraffic, Ours, Owned, Place, Bare, Halved
<1>9. QED
  BY <1>1, <1>2, <1>3, <1>4, <1>5, <1>6, <1>7, <1>8

LEMMA KeepWrap ==
  ASSUME IInv, Wrap
  PROVE  IInv'
<1> USE ValuesAssumption DEF IInv, Nothing, held, objects, Wrap
<1>1. TypeOK'
  BY DEF TypeOK, Place, Stream, Bare, Halved, Phase, Outcome, Boxed, Idle
<1>2. Place'
  BY DEF TypeOK, Stream, Place, Bare, Halved, Idle, Leaked, Settled
<1>3. Boxed'
  BY DEF Boxed, Place, Idle
<1>4. Decided'
  BY DEF TypeOK, Decided, Place, Idle
<1>5. Ours'
  BY DEF TypeOK, Stream, Ours, Owned, Place, Bare, Halved, Idle
<1>6. Lost'
  BY DEF TypeOK, Stream, Lost, Owned, Ours, Place, Bare, Halved, Idle, Decided
<1>7. Leaked'
  BY DEF TypeOK, Stream, Leaked, Settled, Place, Bare, Halved, Idle, Decided
<1>8. OwnTraffic'
  BY DEF TypeOK, Stream, OwnTraffic, Ours, Owned, Place, Bare, Halved
<1>9. QED
  BY <1>1, <1>2, <1>3, <1>4, <1>5, <1>6, <1>7, <1>8

LEMMA KeepUnsupported ==
  ASSUME IInv, Unsupported
  PROVE  IInv'
<1> USE ValuesAssumption DEF IInv, Nothing, held, objects, Unsupported, Finish, DropBoth, Free, Close, Shutdown
<1>a. /\ conn \in Conns /\ tls = Nothing /\ reader.ssl \in Ssl /\ writer.ssl = reader.ssl
      /\ reader.fd \in Fd /\ writer.fd \in Fd /\ reader.fd # writer.fd /\ refs[reader.ssl] = 2
      /\ bound[reader.ssl] = writer.fd
  BY DEF TypeOK, Place, Stream, Halved, Idle
<1>1. TypeOK'
  <2>1. table' \in [Fd -> Conns \cup {Unused, File}]
    BY <1>a DEF TypeOK
  <2>2. refs' \in [Ssl -> 0..2] /\ bound' \in [Ssl -> Fd \cup {None}]
    BY <1>a DEF TypeOK
  <2>3. shut' \in [Conns -> SUBSET {"read", "write"}]
    BY <1>a DEF TypeOK
  <2>4. outcome' \in [Conns -> Outcome]
    BY <1>a DEF TypeOK, Outcome
  <2>5. tls' \in Stream /\ reader' \in Stream /\ writer' \in Stream
    BY <1>a DEF TypeOK, Stream
  <2>6. traffic' \subseteq Conns \X (Conns \cup {Unused, File})
    BY <1>a DEF TypeOK, Use
  <2>7. peer' \in [Ssl -> Conns \cup {None}] /\ conn' \in Conns \cup {None}
    BY <1>a DEF TypeOK
  <2>8. boxes' \subseteq {"Reader", "Writer", "Body", "Request", "ResponseWriter"}
    BY <1>a DEF TypeOK
  <2>9. /\ phase' \in Phase /\ plugin' \in {"absent", "loaded", "closed"}
        /\ alpn' \in {"http/1.1", "none"}
    BY <1>a DEF TypeOK, Phase
  <2>10. QED
    BY <2>1, <2>2, <2>3, <2>4, <2>5, <2>6, <2>7, <2>8, <2>9 DEF TypeOK
<1>2. Place'
  BY <1>a DEF TypeOK, Stream, Place, Bare, Halved, Idle, Leaked, Settled
<1>3. Boxed'
  BY <1>a DEF Boxed, Place, Idle
<1>4. Decided'
  BY DEF TypeOK, Decided, Place, Idle
<1>5. Ours'
  BY DEF TypeOK, Stream, Ours, Owned, Place, Bare, Halved, Idle
<1>6. Lost'
  BY <1>a DEF TypeOK, Stream, Lost, Owned, Ours, Place, Bare, Halved, Idle, Decided
<1>7. Leaked'
  <2> SUFFICES ASSUME NEW s \in Ssl PROVE Settled(s)'
    BY DEF Leaked
  <2>1. Settled(s)
    BY DEF Leaked
  <2>2. s # None
    OBVIOUS
  <2>3. CASE s = reader.ssl
    <3>1. refs'[s] = 0
      BY <1>a, <2>3 DEF TypeOK
    <3>2. QED
      BY <1>a, <2>2, <3>1 DEF Settled
  <2>4. CASE s # reader.ssl
    <3>1. refs'[s] = refs[s] /\ peer' = peer
      BY <1>a, <2>4 DEF TypeOK
    <3>2. refs[s] # 0 => peer[s] # conn
      BY <1>a, <2>1, <2>2, <2>4 DEF Settled, Decided
    <3>3. \A c \in Conns : c # conn => outcome'[c] = outcome[c]
      BY <1>a DEF TypeOK
    <3>4. QED
      BY <1>a, <2>1, <2>2, <2>4, <3>1, <3>2, <3>3 DEF Settled
  <2>5. QED
    BY <2>3, <2>4
<1>8. OwnTraffic'
  BY DEF TypeOK, Stream, OwnTraffic, Ours, Owned, Place, Bare, Halved
<1>9. QED
  BY <1>1, <1>2, <1>3, <1>4, <1>5, <1>6, <1>7, <1>8

LEMMA KeepParseRequest ==
  ASSUME IInv, ParseRequest
  PROVE  IInv'
<1> USE ValuesAssumption DEF IInv, Nothing, held, objects, ParseRequest, Use
<1>a. /\ conn \in Conns /\ tls = Nothing /\ reader.ssl \in Ssl /\ writer.ssl = reader.ssl
      /\ reader.fd \in Fd /\ writer.fd \in Fd /\ reader.fd # writer.fd /\ refs[reader.ssl] = 2
      /\ bound[reader.ssl] = writer.fd
  BY DEF TypeOK, Place, Stream, Halved, Idle
<1>1. TypeOK'
  <2>1. table' \in [Fd -> Conns \cup {Unused, File}]
    BY <1>a DEF TypeOK
  <2>2. refs' \in [Ssl -> 0..2] /\ bound' \in [Ssl -> Fd \cup {None}]
    BY <1>a DEF TypeOK
  <2>3. shut' \in [Conns -> SUBSET {"read", "write"}]
    BY <1>a DEF TypeOK
  <2>4. outcome' \in [Conns -> Outcome]
    BY <1>a DEF TypeOK, Outcome
  <2>5. tls' \in Stream /\ reader' \in Stream /\ writer' \in Stream
    BY <1>a DEF TypeOK, Stream
  <2>6. traffic' \subseteq Conns \X (Conns \cup {Unused, File})
    BY <1>a DEF TypeOK, Use
  <2>7. peer' \in [Ssl -> Conns \cup {None}] /\ conn' \in Conns \cup {None}
    BY <1>a DEF TypeOK
  <2>8. boxes' \subseteq {"Reader", "Writer", "Body", "Request", "ResponseWriter"}
    BY <1>a DEF TypeOK
  <2>9. /\ phase' \in Phase /\ plugin' \in {"absent", "loaded", "closed"}
        /\ alpn' \in {"http/1.1", "none"}
    BY <1>a DEF TypeOK, Phase
  <2>10. QED
    BY <2>1, <2>2, <2>3, <2>4, <2>5, <2>6, <2>7, <2>8, <2>9 DEF TypeOK
<1>2. Place'
  BY <1>a DEF TypeOK, Stream, Place, Bare, Halved, Idle, Leaked, Settled
<1>3. Boxed'
  BY <1>a DEF Boxed, Place, Idle
<1>4. Decided'
  BY DEF TypeOK, Decided, Place, Idle
<1>5. Ours'
  BY DEF TypeOK, Stream, Ours, Owned, Place, Bare, Halved, Idle
<1>6. Lost'
  BY <1>a DEF TypeOK, Stream, Lost, Owned, Ours, Place, Bare, Halved, Idle, Decided
<1>7. Leaked'
  <2> SUFFICES ASSUME NEW s \in Ssl PROVE Settled(s)'
    BY DEF Leaked
  <2>1. Settled(s)
    BY DEF Leaked
  <2>2. s # None
    OBVIOUS
  <2>3. QED
    BY <1>a, <2>1, <2>2 DEF Settled, TypeOK, Decided
<1>8. OwnTraffic'
  BY DEF TypeOK, Stream, OwnTraffic, Ours, Owned, Place, Bare, Halved
<1>9. QED
  BY <1>1, <1>2, <1>3, <1>4, <1>5, <1>6, <1>7, <1>8

LEMMA KeepParseFails ==
  ASSUME IInv, ParseFails
  PROVE  IInv'
<1> USE ValuesAssumption DEF IInv, Nothing, held, objects, ParseFails, DropBoth, Free, Close, Shutdown, Use
<1>a. /\ conn \in Conns /\ tls = Nothing /\ reader.ssl \in Ssl /\ writer.ssl = reader.ssl
      /\ reader.fd \in Fd /\ writer.fd \in Fd /\ reader.fd # writer.fd /\ refs[reader.ssl] = 2
      /\ bound[reader.ssl] = writer.fd
  BY DEF TypeOK, Place, Stream, Halved, Idle
<1>1. TypeOK'
  <2>1. table' \in [Fd -> Conns \cup {Unused, File}]
    BY <1>a DEF TypeOK
  <2>2. refs' \in [Ssl -> 0..2] /\ bound' \in [Ssl -> Fd \cup {None}]
    BY <1>a DEF TypeOK
  <2>3. shut' \in [Conns -> SUBSET {"read", "write"}]
    BY <1>a DEF TypeOK
  <2>4. outcome' \in [Conns -> Outcome]
    BY <1>a DEF TypeOK, Outcome
  <2>5. tls' \in Stream /\ reader' \in Stream /\ writer' \in Stream
    BY <1>a DEF TypeOK, Stream
  <2>6. traffic' \subseteq Conns \X (Conns \cup {Unused, File})
    BY <1>a DEF TypeOK, Use
  <2>7. peer' \in [Ssl -> Conns \cup {None}] /\ conn' \in Conns \cup {None}
    BY <1>a DEF TypeOK
  <2>8. boxes' \subseteq {"Reader", "Writer", "Body", "Request", "ResponseWriter"}
    BY <1>a DEF TypeOK
  <2>9. /\ phase' \in Phase /\ plugin' \in {"absent", "loaded", "closed"}
        /\ alpn' \in {"http/1.1", "none"}
    BY <1>a DEF TypeOK, Phase
  <2>10. QED
    BY <2>1, <2>2, <2>3, <2>4, <2>5, <2>6, <2>7, <2>8, <2>9 DEF TypeOK
<1>2. Place'
  BY <1>a DEF TypeOK, Stream, Place, Bare, Halved, Idle, Leaked, Settled
<1>3. Boxed'
  BY <1>a DEF Boxed, Place, Idle
<1>4. Decided'
  BY DEF TypeOK, Decided, Place, Idle
<1>5. Ours'
  BY DEF TypeOK, Stream, Ours, Owned, Place, Bare, Halved, Idle
<1>6. Lost'
  BY <1>a DEF TypeOK, Stream, Lost, Owned, Ours, Place, Bare, Halved, Idle, Decided
<1>7. Leaked'
  <2> SUFFICES ASSUME NEW s \in Ssl PROVE Settled(s)'
    BY DEF Leaked
  <2>1. Settled(s)
    BY DEF Leaked
  <2>2. s # None
    OBVIOUS
  <2>3. CASE s = reader.ssl
    <3>1. refs'[s] = 0
      BY <1>a, <2>3 DEF TypeOK
    <3>2. QED
      BY <1>a, <2>2, <3>1 DEF Settled
  <2>4. CASE s # reader.ssl
    <3>1. refs'[s] = refs[s] /\ peer' = peer
      BY <1>a, <2>4 DEF TypeOK
    <3>2. refs[s] # 0 => peer[s] # conn
      BY <1>a, <2>1, <2>2, <2>4 DEF Settled, Decided
    <3>3. \A c \in Conns : c # conn => outcome'[c] = outcome[c]
      BY <1>a DEF TypeOK
    <3>4. QED
      BY <1>a, <2>1, <2>2, <2>4, <3>1, <3>2, <3>3 DEF Settled
  <2>5. QED
    BY <2>3, <2>4
<1>8. OwnTraffic'
  BY DEF TypeOK, Stream, OwnTraffic, Ours, Owned, Place, Bare, Halved
<1>9. QED
  BY <1>1, <1>2, <1>3, <1>4, <1>5, <1>6, <1>7, <1>8

LEMMA KeepPluginReads ==
  ASSUME IInv, PluginReads
  PROVE  IInv'
<1> USE ValuesAssumption DEF IInv, Nothing, held, objects, PluginReads, Use
<1>a. /\ conn \in Conns /\ tls = Nothing /\ reader.ssl \in Ssl /\ writer.ssl = reader.ssl
      /\ reader.fd \in Fd /\ writer.fd \in Fd /\ reader.fd # writer.fd /\ refs[reader.ssl] = 2
      /\ bound[reader.ssl] = writer.fd
  BY DEF TypeOK, Place, Stream, Halved, Idle
<1>1. TypeOK'
  <2>1. table' \in [Fd -> Conns \cup {Unused, File}]
    BY <1>a DEF TypeOK
  <2>2. refs' \in [Ssl -> 0..2] /\ bound' \in [Ssl -> Fd \cup {None}]
    BY <1>a DEF TypeOK
  <2>3. shut' \in [Conns -> SUBSET {"read", "write"}]
    BY <1>a DEF TypeOK
  <2>4. outcome' \in [Conns -> Outcome]
    BY <1>a DEF TypeOK, Outcome
  <2>5. tls' \in Stream /\ reader' \in Stream /\ writer' \in Stream
    BY <1>a DEF TypeOK, Stream
  <2>6. traffic' \subseteq Conns \X (Conns \cup {Unused, File})
    BY <1>a DEF TypeOK, Use
  <2>7. peer' \in [Ssl -> Conns \cup {None}] /\ conn' \in Conns \cup {None}
    BY <1>a DEF TypeOK
  <2>8. boxes' \subseteq {"Reader", "Writer", "Body", "Request", "ResponseWriter"}
    BY <1>a DEF TypeOK
  <2>9. /\ phase' \in Phase /\ plugin' \in {"absent", "loaded", "closed"}
        /\ alpn' \in {"http/1.1", "none"}
    BY <1>a DEF TypeOK, Phase
  <2>10. QED
    BY <2>1, <2>2, <2>3, <2>4, <2>5, <2>6, <2>7, <2>8, <2>9 DEF TypeOK
<1>2. Place'
  BY <1>a DEF TypeOK, Stream, Place, Bare, Halved, Idle, Leaked, Settled
<1>3. Boxed'
  BY <1>a DEF Boxed, Place, Idle
<1>4. Decided'
  BY DEF TypeOK, Decided, Place, Idle
<1>5. Ours'
  BY DEF TypeOK, Stream, Ours, Owned, Place, Bare, Halved, Idle
<1>6. Lost'
  BY <1>a DEF TypeOK, Stream, Lost, Owned, Ours, Place, Bare, Halved, Idle, Decided
<1>7. Leaked'
  <2> SUFFICES ASSUME NEW s \in Ssl PROVE Settled(s)'
    BY DEF Leaked
  <2>1. Settled(s)
    BY DEF Leaked
  <2>2. s # None
    OBVIOUS
  <2>3. QED
    BY <1>a, <2>1, <2>2 DEF Settled, TypeOK, Decided
<1>8. OwnTraffic'
  BY DEF TypeOK, Stream, OwnTraffic, Ours, Owned, Place, Bare, Halved
<1>9. QED
  BY <1>1, <1>2, <1>3, <1>4, <1>5, <1>6, <1>7, <1>8

LEMMA KeepPluginWrites ==
  ASSUME IInv, PluginWrites
  PROVE  IInv'
<1> USE ValuesAssumption DEF IInv, Nothing, held, objects, PluginWrites, Use
<1>a. /\ conn \in Conns /\ tls = Nothing /\ reader.ssl \in Ssl /\ writer.ssl = reader.ssl
      /\ reader.fd \in Fd /\ writer.fd \in Fd /\ reader.fd # writer.fd /\ refs[reader.ssl] = 2
      /\ bound[reader.ssl] = writer.fd
  BY DEF TypeOK, Place, Stream, Halved, Idle
<1>1. TypeOK'
  <2>1. table' \in [Fd -> Conns \cup {Unused, File}]
    BY <1>a DEF TypeOK
  <2>2. refs' \in [Ssl -> 0..2] /\ bound' \in [Ssl -> Fd \cup {None}]
    BY <1>a DEF TypeOK
  <2>3. shut' \in [Conns -> SUBSET {"read", "write"}]
    BY <1>a DEF TypeOK
  <2>4. outcome' \in [Conns -> Outcome]
    BY <1>a DEF TypeOK, Outcome
  <2>5. tls' \in Stream /\ reader' \in Stream /\ writer' \in Stream
    BY <1>a DEF TypeOK, Stream
  <2>6. traffic' \subseteq Conns \X (Conns \cup {Unused, File})
    BY <1>a DEF TypeOK, Use
  <2>7. peer' \in [Ssl -> Conns \cup {None}] /\ conn' \in Conns \cup {None}
    BY <1>a DEF TypeOK
  <2>8. boxes' \subseteq {"Reader", "Writer", "Body", "Request", "ResponseWriter"}
    BY <1>a DEF TypeOK
  <2>9. /\ phase' \in Phase /\ plugin' \in {"absent", "loaded", "closed"}
        /\ alpn' \in {"http/1.1", "none"}
    BY <1>a DEF TypeOK, Phase
  <2>10. QED
    BY <2>1, <2>2, <2>3, <2>4, <2>5, <2>6, <2>7, <2>8, <2>9 DEF TypeOK
<1>2. Place'
  BY <1>a DEF TypeOK, Stream, Place, Bare, Halved, Idle, Leaked, Settled
<1>3. Boxed'
  BY <1>a DEF Boxed, Place, Idle
<1>4. Decided'
  BY DEF TypeOK, Decided, Place, Idle
<1>5. Ours'
  BY DEF TypeOK, Stream, Ours, Owned, Place, Bare, Halved, Idle
<1>6. Lost'
  BY <1>a DEF TypeOK, Stream, Lost, Owned, Ours, Place, Bare, Halved, Idle, Decided
<1>7. Leaked'
  <2> SUFFICES ASSUME NEW s \in Ssl PROVE Settled(s)'
    BY DEF Leaked
  <2>1. Settled(s)
    BY DEF Leaked
  <2>2. s # None
    OBVIOUS
  <2>3. QED
    BY <1>a, <2>1, <2>2 DEF Settled, TypeOK, Decided
<1>8. OwnTraffic'
  BY DEF TypeOK, Stream, OwnTraffic, Ours, Owned, Place, Bare, Halved
<1>9. QED
  BY <1>1, <1>2, <1>3, <1>4, <1>5, <1>6, <1>7, <1>8

LEMMA KeepDestroyWriter ==
  ASSUME IInv, DestroyWriter
  PROVE  IInv'
<1> USE ValuesAssumption DEF IInv, Nothing, held, objects, DestroyWriter, DropWriter, Free, Close, Shutdown
<1>a. /\ conn \in Conns /\ tls = Nothing /\ reader.ssl \in Ssl /\ writer.ssl = reader.ssl
      /\ reader.fd \in Fd /\ writer.fd \in Fd /\ reader.fd # writer.fd /\ refs[reader.ssl] = 2
      /\ bound[reader.ssl] = writer.fd
  BY DEF TypeOK, Place, Stream, Halved, Idle
<1>1. TypeOK'
  <2>1. table' \in [Fd -> Conns \cup {Unused, File}]
    BY <1>a DEF TypeOK
  <2>2. refs' \in [Ssl -> 0..2] /\ bound' \in [Ssl -> Fd \cup {None}]
    BY <1>a DEF TypeOK
  <2>3. shut' \in [Conns -> SUBSET {"read", "write"}]
    BY <1>a DEF TypeOK
  <2>4. outcome' \in [Conns -> Outcome]
    BY <1>a DEF TypeOK, Outcome
  <2>5. tls' \in Stream /\ reader' \in Stream /\ writer' \in Stream
    BY <1>a DEF TypeOK, Stream
  <2>6. traffic' \subseteq Conns \X (Conns \cup {Unused, File})
    BY <1>a DEF TypeOK, Use
  <2>7. peer' \in [Ssl -> Conns \cup {None}] /\ conn' \in Conns \cup {None}
    BY <1>a DEF TypeOK
  <2>8. boxes' \subseteq {"Reader", "Writer", "Body", "Request", "ResponseWriter"}
    BY <1>a DEF TypeOK
  <2>9. /\ phase' \in Phase /\ plugin' \in {"absent", "loaded", "closed"}
        /\ alpn' \in {"http/1.1", "none"}
    BY <1>a DEF TypeOK, Phase
  <2>10. QED
    BY <2>1, <2>2, <2>3, <2>4, <2>5, <2>6, <2>7, <2>8, <2>9 DEF TypeOK
<1>2. Place'
  <2>1. phase' = "dropping" /\ conn' # None /\ tls' = Nothing /\ writer' = Nothing
    BY <1>a
  <2>2. refs'[reader'.ssl] = 1
    BY <1>a DEF TypeOK
  <2>3. QED
    BY <1>a, <2>1, <2>2 DEF Place, Idle
<1>3. Boxed'
  BY DEF Boxed, TypeOK
<1>4. Decided'
  BY DEF TypeOK, Decided, Place, Idle
<1>5. Ours'
  BY DEF TypeOK, Stream, Ours, Owned, Place, Bare, Halved, Idle
<1>6. Lost'
  BY <1>a DEF TypeOK, Stream, Lost, Owned, Ours, Place, Bare, Halved, Idle, Decided
<1>7. Leaked'
  <2> SUFFICES ASSUME NEW s \in Ssl PROVE Settled(s)'
    BY DEF Leaked
  <2>1. Settled(s)
    BY DEF Leaked
  <2>2. s # None
    OBVIOUS
  <2>3. QED
    BY <1>a, <2>1, <2>2 DEF Settled, TypeOK, Decided
<1>8. OwnTraffic'
  BY DEF TypeOK, Stream, OwnTraffic, Ours, Owned, Place, Bare, Halved
<1>9. QED
  BY <1>1, <1>2, <1>3, <1>4, <1>5, <1>6, <1>7, <1>8

LEMMA KeepDestroyRequest ==
  ASSUME IInv, DestroyRequest
  PROVE  IInv'
<1> USE ValuesAssumption DEF IInv, Nothing, held, objects, DestroyRequest, DropReader, Free, Close, Shutdown
<1>a. /\ conn \in Conns /\ tls = Nothing /\ writer = Nothing
      /\ reader.ssl \in Ssl /\ reader.fd \in Fd /\ refs[reader.ssl] = 1
  BY DEF TypeOK, Place, Stream, Idle
<1>1. TypeOK'
  <2>1. table' \in [Fd -> Conns \cup {Unused, File}]
    BY <1>a DEF TypeOK
  <2>2. refs' \in [Ssl -> 0..2] /\ bound' \in [Ssl -> Fd \cup {None}]
    BY <1>a DEF TypeOK
  <2>3. shut' \in [Conns -> SUBSET {"read", "write"}]
    BY <1>a DEF TypeOK
  <2>4. outcome' \in [Conns -> Outcome]
    BY <1>a DEF TypeOK, Outcome
  <2>5. tls' \in Stream /\ reader' \in Stream /\ writer' \in Stream
    BY <1>a DEF TypeOK, Stream
  <2>6. traffic' \subseteq Conns \X (Conns \cup {Unused, File})
    BY <1>a DEF TypeOK, Use
  <2>7. peer' \in [Ssl -> Conns \cup {None}] /\ conn' \in Conns \cup {None}
    BY <1>a DEF TypeOK
  <2>8. boxes' \subseteq {"Reader", "Writer", "Body", "Request", "ResponseWriter"}
    BY <1>a DEF TypeOK
  <2>9. /\ phase' \in Phase /\ plugin' \in {"absent", "loaded", "closed"}
        /\ alpn' \in {"http/1.1", "none"}
    BY <1>a DEF TypeOK, Phase
  <2>10. QED
    BY <2>1, <2>2, <2>3, <2>4, <2>5, <2>6, <2>7, <2>8, <2>9 DEF TypeOK
<1>2. Place'
  BY <1>a DEF TypeOK, Stream, Place, Bare, Halved, Idle, Leaked, Settled
<1>3. Boxed'
  BY <1>a DEF Boxed, Place, Idle
<1>4. Decided'
  BY DEF TypeOK, Decided, Place, Idle
<1>5. Ours'
  BY DEF TypeOK, Stream, Ours, Owned, Place, Bare, Halved, Idle
<1>6. Lost'
  BY <1>a DEF TypeOK, Stream, Lost, Owned, Ours, Place, Bare, Halved, Idle, Decided
<1>7. Leaked'
  <2> SUFFICES ASSUME NEW s \in Ssl PROVE Settled(s)'
    BY DEF Leaked
  <2>1. Settled(s)
    BY DEF Leaked
  <2>2. s # None
    OBVIOUS
  <2>3. CASE s = reader.ssl
    <3>1. refs'[s] = 0
      BY <1>a, <2>3 DEF TypeOK
    <3>2. QED
      BY <1>a, <2>2, <3>1 DEF Settled
  <2>4. CASE s # reader.ssl
    <3>1. refs'[s] = refs[s] /\ peer' = peer
      BY <1>a, <2>4 DEF TypeOK
    <3>2. refs[s] # 0 => peer[s] # conn
      BY <1>a, <2>1, <2>2, <2>4 DEF Settled, Decided
    <3>3. \A c \in Conns : c # conn => outcome'[c] = outcome[c]
      BY <1>a DEF TypeOK
    <3>4. QED
      BY <1>a, <2>1, <2>2, <2>4, <3>1, <3>2, <3>3 DEF Settled
  <2>5. QED
    BY <2>3, <2>4
<1>8. OwnTraffic'
  BY DEF TypeOK, Stream, OwnTraffic, Ours, Owned, Place, Bare, Halved
<1>9. QED
  BY <1>1, <1>2, <1>3, <1>4, <1>5, <1>6, <1>7, <1>8

-----------------------------------------------------------------------------
LEMMA Initially == Init => IInv
<1> USE ValuesAssumption DEF Init, Nothing
<1>1. Init => TypeOK
  BY DEF TypeOK, Phase, Outcome, Stream
<1>2. Init => Place /\ Boxed /\ Decided
  BY DEF Place, Boxed, Decided, Idle
<1>3. Init => Ours /\ Lost /\ OwnTraffic
  BY DEF Ours, Lost, Owned, OwnTraffic
<1>4. Init => Leaked
  BY DEF Leaked, Settled
<1>5. QED
  BY <1>1, <1>2, <1>3, <1>4 DEF IInv

LEMMA Kept == IInv /\ [Next]_vars => IInv'
<1> SUFFICES ASSUME IInv, [Next]_vars
             PROVE  IInv'
  OBVIOUS
<1>1. CASE Start
  BY <1>1, KeepStart
<1>2. CASE NextFile
  BY <1>2, KeepOpenFile, KeepCloseFile DEF NextFile
<1>3. CASE \E c \in Conns : Accept(c) \/ AcceptFails(c)
  BY <1>3, KeepAccept, KeepAcceptFails
<1>4. CASE Attach \/ AttachFails \/ Handshake \/ HandshakeFails
  BY <1>4, KeepAttach, KeepAttachFails, KeepHandshake, KeepHandshakeFails
<1>5. CASE Split \/ DupFails \/ CloneFails \/ SetFdFails
  BY <1>5, KeepSplit, KeepDupFails, KeepCloneFails, KeepSetFdFails
<1>6. CASE Wrap \/ Unsupported \/ ParseRequest \/ ParseFails
  BY <1>6, KeepWrap, KeepUnsupported, KeepParseRequest, KeepParseFails
<1>7. CASE PluginReads \/ PluginWrites \/ DestroyWriter \/ DestroyRequest
  BY <1>7, KeepPluginReads, KeepPluginWrites, KeepDestroyWriter, KeepDestroyRequest
<1>8. CASE UNCHANGED vars
  <2>1. TypeOK' /\ Place' /\ Boxed'
    BY <1>8 DEF vars, IInv, TypeOK, Place, Boxed, Bare, Halved
  <2>2. Decided' /\ Ours' /\ Lost' /\ Leaked' /\ OwnTraffic'
    BY <1>8 DEF vars, IInv, Decided, Ours, Lost, Leaked, Settled, OwnTraffic, Owned
  <2>3. QED
    BY <2>1, <2>2 DEF IInv
<1>9. QED
  BY <1>1, <1>2, <1>3, <1>4, <1>5, <1>6, <1>7, <1>8 DEF Next

LEMMA Invariant == Spec => []IInv
<1>1. QED
  BY Initially, Kept, PTL DEF Spec

LEMMA OwnedOnceHolds == IInv => OwnedOnce
<1> SUFFICES ASSUME IInv
             PROVE  OwnedOnce
  OBVIOUS
<1> USE ValuesAssumption DEF IInv, Nothing
<1>1. \A f \in Fd : Owned(f) => conn # None /\ table[f] = conn
  BY DEF Ours, Owned, Place, Idle
<1>2. tls.fd # None => reader = Nothing /\ writer = Nothing
  BY DEF TypeOK, Phase, Place, Idle, Bare, Halved
<1>3. conn \in Conns => shut[conn] \subseteq {"write"}
  BY DEF Decided
<1>4. reader.fd # None => reader.fd # writer.fd /\ "read" \notin shut[conn]
  BY <1>3 DEF TypeOK, Phase, Place, Idle, Bare, Halved
<1>5. writer.fd # None => "write" \notin shut[conn]
  BY DEF TypeOK, Phase, Place, Idle, Bare, Halved, Decided
<1>6. ASSUME NEW s \in Ssl
      PROVE  References(s) <= refs[s]
  <2>1. s # None /\ refs[s] \in 0..2
    BY DEF TypeOK
  <2>2. CASE phase \in Idle \cup {"attaching"}
    BY <2>1, <2>2 DEF References, Counts, Place, Bare
  <2>3. CASE phase \in {"handshake", "splitting"}
    BY <2>1, <2>3 DEF References, Counts, Place, Bare
  <2>4. CASE phase \in {"wrapping", "parsing", "serving"}
    BY <2>1, <2>4 DEF References, Counts, Place, Halved
  <2>5. CASE phase = "dropping"
    BY <2>1, <2>5 DEF References, Counts, Place
  <2>6. QED
    BY <2>2, <2>3, <2>4, <2>5 DEF TypeOK, Phase, Idle
<1>7. QED
  BY <1>1, <1>2, <1>4, <1>5, <1>6 DEF OwnedOnce

LEMMA NothingForgottenHolds == IInv => NothingForgotten
<1> SUFFICES ASSUME IInv
             PROVE  NothingForgotten
  OBVIOUS
<1> USE ValuesAssumption DEF IInv, Nothing
<1>1. ASSUME NEW s \in Ssl, refs[s] # References(s)
      PROVE  refs[s] = 1 /\ outcome[peer[s]] \in {"unsplit", "no handshake"}
  <2>1. s # None
    OBVIOUS
  <2>2. CASE s \in {tls.ssl, reader.ssl, writer.ssl}
    <3>1. refs[s] = References(s)
      BY <2>1, <2>2 DEF References, Counts, Place, TypeOK, Phase, Idle, Bare, Halved
    <3>2. QED
      BY <1>1, <3>1
  <2>3. CASE s \notin {tls.ssl, reader.ssl, writer.ssl}
    <3>1. References(s) = 0
      BY <2>3 DEF References, Counts
    <3>2. QED
      BY <1>1, <2>3, <3>1 DEF Leaked, Settled
  <2>4. QED
    BY <2>2, <2>3
<1>2. conn = None => boxes = {}
  BY DEF Place, Boxed, Idle
<1>3. QED
  BY <1>1, <1>2 DEF NothingForgotten, Lost

-----------------------------------------------------------------------------
(* The state of the loop, the table of descriptors, the counts of OpenSSL  *)
(* and the streams keep their types; no count goes below 0 or above 2.     *)
THEOREM TypeCorrect == Spec => []TypeOK
<1>1. IInv => TypeOK
  BY DEF IInv
<1>2. QED
  BY <1>1, Invariant, PTL

(* TlsStream and the two halves hold open descriptors of their connection, *)
(* each once, and no more references than there are, on every path through *)
(* the loop and whatever the plugin opens and closes.                      *)
THEOREM EverythingOwnedOnce == Spec => []OwnedOnce
<1>1. QED
  BY OwnedOnceHolds, Invariant, PTL

(* Nothing but a failed split or a failed handshake leaves anything behind. *)
THEOREM NothingIsForgotten == Spec => []NothingForgotten
<1>1. QED
  BY NothingForgottenHolds, Invariant, PTL

(* The bytes of a connection go through its own socket.                    *)
THEOREM TrafficIsOwn == Spec => []OwnTraffic
<1>1. IInv => OwnTraffic
  BY DEF IInv
<1>2. QED
  BY <1>1, Invariant, PTL
=============================================================================
