----------------------------- MODULE Http2Start -----------------------------
(***************************************************************************)
(* The start of an HTTP/2 connection: http_http2_start_connection          *)
(* (http/src/http2/mod.rs) reads the client's preface and SETTINGS frame,  *)
(* acknowledges them, sends the server's own settings and makes a context; *)
(* http_frame_read_header then reads frame headers under that context.     *)
(*                                                                         *)
(* The client sends cells: its preface of 24 bytes, frame headers of 9 and *)
(* settings of 6.  It runs freely beside the server, keeps to no rules but *)
(* to send what a header announces, and may close between any two bytes.   *)
(* Every read of the server asks for one cell (read_exact), so it either   *)
(* gets the cell or fails; a write_all may fail with some of it sent.      *)
(*                                                                         *)
(* The numbers of the code that matter are constants: a frame size must be *)
(* in MinFrame..MaxFrame (2^14..2^24-1), a window at most MaxWindow        *)
(* (2^31-1).                                                               *)
(***************************************************************************)
EXTENDS Integers, Sequences, FiniteSets

CONSTANTS
  MinFrame, MaxFrame, MaxWindow,
  DefaultTable, DefaultWindow, \* 4096 and 2^16-1
  Owns,        \* Settings that the server is started with
  Cells,       \* settings a client may send: name and value
  Headers,     \* frame headers that a client may send
  MaxMore,     \* bound on the frame headers that the client sends after its settings
  MaxAhead     \* bound on the cells that are on the way to the server

HeaderTableSize      == 1
EnablePush           == 2
MaxConcurrentStreams == 3
InitialWindowSize    == 4
MaxFrameSize         == 5
MaxHeaderListSize    == 6
SettingNames         == 1..6
Optional             == {MaxConcurrentStreams, MaxHeaderListSize}

(* Settings: a value for each name, <<>> for an optional one that does not *)
(* exist.                                                                  *)
IsSettings(s) ==
  /\ s \in [SettingNames -> Seq(Nat)]
  /\ \A n \in SettingNames : Len(s[n]) <= 1 /\ (n \notin Optional => s[n] # <<>>)

ASSUME StartAssumption ==
  /\ {MinFrame, MaxFrame, MaxWindow, DefaultTable, DefaultWindow, MaxMore, MaxAhead} \subseteq Nat
  /\ MaxAhead > 0
  /\ MinFrame <= MaxFrame
  /\ DefaultWindow <= MaxWindow
  /\ \A s \in Owns : IsSettings(s)
  /\ \A c \in Cells : c.kind = "setting" /\ c.name \in Nat /\ c.value \in Nat
  /\ \A h \in Headers : /\ h.kind = "header" /\ h.settings \in BOOLEAN /\ h.ack \in BOOLEAN
                        /\ h.len \in Nat /\ h.stream \in Nat

VARIABLES
  own,         \* the server's settings
  sent,        \* the cells that the client has sent
  due,         \* settings that the client's last header announced and are not sent yet
  closed,      \* the client has closed, or the connection has failed
  at,          \* cells that the server has consumed
  pc,          \* what http_http2_start_connection does next
  left,        \* bytes of the SETTINGS frame that read_frame has not read yet
  settings,    \* what read_frame builds
  wire,        \* the cells that the server has sent
  contexts,    \* contexts that were made
  ctx,         \* the context that the caller got, if any
  next         \* what http_frame_read_header answered last

client == <<sent, due, closed>>
vars   == <<own, client, at, pc, left, settings, wire, contexts, ctx, next>>

Default == [n \in SettingNames |->
              CASE n = HeaderTableSize   -> <<DefaultTable>>
                [] n = EnablePush        -> <<1>>
                [] n = InitialWindowSize -> <<DefaultWindow>>
                [] n = MaxFrameSize      -> <<MinFrame>>
                [] OTHER                 -> <<>>]

Value(s, n) == IF s[n] = <<>> THEN 0 ELSE s[n][1]

Init ==
  /\ own \in Owns
  /\ sent = <<>> /\ due = 0 /\ closed = FALSE
  /\ at = 0 /\ pc = "preface" /\ left = 0 /\ settings = Default
  /\ wire = <<>> /\ contexts = 0 /\ ctx = <<>> /\ next = <<>>

-----------------------------------------------------------------------------
(* The client.                                                             *)

Put(cell) ==
  /\ ~closed /\ Len(sent) < at + MaxAhead
  /\ sent' = Append(sent, cell)
  /\ UNCHANGED <<closed, own, at, pc, left, settings, wire, contexts, ctx, next>>

SendPreface ==
  /\ sent = <<>>
  /\ \E good \in BOOLEAN : Put([kind |-> "preface", good |-> good])
  /\ UNCHANGED due

SettingsDue(h) == IF h.settings THEN h.len \div 6 ELSE 0

(* The frame of the start, or one behind it; the payload of a frame that   *)
(* is not SETTINGS is left out, since nothing reads it here.               *)
SendHeader ==
  /\ sent # <<>> /\ due = 0
  /\ Cardinality({i \in 1..Len(sent) : sent[i].kind = "header"}) <= MaxMore
  /\ \E h \in Headers : Put(h) /\ due' = SettingsDue(h)

SendSetting ==
  /\ due > 0
  /\ \E c \in Cells : Put(c)
  /\ due' = due - 1

Close ==
  /\ ~closed
  /\ closed' = TRUE
  /\ UNCHANGED <<own, sent, due, at, pc, left, settings, wire, contexts, ctx, next>>

-----------------------------------------------------------------------------
(* The server.  A read takes the next cell, and waits while there is none; *)
(* once the client has closed or the connection has failed it may fail.    *)
Take == at < Len(sent) /\ at' = at + 1

Refuse == pc' = "refused"

ReadFails ==
  /\ \/ pc \in {"preface", "header"}
     \/ pc = "settings" /\ left > 0
  /\ closed
  /\ pc' = "broken"
  /\ UNCHANGED <<own, client, at, left, settings, wire, contexts, ctx, next>>

ReadPreface ==
  /\ pc = "preface" /\ Take
  /\ IF sent[at + 1] = [kind |-> "preface", good |-> TRUE] THEN pc' = "header" ELSE Refuse
  /\ UNCHANGED <<own, client, left, settings, wire, contexts, ctx, next>>

(* Mutant: a frame of exactly the limit is refused.                        *)
TooLargeAtLimit(h, limits) == h.len >= Value(limits, MaxFrameSize)

(* frame::read_header, with the given limit.                               *)
TooLarge(h, limits) == h.len > Value(limits, MaxFrameSize)

(* The checks of settings::read_frame before it reads any setting, and     *)
(* what http_http2_start_connection asks for.                              *)
Acceptable(h) ==
  /\ h.settings /\ h.stream = 0
  /\ ~h.ack
  /\ h.len % 6 = 0

ReadHeader ==
  /\ pc = "header" /\ Take
  /\ LET h == sent[at + 1] IN
       IF ~TooLarge(h, own) /\ Acceptable(h)
         THEN left' = h.len /\ pc' = "settings"
         ELSE Refuse /\ UNCHANGED left
  /\ UNCHANGED <<own, client, settings, wire, contexts, ctx, next>>

(* SettingName::try_from and set_value.                                    *)
Updated(s, c) ==
  IF c.kind = "setting" /\ c.name \in SettingNames THEN [s EXCEPT ![c.name] = <<c.value>>] ELSE s

(* Mutant: an unknown setting goes on without being counted as read.       *)
ReadSettingUncounted ==
  /\ pc = "settings" /\ left > 0 /\ Take
  /\ settings' = Updated(settings, sent[at + 1])
  /\ left' = IF settings' = settings THEN left ELSE left - 6
  /\ UNCHANGED <<own, client, pc, wire, contexts, ctx, next>>

ReadSetting ==
  /\ pc = "settings" /\ left > 0 /\ Take
  /\ settings' = Updated(settings, sent[at + 1])
  /\ left' = left - 6
  /\ UNCHANGED <<own, client, pc, wire, contexts, ctx, next>>

Valid(s) ==
  /\ Value(s, EnablePush) \in {0, 1}
  /\ Value(s, InitialWindowSize) <= MaxWindow
  /\ Value(s, MaxFrameSize) \in MinFrame..MaxFrame

CheckSettings ==
  /\ pc = "settings" /\ left = 0
  /\ IF Valid(settings) THEN pc' = "ack" ELSE Refuse
  /\ UNCHANGED <<own, client, at, left, settings, wire, contexts, ctx, next>>

Ack          == [kind |-> "header", settings |-> TRUE, ack |-> TRUE, len |-> 0, stream |-> 0]
FrameOf(len) == [kind |-> "header", settings |-> TRUE, ack |-> FALSE, len |-> len, stream |-> 0]

(* Mutant: only values are compared, so that an optional setting of zero   *)
(* is not sent.                                                            *)
PartByValue(s, n) ==
  IF Value(s, n) = Value(Default, n) THEN <<>>
  ELSE <<[kind |-> "setting", name |-> n, value |-> Value(s, n)]>>

(* The settings that settings::write_frame sends, in the order of          *)
(* SettingName::ALL.                                                       *)
Part(s, n) ==
  IF s[n] = Default[n] THEN <<>>
  ELSE <<[kind |-> "setting", name |-> n, value |-> Value(s, n)]>>

Payload(s) == Part(s, 1) \o Part(s, 2) \o Part(s, 3) \o Part(s, 4) \o Part(s, 5) \o Part(s, 6)

WriteAck ==
  /\ pc = "ack"
  /\ wire' = Append(wire, Ack) /\ pc' = "size"
  /\ UNCHANGED <<own, client, at, left, settings, contexts, ctx, next>>

WriteSize ==
  /\ pc = "size"
  /\ wire' = Append(wire, FrameOf(6 * Len(Payload(own)))) /\ pc' = "values"
  /\ UNCHANGED <<own, client, at, left, settings, contexts, ctx, next>>

(* The rest of the frame, and with it the end of the start.                *)
WriteSettings ==
  /\ pc = "values"
  /\ wire' = wire \o Payload(own)
  /\ pc' = "started"
  /\ contexts' = contexts + 1
  /\ ctx' = <<[settings |-> settings, table |-> Value(own, HeaderTableSize)]>>
  /\ UNCHANGED <<own, client, at, left, settings, next>>

(* A write_all that fails with some of its cells sent.                     *)
WriteFails ==
  /\ \/ pc \in {"ack", "size"} /\ UNCHANGED wire
     \/ pc = "values" /\ \E k \in 0..(Len(Payload(own)) - 1) :
                           wire' = wire \o SubSeq(Payload(own), 1, k)
  /\ pc' = "broken"
  /\ UNCHANGED <<own, client, at, left, settings, contexts, ctx, next>>

(* http_frame_read_header, by the owner of the context.                    *)
ReadNext ==
  /\ pc = "started" /\ next = <<>> /\ Take
  /\ next' = <<[header |-> sent[at + 1], ok |-> ~TooLarge(sent[at + 1], ctx[1].settings)]>>
  /\ UNCHANGED <<own, client, pc, left, settings, wire, contexts, ctx>>

Client == SendPreface \/ SendHeader \/ SendSetting \/ Close
Reads  == ReadPreface \/ ReadHeader \/ ReadSetting \/ ReadFails \/ ReadNext
Writes == WriteAck \/ WriteSize \/ WriteSettings \/ WriteFails
Server == Reads \/ CheckSettings \/ Writes

Next == Client \/ Server

Spec == Init /\ [][Next]_vars

-----------------------------------------------------------------------------
(* What the properties are about.                                          *)

(* Either side sends a cell, a frame header and the settings that the      *)
(* header announces, up to this cell.                                      *)
FrameEnd(cells) == 2 + cells[2].len \div 6
Complete(cells) == Len(cells) >= 2 /\ Len(cells) >= FrameEnd(cells)

(* How a peer understands the settings up to a cell: the last value that   *)
(* came for a name.                                                        *)
Naming(cells, end, n) == {i \in 3..end : cells[i].name = n}
Told(cells, end) ==
  [n \in SettingNames |->
     IF Naming(cells, end, n) = {} THEN Default[n]
     ELSE <<cells[CHOOSE i \in Naming(cells, end, n) :
                    \A j \in Naming(cells, end, n) : j <= i].value>>]

ToldByClient == Told(sent, FrameEnd(sent))
ToldByServer == Told(wire, FrameEnd(wire))

(* The client broke a rule in what it has sent of its preface and frame.   *)
Broke ==
  \/ sent # <<>> /\ ~sent[1].good
  \/ Len(sent) >= 2 /\ (sent[2].len > Value(own, MaxFrameSize) \/ ~Acceptable(sent[2]))
  \/ Complete(sent) /\ ~Valid(ToldByClient)

Sendable == [kind : {"preface"}, good : BOOLEAN] \cup Headers \cup Cells
Written  == [kind : {"header"}, settings : {TRUE}, ack : BOOLEAN, len : Nat, stream : {0}]
              \cup [kind : {"setting"}, name : SettingNames, value : Nat]

(* The types, and that a context only ever has settings in their ranges.   *)
TypeOK ==
  /\ own \in Owns
  /\ sent \in Seq(Sendable)
  /\ due \in Nat /\ closed \in BOOLEAN
  /\ at \in 0..Len(sent)
  /\ pc \in {"preface", "header", "settings", "ack", "size", "values", "started",
             "refused", "broken"}
  /\ left \in Nat
  /\ IsSettings(settings)
  /\ wire \in Seq(Written)
  /\ contexts \in Nat
  /\ Len(ctx) <= 1
  /\ ctx # <<>> => IsSettings(ctx[1].settings) /\ Valid(ctx[1].settings) /\ ctx[1].table \in Nat
  /\ next \in Seq([header : Headers, ok : BOOLEAN]) /\ Len(next) <= 1

(* When the start succeeds the two sides agree: the context has the        *)
(* client's settings as the client meant them, the client is told the      *)
(* server's, the table for the client's headers has the size it was told,  *)
(* and the one context made is the caller's.                               *)
Agreed ==
  /\ contexts = Len(ctx)
  /\ pc = "started" <=> ctx # <<>>
  /\ ctx # <<>> =>
       /\ ctx[1].settings = ToldByClient
       /\ Complete(wire) /\ ToldByServer = own
       /\ ctx[1].table = Value(ToldByServer, HeaderTableSize)

(* The start consumes the preface and the SETTINGS frame, and no byte of   *)
(* what the client sends behind them.                                      *)
NoOverread ==
  /\ at > 2 => at <= FrameEnd(sent) + Len(next)
  /\ pc = "started" => at = FrameEnd(sent) + Len(next)

(* The start is refused only to a client that broke a rule, and goes on to *)
(* answer only one that did not: nothing is written before all of the      *)
(* client's settings have come and are checked.                            *)
Judged ==
  /\ pc = "refused" => Broke
  /\ wire # <<>> => ~Broke /\ Complete(sent) /\ wire[1] = Ack

(* Headers are read under the limit that the client announced in the start.*)
LimitOfClient ==
  next # <<>> => (next[1].ok <=> next[1].header.len <= Value(ToldByClient, MaxFrameSize))

(* The server runs on while it can, and a client finishes the frame it has *)
(* begun, or closes.                                                       *)
Owed     == sent = <<>> \/ Len(sent) = 1 \/ due > 0
Fairness == WF_vars(Server) /\ WF_vars(Owed /\ Client)
FairSpec == Spec /\ Fairness

Over == {"started", "refused", "broken"}

(* Every start comes to an end, with a context or an error.                *)
EventuallyOver == <>(pc \in Over)
=============================================================================
