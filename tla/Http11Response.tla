--------------------------- MODULE Http11Response ---------------------------
(***************************************************************************)
(* The response of an HTTP/1.1 request: what a plugin's calls of           *)
(* http_add_header, http_remove_header, http_write_status and http_write   *)
(* (http/src/response.rs) put on the connection through                    *)
(* http11_write_status (http/src/http11.rs) and Writer::write (bio.rs).    *)
(*                                                                         *)
(* http11_write_status formats the head into a std BufWriter of its own,   *)
(* which hands it to the connection when it runs full and when it is       *)
(* dropped.  Each write of the connection is a step: it takes a nonempty   *)
(* part of what it is given, or it fails (Ok(0) is a failure to BufWriter  *)
(* and to write_all); a failed write has sent nothing.                     *)
(*                                                                         *)
(* A head is a sequence of cells: the status line, one cell for each       *)
(* header line, and the empty line.  Formatting hands it to the BufWriter in      *)
(* pieces of any number of cells.  A byte of the body is a cell as well.   *)
(***************************************************************************)
EXTENDS Integers, Sequences, FiniteSets

CONSTANTS
  Name,        \* the header names a plugin uses, as it spells them
  Lower,       \* make_ascii_lowercase, a function on Name
  EmptyName,
  Value,       \* header values
  EmptyValue,
  Code,        \* status codes
  OK,          \* the status code 200
  Capacity,    \* of the BufWriter, in cells
  MaxWrite,    \* longest buffer given to http_write
  MaxBody,     \* bound on the body cells that are written
  MaxOps,      \* bound on the calls that change the headers
  MaxFaults    \* bound on the failed writes

ASSUME NamesAssumption ==
  /\ IsFiniteSet(Name)
  /\ EmptyName \in Name
  /\ EmptyValue \in Value
  /\ OK \in Code
  /\ Lower \in [Name -> Name]
  /\ \A n \in Name : Lower[Lower[n]] = Lower[n]
  /\ Lower[EmptyName] = EmptyName

ASSUME BoundsAssumption ==
  /\ Capacity \in Nat \ {0}
  /\ MaxWrite \in Nat /\ MaxBody \in Nat /\ MaxOps \in Nat /\ MaxFaults \in Nat

StatusOnly == -1    \* the plugin has called http_write_status, not http_write

VARIABLES
  headers,  \* ResponseWriter.headers: the values of each name, <<>> if it has no entry
  written,  \* ResponseWriter.written
  pc,       \* where the current call is, "idle" between two calls of the plugin
  len,      \* length of the buffer given to http_write, or StatusOnly
  heads,    \* the head of each http11_write_status so far
  results,  \* the result of each, "busy" until it is known
  pushed,   \* cells of the last head that the BufWriter has taken
  flushed,  \* cells of the last head that the connection has taken
  piece,    \* cells of a piece that the BufWriter has not taken yet
  wire,     \* what is on the connection: cell at of head number of, or of the body (0)
  told,     \* body cells that the plugin was told were written
  torn,     \* a BufWriter lost part of a head whose result was Ok
  calls,    \* the plugin's calls that change the headers, in order
  faults    \* failed writes so far

headerVars == <<headers, calls>>
headVars   == <<heads, results>>
bufVars    == <<pushed, flushed, piece>>

vars == <<headerVars, written, pc, len, headVars, bufVars, wire, told,
          torn, faults>>

TypeOK ==
  /\ headers \in [Name -> Seq(Value)]
  /\ written \in BOOLEAN
  /\ pc \in {"idle", "head", "flush", "direct", "drop", "body"}
  /\ len \in {StatusOnly} \cup 0..MaxWrite
  /\ heads \in Seq([code : Code, lines : Seq(Name \X Value), asked : Nat])
  /\ results \in Seq({"busy", "err", "ok"})
  /\ pushed \in Nat /\ flushed \in Nat /\ piece \in Nat
  /\ wire \in Seq([of : Nat, at : Nat])
  /\ told \in 0..MaxBody
  /\ torn \in BOOLEAN
  /\ calls \in Seq([op : {"add", "remove"}, name : Name, value : Value])
  /\ faults \in 0..MaxFaults

Init ==
  /\ headers = [n \in Name |-> <<>>]
  /\ written = FALSE
  /\ pc = "idle" /\ len = StatusOnly
  /\ heads = <<>> /\ results = <<>>
  /\ pushed = 0 /\ flushed = 0 /\ piece = 0
  /\ wire = <<>>
  /\ told = 0
  /\ torn = FALSE
  /\ calls = <<>>
  /\ faults = 0

Current == Len(heads)

(* Cells of head number a: its status line, header lines and empty line.   *)
Size(a) == Len(heads[a].lines) + 2

-----------------------------------------------------------------------------
Idle == pc = "idle"

ChangeHeaders(op, name, value) ==
  /\ Idle
  /\ Len(calls) < MaxOps
  /\ calls' = Append(calls, [op |-> op, name |-> name, value |-> value])
  /\ UNCHANGED <<written, pc, len, headVars, bufVars, wire, told, torn, faults>>

(* Mutant: a value replaces those the name has.                            *)
AddHeaderOver(name, value) ==
  LET n == Lower[name]
  IN  /\ ChangeHeaders("add", name, value)
      /\ IF name # EmptyName /\ (headers[n] = <<>> \/ value # EmptyValue)
         THEN headers' = [headers EXCEPT ![n] = <<value>>]
         ELSE UNCHANGED headers

(* http_add_header                                                         *)
AddHeader(name, value) ==
  LET n == Lower[name]
  IN  /\ ChangeHeaders("add", name, value)
      /\ IF name # EmptyName /\ (headers[n] = <<>> \/ value # EmptyValue)
         THEN headers' = [headers EXCEPT ![n] = Append(@, value)]
         ELSE UNCHANGED headers

(* http_remove_header: the name is looked up as it is spelled.             *)
RemoveHeader(name) ==
  /\ ChangeHeaders("remove", name, EmptyValue)
  /\ headers' = [headers EXCEPT ![name] = <<>>]

-----------------------------------------------------------------------------
(* The orders in which http11_write_status may list the headers: those of  *)
(* one name in their order, and the names in any order.                    *)
Lines ==
  LET entries == {e \in Name \X (1..MaxOps) : e[2] <= Len(headers[e[1]])}
      After(d, e) == \/ e = <<d[1], d[2] + 1>>
                     \/ e[2] = 1 /\ d[2] = Len(headers[d[1]])
      orders == {s \in [1..Cardinality(entries) -> entries] :
                   /\ \A e \in entries : \E i \in DOMAIN s : s[i] = e
                   /\ \A i \in DOMAIN s : IF i = 1 THEN s[i][2] = 1
                                           ELSE After(s[i - 1], s[i])}
  IN  {[i \in DOMAIN s |-> <<s[i][1], headers[s[i][1]][s[i][2]]>>] : s \in orders}

(* http11_write_status begins: called by the plugin with a code of its     *)
(* own, or by its first http_write with OK.  (http_write_status of a       *)
(* response whose status has been written reports 0 and does nothing.)     *)
BeginHead(code) ==
  /\ Idle
  /\ ~written
  /\ \E lines \in Lines :
       heads' = Append(heads, [code |-> code, lines |-> lines, asked |-> Len(calls)])
  /\ results' = Append(results, "busy")
  /\ pc' = "head"
  /\ UNCHANGED <<headerVars, written, bufVars, wire, told, torn, faults>>

WriteStatus(code) ==
  /\ BeginHead(code)
  /\ len' = StatusOnly

(* http_write: the status is written first unless it has been.             *)
Write(n) ==
  /\ told + n <= MaxBody
  /\ len' = n
  /\ \/ BeginHead(OK)
     \/ /\ Idle
        /\ written
        /\ pc' = "body"
        /\ UNCHANGED <<headerVars, written, headVars, bufVars, wire, told, torn, faults>>

-----------------------------------------------------------------------------
Spare == Capacity - (pushed - flushed)

(* BufWriter::write_all of a piece of k cells that fits.                   *)
Push ==
  /\ pc = "head"
  /\ \E k \in 1..(Size(Current) - pushed) :
       /\ k <= Spare /\ k < Capacity
       /\ pushed' = pushed + k
  /\ UNCHANGED <<headerVars, written, pc, len, headVars, flushed, piece,
                 wire, told, torn, faults>>

(* BufWriter::write_all of a piece that does not fit: the buffer is        *)
(* flushed first, and skipped by a piece as long as itself.                *)
Overflow ==
  /\ pc = "head"
  /\ \E k \in 1..(Size(Current) - pushed) :
       /\ k > Spare \/ k >= Capacity
       /\ piece' = k
       /\ pc' = IF k > Spare THEN "flush" ELSE "direct"
  /\ UNCHANGED <<headerVars, written, len, headVars, pushed, flushed,
                 wire, told, torn, faults>>

(* The connection takes the next n cells of the current head.              *)
Send(n) ==
  /\ wire' = wire \o [i \in 1..n |-> [of |-> Current, at |-> flushed + i]]
  /\ flushed' = flushed + n
  /\ UNCHANGED <<headerVars, written, len, headVars, told, torn, faults>>

(* BufWriter::flush_buf, before an overflowing piece and in drop.          *)
Flush ==
  /\ pc \in {"flush", "drop"}
  /\ \E n \in 1..(pushed - flushed) : Send(n)
  /\ UNCHANGED <<pc, pushed, piece>>

(* BufWriter::write_all after its flush.                                   *)
FlushDone ==
  /\ pc = "flush"
  /\ flushed = pushed
  /\ IF piece >= Capacity
     THEN pc' = "direct" /\ UNCHANGED <<pushed, piece>>
     ELSE pc' = "head" /\ pushed' = pushed + piece /\ piece' = 0
  /\ UNCHANGED <<headerVars, written, len, headVars, flushed, wire,
                 told, torn, faults>>

(* The write_all of a piece that skips the buffer.                         *)
Direct ==
  /\ pc = "direct"
  /\ \E n \in 1..piece :
       /\ Send(n)
       /\ pushed' = pushed + n
       /\ piece' = piece - n
  /\ pc' = IF piece' = 0 THEN "head" ELSE "direct"

Fault ==
  /\ faults < MaxFaults
  /\ faults' = faults + 1

(* http11_write_status returns the error of a write; its BufWriter is      *)
(* dropped with what it still holds.                                       *)
Fail ==
  /\ \/ pc = "flush" /\ flushed < pushed
     \/ pc = "direct"
  /\ Fault
  /\ results' = [results EXCEPT ![Current] = "err"]
  /\ pc' = "drop"
  /\ piece' = 0
  /\ UNCHANGED <<headerVars, written, len, heads, pushed, flushed, wire,
                 told, torn>>

(* All is formatted: http11_write_status sets its result, then drops the   *)
(* BufWriter.                                                              *)
Finish ==
  /\ pc = "head"
  /\ pushed = Size(Current)
  /\ results' = [results EXCEPT ![Current] = "ok"]
  /\ pc' = "drop"
  /\ UNCHANGED <<headerVars, written, len, heads, bufVars, wire, told,
                 torn, faults>>

-----------------------------------------------------------------------------
(* The BufWriter is gone.  http_write_status goes on by the result:        *)
(* written is set, and http_write goes on to the body.                     *)
Return ==
  /\ written' = (results[Current] = "ok")
  /\ pc' = IF results[Current] = "ok" /\ len # StatusOnly THEN "body" ELSE "idle"
  /\ pushed' = 0 /\ flushed' = 0
  /\ UNCHANGED <<headerVars, len, headVars, piece, wire, told>>

(* Mutant: written is not set.                                             *)
DroppedUnset ==
  /\ pc = "drop"
  /\ flushed = pushed
  /\ pc' = IF results[Current] = "ok" /\ len # StatusOnly THEN "body" ELSE "idle"
  /\ pushed' = 0 /\ flushed' = 0
  /\ UNCHANGED <<headerVars, written, len, headVars, piece, wire, told, torn, faults>>

(* Mutant: the BufWriter is dropped without a flush.                       *)
DroppedUnflushed ==
  /\ pc = "drop"
  /\ Return
  /\ UNCHANGED <<torn, faults>>

(* The drop of the BufWriter has flushed it.                               *)
Dropped ==
  /\ pc = "drop"
  /\ flushed = pushed
  /\ Return
  /\ UNCHANGED <<torn, faults>>

(* A write fails in the drop: the rest is lost, and the error ignored.     *)
DropFails ==
  /\ pc = "drop"
  /\ flushed < pushed
  /\ Fault
  /\ torn' = (torn \/ results[Current] = "ok")
  /\ Return

(* Mutant: the plugin is told that everything was written.                 *)
WriteBodyAll ==
  /\ pc = "body"
  /\ \E n \in 0..len :
       wire' = wire \o [i \in 1..n |-> [of |-> 0, at |-> told + i]]
  /\ told' = told + len
  /\ pc' = "idle"
  /\ UNCHANGED <<headerVars, written, len, headVars, bufVars, torn, faults>>

(* http_bio_write: one write, whose count is the plugin's result.          *)
WriteBody ==
  /\ pc = "body"
  /\ \E n \in 0..len :
       /\ wire' = wire \o [i \in 1..n |-> [of |-> 0, at |-> told + i]]
       /\ told' = told + n
  /\ pc' = "idle"
  /\ UNCHANGED <<headerVars, written, len, headVars, bufVars, torn, faults>>

(* http_bio_write of a failed write, which counts nothing.                 *)
WriteBodyFails ==
  /\ pc = "body"
  /\ Fault
  /\ pc' = "idle"
  /\ UNCHANGED <<headerVars, written, len, headVars, bufVars, wire, told, torn>>

Step == Push \/ Overflow \/ Finish \/ Flush \/ FlushDone \/ Direct \/ Dropped \/ WriteBody

Next ==
  \/ \E name \in Name, value \in Value : AddHeader(name, value)
  \/ \E name \in Name : RemoveHeader(name)
  \/ \E code \in Code : WriteStatus(code)
  \/ \E n \in 0..MaxWrite : Write(n)
  \/ Step
  \/ Fail
  \/ DropFails
  \/ WriteBodyFails

Spec == Init /\ [][Next]_vars

-----------------------------------------------------------------------------
(* After cell c of the connection may come cell d: the next of the same    *)
(* head or of the body; the first of a later head, if the plugin was told  *)
(* that this one and those between failed; or the first of the body, if c  *)
(* is the last cell of a head that succeeded.                              *)
Follows(c, d) ==
  \/ d.of = c.of /\ d.at = c.at + 1
  \/ /\ d.of > c.of /\ c.of > 0 /\ d.at = 1
     /\ \A a \in c.of..(d.of - 1) : results[a] = "err"
  \/ /\ d.of = 0 /\ c.of > 0 /\ d.at = 1
     /\ results[c.of] = "ok" /\ c.at = Size(c.of)

(* Whatever fails, is written short or is tried again, the connection      *)
(* carries heads from their first cell on and without a gap, a second head *)
(* only after the plugin was told that the first failed, and then the body *)
(* after a complete head, all of it in order (http_write,                  *)
(* http_write_status, http11_write_status), unless the drop of a BufWriter *)
(* lost part of a head.                                                    *)
WireInOrder ==
  ~torn =>
    /\ wire # <<>> => /\ wire[1].at = 1 /\ wire[1].of > 0
                      /\ \A a \in 1..(wire[1].of - 1) : results[a] = "err"
    /\ \A i \in 1..(Len(wire) - 1) : Follows(wire[i], wire[i + 1])

(* Between two calls the plugin's counts are right: as many body cells are *)
(* on the connection as it was told were written, and all of a head whose  *)
(* result was Ok, unless the drop of its BufWriter failed (http_bio_write, *)
(* http11_write_status).                                                   *)
Sent(a) == {i \in 1..Len(wire) : wire[i].of = a}

Accounted ==
  Idle =>
    /\ Cardinality(Sent(0)) = told
    /\ \A a \in 1..Current :
         results[a] = "ok" /\ ~torn => Cardinality(Sent(a)) = Size(a)

(* Without a failed write every head succeeds, so that there is one at     *)
(* most, and nothing of it is lost: short writes and overflows of the      *)
(* BufWriter are no reason (http11_write_status).                          *)
FaultsOnly ==
  faults = 0 =>
    /\ Current <= 1
    /\ Idle /\ Current = 1 => Len(wire) = Size(1) + told

(* The calls among the first k that gave name n a value it should still    *)
(* have then: those that add one and that no removal followed.  Names are  *)
(* the same in any case, for removals too; an empty value asks only for    *)
(* the name.                                                               *)
Adds(i, n) == calls[i].op = "add" /\ calls[i].name # EmptyName /\ Lower[calls[i].name] = n

Removes(i, n) == calls[i].op = "remove" /\ Lower[calls[i].name] = n

Stands(i, k, n) == Adds(i, n) /\ \A j \in i..k : ~Removes(j, n)

Wanted(k, n) ==
  {i \in 1..k : /\ Stands(i, k, n)
                /\ \/ calls[i].value # EmptyValue
                   \/ \A j \in 1..(i - 1) : ~Stands(j, i, n)}

(* The exception: values of n stood when a removal spelled it in another   *)
(* way than lower case, which http_remove_header looks up in vain, and no  *)
(* removal in lower case has come since.                                   *)
Missed(k, n) ==
  \E j \in 1..k :
    /\ Removes(j, n) /\ calls[j].name # n
    /\ \E i \in 1..(j - 1) : Stands(i, j - 1, n)
    /\ \A l \in j..k : ~(Removes(l, n) /\ calls[l].name = n)

(* The ways to pair places with calls, one for one and in their order.     *)
InOrder(places, asked) ==
  {call \in [places -> asked] :
     /\ \A i \in asked : \E p \in places : call[p] = i
     /\ \A p, q \in places : p < q => call[p] < call[q]}

(* A head carries, for each name, exactly the values the plugin asked for, *)
(* in its order, whatever the spelling of the names: the map that          *)
(* http_add_header and http_remove_header keep loses, reorders and revives *)
(* nothing.  Only after a removal that was Missed a head may carry values  *)
(* that were taken back.                                                   *)
HeadFaithful ==
  \A a \in 1..Current, n \in Name :
    LET lines  == heads[a].lines
        ofName == {p \in 1..Len(lines) : lines[p][1] = n}
    IN  ~Missed(heads[a].asked, n) =>
          \E call \in InOrder(ofName, Wanted(heads[a].asked, n)) :
            \A p \in ofName : lines[p][2] = calls[call[p]].value
=============================================================================
