------------------------------- MODULE Buffer -------------------------------
(***************************************************************************)
(* The Buffer of http/src/buffer.rs with an allocator: a block of memory,  *)
(* of which the first len bytes mean something.  It is filled by slices    *)
(* and iterators, and by readers that reserve room, set len and then read  *)
(* into the room, as those of DATA, HEADERS, GOAWAY (from the start) and   *)
(* CONTINUATION frames (behind what is there) do.                          *)
(*                                                                         *)
(* An operation is taken apart into the steps of its reallocation, since   *)
(* the block is not what len and cap say in between.                       *)
(***************************************************************************)
EXTENDS Integers, Sequences, FiniteSets

CONSTANTS
  Byte,     \* the values of a byte
  Block,    \* where the allocator can put a block
  Null,     \* the null pointer
  Sizes,    \* capacities that a new buffer is given
  MaxLen    \* the bound on the length that callers ask for

ASSUME BufferAssumption ==
  /\ Null \notin Block
  /\ Sizes \subseteq Nat
  /\ MaxLen \in Nat

VARIABLES
  len, cap, buf,  \* the fields of the buffer
  heap,           \* the blocks in use: their sizes, and what was written to them
  pc,             \* the step that comes next
  want,           \* reserve_len: the length to make room for
  newcap,         \*   and the variables new_cap
  newbuf,         \*   and new_buf
  kind,           \* what takes place once there is room
  rest,           \* the bytes to come
  at,             \* and how many bytes precede them
  failed,         \* whether a failed read left bytes in the buffer undefined
  expected        \* the bytes that the calls should have put into the buffer

fields  == <<len, cap, buf>>
growing == <<want, newcap, newbuf>>
call    == <<kind, rest, at, expected>>
vars    == <<fields, heap, pc, growing, call, failed>>

Steps == {"idle", "grow", "copy", "free", "put", "extend", "fill"}

(* Memory: a byte that was not written since the block was allocated is    *)
(* not in the domain of its cells.                                         *)
Fresh(size) == [size |-> size, cells |-> [i \in {} |-> 0]]

Write(b, from, bytes) ==
  [heap EXCEPT ![b].cells =
     [i \in DOMAIN @ \cup (from + 1)..(from + Len(bytes)) |->
        IF i \in (from + 1)..(from + Len(bytes)) THEN bytes[i - from] ELSE @[i]]]

Without(b) == [c \in DOMAIN heap \ {b} |-> heap[c]]

Init ==
  /\ len = 0
  /\ cap \in Sizes
  /\ IF cap > 0 THEN buf \in Block ELSE buf = Null
  /\ heap = [b \in {buf} \ {Null} |-> Fresh(cap)]
  /\ pc = "idle"
  /\ want = 0 /\ newcap = 0 /\ newbuf = Null
  /\ kind = "slice" /\ rest = <<>> /\ at = 0
  /\ failed = FALSE
  /\ expected = <<>>

-----------------------------------------------------------------------------
(* A call that puts bytes behind the first n.  Nothing that a failed read  *)
(* left remains if there are none in front.                                *)
Begin(what, n, bytes) ==
  /\ pc = "idle"
  /\ n + Len(bytes) <= MaxLen
  /\ kind' = what
  /\ rest' = bytes
  /\ at' = n
  /\ expected' = SubSeq(expected, 1, n) \o bytes
  /\ failed' = (failed /\ n > 0)

Reserve(n) ==
  /\ want' = n
  /\ newcap' = cap
  /\ pc' = "grow"
  /\ UNCHANGED newbuf

(* Mutant: the bytes that are there are not counted.                       *)
PushSliceTight(bytes) ==
  /\ bytes # <<>>
  /\ Begin("slice", len, bytes)
  /\ Reserve(Len(bytes))
  /\ UNCHANGED <<fields, heap>>

PushSlice(bytes) ==
  /\ bytes # <<>>
  /\ Begin("slice", len, bytes)
  /\ Reserve(len + Len(bytes))
  /\ UNCHANGED <<fields, heap>>

CopySlice(bytes) ==
  /\ Begin("slice", 0, bytes)
  /\ len' = 0
  /\ IF bytes = <<>> THEN pc' = "idle" /\ UNCHANGED growing ELSE Reserve(Len(bytes))
  /\ UNCHANGED <<cap, buf, heap>>

Extend(bytes) ==
  /\ bytes # <<>>
  /\ Begin("extend", len, bytes)
  /\ pc' = "extend"
  /\ UNCHANGED <<fields, heap, growing>>

(* A reader of a frame asks for bytes at the start, or behind the others.  *)
ReadInto(n, bytes) ==
  /\ n \in {0, len}
  /\ Begin("read", n, bytes)
  /\ Reserve(n + Len(bytes))
  /\ UNCHANGED <<fields, heap>>

ReserveLen(n) ==
  /\ n <= MaxLen
  /\ Begin("slice", len, <<>>)
  /\ Reserve(n)
  /\ UNCHANGED <<fields, heap>>

Clear == CopySlice(<<>>)

ClearBuffer ==
  /\ Begin("slice", 0, <<>>)
  /\ heap' = Without(buf)
  /\ len' = 0 /\ cap' = 0 /\ buf' = Null
  /\ UNCHANGED <<pc, growing>>

-----------------------------------------------------------------------------
(* reserve_len; its variables are gone when it returns.                    *)
Over ==
  /\ want' = 0
  /\ newcap' = 0
  /\ newbuf' = Null

(* Mutant: an empty buffer cannot grow.                                    *)
DoubleOnly ==
  /\ pc = "grow"
  /\ newcap < want
  /\ newcap' = newcap + newcap
  /\ UNCHANGED <<fields, heap, pc, want, newbuf, call, failed>>

Double ==
  /\ pc = "grow"
  /\ newcap < want
  /\ newcap' = newcap + (IF newcap > 1 THEN newcap ELSE 1)
  /\ UNCHANGED <<fields, heap, pc, want, newbuf, call, failed>>

Enough ==
  /\ pc = "grow"
  /\ newcap >= want
  /\ newcap = cap
  /\ pc' = "put"
  /\ Over
  /\ UNCHANGED <<fields, heap, call, failed>>

Alloc ==
  /\ pc = "grow"
  /\ newcap >= want
  /\ newcap # cap
  /\ \E b \in Block \ DOMAIN heap :
       /\ newbuf' = b
       /\ heap' = [c \in DOMAIN heap \cup {b} |-> IF c = b THEN Fresh(newcap) ELSE heap[c]]
  /\ pc' = "copy"
  /\ UNCHANGED <<fields, want, newcap, call, failed>>

(* Mutant: one byte is not copied.                                         *)
CopyLess ==
  /\ pc = "copy"
  /\ heap' = IF len = 0 THEN heap
             ELSE [heap EXCEPT ![newbuf].cells =
                     [i \in DOMAIN heap[buf].cells \cap 1..(len - 1) |-> heap[buf].cells[i]]]
  /\ pc' = "free"
  /\ UNCHANGED <<fields, growing, call, failed>>

(* The undefined bytes among the first len are copied as such.             *)
Copy ==
  /\ pc = "copy"
  /\ heap' = IF len = 0 THEN heap
             ELSE [heap EXCEPT ![newbuf].cells =
                     [i \in DOMAIN heap[buf].cells \cap 1..len |-> heap[buf].cells[i]]]
  /\ pc' = "free"
  /\ UNCHANGED <<fields, growing, call, failed>>

(* Mutant: the old block is not freed.                                     *)
FreeNot ==
  /\ pc = "free"
  /\ buf' = newbuf
  /\ cap' = newcap
  /\ pc' = "put"
  /\ Over
  /\ UNCHANGED <<len, heap, call, failed>>

Free ==
  /\ pc = "free"
  /\ heap' = Without(buf)
  /\ buf' = newbuf
  /\ cap' = newcap
  /\ pc' = "put"
  /\ Over
  /\ UNCHANGED <<len, call, failed>>

-----------------------------------------------------------------------------
(* What was to be done with the room. *)
PutSlice ==
  /\ pc = "put"
  /\ kind = "slice"
  /\ heap' = IF rest = <<>> THEN heap ELSE Write(buf, len, rest)
  /\ len' = len + Len(rest)
  /\ rest' = <<>>
  /\ at' = at + Len(rest)
  /\ pc' = "idle"
  /\ UNCHANGED <<cap, buf, growing, kind, failed, expected>>

(* The iterator of extend knows a lower bound of what it has left, which   *)
(* for a push of a byte is nothing.                                        *)
ExtendFull ==
  /\ pc = "extend"
  /\ len = cap
  /\ \E lower \in 0..(Len(rest) - 1) : Reserve(len + lower + 1)
  /\ UNCHANGED <<fields, heap, call, failed>>

Push ==
  /\ \/ pc = "extend" /\ len # cap
     \/ pc = "put" /\ kind = "extend"
  /\ heap' = Write(buf, len, <<rest[1]>>)
  /\ len' = len + 1
  /\ rest' = Tail(rest)
  /\ at' = at + 1
  /\ pc' = IF Len(rest) = 1 THEN "idle" ELSE "extend"
  /\ UNCHANGED <<cap, buf, growing, kind, failed, expected>>

SetLen ==
  /\ pc = "put"
  /\ kind = "read"
  /\ len' = at + Len(rest)
  /\ pc' = "fill"
  /\ UNCHANGED <<cap, buf, heap, growing, call, failed>>

(* read_exact; if it fails, some of the bytes may have been read.          *)
Fill ==
  /\ pc = "fill"
  /\ \E n \in 0..Len(rest) :
       /\ heap' = IF n = 0 THEN heap ELSE Write(buf, at, SubSeq(rest, 1, n))
       /\ failed' = (failed \/ n # Len(rest))
  /\ rest' = <<>>
  /\ at' = len
  /\ pc' = "idle"
  /\ UNCHANGED <<fields, growing, kind, expected>>

Step ==
  \/ Double \/ Enough \/ Alloc \/ Copy \/ Free
  \/ PutSlice \/ ExtendFull \/ Push \/ SetLen \/ Fill

Bytes == UNION {[1..n -> Byte] : n \in 0..MaxLen}

Next ==
  \/ Step
  \/ \E bytes \in Bytes :
       \/ PushSlice(bytes)
       \/ CopySlice(bytes)
       \/ Extend(bytes)
       \/ \E n \in 0..MaxLen : ReadInto(n, bytes)
  \/ \E n \in 0..MaxLen : ReserveLen(n)
  \/ Clear
  \/ ClearBuffer

Spec == Init /\ [][Next]_vars

(* The steps of a call follow each other; a reader gives bytes or an error. *)
FairSpec == Spec /\ WF_vars(Step)

-----------------------------------------------------------------------------
(* Every variable has its type, and buf is null just if the capacity is 0  *)
(* and, between two calls, len is within it (is_sane).                     *)
TypeOK ==
  /\ len \in Nat
  /\ cap \in Nat
  /\ buf \in Block \cup {Null}
  /\ DOMAIN heap \subseteq Block
  /\ pc \in Steps
  /\ want \in Nat
  /\ newcap \in Nat
  /\ newbuf \in Block \cup {Null}
  /\ kind \in {"slice", "extend", "read"}
  /\ rest \in Seq(Byte)
  /\ at \in Nat
  /\ failed \in BOOLEAN
  /\ expected \in Seq(Byte)
  /\ cap = 0 <=> buf = Null
  /\ len <= cap

(* The blocks in use are the one of the buffer, with the size cap that     *)
(* will be given to free, and during a reallocation the new one: nothing   *)
(* leaks, and nothing is freed twice or with another size (reserve_len,    *)
(* http_clear_buffer).                                                     *)
Owned ==
  /\ DOMAIN heap = {buf, newbuf} \ {Null}
  /\ buf # Null => heap[buf].size = cap
  /\ newbuf # Null => newbuf # buf /\ heap[newbuf].size = newcap

(* No byte is written behind the end of a block, by any of the unchecked   *)
(* writes of buffer.rs or a read into a buffer.                            *)
InBounds == \A b \in DOMAIN heap : DOMAIN heap[b].cells \subseteq 1..heap[b].size

(* Between two calls the buffer holds what the calls gave it, however      *)
(* often it was reallocated and shortened in between, unless a read has    *)
(* failed.  In particular, none of its bytes is undefined.                 *)
KeepsBytes ==
  pc = "idle" /\ ~failed =>
    /\ len = Len(expected)
    /\ \A i \in 1..len : i \in DOMAIN heap[buf].cells /\ heap[buf].cells[i] = expected[i]

(* A buffer at least doubles when it grows, so that its bytes are copied   *)
(* seldom, and to less than twice of what was asked for; only              *)
(* http_clear_buffer makes it smaller.                                     *)
GrowthBounded ==
  [][cap' # cap => \/ cap' >= 2 * cap /\ cap' >= want /\ cap' < 2 * want
                   \/ cap' = 0 /\ len' = 0]_vars

(* Every call returns: the loop of reserve_len and that of extend end.     *)
EventuallyIdle == (pc # "idle") ~> (pc = "idle")
=============================================================================
