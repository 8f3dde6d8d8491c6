----------------------------- MODULE HeaderList -----------------------------
(***************************************************************************)
(* What the dynamic table of HPACK promises: a list of headers, the newest *)
(* first, that keeps as many of the newest as fit into its size, behind a  *)
(* table of headers that never change.                                     *)
(***************************************************************************)
EXTENDS Integers, Sequences, SequencesExt, FiniteSetsExt

CONSTANTS
  Names,   \* header names, sequences of bytes
  Values,  \* header values
  Static,  \* the headers of the static table
  Sizes    \* sizes that a table is given

VARIABLES
  list,       \* the headers, the newest first
  max,        \* the size of the table
  permitted,  \* the largest size that it may be resized to
  answer      \* the index that was last looked up, and what it found

vars == <<list, max, permitted, answer>>

Header == [name : Names, value : Values]

None == <<>>

SizeOf(h) == Len(h.name) + Len(h.value) + 32

(* The newest headers of a list that fit.                                  *)
Fitting(l, size) ==
  LET total[k \in 0..Len(l)] == IF k = 0 THEN 0 ELSE total[k - 1] + SizeOf(l[k])
      fits == {k \in 0..Len(l) : total[k] <= size}
  IN  SubSeq(l, 1, Max(fits))

Entry(index) ==
  LET all == Static \o list
  IN  IF index \in DOMAIN all THEN <<all[index]>> ELSE None

Init ==
  /\ list = <<>>
  /\ permitted \in Sizes
  /\ max = permitted
  /\ answer = <<0, None>>

Insert(h) ==
  /\ list' = Fitting(<<h>> \o list, max)
  /\ UNCHANGED <<max, permitted, answer>>

Resize(size) ==
  /\ size <= permitted
  /\ max' = size
  /\ list' = Fitting(list, size)
  /\ UNCHANGED <<permitted, answer>>

Permit(size) ==
  /\ list = <<>>
  /\ max' = size
  /\ permitted' = size
  /\ UNCHANGED <<list, answer>>

LookUp(index) ==
  /\ answer' = <<index, Entry(index)>>
  /\ UNCHANGED <<list, max, permitted>>

Next ==
  \/ \E h \in Header : Insert(h)
  \/ \E size \in Sizes : Resize(size) \/ Permit(size)
  \/ \E index \in 0..(Len(Static) + Len(list) + 1) : LookUp(index)

Spec == Init /\ [][Next]_vars
=============================================================================
