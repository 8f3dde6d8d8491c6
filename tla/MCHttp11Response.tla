-------------------------- MODULE MCHttp11Response --------------------------
(***************************************************************************)
(* Names, values and bounds for Http11Response.  Two questions need two    *)
(* ways to bound it: what is on the wire, where only the length of a head  *)
(* matters, so that one name will do; and what is in a head, for which     *)
(* there are two names, one with a second spelling, and more calls.        *)
(***************************************************************************)
EXTENDS Http11Response

Names == {"a", "A", "b", ""}

LowerOf == [n \in Names |-> IF n = "A" THEN "a" ELSE n]

(* A head of two to four cells fits a BufWriter of two cells, overflows    *)
(* it, or skips it, depending on how it is cut into pieces.                *)
OnWire ==
  /\ Len(calls) <= 2
  /\ \A i \in 1..Len(calls) : calls[i].name \in {"a", ""}

InHead == heads = <<>> /\ faults = 0

Bounded == OnWire \/ InHead
=============================================================================
