----------------------------- MODULE MCLiterals -----------------------------
(* Digits in base 4 and sums below 2 * 4^2: as with base 128 and 2 * 128^9, *)
(* the last place before the limit has room for one bit of its digit.      *)
EXTENDS Literals

(* A code in which a byte is itself, if the string does not begin with the *)
(* byte that would be the end of a string, nor end in an incomplete one.   *)
EndMark == "e"
Half    == "h"
Whole   == "w"

Bytes == {EndMark, Half, Whole}

SomeCode(s) ==
  IF s # <<>> /\ s[1] = EndMark THEN [result |-> "FoundEOS", out |-> <<>>]
  ELSE IF s # <<>> /\ s[Len(s)] = Half
  THEN [result |-> "IncompleteData", out |-> SubSeq(s, 1, Len(s) - 1)]
  ELSE [result |-> "Ok", out |-> s \o s]

OldContents == <<Whole>>
=============================================================================
