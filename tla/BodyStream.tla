----------------------------- MODULE BodyStream -----------------------------
(***************************************************************************)
(* What a plugin is promised when it reads a request body with             *)
(* http_read_body: the payload bytes the peer sent arrive without a gap,   *)
(* and the end of the body is reported only once all of them have been     *)
(* handed over.  How the body is framed on the wire is invisible here.     *)
(*                                                                         *)
(* The promise is void from the moment the framing is broken: the request  *)
(* was refused, the transport failed in the middle of a frame header, or   *)
(* the plugin kept reading after the end was reported.                     *)
(***************************************************************************)
EXTENDS Integers

VARIABLES
  size,   \* payload bytes that reach this end of the connection
  taken,  \* how many of them the plugin has been given
  phase   \* "open", then "ended" or "void"

vars == <<size, taken, phase>>

TypeOK ==
  /\ size \in Nat
  /\ taken \in 0..size
  /\ phase \in {"open", "ended", "void"}

Init ==
  /\ size \in Nat
  /\ taken = 0
  /\ phase = "open"

(* A read hands over the next bytes of the payload. *)
Deliver ==
  /\ phase = "open"
  /\ \E n \in 1..(size - taken) : taken' = taken + n
  /\ UNCHANGED <<size, phase>>

(* A read reports the end. *)
Finish ==
  /\ phase = "open"
  /\ taken = size
  /\ phase' = "ended"
  /\ UNCHANGED <<size, taken>>

Void ==
  /\ phase # "void"
  /\ phase' = "void"
  /\ taken' = 0
  /\ UNCHANGED size

Next == Deliver \/ Finish \/ Void

Spec == Init /\ [][Next]_vars
=============================================================================
