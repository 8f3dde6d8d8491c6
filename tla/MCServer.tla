------------------------------ MODULE MCServer ------------------------------
(***************************************************************************)
(* Three connections, one after the other, on a process that may open      *)
(* three descriptors, of which the plugin may take two, and that has       *)
(* memory for two SSL objects.                                             *)
(***************************************************************************)
EXTENDS Server

CONSTANTS c1, c2, c3, s1, s2, f1, f2, f3

MCConns == {c1, c2, c3}
MCSsl == {s1, s2}
MCFd == {f1, f2, f3}
=============================================================================
