------------------------------ MODULE MCBuffer ------------------------------
(* A buffer and the new one of its reallocation use two blocks at most.    *)
EXTENDS Buffer

CONSTANTS b1, b2

Blocks == {b1, b2}
=============================================================================
