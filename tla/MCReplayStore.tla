---------------------------- MODULE MCReplayStore ----------------------------
(***************************************************************************)
(* A small instance of ReplayStore.  An id and a nonce may be the same     *)
(* string, so that the prefixes of the two kinds of key matter.            *)
(***************************************************************************)
EXTENDS ReplayStore

CONSTANTS c1, c2, c3, x, y

MCCallers == {c1, c2, c3}
MCNames == {x, y}
MCUntils == 1..2
MCSeconds == 0..2
=============================================================================
