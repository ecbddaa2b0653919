------------------------ MODULE MCConnectionHealth ------------------------
(***************************************************************************)
(* Two connections, a check of Beat and one asked for, and one request.    *)
(***************************************************************************)
EXTENDS ConnectionHealth

CONSTANTS c1, c2, beat, get, r1

ConnsDef == {c1, c2}
ChecksDef == {beat, get}
ApiRequestsDef == {r1}
=============================================================================
