--------------------------- MODULE MCSyncSocket ---------------------------
(***************************************************************************)
(* Two sockets, used again and again.                                    *)
(***************************************************************************)
EXTENDS SyncSocket

CONSTANTS m1, m2

SocketsDef == {m1, m2}
KindsDef == {"sync_progress", "sync_complete"}
=============================================================================
