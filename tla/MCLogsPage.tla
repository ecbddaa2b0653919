----------------------------- MODULE MCLogsPage -----------------------------
(* Two logs, one of them without a mapping, and two workers that are alike. *)
EXTENDS LogsPage, TLC

Alike == Permutations(Workers)
=============================================================================
