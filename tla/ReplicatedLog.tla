--------------------------- MODULE ReplicatedLog ---------------------------
(***************************************************************************)
(* What the sync events promise (sync/README.md): one device writes a      *)
(* session's log, and whoever syncs the session replays the same events,   *)
(* in their order, each of them once.                                      *)
(***************************************************************************)
EXTENDS Naturals, Sequences

VARIABLES
  log,     \* the number of events that were written; they count from 0
  rows     \* the events that were replayed

Init == log = 0 /\ rows = <<>>

Write == log' = log + 1 /\ UNCHANGED rows

Replay == /\ Len(rows) < log
          /\ rows' = Append(rows, Len(rows))
          /\ UNCHANGED log

ReplicatedSpec == Init /\ [][Write \/ Replay]_<<log, rows>>
============================================================================
