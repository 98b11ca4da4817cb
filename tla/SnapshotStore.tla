--------------------------- MODULE SnapshotStore ---------------------------
(***************************************************************************)
(* What the catalog promises: a sequence of snapshots, each complete and   *)
(* immutable, the newest of which is what the next writer and every reader *)
(* start from.  A commit adds the next snapshot in one step, vacuum        *)
(* forgets old ones, and nothing else is visible.                          *)
(***************************************************************************)
EXTENDS Naturals

CONSTANT First           \* the snapshot of an empty catalog, number 0

VARIABLES head,          \* the newest snapshot
          kept           \* snapshots that can still be opened

Init == head = First /\ kept = {}

Commit ==
  /\ head'.version = head.version + 1
  /\ kept' = kept \cup {head'}

Discard ==
  /\ kept' \subseteq kept
  /\ head \in kept => head \in kept'
  /\ UNCHANGED head

Next == Commit \/ Discard

Spec == Init /\ [][Next]_<<head, kept>>
=============================================================================
