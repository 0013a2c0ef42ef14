---------------------------- MODULE MCSnapshots ----------------------------
(***************************************************************************)
(* Edits for the runs about snapshots and compaction.                      *)
(***************************************************************************)
EXTENDS MCTimeline, Snapshots

\* A clip is created by both peers and split; it and its piece are edited.
SnapshotEdits ==
    1 :> {InsertTrack(1, 1), InsertClip(1, 1, 0, 8, 1), MoveClip(1, 1, 3)}
    @@ 2 :> {InsertClip(1, 1, 2, 6, 2), SplitClip(1, 5, 2), TrimClip(2, 6, 2)}

\* One peer creates and renames a clip, the other receives.
RenameEdits ==
    1 :> {InsertTrack(1, 1), InsertClip(1, 1, 0, 8, 1), RenameClip(1, 5)}
    @@ 2 :> {}

=============================================================================
