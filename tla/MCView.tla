------------------------------- MODULE MCView -------------------------------
(***************************************************************************)
(* Edits for the runs about the resolved view.                             *)
(***************************************************************************)
EXTENDS MCTimeline, TimelineView

\* A clip split twice, one of its pieces split again and renamed, and the clip
\* trimmed across both split points.
PieceEdits ==
    1 :> {InsertClip(1, 1, 0, 8, 1), SplitClip(1, 5, 2), TrimClip(1, 2, 4),
          RenameClip(1, 5)}
    @@ 2 :> {SplitClip(1, 3, 3), SplitClip(2, 2, 4), RenameClip(2, 6)}

\* One peer cuts a piece off a piece and renames it.
NestedRenameEdits ==
    1 :> {InsertClip(1, 1, 0, 8, 1), SplitClip(1, 5, 2), SplitClip(2, 2, 3),
          RenameClip(3, 7)}
    @@ 2 :> {}

\* One peer moves a piece.
MovePieceEdits ==
    1 :> {InsertTrack(1, 1), InsertClip(1, 1, 0, 8, 1), SplitClip(1, 5, 2),
          MoveClip(2, 1, 1)}
    @@ 2 :> {}

=============================================================================
