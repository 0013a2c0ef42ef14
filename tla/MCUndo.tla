------------------------------- MODULE MCUndo -------------------------------
(***************************************************************************)
(* Edits for the runs about undo, redo and deltas.                         *)
(***************************************************************************)
EXTENDS MCTimeline, UndoRedo, Delta

\* A clip on a track, edited and automated by both peers; no splits and no gain
\* changes: of those undo does not restore all.
UndoableEdits ==
    1 :> {InsertTrack(1, 1), InsertClip(1, 1, 0, 8, 1), MoveClip(1, 1, 3),
          DeleteClip(1)}
    @@ 2 :> {TrimClip(1, 1, 3), UpdateEnvelope(<<"clip", 1>>, 2),
             DeleteTrack(1), RenameClip(1, 5)}

\* The right-hand piece of a split clip is deleted.
PieceDeleteEdits ==
    1 :> {InsertTrack(1, 1), InsertClip(1, 1, 0, 8, 1), SplitClip(1, 5, 2),
          DeleteClip(2)}
    @@ 2 :> {}

=============================================================================
