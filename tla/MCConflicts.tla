---------------------------- MODULE MCConflicts ----------------------------
(***************************************************************************)
(* Edits for the runs about conflict events.                               *)
(***************************************************************************)
EXTENDS MCTimeline, ConflictEvents

\* Both peers move and split the clip one of them created; the other one
\* deletes it; and both name the session.
ContestedEdits ==
    1 :> {InsertClip(1, 1, 0, 8, 1), MoveClip(1, 1, 3), SplitClip(1, 5, 2),
          RenameSession(5)}
    @@ 2 :> {MoveClip(1, 1, 6), DeleteClip(1), SplitClip(1, 5, 3),
             RenameSession(6)}

\* One peer edits a clip that the other has yet to create.
LateTargetEdits ==
    1 :> {InsertClip(1, 1, 0, 8, 1)} @@ 2 :> {RenameClip(1, 5)}

=============================================================================
