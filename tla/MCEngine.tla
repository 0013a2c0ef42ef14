------------------------------ MODULE MCEngine ------------------------------
(***************************************************************************)
(* Applications for the runs about the sync engine.                        *)
(***************************************************************************)
EXTENDS SyncEngine, TLC

\* One peer edits, directly and through a batcher; the other asks for its
\* state.
EditAndAsk ==
    1 :> {"apply_local", "batch"} @@ 2 :> {"request_snapshot"}

\* One peer edits through its engine only.
EditOnly == 1 :> {"apply_local"} @@ 2 :> {}

=============================================================================
