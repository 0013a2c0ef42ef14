----------------------------- MODULE MCTimeline -----------------------------
(***************************************************************************)
(* The operations of the replication engine, as the runs of the modules on *)
(* top of it spell them.                                                   *)
(***************************************************************************)
EXTENDS TimelineCrdt, TLC

InsertClip(c, t, start, duration, name) ==
    [type |-> "InsertClip", clip |-> c,
     writes |-> [track |-> t, start_frame |-> start,
                 duration_frames |-> duration, name |-> name, gain |-> 0,
                 order_hint |-> 0]]
MoveClip(c, t, start) ==
    [type |-> "MoveClip", clip |-> c,
     writes |-> [track |-> t, start_frame |-> start, order_hint |-> 0]]
TrimClip(c, start, duration) ==
    [type |-> "TrimClip", clip |-> c,
     writes |-> [start_frame |-> start, duration_frames |-> duration]]
DeleteClip(c) ==
    [type |-> "DeleteClip", clip |-> c, writes |-> NoWrites]
RenameClip(c, name) ==
    [type |-> "UpdateClipMetadata", clip |-> c,
     writes |-> [name |-> name]]
SplitClip(c, frame, child) ==
    [type |-> "SplitClip", clip |-> c, split_frame |-> frame,
     new_clip |-> child]
InsertTrack(t, name) ==
    [type |-> "InsertTrack", track |-> t,
     writes |-> [name |-> name, kind |-> 0, order_hint |-> t]]
RenameTrack(t, name) ==
    [type |-> "UpdateTrackMetadata", track |-> t,
     writes |-> [name |-> name]]
DeleteTrack(t) == [type |-> "DeleteTrack", track |-> t, writes |-> NoWrites]
UpdateEnvelope(target, points) ==
    [type |-> "UpdateEnvelope", target |-> target, points |-> points]
RenameSession(name) ==
    [type |-> "UpdateSessionMetadata", writes |-> [name |-> name]]

=============================================================================
