------------------------------- MODULE Session -------------------------------
(***************************************************************************)
(* The timeline state of tpt-av-sync-crdt: Session::apply (state.rs) with  *)
(* the clip, track and envelope CRDTs under it.  SessionView resolves a    *)
(* session into the view applications render.                              *)
(*                                                                         *)
(* Payloads are natural numbers.  Fields that every operation treats alike *)
(* share one register: "name" is name, source and color of a clip (name,   *)
(* volume, mute and solo of a track), "gain" is gain, muted and locked,    *)
(* which InsertClip does not carry but resets to their defaults.           *)
(***************************************************************************)
EXTENDS LwwRegister, FiniteSets

CONSTANTS
    ClipId,       \* clip ids: u64, and their order decides split ties
    TrackId,
    MaxFrame,     \* the largest frame number (u64::MAX in the code)
    Vacant        \* a map entry that is not there

ASSUME SessionAssumption ==
    /\ ClipId \subseteq Nat
    /\ TrackId \subseteq Nat
    /\ MaxFrame \in Nat

-----------------------------------------------------------------------------
(* The state                                                               *)

ClipField == {"track", "start_frame", "duration_frames", "name", "gain",
              "order_hint"}
TrackField == {"name", "kind", "order_hint"}
MetaField == {"name", "tempo_bpm"}

Target == ({"clip"} \X ClipId) \cup ({"track"} \X TrackId)

\* A split claim is (parent clip, offset).  ClipParent and origin_claim are
\* always written together with the same pair, so one field stands for both.
NoParent == <<>>
Claim == ClipId \X Nat

Clip ==
    [ alive    : Register(BOOLEAN),
      regs     : [ClipField -> Register(Nat)],
      parent   : {NoParent} \cup Claim,
      detached : BOOLEAN,
      splits   : SUBSET (Nat \X ClipId) ]   \* offset -> child, as pairs

Track ==
    [ alive : Register(BOOLEAN),
      regs  : [TrackField -> Register(Nat)] ]

\* A vacant entry is not mistaken for an entity.
ASSUME VacantAssumption == Vacant \notin Clip \cup Track

SessionState ==
    [ clips     : [ClipId -> Clip \cup {Vacant}],
      tracks    : [TrackId -> Track \cup {Vacant}],
      envelopes : [Target -> Register(Nat)],
      metadata  : [MetaField -> Register(Nat)] ]

EmptySession ==
    [ clips     |-> [c \in ClipId |-> Vacant],
      tracks    |-> [t \in TrackId |-> Vacant],
      envelopes |-> [e \in Target |-> NewInitial(0)],
      metadata  |-> [f \in MetaField |-> NewInitial(0)] ]

-----------------------------------------------------------------------------
(* The operations.  "writes" holds the field values an operation carries.  *)

MoveField == {"track", "start_frame", "order_hint"}
TrimField == {"start_frame", "duration_frames"}

\* The default of every field is 0: gain 1.0, not muted, not locked.
InsertWrites == {w \in [ClipField -> Nat] : w["gain"] = 0}

ClipEdit ==
    [type : {"InsertClip"}, clip : ClipId, writes : InsertWrites]
    \cup [type : {"MoveClip"}, clip : ClipId, writes : [MoveField -> Nat]]
    \cup [type : {"TrimClip"}, clip : ClipId, writes : [TrimField -> Nat]]
    \cup [type : {"UpdateClipMetadata"}, clip : ClipId,
          writes : Writes("name", "gain", Nat)]
    \cup [type : {"DeleteClip"}, clip : ClipId, writes : {NoWrites}]

SplitEdit ==
    [type : {"SplitClip"}, clip : ClipId, split_frame : Nat,
     new_clip : ClipId]

TrackEdit ==
    [type : {"InsertTrack"}, track : TrackId, writes : [TrackField -> Nat]]
    \cup [type : {"UpdateTrackMetadata"}, track : TrackId,
          writes : Writes("name", "order_hint", Nat)]
    \cup [type : {"DeleteTrack"}, track : TrackId, writes : {NoWrites}]

EnvelopeEdit == [type : {"UpdateEnvelope"}, target : Target, points : Nat]

MetadataEdit ==
    [type : {"UpdateSessionMetadata"}, writes : Writes("name", "tempo_bpm", Nat)]

Operation ==
    ClipEdit \cup SplitEdit \cup TrackEdit \cup EnvelopeEdit
    \cup MetadataEdit

-----------------------------------------------------------------------------
(* Clips                                                                   *)

\* Mutant: a delete that does not compare tags.
SetAliveDeleteWins(reg, op, tag) ==
    IF op.type \in {"InsertClip", "InsertTrack"} THEN Set(reg, TRUE, tag)
    ELSE IF op.type \in {"DeleteClip", "DeleteTrack"} THEN Written(FALSE, tag)
    ELSE reg

\* Mutant: what is deleted stays deleted.
SetAliveTombstone(reg, op, tag) ==
    IF op.type \in {"DeleteClip", "DeleteTrack"} THEN Set(reg, FALSE, tag)
    ELSE reg

\* What an operation says about the liveness register: InsertX revives,
\* DeleteX buries, and no other operation touches it.
SetAlive(reg, op, tag) ==
    IF op.type \in {"InsertClip", "InsertTrack"} THEN Set(reg, TRUE, tag)
    ELSE IF op.type \in {"DeleteClip", "DeleteTrack"} THEN Set(reg, FALSE, tag)
    ELSE reg

ClipFromInsert(op, tag) ==
    [ alive |-> Written(TRUE, tag), regs |-> AllWritten(op.writes, tag),
      parent |-> NoParent, detached |-> FALSE, splits |-> {} ]

\* The right-hand piece: every field but alive is left unwritten.
ClipFromSplit(claim, tag) ==
    [ alive |-> Written(TRUE, tag),
      regs |-> [f \in ClipField |-> NewInitial(0)],
      parent |-> claim, detached |-> FALSE, splits |-> {} ]

\* ClipCrdt::apply for everything but SplitClip.
ApplyToClip(clip, op, tag) ==
    [ clip EXCEPT
        !.alive = SetAlive(@, op, tag),
        !.regs = SetAll(@, op.writes, tag),
        !.detached = @ \/ op.type \in {"MoveClip", "TrimClip"} ]

\* Mutant: offset and child in the wrong order.
RecordSplitSwapped(clip, offset, child) ==
    [clip EXCEPT !.splits = @ \cup {<<child, offset>>}]

\* ClipCrdt::record_split: at an occupied offset the smaller child id stays.
RecordSplit(clip, offset, child) ==
    LET taken == {e \in clip.splits : e[1] = offset}
    IN  IF \E e \in taken : e[2] <= child
        THEN clip
        ELSE [clip EXCEPT !.splits = (@ \ taken) \cup {<<offset, child>>}]

-----------------------------------------------------------------------------
(* Session::apply returns Ok or UnknownTarget, and may have changed the    *)
(* session in either case.                                                 *)

Ok(s) == [ok |-> TRUE, session |-> s]
UnknownTarget(s) == [ok |-> FALSE, session |-> s]

Exists(map, k) == map[k] # Vacant

ClaimLess(a, b) == a[1] < b[1] \/ (a[1] = b[1] /\ a[2] < b[2])

ApplyClipEdit(s, op, tag) ==
    IF Exists(s.clips, op.clip)
    THEN Ok([s EXCEPT !.clips[op.clip] = ApplyToClip(@, op, tag)])
    ELSE IF op.type = "InsertClip"
    THEN Ok([s EXCEPT !.clips[op.clip] = ClipFromInsert(op, tag)])
    ELSE UnknownTarget(s)

\* The child moves to a smaller claim: the previous owner forgets it.
Reparent(clips, child, claim) ==
    LET old == clips[child].parent
        disowned ==
            IF Exists(clips, old[1])
            THEN [clips EXCEPT ![old[1]].splits = @ \ {<<old[2], child>>}]
            ELSE clips
    IN  [disowned EXCEPT ![child].parent = claim]

\* A split whose child already exists: the smallest claim owns the child.
\* The child is revived before the target clip is looked up.
ReclaimChild(s, op, tag) ==
    LET claim   == <<op.clip, op.split_frame>>
        link    == s.clips[op.new_clip].parent
        current == IF link = NoParent THEN claim ELSE link
        owned   == IF ClaimLess(claim, current)
                   THEN Reparent(s.clips, op.new_clip, claim) ELSE s.clips
        revived == [owned EXCEPT ![op.new_clip].alive = Set(@, TRUE, tag)]
        split   == [revived EXCEPT ![op.clip] =
                        RecordSplit(@, op.split_frame, op.new_clip)]
    IN  IF ClaimLess(current, claim) THEN Ok(s)
        ELSE IF Exists(s.clips, op.clip) THEN Ok([s EXCEPT !.clips = split])
        ELSE UnknownTarget([s EXCEPT !.clips = revived])

ApplySplit(s, op, tag) ==
    IF op.clip = op.new_clip THEN Ok(s)
    ELSE IF Exists(s.clips, op.new_clip) THEN ReclaimChild(s, op, tag)
    ELSE IF Exists(s.clips, op.clip)
    THEN Ok([s EXCEPT
               !.clips[op.clip] = RecordSplit(@, op.split_frame, op.new_clip),
               !.clips[op.new_clip] =
                    ClipFromSplit(<<op.clip, op.split_frame>>, tag)])
    ELSE UnknownTarget(s)

\* TrackCrdt::from_insert and TrackCrdt::apply.
ApplyTrackEdit(s, op, tag) ==
    IF Exists(s.tracks, op.track)
    THEN Ok([s EXCEPT !.tracks[op.track].alive = SetAlive(@, op, tag),
                      !.tracks[op.track].regs = SetAll(@, op.writes, tag)])
    ELSE IF op.type = "InsertTrack"
    THEN Ok([s EXCEPT !.tracks[op.track] =
                [alive |-> Written(TRUE, tag),
                 regs |-> AllWritten(op.writes, tag)]])
    ELSE UnknownTarget(s)

TargetExists(s, target) ==
    IF target[1] = "clip" THEN Exists(s.clips, target[2])
    ELSE Exists(s.tracks, target[2])

ApplyEnvelope(s, op, tag) ==
    IF TargetExists(s, op.target)
    THEN Ok([s EXCEPT !.envelopes[op.target] = Set(@, op.points, tag)])
    ELSE UnknownTarget(s)

Apply(s, op, tag) ==
    CASE op.type = "SplitClip" -> ApplySplit(s, op, tag)
      [] op.type \in {"InsertTrack", "UpdateTrackMetadata", "DeleteTrack"} ->
            ApplyTrackEdit(s, op, tag)
      [] op.type = "UpdateEnvelope" -> ApplyEnvelope(s, op, tag)
      [] op.type = "UpdateSessionMetadata" ->
            Ok([s EXCEPT !.metadata = SetAll(@, op.writes, tag)])
      [] OTHER -> ApplyClipEdit(s, op, tag)

\* TimelineOperation::required_targets filtered by missing_targets.
MissingTargets(s, op) ==
    LET required ==
            CASE op.type \in {"InsertClip", "InsertTrack",
                              "UpdateSessionMetadata"} -> {}
              [] op.type \in {"UpdateTrackMetadata", "DeleteTrack"} ->
                    {<<"track", op.track>>}
              [] op.type = "UpdateEnvelope" -> {op.target}
              [] OTHER -> {<<"clip", op.clip>>}
    IN  {t \in required : ~TargetExists(s, t)}

=============================================================================
