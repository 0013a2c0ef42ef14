--------------------------- MODULE Session_proofs ---------------------------
(***************************************************************************)
(* Applying an operation keeps the session well formed, whether the        *)
(* operation succeeds or reports an unknown target.                        *)
(***************************************************************************)
EXTENDS Session, TLAPS

Result == [ok : BOOLEAN, session : SessionState]

-----------------------------------------------------------------------------
(* Registers                                                               *)

\* LwwReg::set returns a register of the same type, whichever write wins.
LEMMA SetTyped ==
    ASSUME NEW V, NEW reg \in Register(V), NEW v \in V, NEW tag \in OpTag
    PROVE  Set(reg, v, tag) \in Register(V)
BY DEF Set, Written, Register

\* A new register, written or not, is a register.
LEMMA WrittenTyped ==
    ASSUME NEW V, NEW v \in V, NEW tag \in OpTag
    PROVE  Written(v, tag) \in Register(V)
BY DEF Written, Register

\* A register LwwReg::new_initial made is a register.
LEMMA NewInitialTyped ==
    ASSUME NEW V, NEW v \in V
    PROVE  NewInitial(v) \in Register(V)
<1>1. InitialTag \in OpTag
    BY DEF InitialTag, OpTag
<1> QED
    BY <1>1, WrittenTyped DEF NewInitial

\* Applying writes of numbers to the fields of an entity keeps every field a
\* register of numbers.
LEMMA SetAllTyped ==
    ASSUME NEW F, NEW regs \in [F -> Register(Nat)], NEW writes,
           \A f \in DOMAIN writes : writes[f] \in Nat,
           NEW tag \in OpTag
    PROVE  SetAll(regs, writes, tag) \in [F -> Register(Nat)]
<1>1. ASSUME NEW f \in F
      PROVE  (IF f \in DOMAIN writes THEN Set(regs[f], writes[f], tag)
              ELSE regs[f]) \in Register(Nat)
    BY SetTyped
<1> QED
    BY <1>1 DEF SetAll

\* What each kind of operation writes are numbers.
LEMMA WritesTyped ==
    ASSUME NEW op \in ClipEdit \cup TrackEdit \cup MetadataEdit
    PROVE  \A f \in DOMAIN op.writes : op.writes[f] \in Nat
BY DEF ClipEdit, TrackEdit, MetadataEdit, Writes, NoWrites, InsertWrites,
       MoveField, TrimField, ClipField, TrackField

\* The liveness register stays a register of Booleans.
LEMMA SetAliveTyped ==
    ASSUME NEW reg \in Register(BOOLEAN), NEW op, NEW tag \in OpTag
    PROVE  SetAlive(reg, op, tag) \in Register(BOOLEAN)
BY SetTyped DEF SetAlive

\* Two writes with different tags leave the same register in either order:
\* what merge.rs means by commutative.
THEOREM SetCommutes ==
    ASSUME NEW V, NEW reg \in Register(V), NEW v \in V, NEW w \in V,
           NEW a \in OpTag, NEW b \in OpTag, a # b
    PROVE  Set(Set(reg, v, a), w, b) = Set(Set(reg, w, b), v, a)
<1>1. /\ reg.tag \in OpTag
      /\ reg.tag.lamport \in Nat /\ reg.tag.peer \in Nat
      /\ a.lamport \in Nat /\ a.peer \in Nat /\ b.lamport \in Nat /\ b.peer \in Nat
    BY DEF Register, OpTag
<1>2. a.lamport # b.lamport \/ a.peer # b.peer
    BY DEF OpTag
<1>3. TagLess(a, b) <=> ~TagLess(b, a)
    BY <1>1, <1>2 DEF TagLess
<1>4. /\ TagLess(reg.tag, a) /\ TagLess(a, b) => TagLess(reg.tag, b)
      /\ TagLess(reg.tag, b) /\ TagLess(b, a) => TagLess(reg.tag, a)
    BY <1>1 DEF TagLess
<1> QED
    BY <1>3, <1>4 DEF Set, Written

\* Writing the same value at the same tag again changes nothing.
THEOREM SetIdempotent ==
    ASSUME NEW V, NEW reg \in Register(V), NEW v \in V, NEW a \in OpTag
    PROVE  Set(Set(reg, v, a), v, a) = Set(reg, v, a)
<1>1. a.lamport \in Nat /\ a.peer \in Nat
    BY DEF OpTag
<1>2. ~TagLess(a, a)
    BY <1>1 DEF TagLess
<1> QED
    BY <1>2 DEF Set, Written

-----------------------------------------------------------------------------
(* Clips                                                                   *)

\* ClipCrdt::apply keeps a clip a clip.
LEMMA ApplyToClipTyped ==
    ASSUME NEW clip \in Clip, NEW op \in ClipEdit, NEW tag \in OpTag
    PROVE  ApplyToClip(clip, op, tag) \in Clip
<1>1. SetAlive(clip.alive, op, tag) \in Register(BOOLEAN)
    BY SetAliveTyped DEF Clip
<1>2. SetAll(clip.regs, op.writes, tag) \in [ClipField -> Register(Nat)]
    BY SetAllTyped, WritesTyped DEF Clip
<1> QED
    BY <1>1, <1>2 DEF ApplyToClip, Clip

\* ClipCrdt::from_insert makes a clip.
LEMMA ClipFromInsertTyped ==
    ASSUME NEW op \in ClipEdit, op.type = "InsertClip", NEW tag \in OpTag
    PROVE  ClipFromInsert(op, tag) \in Clip
<1>1. op.writes \in [ClipField -> Nat]
    BY DEF ClipEdit, InsertWrites
<1>2. AllWritten(op.writes, tag) \in [ClipField -> Register(Nat)]
    BY <1>1, WrittenTyped DEF AllWritten
<1>3. Written(TRUE, tag) \in Register(BOOLEAN)
    BY WrittenTyped
<1> QED
    BY <1>2, <1>3 DEF ClipFromInsert, Clip

\* ClipCrdt::from_split makes a clip.
LEMMA ClipFromSplitTyped ==
    ASSUME NEW claim \in Claim, NEW tag \in OpTag
    PROVE  ClipFromSplit(claim, tag) \in Clip
<1>1. [f \in ClipField |-> NewInitial(0)] \in [ClipField -> Register(Nat)]
    BY NewInitialTyped
<1>2. Written(TRUE, tag) \in Register(BOOLEAN)
    BY WrittenTyped
<1> QED
    BY <1>1, <1>2 DEF ClipFromSplit, Clip

\* ClipCrdt::record_split keeps a clip a clip.
LEMMA RecordSplitTyped ==
    ASSUME NEW clip \in Clip, NEW offset \in Nat, NEW child \in ClipId
    PROVE  RecordSplit(clip, offset, child) \in Clip
BY DEF RecordSplit, Clip

-----------------------------------------------------------------------------
(* The parts of a session                                                  *)

ClipMap == [ClipId -> Clip \cup {Vacant}]

\* Replacing the clips of a session leaves a session.
LEMMA WithClips ==
    ASSUME NEW s \in SessionState, NEW clips \in ClipMap
    PROVE  [s EXCEPT !.clips = clips] \in SessionState
BY DEF SessionState, ClipMap

\* The clips of a session are a map from ids to clips.
LEMMA ClipsOf ==
    ASSUME NEW s \in SessionState
    PROVE  s.clips \in ClipMap
BY DEF SessionState, ClipMap

\* Ok and UnknownTarget make a result of Session::apply.
LEMMA ResultTyped ==
    ASSUME NEW s \in SessionState
    PROVE  Ok(s) \in Result /\ UnknownTarget(s) \in Result
BY DEF Ok, UnknownTarget, Result

\* InsertClip, MoveClip, TrimClip, UpdateClipMetadata and DeleteClip.
LEMMA ApplyClipEditTyped ==
    ASSUME NEW s \in SessionState, NEW op \in ClipEdit, NEW tag \in OpTag
    PROVE  ApplyClipEdit(s, op, tag) \in Result
<1>1. op.clip \in ClipId /\ s.clips \in ClipMap
    BY ClipsOf DEF ClipEdit
<1>2. CASE Exists(s.clips, op.clip)
    <2>1. s.clips[op.clip] \in Clip
        BY <1>1, <1>2 DEF Exists, ClipMap
    <2>2. [s.clips EXCEPT ![op.clip] = ApplyToClip(@, op, tag)] \in ClipMap
        BY <1>1, <2>1, ApplyToClipTyped DEF ClipMap
    <2>3. [s EXCEPT !.clips[op.clip] = ApplyToClip(@, op, tag)]
            = [s EXCEPT !.clips =
                 [s.clips EXCEPT ![op.clip] = ApplyToClip(@, op, tag)]]
        BY DEF SessionState
    <2> QED
        BY <1>2, <2>2, <2>3, WithClips, ResultTyped DEF ApplyClipEdit
<1>3. CASE ~Exists(s.clips, op.clip) /\ op.type = "InsertClip"
    <2>1. [s.clips EXCEPT ![op.clip] = ClipFromInsert(op, tag)] \in ClipMap
        BY <1>1, <1>3, ClipFromInsertTyped DEF ClipMap
    <2>2. [s EXCEPT !.clips[op.clip] = ClipFromInsert(op, tag)]
            = [s EXCEPT !.clips =
                 [s.clips EXCEPT ![op.clip] = ClipFromInsert(op, tag)]]
        BY DEF SessionState
    <2> QED
        BY <1>3, <2>1, <2>2, WithClips, ResultTyped DEF ApplyClipEdit
<1>4. CASE ~Exists(s.clips, op.clip) /\ op.type # "InsertClip"
    BY <1>4, ResultTyped DEF ApplyClipEdit
<1> QED
    BY <1>2, <1>3, <1>4

-----------------------------------------------------------------------------
(* Splits                                                                  *)

\* Handing a child from its old parent to a new claim changes only clips.
LEMMA ReparentTyped ==
    ASSUME NEW clips \in ClipMap, NEW child \in ClipId, NEW claim \in Claim,
           Exists(clips, child), clips[child].parent # NoParent
    PROVE  /\ Reparent(clips, child, claim) \in ClipMap
           /\ \A c \in ClipId : Exists(clips, c)
                => Reparent(clips, child, claim)[c] \in Clip
<1> DEFINE old == clips[child].parent
           disowned == IF Exists(clips, old[1])
                       THEN [clips EXCEPT ![old[1]].splits = @ \ {<<old[2], child>>}]
                       ELSE clips
<1>1. clips[child] \in Clip /\ old \in Claim
    BY DEF Exists, ClipMap, Clip
<1>2. old[1] \in ClipId
    BY <1>1 DEF Claim
<1>3. disowned \in ClipMap
      /\ \A c \in ClipId : Exists(clips, c) => disowned[c] \in Clip
    <2>1. CASE Exists(clips, old[1])
        <3>1. clips[old[1]] \in Clip
            BY <1>2, <2>1 DEF Exists, ClipMap
        <3>2. [clips[old[1]] EXCEPT !.splits = @ \ {<<old[2], child>>}] \in Clip
            BY <3>1 DEF Clip
        <3>3. disowned = [clips EXCEPT ![old[1]] =
                [clips[old[1]] EXCEPT !.splits = @ \ {<<old[2], child>>}]]
            BY <2>1, <1>2 DEF ClipMap
        <3> QED
            BY <1>2, <3>2, <3>3 DEF Exists, ClipMap
    <2>2. CASE ~Exists(clips, old[1])
        BY <2>2 DEF Exists, ClipMap
    <2> QED
        BY <2>1, <2>2
<1> HIDE DEF disowned
<1>4. disowned[child] \in Clip
    BY <1>3
<1>5. [disowned[child] EXCEPT !.parent = claim] \in Clip
    BY <1>4 DEF Clip
<1>6. Reparent(clips, child, claim)
        = [disowned EXCEPT ![child] = [disowned[child] EXCEPT !.parent = claim]]
    BY <1>3 DEF Reparent, disowned, ClipMap
<1> QED
    BY <1>3, <1>5, <1>6 DEF ClipMap

\* SplitClip of a child that already exists.
LEMMA ReclaimChildTyped ==
    ASSUME NEW s \in SessionState, NEW op \in SplitEdit, NEW tag \in OpTag,
           Exists(s.clips, op.new_clip)
    PROVE  ReclaimChild(s, op, tag) \in Result
<1> DEFINE claim   == <<op.clip, op.split_frame>>
           link    == s.clips[op.new_clip].parent
           current == IF link = NoParent THEN claim ELSE link
           owned   == IF ClaimLess(claim, current)
                      THEN Reparent(s.clips, op.new_clip, claim) ELSE s.clips
           revived == [owned EXCEPT ![op.new_clip].alive = Set(@, TRUE, tag)]
           split   == [revived EXCEPT ![op.clip] =
                           RecordSplit(@, op.split_frame, op.new_clip)]
<1>1. /\ op.clip \in ClipId /\ op.new_clip \in ClipId /\ op.split_frame \in Nat
      /\ s.clips \in ClipMap /\ claim \in Claim
    BY ClipsOf DEF SplitEdit, Claim
<1>2. ClaimLess(claim, current) => link # NoParent
    <2>1. op.clip \in Nat /\ op.split_frame \in Nat
        BY <1>1, SessionAssumption
    <2>2. ~ClaimLess(claim, claim)
        BY <2>1 DEF ClaimLess
    <2> QED
        BY <2>2
<1>3. /\ owned \in ClipMap
      /\ \A c \in ClipId : Exists(s.clips, c) => owned[c] \in Clip
    <2>1. CASE ClaimLess(claim, current)
        BY <1>1, <1>2, <2>1, ReparentTyped
    <2>2. CASE ~ClaimLess(claim, current)
        BY <1>1, <2>2 DEF Exists, ClipMap
    <2> QED
        BY <2>1, <2>2
<1> HIDE DEF owned
<1>4. /\ revived \in ClipMap
      /\ \A c \in ClipId : Exists(s.clips, c) => revived[c] \in Clip
    <2>1. owned[op.new_clip] \in Clip
        BY <1>1, <1>3
    <2>2. Set(owned[op.new_clip].alive, TRUE, tag) \in Register(BOOLEAN)
        BY <2>1, SetTyped DEF Clip
    <2>3. [owned[op.new_clip] EXCEPT !.alive = Set(@, TRUE, tag)] \in Clip
        BY <2>1, <2>2 DEF Clip
    <2>4. revived = [owned EXCEPT ![op.new_clip] =
                        [owned[op.new_clip] EXCEPT !.alive = Set(@, TRUE, tag)]]
        BY <1>1, <1>3 DEF ClipMap
    <2> HIDE DEF revived
    <2> QED
        BY <1>1, <1>3, <2>3, <2>4 DEF ClipMap
<1> HIDE DEF revived
<1>5. CASE ClaimLess(current, claim)
    BY <1>5, ResultTyped DEF ReclaimChild
<1>6. CASE ~ClaimLess(current, claim) /\ Exists(s.clips, op.clip)
    <2>1. RecordSplit(revived[op.clip], op.split_frame, op.new_clip) \in Clip
        BY <1>1, <1>4, <1>6, RecordSplitTyped
    <2>2. split \in ClipMap
        BY <1>1, <1>4, <2>1 DEF ClipMap
    <2>3. ReclaimChild(s, op, tag) = Ok([s EXCEPT !.clips = split])
        BY <1>6 DEF ReclaimChild, revived, owned
    <2> QED
        BY <2>2, <2>3, WithClips, ResultTyped
<1>7. CASE ~ClaimLess(current, claim) /\ ~Exists(s.clips, op.clip)
    <2>1. ReclaimChild(s, op, tag) = UnknownTarget([s EXCEPT !.clips = revived])
        BY <1>7 DEF ReclaimChild, revived, owned
    <2> QED
        BY <1>4, <2>1, WithClips, ResultTyped
<1> QED
    BY <1>5, <1>6, <1>7

\* SplitClip, whether its child exists or not.
LEMMA ApplySplitTyped ==
    ASSUME NEW s \in SessionState, NEW op \in SplitEdit, NEW tag \in OpTag
    PROVE  ApplySplit(s, op, tag) \in Result
<1>1. /\ op.clip \in ClipId /\ op.new_clip \in ClipId /\ op.split_frame \in Nat
      /\ s.clips \in ClipMap
    BY ClipsOf DEF SplitEdit
<1>2. CASE op.clip = op.new_clip
    BY <1>2, ResultTyped DEF ApplySplit
<1>3. CASE op.clip # op.new_clip /\ Exists(s.clips, op.new_clip)
    BY <1>3, ReclaimChildTyped DEF ApplySplit
<1>4. CASE /\ op.clip # op.new_clip
           /\ ~Exists(s.clips, op.new_clip) /\ Exists(s.clips, op.clip)
    <2> DEFINE parent == RecordSplit(s.clips[op.clip], op.split_frame, op.new_clip)
               child  == ClipFromSplit(<<op.clip, op.split_frame>>, tag)
               clips  == [[s.clips EXCEPT ![op.clip] = parent]
                            EXCEPT ![op.new_clip] = child]
    <2>1. parent \in Clip
        BY <1>1, <1>4, RecordSplitTyped DEF Exists, ClipMap
    <2>2. child \in Clip
        BY <1>1, ClipFromSplitTyped DEF Claim
    <2>3. clips \in ClipMap
        <3> HIDE DEF parent, child
        <3> QED
            BY <1>1, <2>1, <2>2 DEF ClipMap
    <2>4. ApplySplit(s, op, tag) = Ok([s EXCEPT !.clips = clips])
        BY <1>1, <1>4 DEF ApplySplit, SessionState
    <2> QED
        BY <2>3, <2>4, WithClips, ResultTyped
<1>5. CASE /\ op.clip # op.new_clip
           /\ ~Exists(s.clips, op.new_clip) /\ ~Exists(s.clips, op.clip)
    BY <1>5, ResultTyped DEF ApplySplit
<1> QED
    BY <1>2, <1>3, <1>4, <1>5

-----------------------------------------------------------------------------
(* Tracks, envelopes and session metadata                                  *)

\* InsertTrack, UpdateTrackMetadata and DeleteTrack.
LEMMA ApplyTrackEditTyped ==
    ASSUME NEW s \in SessionState, NEW op \in TrackEdit, NEW tag \in OpTag
    PROVE  ApplyTrackEdit(s, op, tag) \in Result
<1> DEFINE tr  == s.tracks[op.track]
           edited == [tr EXCEPT !.alive = SetAlive(@, op, tag),
                                !.regs = SetAll(@, op.writes, tag)]
           fresh == [alive |-> Written(TRUE, tag),
                     regs |-> AllWritten(op.writes, tag)]
<1>1. op.track \in TrackId /\ s.tracks \in [TrackId -> Track \cup {Vacant}]
    BY DEF TrackEdit, SessionState
<1>2. CASE Exists(s.tracks, op.track)
    <2>1. tr \in Track
        BY <1>1, <1>2 DEF Exists
    <2>2. edited \in Track
        <3>1. SetAlive(tr.alive, op, tag) \in Register(BOOLEAN)
            BY <2>1, SetAliveTyped DEF Track
        <3>2. SetAll(tr.regs, op.writes, tag) \in [TrackField -> Register(Nat)]
            BY <2>1, SetAllTyped, WritesTyped DEF Track
        <3> QED
            BY <2>1, <3>1, <3>2 DEF Track
    <2>3. ApplyTrackEdit(s, op, tag) = Ok([s EXCEPT !.tracks[op.track] = edited])
        BY <1>1, <1>2 DEF ApplyTrackEdit, SessionState
    <2>4. [s EXCEPT !.tracks[op.track] = edited] \in SessionState
        <3> HIDE DEF edited
        <3> QED
            BY <1>1, <2>2 DEF SessionState
    <2> QED
        BY <2>3, <2>4, ResultTyped
<1>3. CASE ~Exists(s.tracks, op.track) /\ op.type = "InsertTrack"
    <2>1. op.writes \in [TrackField -> Nat]
        BY <1>3 DEF TrackEdit
    <2>2. AllWritten(op.writes, tag) \in [TrackField -> Register(Nat)]
        BY <2>1, WrittenTyped DEF AllWritten
    <2>3. fresh \in Track
        BY <2>2, WrittenTyped DEF Track
    <2>4. ApplyTrackEdit(s, op, tag) = Ok([s EXCEPT !.tracks[op.track] = fresh])
        BY <1>3 DEF ApplyTrackEdit
    <2>5. [s EXCEPT !.tracks[op.track] = fresh] \in SessionState
        <3> HIDE DEF fresh
        <3> QED
            BY <1>1, <2>3 DEF SessionState
    <2> QED
        BY <2>4, <2>5, ResultTyped
<1>4. CASE ~Exists(s.tracks, op.track) /\ op.type # "InsertTrack"
    BY <1>4, ResultTyped DEF ApplyTrackEdit
<1> QED
    BY <1>2, <1>3, <1>4

\* UpdateEnvelope.
LEMMA ApplyEnvelopeTyped ==
    ASSUME NEW s \in SessionState, NEW op \in EnvelopeEdit, NEW tag \in OpTag
    PROVE  ApplyEnvelope(s, op, tag) \in Result
<1>1. /\ op.target \in Target /\ op.points \in Nat
      /\ s.envelopes \in [Target -> Register(Nat)]
    BY DEF EnvelopeEdit, SessionState
<1>2. Set(s.envelopes[op.target], op.points, tag) \in Register(Nat)
    BY <1>1, SetTyped
<1>3. [s EXCEPT !.envelopes[op.target] = Set(@, op.points, tag)] \in SessionState
    BY <1>1, <1>2 DEF SessionState
<1> QED
    BY <1>3, ResultTyped DEF ApplyEnvelope

\* UpdateSessionMetadata.
LEMMA ApplyMetadataTyped ==
    ASSUME NEW s \in SessionState, NEW op \in MetadataEdit, NEW tag \in OpTag
    PROVE  Ok([s EXCEPT !.metadata = SetAll(@, op.writes, tag)]) \in Result
<1>1. SetAll(s.metadata, op.writes, tag) \in [MetaField -> Register(Nat)]
    BY SetAllTyped, WritesTyped DEF SessionState
<1>2. [s EXCEPT !.metadata = SetAll(@, op.writes, tag)] \in SessionState
    BY <1>1 DEF SessionState
<1> QED
    BY <1>2, ResultTyped

-----------------------------------------------------------------------------

\* Session::apply: every operation, applied at any tag to any session, leaves
\* a session, also when it returns UnknownTarget after changing something.
THEOREM ApplyTyped ==
    ASSUME NEW s \in SessionState, NEW op \in Operation, NEW tag \in OpTag
    PROVE  Apply(s, op, tag) \in [ok : BOOLEAN, session : SessionState]
<1>1. CASE op \in ClipEdit
    <2>1. op.type \in {"InsertClip", "MoveClip", "TrimClip",
                       "UpdateClipMetadata", "DeleteClip"}
        BY <1>1 DEF ClipEdit
    <2>2. Apply(s, op, tag) = ApplyClipEdit(s, op, tag)
        BY <2>1 DEF Apply
    <2> QED
        BY <1>1, <2>2, ApplyClipEditTyped DEF Result
<1>2. CASE op \in SplitEdit
    BY <1>2, ApplySplitTyped DEF Apply, SplitEdit, Result
<1>3. CASE op \in TrackEdit
    BY <1>3, ApplyTrackEditTyped DEF Apply, TrackEdit, Result
<1>4. CASE op \in EnvelopeEdit
    BY <1>4, ApplyEnvelopeTyped DEF Apply, EnvelopeEdit, Result
<1>5. CASE op \in MetadataEdit
    <2>1. op.type = "UpdateSessionMetadata"
        BY <1>5 DEF MetadataEdit
    <2> QED
        BY <1>5, <2>1, ApplyMetadataTyped DEF Apply, Result
<1> QED
    BY <1>1, <1>2, <1>3, <1>4, <1>5 DEF Operation

\* Session::new.
LEMMA EmptySessionTyped == EmptySession \in SessionState
BY NewInitialTyped DEF EmptySession, SessionState

-----------------------------------------------------------------------------
(* What an operation changes                                               *)

\* Tags are totally ordered: timestamp first, peer second.
LEMMA TagOrder ==
    ASSUME NEW a \in OpTag, NEW b \in OpTag, NEW c \in OpTag
    PROVE  /\ ~TagLess(a, a)
           /\ TagLess(a, b) /\ TagLess(b, c) => TagLess(a, c)
           /\ a # b => TagLess(a, b) \/ TagLess(b, a)
<1>1. /\ a.lamport \in Nat /\ b.lamport \in Nat /\ c.lamport \in Nat
      /\ a.peer \in Nat /\ b.peer \in Nat /\ c.peer \in Nat
    BY DEF OpTag
<1>2. a # b => a.lamport # b.lamport \/ a.peer # b.peer
    BY DEF OpTag
<1> QED
    BY <1>1, <1>2 DEF TagLess

\* Operations other than edits and splits of clips leave the clips alone, and
\* so on: which part of a session each kind of operation may change.
SameBut(s, r, part) ==
    /\ part = "clips" \/ r.clips = s.clips
    /\ part = "tracks" \/ r.tracks = s.tracks
    /\ part = "envelopes" \/ r.envelopes = s.envelopes
    /\ part = "metadata" \/ r.metadata = s.metadata

\* A clip edit changes its clip and nothing else; it fails, without changing
\* anything, only when the clip does not exist and the edit does not make it.
LEMMA ClipEditEffect ==
    ASSUME NEW s \in SessionState, NEW op \in ClipEdit, NEW tag \in OpTag
    PROVE  LET r == ApplyClipEdit(s, op, tag)
           IN  /\ SameBut(s, r.session, "clips")
               /\ \A c \in ClipId \ {op.clip} :
                        r.session.clips[c] = s.clips[c]
               /\ r.ok => /\ r.session.clips[op.clip] =
                                IF Exists(s.clips, op.clip)
                                THEN ApplyToClip(s.clips[op.clip], op, tag)
                                ELSE ClipFromInsert(op, tag)
                          /\ Exists(r.session.clips, op.clip)
                          /\ ~Exists(s.clips, op.clip) => op.type = "InsertClip"
               /\ ~r.ok => /\ r.session = s
                           /\ ~Exists(s.clips, op.clip)
                           /\ op.type # "InsertClip"
<1> DEFINE r == ApplyClipEdit(s, op, tag)
<1>1. op.clip \in ClipId /\ s.clips \in ClipMap
    BY ClipsOf DEF ClipEdit
<1>2. CASE Exists(s.clips, op.clip)
    <2> DEFINE new == ApplyToClip(s.clips[op.clip], op, tag)
    <2>1. s.clips[op.clip] \in Clip
        BY <1>1, <1>2 DEF Exists, ClipMap
    <2>2. new \in Clip
        BY <2>1, ApplyToClipTyped
    <2>3. r.ok /\ r.session = [s EXCEPT !.clips[op.clip] = new]
        BY <1>2 DEF ApplyClipEdit, Ok
    <2> HIDE DEF new, r
    <2>4. r.session.clips = [s.clips EXCEPT ![op.clip] = new]
          /\ SameBut(s, r.session, "clips")
        BY <2>3 DEF SessionState, SameBut
    <2>5. r.session.clips[op.clip] = new
        BY <1>1, <2>4 DEF ClipMap
    <2>6. Exists(r.session.clips, op.clip)
        BY <2>2, <2>5, VacantAssumption DEF Exists
    <2>7. \A c \in ClipId \ {op.clip} : r.session.clips[c] = s.clips[c]
        BY <1>1, <2>4 DEF ClipMap
    <2> QED
        BY <1>2, <2>3, <2>4, <2>5, <2>6, <2>7 DEF r, new
<1>3. CASE ~Exists(s.clips, op.clip) /\ op.type = "InsertClip"
    <2> DEFINE new == ClipFromInsert(op, tag)
    <2>1. new \in Clip
        BY <1>3, ClipFromInsertTyped
    <2>2. r.ok /\ r.session = [s EXCEPT !.clips[op.clip] = new]
        BY <1>3 DEF ApplyClipEdit, Ok
    <2> HIDE DEF new, r
    <2>3. r.session.clips = [s.clips EXCEPT ![op.clip] = new]
          /\ SameBut(s, r.session, "clips")
        BY <2>2 DEF SessionState, SameBut
    <2>4. r.session.clips[op.clip] = new
        BY <1>1, <2>3 DEF ClipMap
    <2>5. Exists(r.session.clips, op.clip)
        BY <2>1, <2>4, VacantAssumption DEF Exists
    <2>6. \A c \in ClipId \ {op.clip} : r.session.clips[c] = s.clips[c]
        BY <1>1, <2>3 DEF ClipMap
    <2> QED
        BY <1>3, <2>2, <2>3, <2>4, <2>5, <2>6 DEF r, new
<1>4. CASE ~Exists(s.clips, op.clip) /\ op.type # "InsertClip"
    <2>1. ~r.ok /\ r.session = s
        BY <1>4 DEF ApplyClipEdit, UnknownTarget
    <2> HIDE DEF r
    <2> QED
        BY <1>4, <2>1 DEF SameBut, r
<1> QED
    BY <1>2, <1>3, <1>4

\* Reparent keeps every clip that exists, with its registers.
LEMMA ReparentEffect ==
    ASSUME NEW clips \in ClipMap, NEW child \in ClipId, NEW claim \in Claim,
           Exists(clips, child), clips[child].parent # NoParent
    PROVE  \A c \in ClipId :
                /\ Exists(Reparent(clips, child, claim), c) <=> Exists(clips, c)
                /\ Exists(clips, c) =>
                    /\ Reparent(clips, child, claim)[c].regs = clips[c].regs
                    /\ Reparent(clips, child, claim)[c].detached
                            = clips[c].detached
<1> DEFINE old == clips[child].parent
           disowned == IF Exists(clips, old[1])
                       THEN [clips EXCEPT ![old[1]].splits = @ \ {<<old[2], child>>}]
                       ELSE clips
           new == Reparent(clips, child, claim)
<1>1. clips[child] \in Clip /\ old \in Claim
    BY DEF Exists, ClipMap, Clip
<1>2. old[1] \in ClipId
    BY <1>1 DEF Claim
<1>3. disowned \in [ClipId -> Clip \cup {Vacant}]
      /\ \A c \in ClipId :
            /\ Exists(disowned, c) <=> Exists(clips, c)
            /\ Exists(clips, c) => /\ disowned[c] \in Clip
                                   /\ disowned[c].regs = clips[c].regs
                                   /\ disowned[c].detached = clips[c].detached
    <2>1. CASE Exists(clips, old[1])
        <3> DEFINE robbed == [clips[old[1]] EXCEPT !.splits = @ \ {<<old[2], child>>}]
        <3>1. clips[old[1]] \in Clip
            BY <1>2, <2>1 DEF Exists, ClipMap
        <3>2. /\ robbed \in Clip /\ robbed.regs = clips[old[1]].regs
              /\ robbed.detached = clips[old[1]].detached
            BY <3>1 DEF Clip
        <3>3. disowned = [clips EXCEPT ![old[1]] = robbed]
            BY <2>1, <1>2 DEF ClipMap
        <3> HIDE DEF robbed, old, disowned
        <3>4. /\ disowned[old[1]] = robbed
              /\ \A c \in ClipId \ {old[1]} : disowned[c] = clips[c]
              /\ disowned \in [ClipId -> Clip \cup {Vacant}]
            BY <1>2, <3>2, <3>3 DEF ClipMap
        <3>5. \A c \in ClipId : Exists(clips, c) => clips[c] \in Clip
            BY DEF Exists, ClipMap
        <3>6. robbed # Vacant
            BY <3>2, VacantAssumption
        <3>7. ASSUME NEW c \in ClipId
              PROVE  /\ Exists(disowned, c) <=> Exists(clips, c)
                     /\ Exists(clips, c) =>
                            /\ disowned[c] \in Clip
                            /\ disowned[c].regs = clips[c].regs
                            /\ disowned[c].detached = clips[c].detached
            <4>1. CASE c = old[1]
                BY <2>1, <3>2, <3>4, <3>6, <4>1 DEF Exists
            <4>2. CASE c # old[1]
                BY <3>4, <3>5, <4>2 DEF Exists
            <4> QED
                BY <4>1, <4>2
        <3> QED
            BY <3>4, <3>7
    <2>2. CASE ~Exists(clips, old[1])
        BY <2>2 DEF Exists, ClipMap
    <2> QED
        BY <2>1, <2>2
<1> HIDE DEF disowned
<1> DEFINE moved == [disowned[child] EXCEPT !.parent = claim]
<1>4. disowned[child] \in Clip
    BY <1>3
<1>5. /\ moved \in Clip /\ moved.regs = disowned[child].regs
      /\ moved.detached = disowned[child].detached
    BY <1>4 DEF Clip
<1>6. new = [disowned EXCEPT ![child] = moved]
    BY <1>3 DEF Reparent, disowned, ClipMap
<1> HIDE DEF moved, new
<1>7. new[child] = moved /\ \A c \in ClipId \ {child} : new[c] = disowned[c]
    BY <1>3, <1>6
<1>8. moved # Vacant
    BY <1>5, VacantAssumption
<1>9. \A c \in ClipId :
        /\ Exists(new, c) <=> Exists(clips, c)
        /\ Exists(clips, c) => /\ new[c].regs = clips[c].regs
                               /\ new[c].detached = clips[c].detached
    BY <1>3, <1>5, <1>7, <1>8 DEF Exists
<1> QED
    BY <1>9 DEF new

\* A split keeps every clip that exists, with its registers.  It makes at most
\* its child, unwritten, and only when it succeeds; it fails only when the
\* clip it splits does not exist.
SplitKeeps(s, op, r) ==
    /\ SameBut(s, r.session, "clips")
    /\ \A c \in ClipId :
        /\ Exists(s.clips, c) => /\ Exists(r.session.clips, c)
                                 /\ r.session.clips[c].regs = s.clips[c].regs
                                 /\ r.session.clips[c].detached
                                        = s.clips[c].detached
        /\ ~Exists(s.clips, c) /\ Exists(r.session.clips, c) =>
                /\ r.ok /\ c = op.new_clip /\ op.clip # op.new_clip
                /\ r.session.clips[c].regs = [f \in ClipField |-> NewInitial(0)]
                /\ ~r.session.clips[c].detached
    /\ r.ok /\ op.clip # op.new_clip => Exists(r.session.clips, op.new_clip)
    /\ ~r.ok => ~Exists(s.clips, op.clip)

\* Replacing the clips of a session by others that agree on what exists.
LEMMA SplitKeepsSame ==
    ASSUME NEW s \in SessionState, NEW op \in SplitEdit, NEW clips \in ClipMap,
           Exists(s.clips, op.new_clip),
           \A c \in ClipId :
                /\ Exists(clips, c) <=> Exists(s.clips, c)
                /\ Exists(s.clips, c) =>
                        /\ clips[c].regs = s.clips[c].regs
                        /\ clips[c].detached = s.clips[c].detached
    PROVE  /\ SplitKeeps(s, op, Ok([s EXCEPT !.clips = clips]))
           /\ ~Exists(s.clips, op.clip)
                => SplitKeeps(s, op, UnknownTarget([s EXCEPT !.clips = clips]))
<1> DEFINE new == [s EXCEPT !.clips = clips]
<1>1. new.clips = clips /\ SameBut(s, new, "clips")
    BY DEF SessionState, SameBut
<1>2. op.new_clip \in ClipId
    BY DEF SplitEdit
<1> HIDE DEF new
<1> QED
    BY <1>1, <1>2 DEF SplitKeeps, Ok, UnknownTarget, new

\* SplitClip of a child that already exists.
LEMMA ReclaimChildEffect ==
    ASSUME NEW s \in SessionState, NEW op \in SplitEdit, NEW tag \in OpTag,
           Exists(s.clips, op.new_clip), op.clip # op.new_clip
    PROVE  SplitKeeps(s, op, ReclaimChild(s, op, tag))
<1> DEFINE claim   == <<op.clip, op.split_frame>>
           link    == s.clips[op.new_clip].parent
           current == IF link = NoParent THEN claim ELSE link
           owned   == IF ClaimLess(claim, current)
                      THEN Reparent(s.clips, op.new_clip, claim) ELSE s.clips
           revived == [owned EXCEPT ![op.new_clip].alive = Set(@, TRUE, tag)]
           split   == [revived EXCEPT ![op.clip] =
                           RecordSplit(@, op.split_frame, op.new_clip)]
           Agrees(clips) ==
                \A c \in ClipId :
                    /\ Exists(clips, c) <=> Exists(s.clips, c)
                    /\ Exists(s.clips, c) =>
                            /\ clips[c].regs = s.clips[c].regs
                            /\ clips[c].detached = s.clips[c].detached
<1>1. /\ op.clip \in ClipId /\ op.new_clip \in ClipId /\ op.split_frame \in Nat
      /\ s.clips \in ClipMap /\ claim \in Claim
    BY ClipsOf DEF SplitEdit, Claim
<1>2. ClaimLess(claim, current) => link # NoParent
    <2>1. op.clip \in Nat /\ op.split_frame \in Nat
        BY <1>1, SessionAssumption
    <2>2. ~ClaimLess(claim, claim)
        BY <2>1 DEF ClaimLess
    <2> QED
        BY <2>2
<1>3. /\ owned \in ClipMap /\ Agrees(owned)
      /\ owned[op.new_clip] \in Clip
    <2>1. CASE ClaimLess(claim, current)
        <3>1. /\ Reparent(s.clips, op.new_clip, claim) \in ClipMap
              /\ Reparent(s.clips, op.new_clip, claim)[op.new_clip] \in Clip
            BY <1>1, <1>2, <2>1, ReparentTyped
        <3>2. Agrees(Reparent(s.clips, op.new_clip, claim))
            BY <1>1, <1>2, <2>1, ReparentEffect
        <3> QED
            BY <2>1, <3>1, <3>2
    <2>2. CASE ~ClaimLess(claim, current)
        BY <1>1, <2>2 DEF Exists, ClipMap
    <2> QED
        BY <2>1, <2>2
<1> HIDE DEF owned
<1>4. revived \in ClipMap /\ Agrees(revived)
    <2> DEFINE child == [owned[op.new_clip] EXCEPT !.alive = Set(@, TRUE, tag)]
    <2>1. Set(owned[op.new_clip].alive, TRUE, tag) \in Register(BOOLEAN)
        BY <1>3, SetTyped DEF Clip
    <2>2. /\ child \in Clip /\ child.regs = owned[op.new_clip].regs
          /\ child.detached = owned[op.new_clip].detached
        BY <1>3, <2>1 DEF Clip
    <2>3. revived = [owned EXCEPT ![op.new_clip] = child]
        BY <1>1, <1>3 DEF ClipMap
    <2> HIDE DEF revived, child
    <2>4. revived \in ClipMap
        BY <1>1, <1>3, <2>2, <2>3 DEF ClipMap
    <2>5. /\ revived[op.new_clip] = child
          /\ \A c \in ClipId \ {op.new_clip} : revived[c] = owned[c]
        BY <1>1, <1>3, <2>3 DEF ClipMap
    <2>6. child # Vacant
        BY <2>2, VacantAssumption
    <2>7. ASSUME NEW c \in ClipId
          PROVE  /\ Exists(revived, c) <=> Exists(s.clips, c)
                 /\ Exists(s.clips, c) =>
                        /\ revived[c].regs = s.clips[c].regs
                        /\ revived[c].detached = s.clips[c].detached
        <3>1. CASE c = op.new_clip
            BY <1>3, <2>2, <2>5, <2>6, <3>1 DEF Exists
        <3>2. CASE c # op.new_clip
            BY <1>3, <2>5, <3>2 DEF Exists
        <3> QED
            BY <3>1, <3>2
    <2> QED
        BY <2>4, <2>7
<1> HIDE DEF revived
<1>5. CASE ClaimLess(current, claim)
    <2>1. ReclaimChild(s, op, tag) = Ok(s)
        BY <1>5 DEF ReclaimChild
    <2>2. SplitKeeps(s, op, Ok(s))
        BY DEF SplitKeeps, SameBut, Ok
    <2> QED
        BY <2>1, <2>2
<1>6. CASE ~ClaimLess(current, claim) /\ Exists(s.clips, op.clip)
    <2> DEFINE parent == RecordSplit(revived[op.clip], op.split_frame, op.new_clip)
    <2>1. revived[op.clip] \in Clip
        BY <1>1, <1>4, <1>6 DEF Exists, ClipMap
    <2>2. /\ parent \in Clip /\ parent.regs = revived[op.clip].regs
          /\ parent.detached = revived[op.clip].detached
        <3>1. parent \in Clip
            BY <1>1, <2>1, RecordSplitTyped
        <3> QED
            BY <2>1, <3>1 DEF RecordSplit, Clip
    <2>3. split = [revived EXCEPT ![op.clip] = parent]
        BY <1>1, <1>4 DEF ClipMap
    <2>4. ReclaimChild(s, op, tag) = Ok([s EXCEPT !.clips = split])
        BY <1>6 DEF ReclaimChild, revived, owned
    <2> HIDE DEF split, parent
    <2>5. split \in ClipMap
        BY <1>1, <1>4, <2>2, <2>3 DEF ClipMap
    <2>6. /\ split[op.clip] = parent
          /\ \A c \in ClipId \ {op.clip} : split[c] = revived[c]
        BY <1>1, <1>4, <2>3 DEF ClipMap
    <2>7. parent # Vacant
        BY <2>2, VacantAssumption
    <2>8. ASSUME NEW c \in ClipId
          PROVE  /\ Exists(split, c) <=> Exists(s.clips, c)
                 /\ Exists(s.clips, c) =>
                        /\ split[c].regs = s.clips[c].regs
                        /\ split[c].detached = s.clips[c].detached
        <3>1. CASE c = op.clip
            BY <1>4, <1>6, <2>2, <2>6, <2>7, <3>1 DEF Exists
        <3>2. CASE c # op.clip
            BY <1>4, <2>6, <3>2 DEF Exists
        <3> QED
            BY <3>1, <3>2
    <2> QED
        BY <2>4, <2>5, <2>8, SplitKeepsSame
<1>7. CASE ~ClaimLess(current, claim) /\ ~Exists(s.clips, op.clip)
    <2>1. ReclaimChild(s, op, tag) = UnknownTarget([s EXCEPT !.clips = revived])
        BY <1>7 DEF ReclaimChild, revived, owned
    <2> QED
        BY <1>4, <1>7, <2>1, SplitKeepsSame
<1> QED
    BY <1>5, <1>6, <1>7

\* SplitClip where the child's id stands for this split and no other.
LEMMA SplitOutcome ==
    ASSUME NEW s \in SessionState, NEW op \in SplitEdit, NEW tag \in OpTag,
           op.clip # op.new_clip, Exists(s.clips, op.clip),
           Exists(s.clips, op.new_clip) =>
                s.clips[op.new_clip].parent = <<op.clip, op.split_frame>>
    PROVE  LET r == ApplySplit(s, op, tag)
           IN  /\ r.ok
               /\ \A c \in ClipId \ {op.clip, op.new_clip} :
                        r.session.clips[c] = s.clips[c]
               /\ r.session.clips[op.clip] =
                    RecordSplit(s.clips[op.clip], op.split_frame, op.new_clip)
               /\ r.session.clips[op.new_clip] =
                    IF Exists(s.clips, op.new_clip)
                    THEN [s.clips[op.new_clip] EXCEPT !.alive = Set(@, TRUE, tag)]
                    ELSE ClipFromSplit(<<op.clip, op.split_frame>>, tag)
<1> DEFINE parent == RecordSplit(s.clips[op.clip], op.split_frame, op.new_clip)
           claim  == <<op.clip, op.split_frame>>
<1>1. /\ op.clip \in ClipId /\ op.new_clip \in ClipId /\ op.split_frame \in Nat
      /\ s.clips \in ClipMap
    BY ClipsOf DEF SplitEdit
<1>2. CASE ~Exists(s.clips, op.new_clip)
    <2> DEFINE child == ClipFromSplit(claim, tag)
               clips == [[s.clips EXCEPT ![op.clip] = parent]
                            EXCEPT ![op.new_clip] = child]
    <2>1. ApplySplit(s, op, tag) = Ok([s EXCEPT !.clips = clips])
        BY <1>1, <1>2 DEF ApplySplit, SessionState
    <2> HIDE DEF parent, child
    <2>2. /\ clips[op.clip] = parent /\ clips[op.new_clip] = child
          /\ \A c \in ClipId \ {op.clip, op.new_clip} : clips[c] = s.clips[c]
        BY <1>1 DEF ClipMap
    <2>3. [s EXCEPT !.clips = clips].clips = clips
        BY DEF SessionState
    <2> HIDE DEF clips
    <2>4. ApplySplit(s, op, tag).ok = TRUE
        BY <2>1 DEF Ok
    <2>5. ApplySplit(s, op, tag).session.clips = clips
        <3>1. ApplySplit(s, op, tag).session = [s EXCEPT !.clips = clips]
            BY <2>1 DEF Ok
        <3> QED
            BY <2>3, <3>1, Zenon
    <2> QED
        BY <1>2, <2>2, <2>4, <2>5 DEF parent, child
<1>3. CASE Exists(s.clips, op.new_clip)
    <2> DEFINE child   == [s.clips[op.new_clip] EXCEPT !.alive = Set(@, TRUE, tag)]
               revived == [s.clips EXCEPT ![op.new_clip] = child]
               clips   == [revived EXCEPT ![op.clip] = parent]
    <2>1. ~ClaimLess(claim, claim) /\ claim # NoParent
        <3>1. op.clip \in Nat
            BY <1>1, SessionAssumption
        <3> QED
            BY <1>1, <3>1 DEF ClaimLess, NoParent
    <2>2. s.clips[op.new_clip].parent = claim
        BY <1>3
    <2>3. [s.clips EXCEPT ![op.new_clip].alive = Set(@, TRUE, tag)] = revived
        BY <1>1 DEF ClipMap
    <2>4. [revived EXCEPT ![op.clip] =
                RecordSplit(@, op.split_frame, op.new_clip)] = clips
        <3> HIDE DEF child
        <3>1. revived[op.clip] = s.clips[op.clip]
            BY <1>1 DEF ClipMap
        <3> QED
            BY <1>1, <3>1 DEF ClipMap
    <2>5. ReclaimChild(s, op, tag) = Ok([s EXCEPT !.clips = clips])
        <3> HIDE DEF revived, clips
        <3> QED
            BY <2>1, <2>2, <2>3, <2>4 DEF ReclaimChild
    <2>6. ApplySplit(s, op, tag) = Ok([s EXCEPT !.clips = clips])
        BY <1>3, <2>5 DEF ApplySplit
    <2> HIDE DEF parent, child
    <2>7. /\ clips[op.clip] = parent /\ clips[op.new_clip] = child
          /\ \A c \in ClipId \ {op.clip, op.new_clip} : clips[c] = s.clips[c]
        BY <1>1 DEF ClipMap
    <2>8. [s EXCEPT !.clips = clips].clips = clips
        BY DEF SessionState
    <2> HIDE DEF clips, revived
    <2>9. ApplySplit(s, op, tag).ok = TRUE
        BY <2>6 DEF Ok
    <2>10. ApplySplit(s, op, tag).session.clips = clips
        <3>1. ApplySplit(s, op, tag).session = [s EXCEPT !.clips = clips]
            BY <2>6 DEF Ok
        <3> QED
            BY <2>8, <3>1, Zenon
    <2> QED
        BY <1>3, <2>7, <2>9, <2>10 DEF parent, child
<1> QED
    BY <1>2, <1>3

\* An existing clip that is split is still there.
LEMMA RecordSplitThere ==
    ASSUME NEW clip \in Clip, NEW offset \in Nat, NEW child \in ClipId
    PROVE  RecordSplit(clip, offset, child) # Vacant
BY RecordSplitTyped, VacantAssumption

\* SplitClip, whether its child exists or not.
LEMMA SplitEffect ==
    ASSUME NEW s \in SessionState, NEW op \in SplitEdit, NEW tag \in OpTag
    PROVE  SplitKeeps(s, op, ApplySplit(s, op, tag))
<1>1. /\ op.clip \in ClipId /\ op.new_clip \in ClipId /\ op.split_frame \in Nat
      /\ s.clips \in ClipMap
    BY ClipsOf DEF SplitEdit
<1>2. CASE op.clip = op.new_clip
    <2>1. ApplySplit(s, op, tag) = Ok(s)
        BY <1>2 DEF ApplySplit
    <2>2. SplitKeeps(s, op, Ok(s))
        BY <1>2 DEF SplitKeeps, SameBut, Ok
    <2> QED
        BY <2>1, <2>2
<1>3. CASE op.clip # op.new_clip /\ Exists(s.clips, op.new_clip)
    BY <1>3, ReclaimChildEffect DEF ApplySplit
<1>4. CASE /\ op.clip # op.new_clip
           /\ ~Exists(s.clips, op.new_clip) /\ Exists(s.clips, op.clip)
    <2> DEFINE parent == RecordSplit(s.clips[op.clip], op.split_frame, op.new_clip)
               child  == ClipFromSplit(<<op.clip, op.split_frame>>, tag)
               clips  == [[s.clips EXCEPT ![op.clip] = parent]
                            EXCEPT ![op.new_clip] = child]
               new    == [s EXCEPT !.clips = clips]
    <2>0. s.clips[op.clip] \in Clip
        BY <1>1, <1>4 DEF Exists, ClipMap
    <2>1. /\ parent \in Clip /\ parent.regs = s.clips[op.clip].regs
          /\ parent.detached = s.clips[op.clip].detached
        <3>1. parent \in Clip
            BY <1>1, <2>0, RecordSplitTyped
        <3> QED
            BY <2>0, <3>1 DEF RecordSplit, Clip
    <2>2. /\ child \in Clip /\ ~child.detached
          /\ child.regs = [f \in ClipField |-> NewInitial(0)]
        <3>1. child \in Clip
            BY <1>1, ClipFromSplitTyped DEF Claim
        <3> QED
            BY <3>1 DEF ClipFromSplit
    <2>3. ApplySplit(s, op, tag) = Ok(new)
        BY <1>1, <1>4 DEF ApplySplit, SessionState
    <2> HIDE DEF parent, child
    <2>4. new.clips = clips /\ SameBut(s, new, "clips")
        BY DEF SessionState, SameBut
    <2>5. /\ clips[op.clip] = parent /\ clips[op.new_clip] = child
          /\ \A c \in ClipId \ {op.clip, op.new_clip} : clips[c] = s.clips[c]
        BY <1>1, <1>4 DEF ClipMap
    <2>6. parent # Vacant /\ child # Vacant
        BY <2>1, <2>2, VacantAssumption
    <2> HIDE DEF clips, new
    <2>7. ASSUME NEW c \in ClipId
          PROVE  /\ Exists(s.clips, c) => /\ Exists(clips, c)
                                          /\ clips[c].regs = s.clips[c].regs
                                          /\ clips[c].detached = s.clips[c].detached
                 /\ ~Exists(s.clips, c) /\ Exists(clips, c) =>
                        /\ c = op.new_clip
                        /\ clips[c].regs = [f \in ClipField |-> NewInitial(0)]
                        /\ ~clips[c].detached
        <3>1. CASE c = op.clip
            BY <1>4, <2>1, <2>5, <2>6, <3>1 DEF Exists
        <3>2. CASE c = op.new_clip
            BY <1>4, <2>2, <2>5, <3>2 DEF Exists
        <3>3. CASE c \notin {op.clip, op.new_clip}
            BY <2>5, <3>3 DEF Exists
        <3> QED
            BY <3>1, <3>2, <3>3
    <2>8. Exists(clips, op.new_clip)
        BY <2>5, <2>6 DEF Exists
    <2>9. Ok(new).ok /\ Ok(new).session = new
        BY DEF Ok
    <2>10. SplitKeeps(s, op, Ok(new))
        BY <1>4, <2>4, <2>7, <2>8, <2>9 DEF SplitKeeps
    <2> QED
        BY <2>3, <2>10
<1>5. CASE /\ op.clip # op.new_clip
           /\ ~Exists(s.clips, op.new_clip) /\ ~Exists(s.clips, op.clip)
    <2>1. ApplySplit(s, op, tag) = UnknownTarget(s)
        BY <1>5 DEF ApplySplit
    <2>2. SplitKeeps(s, op, UnknownTarget(s))
        BY <1>5 DEF SplitKeeps, SameBut, UnknownTarget
    <2> QED
        BY <2>1, <2>2
<1> QED
    BY <1>2, <1>3, <1>4, <1>5

\* The track a track edit leaves: changed in place, or made by InsertTrack.
EditedTrack(old, op, tag) ==
    IF old # Vacant
    THEN [old EXCEPT !.alive = SetAlive(@, op, tag),
                     !.regs = SetAll(@, op.writes, tag)]
    ELSE [alive |-> Written(TRUE, tag), regs |-> AllWritten(op.writes, tag)]

\* It is a track, and its registers are those of the edit.
LEMMA EditedTrackTyped ==
    ASSUME NEW old \in Track \cup {Vacant}, NEW op \in TrackEdit,
           old # Vacant \/ op.type = "InsertTrack", NEW tag \in OpTag
    PROVE  LET new == EditedTrack(old, op, tag)
           IN  /\ new \in Track
               /\ new.regs = IF old # Vacant
                             THEN SetAll(old.regs, op.writes, tag)
                             ELSE AllWritten(op.writes, tag)
               /\ new.alive = IF old # Vacant THEN SetAlive(old.alive, op, tag)
                              ELSE Written(TRUE, tag)
<1>1. CASE old # Vacant
    <2>1. SetAlive(old.alive, op, tag) \in Register(BOOLEAN)
        BY <1>1, SetAliveTyped DEF Track
    <2>2. SetAll(old.regs, op.writes, tag) \in [TrackField -> Register(Nat)]
        BY <1>1, SetAllTyped, WritesTyped DEF Track
    <2> QED
        BY <1>1, <2>1, <2>2 DEF Track, EditedTrack
<1>2. CASE old = Vacant
    <2>1. op.writes \in [TrackField -> Nat]
        BY <1>2 DEF TrackEdit
    <2>2. AllWritten(op.writes, tag) \in [TrackField -> Register(Nat)]
        BY <2>1, WrittenTyped DEF AllWritten
    <2>3. Written(TRUE, tag) \in Register(BOOLEAN)
        BY WrittenTyped
    <2> QED
        BY <1>2, <2>2, <2>3 DEF Track, EditedTrack
<1> QED
    BY <1>1, <1>2

\* A track edit changes its track and nothing else, and fails as a clip edit
\* does.
LEMMA TrackEditEffect ==
    ASSUME NEW s \in SessionState, NEW op \in TrackEdit, NEW tag \in OpTag
    PROVE  LET r == ApplyTrackEdit(s, op, tag)
           IN  /\ SameBut(s, r.session, "tracks")
               /\ \A t \in TrackId \ {op.track} :
                        r.session.tracks[t] = s.tracks[t]
               /\ r.ok => /\ r.session.tracks[op.track] =
                                EditedTrack(s.tracks[op.track], op, tag)
                          /\ Exists(r.session.tracks, op.track)
                          /\ ~Exists(s.tracks, op.track) => op.type = "InsertTrack"
               /\ ~r.ok => /\ r.session = s
                           /\ ~Exists(s.tracks, op.track)
                           /\ op.type # "InsertTrack"
<1> DEFINE r == ApplyTrackEdit(s, op, tag)
           new == EditedTrack(s.tracks[op.track], op, tag)
<1>1. op.track \in TrackId /\ s.tracks \in [TrackId -> Track \cup {Vacant}]
    BY DEF TrackEdit, SessionState
<1>2. CASE Exists(s.tracks, op.track) \/ op.type = "InsertTrack"
    <2>1. r.ok /\ r.session = [s EXCEPT !.tracks[op.track] = new]
        BY <1>1, <1>2 DEF ApplyTrackEdit, SessionState, Ok, EditedTrack, Exists
    <2>2. new \in Track
        BY <1>1, <1>2, EditedTrackTyped DEF Exists
    <2> HIDE DEF new, r
    <2>3. /\ r.session.tracks = [s.tracks EXCEPT ![op.track] = new]
          /\ SameBut(s, r.session, "tracks")
        BY <2>1 DEF SessionState, SameBut
    <2>4. /\ r.session.tracks[op.track] = new
          /\ \A t \in TrackId \ {op.track} : r.session.tracks[t] = s.tracks[t]
        BY <1>1, <2>3
    <2>5. Exists(r.session.tracks, op.track)
        BY <2>2, <2>4, VacantAssumption DEF Exists
    <2> QED
        BY <1>2, <2>1, <2>3, <2>4, <2>5 DEF r, new
<1>3. CASE ~Exists(s.tracks, op.track) /\ op.type # "InsertTrack"
    <2>1. ~r.ok /\ r.session = s
        BY <1>3 DEF ApplyTrackEdit, UnknownTarget
    <2> HIDE DEF r
    <2> QED
        BY <1>3, <2>1 DEF SameBut, r
<1> QED
    BY <1>2, <1>3

\* An envelope edit changes its envelope and nothing else.
LEMMA EnvelopeEffect ==
    ASSUME NEW s \in SessionState, NEW op \in EnvelopeEdit, NEW tag \in OpTag
    PROVE  LET r == ApplyEnvelope(s, op, tag)
           IN  /\ SameBut(s, r.session, "envelopes")
               /\ r.ok <=> TargetExists(s, op.target)
               /\ r.ok => r.session.envelopes =
                    [s.envelopes EXCEPT
                        ![op.target] = Set(s.envelopes[op.target], op.points, tag)]
               /\ ~r.ok => r.session = s
<1> DEFINE new == Set(s.envelopes[op.target], op.points, tag)
<1>1. CASE TargetExists(s, op.target)
    <2>1. ApplyEnvelope(s, op, tag) = Ok([s EXCEPT !.envelopes[op.target] = new])
        BY <1>1 DEF ApplyEnvelope, SessionState
    <2> HIDE DEF new
    <2>2. [s EXCEPT !.envelopes[op.target] = new].envelopes
            = [s.envelopes EXCEPT ![op.target] = new]
        BY DEF SessionState
    <2>3. SameBut(s, [s EXCEPT !.envelopes[op.target] = new], "envelopes")
        BY DEF SessionState, SameBut
    <2> DEFINE r == ApplyEnvelope(s, op, tag)
    <2>4. r.ok /\ r.session = [s EXCEPT !.envelopes[op.target] = new]
        BY <2>1 DEF Ok
    <2> HIDE DEF r
    <2>5. /\ r.session.envelopes = [s.envelopes EXCEPT ![op.target] = new]
          /\ SameBut(s, r.session, "envelopes")
        BY <2>2, <2>3, <2>4
    <2> QED
        BY <1>1, <2>4, <2>5 DEF new, r
<1>2. CASE ~TargetExists(s, op.target)
    <2>1. ApplyEnvelope(s, op, tag) = UnknownTarget(s)
        BY <1>2 DEF ApplyEnvelope
    <2> QED
        BY <1>2, <2>1 DEF UnknownTarget, SameBut
<1> QED
    BY <1>1, <1>2

\* A metadata edit changes the metadata and nothing else, and never fails.
LEMMA MetadataEffect ==
    ASSUME NEW s \in SessionState, NEW op \in MetadataEdit, NEW tag \in OpTag
    PROVE  LET r == Apply(s, op, tag)
           IN  /\ SameBut(s, r.session, "metadata")
               /\ r.session.metadata = SetAll(s.metadata, op.writes, tag)
               /\ r.ok
<1> DEFINE new == SetAll(s.metadata, op.writes, tag)
<1>1. op.type = "UpdateSessionMetadata"
    BY DEF MetadataEdit
<1>2. Apply(s, op, tag) = Ok([s EXCEPT !.metadata = new])
    BY <1>1 DEF Apply
<1> HIDE DEF new
<1>3. /\ [s EXCEPT !.metadata = new].metadata = new
      /\ SameBut(s, [s EXCEPT !.metadata = new], "metadata")
    BY DEF SessionState, SameBut
<1> DEFINE r == Apply(s, op, tag)
<1>4. r.ok /\ r.session = [s EXCEPT !.metadata = new]
    BY <1>2 DEF Ok
<1> HIDE DEF r
<1>5. r.session.metadata = new /\ SameBut(s, r.session, "metadata")
    BY <1>3, <1>4
<1> QED
    BY <1>4, <1>5 DEF new, r

\* Which kind of operation Session::apply hands to which entity.
LEMMA ApplyDispatch ==
    ASSUME NEW s, NEW op \in Operation, NEW tag
    PROVE  /\ op \in ClipEdit => Apply(s, op, tag) = ApplyClipEdit(s, op, tag)
           /\ op \in SplitEdit => Apply(s, op, tag) = ApplySplit(s, op, tag)
           /\ op \in TrackEdit => Apply(s, op, tag) = ApplyTrackEdit(s, op, tag)
           /\ op \in EnvelopeEdit => Apply(s, op, tag) = ApplyEnvelope(s, op, tag)
<1>1. op \in ClipEdit => op.type \in {"InsertClip", "MoveClip", "TrimClip",
                                      "UpdateClipMetadata", "DeleteClip"}
    BY DEF ClipEdit
<1>2. op \in TrackEdit =>
        op.type \in {"InsertTrack", "UpdateTrackMetadata", "DeleteTrack"}
    BY DEF TrackEdit
<1>3. /\ op \in SplitEdit => op.type = "SplitClip"
      /\ op \in EnvelopeEdit => op.type = "UpdateEnvelope"
    BY DEF SplitEdit, EnvelopeEdit
<1> QED
    BY <1>1, <1>2, <1>3 DEF Apply

\* No operation is of two kinds.
LEMMA KindsApart ==
    ASSUME NEW op \in Operation
    PROVE  /\ op \in ClipEdit => op \notin SplitEdit \cup TrackEdit
                                        \cup EnvelopeEdit \cup MetadataEdit
           /\ op \in SplitEdit => op \notin TrackEdit \cup EnvelopeEdit
                                        \cup MetadataEdit
           /\ op \in TrackEdit => op \notin EnvelopeEdit \cup MetadataEdit
           /\ op \in EnvelopeEdit => op \notin MetadataEdit
<1>1. op \in ClipEdit => op.type \in {"InsertClip", "MoveClip", "TrimClip",
                                      "UpdateClipMetadata", "DeleteClip"}
    BY DEF ClipEdit
<1>2. op \in TrackEdit =>
        op.type \in {"InsertTrack", "UpdateTrackMetadata", "DeleteTrack"}
    BY DEF TrackEdit
<1>3. /\ op \in SplitEdit => op.type = "SplitClip"
      /\ op \in EnvelopeEdit => op.type = "UpdateEnvelope"
      /\ op \in MetadataEdit => op.type = "UpdateSessionMetadata"
    BY DEF SplitEdit, EnvelopeEdit, MetadataEdit
<1> QED
    BY <1>1, <1>2, <1>3

\* What exists before an operation exists after it, and an operation that
\* fails makes nothing and fails for want of a target: the two facts the
\* drain of the buffer rests on.
THEOREM ApplyExists ==
    ASSUME NEW s \in SessionState, NEW op \in Operation, NEW tag \in OpTag
    PROVE  LET r == Apply(s, op, tag)
           IN  /\ \A t \in Target : /\ TargetExists(s, t)
                                         => TargetExists(r.session, t)
                                    /\ ~r.ok => (TargetExists(s, t)
                                         <=> TargetExists(r.session, t))
               /\ ~r.ok => MissingTargets(s, op) # {}
<1> DEFINE r == Apply(s, op, tag)
<1>0. ASSUME NEW t \in Target
      PROVE  \/ t[1] = "clip" /\ t[2] \in ClipId
             \/ t[1] = "track" /\ t[2] \in TrackId
    BY DEF Target
<1>1. CASE op \in ClipEdit
    <2>1. r = ApplyClipEdit(s, op, tag) /\ op.clip \in ClipId
        BY <1>1, ApplyDispatch DEF ClipEdit
    <2> HIDE DEF r
    <2>2. /\ r.session.tracks = s.tracks
          /\ \A c \in ClipId : Exists(s.clips, c) => Exists(r.session.clips, c)
          /\ ~r.ok => r.session = s /\ ~Exists(s.clips, op.clip)
                        /\ op.type # "InsertClip"
        BY <1>1, <2>1, ClipEditEffect DEF SameBut, Exists
    <2>3. ~r.ok => MissingTargets(s, op) = {<<"clip", op.clip>>}
        <3>1. SUFFICES ASSUME ~r.ok
                       PROVE  MissingTargets(s, op) = {<<"clip", op.clip>>}
            OBVIOUS
        <3>2. ~TargetExists(s, <<"clip", op.clip>>)
            BY <2>2, <3>1 DEF TargetExists
        <3>3. op.type \in {"MoveClip", "TrimClip", "UpdateClipMetadata",
                           "DeleteClip"}
            BY <1>1, <2>2, <3>1 DEF ClipEdit
        <3> QED
            BY <3>2, <3>3 DEF MissingTargets
    <2> QED
        BY <1>0, <2>2, <2>3 DEF TargetExists, r
<1>2. CASE op \in SplitEdit
    <2>1. r = ApplySplit(s, op, tag) /\ op.clip \in ClipId /\ op.type = "SplitClip"
        BY <1>2, ApplyDispatch DEF SplitEdit
    <2> HIDE DEF r
    <2>2. SplitKeeps(s, op, r)
        BY <1>2, <2>1, SplitEffect
    <2>3. /\ r.session.tracks = s.tracks
          /\ \A c \in ClipId :
                /\ Exists(s.clips, c) => Exists(r.session.clips, c)
                /\ ~r.ok /\ Exists(r.session.clips, c) => Exists(s.clips, c)
          /\ ~r.ok => ~Exists(s.clips, op.clip)
        BY <2>2 DEF SplitKeeps, SameBut
    <2>4. ~r.ok => MissingTargets(s, op) = {<<"clip", op.clip>>}
        <3>1. SUFFICES ASSUME ~r.ok
                       PROVE  MissingTargets(s, op) = {<<"clip", op.clip>>}
            OBVIOUS
        <3>2. ~TargetExists(s, <<"clip", op.clip>>)
            BY <2>3, <3>1 DEF TargetExists
        <3> QED
            BY <2>1, <3>2 DEF MissingTargets
    <2> QED
        BY <1>0, <2>3, <2>4 DEF TargetExists, r
<1>3. CASE op \in TrackEdit
    <2>1. r = ApplyTrackEdit(s, op, tag) /\ op.track \in TrackId
        BY <1>3, ApplyDispatch DEF TrackEdit
    <2> HIDE DEF r
    <2>2. /\ r.session.clips = s.clips
          /\ \A k \in TrackId : Exists(s.tracks, k) => Exists(r.session.tracks, k)
          /\ ~r.ok => r.session = s /\ ~Exists(s.tracks, op.track)
                        /\ op.type # "InsertTrack"
        <3>1. /\ SameBut(s, r.session, "tracks")
              /\ \A k \in TrackId \ {op.track} :
                        r.session.tracks[k] = s.tracks[k]
              /\ r.ok => Exists(r.session.tracks, op.track)
              /\ ~r.ok => r.session = s /\ ~Exists(s.tracks, op.track)
                            /\ op.type # "InsertTrack"
            BY <1>3, <2>1, TrackEditEffect
        <3>2. ASSUME NEW k \in TrackId, Exists(s.tracks, k)
              PROVE  Exists(r.session.tracks, k)
            BY <3>1, <3>2 DEF Exists
        <3> QED
            BY <3>1, <3>2 DEF SameBut
    <2>3. ~r.ok => MissingTargets(s, op) = {<<"track", op.track>>}
        <3>1. SUFFICES ASSUME ~r.ok
                       PROVE  MissingTargets(s, op) = {<<"track", op.track>>}
            OBVIOUS
        <3>2. ~TargetExists(s, <<"track", op.track>>)
            BY <2>2, <3>1 DEF TargetExists
        <3>3. op.type \in {"UpdateTrackMetadata", "DeleteTrack"}
            BY <1>3, <2>2, <3>1 DEF TrackEdit
        <3> QED
            BY <3>2, <3>3 DEF MissingTargets
    <2> QED
        BY <1>0, <2>2, <2>3 DEF TargetExists, r
<1>4. CASE op \in EnvelopeEdit
    <2>1. /\ r = ApplyEnvelope(s, op, tag) /\ op.type = "UpdateEnvelope"
        BY <1>4, ApplyDispatch DEF EnvelopeEdit
    <2> HIDE DEF r
    <2>2. /\ r.session.clips = s.clips /\ r.session.tracks = s.tracks
          /\ ~r.ok => ~TargetExists(s, op.target)
        <3>1. SameBut(s, r.session, "envelopes") /\ (r.ok <=> TargetExists(s, op.target))
            BY <1>4, <2>1, EnvelopeEffect
        <3> QED
            BY <3>1 DEF SameBut
    <2>3. ASSUME ~r.ok
          PROVE  MissingTargets(s, op) = {op.target}
        <3>1. MissingTargets(s, op) = {t \in {op.target} : ~TargetExists(s, t)}
            BY <2>1 DEF MissingTargets
        <3>2. ~TargetExists(s, op.target)
            BY <2>2, <2>3
        <3> QED
            BY <3>1, <3>2
    <2> QED
        BY <2>2, <2>3 DEF TargetExists, r
<1>5. CASE op \in MetadataEdit
    <2>1. r.session.clips = s.clips /\ r.session.tracks = s.tracks /\ r.ok
        BY <1>5, MetadataEffect DEF SameBut
    <2> QED
        BY <2>1 DEF TargetExists
<1> QED
    BY <1>1, <1>2, <1>3, <1>4, <1>5 DEF Operation

\* Each kind of operation leaves the other parts of the session alone.
LEMMA ApplyElsewhere ==
    ASSUME NEW s \in SessionState, NEW op \in Operation, NEW tag \in OpTag
    PROVE  /\ op \notin ClipEdit \cup SplitEdit
                => Apply(s, op, tag).session.clips = s.clips
           /\ op \notin TrackEdit
                => Apply(s, op, tag).session.tracks = s.tracks
           /\ op \notin EnvelopeEdit
                => Apply(s, op, tag).session.envelopes = s.envelopes
           /\ op \notin MetadataEdit
                => Apply(s, op, tag).session.metadata = s.metadata
<1> DEFINE r == Apply(s, op, tag).session
<1>1. CASE op \in ClipEdit
    <2>1. SameBut(s, r, "clips")
        BY <1>1, ApplyDispatch, ClipEditEffect
    <2> QED
        BY <1>1, <2>1 DEF SameBut
<1>2. CASE op \in SplitEdit
    <2>1. SameBut(s, r, "clips")
        BY <1>2, ApplyDispatch, SplitEffect DEF SplitKeeps
    <2> QED
        BY <1>2, <2>1 DEF SameBut
<1>3. CASE op \in TrackEdit
    <2>1. SameBut(s, r, "tracks")
        BY <1>3, ApplyDispatch, TrackEditEffect
    <2> QED
        BY <1>3, <2>1 DEF SameBut
<1>4. CASE op \in EnvelopeEdit
    <2>1. SameBut(s, r, "envelopes")
        <3>1. SameBut(s, ApplyEnvelope(s, op, tag).session, "envelopes")
            BY <1>4, EnvelopeEffect
        <3>2. Apply(s, op, tag) = ApplyEnvelope(s, op, tag)
            BY <1>4, ApplyDispatch
        <3> QED
            BY <3>1, <3>2
    <2> QED
        BY <1>4, <2>1 DEF SameBut
<1>5. CASE op \in MetadataEdit
    <2>1. SameBut(s, r, "metadata")
        BY <1>5, MetadataEffect
    <2> QED
        BY <1>5, <2>1 DEF SameBut
<1> QED
    BY <1>1, <1>2, <1>3, <1>4, <1>5 DEF Operation

\* What an operation misses depends on what exists and on nothing else.
LEMMA MissingSame ==
    ASSUME NEW s, NEW r, NEW op \in Operation,
           \A t \in Target : TargetExists(s, t) <=> TargetExists(r, t)
    PROVE  MissingTargets(s, op) = MissingTargets(r, op)
<1> DEFINE Without(x, S) == {t \in S : ~TargetExists(x, t)}
<1>1. ASSUME NEW S \in SUBSET Target
      PROVE  Without(s, S) = Without(r, S)
    OBVIOUS
<1>2. CASE op \in ClipEdit
    <2>1. CASE op.type = "InsertClip"
        BY <2>1 DEF MissingTargets
    <2>2. CASE op.type # "InsertClip"
        <3>1. op.type \in {"MoveClip", "TrimClip", "UpdateClipMetadata",
                           "DeleteClip"}
            BY <1>2, <2>2 DEF ClipEdit
        <3>2. /\ MissingTargets(s, op) = Without(s, {<<"clip", op.clip>>})
              /\ MissingTargets(r, op) = Without(r, {<<"clip", op.clip>>})
            BY <3>1 DEF MissingTargets
        <3>3. {<<"clip", op.clip>>} \in SUBSET Target
            BY <1>2 DEF Target, ClipEdit
        <3> HIDE DEF Without
        <3> QED
            BY <1>1, <3>2, <3>3
    <2> QED
        BY <2>1, <2>2
<1>3. CASE op \in SplitEdit
    <2>1. op.type = "SplitClip"
        BY <1>3 DEF SplitEdit
    <2>2. /\ MissingTargets(s, op) = Without(s, {<<"clip", op.clip>>})
          /\ MissingTargets(r, op) = Without(r, {<<"clip", op.clip>>})
        BY <2>1 DEF MissingTargets
    <2>3. {<<"clip", op.clip>>} \in SUBSET Target
        BY <1>3 DEF Target, SplitEdit
    <2> HIDE DEF Without
    <2> QED
        BY <1>1, <2>2, <2>3
<1>4. CASE op \in TrackEdit
    <2>1. CASE op.type = "InsertTrack"
        BY <2>1 DEF MissingTargets
    <2>2. CASE op.type # "InsertTrack"
        <3>1. op.type \in {"UpdateTrackMetadata", "DeleteTrack"}
            BY <1>4, <2>2 DEF TrackEdit
        <3>2. /\ MissingTargets(s, op) = Without(s, {<<"track", op.track>>})
              /\ MissingTargets(r, op) = Without(r, {<<"track", op.track>>})
            BY <3>1 DEF MissingTargets
        <3>3. {<<"track", op.track>>} \in SUBSET Target
            BY <1>4 DEF Target, TrackEdit
        <3> HIDE DEF Without
        <3> QED
            BY <1>1, <3>2, <3>3
    <2> QED
        BY <2>1, <2>2
<1>5. CASE op \in EnvelopeEdit
    <2>1. op.type = "UpdateEnvelope" /\ {op.target} \in SUBSET Target
        BY <1>5 DEF EnvelopeEdit
    <2>2. /\ MissingTargets(s, op) = Without(s, {op.target})
          /\ MissingTargets(r, op) = Without(r, {op.target})
        BY <2>1 DEF MissingTargets
    <2> HIDE DEF Without
    <2> QED
        BY <1>1, <2>1, <2>2
<1>6. CASE op \in MetadataEdit
    BY <1>6 DEF MissingTargets, MetadataEdit
<1> QED
    BY <1>2, <1>3, <1>4, <1>5, <1>6 DEF Operation

=============================================================================
