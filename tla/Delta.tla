-------------------------------- MODULE Delta --------------------------------
(***************************************************************************)
(* Delta compression of tpt-av-sync-crdt (delta.rs): compute_delta lists   *)
(* the operations that lead from one view to another, apply_delta applies  *)
(* them to a bare session.  Here the two are used as DESIGN.md describes   *)
(* them, to bring one replica to what another one shows.                   *)
(***************************************************************************)
EXTENDS TimelineCrdt, SessionView

LOCAL INSTANCE SequencesExt

\* An operation of the delta, if there is something for it to say.
When(needed, op) == IF needed THEN <<op>> ELSE <<>>

Differing(fields, prev, now) == {f \in fields : prev[f] # now[f]}
Taken(fields, record) == [f \in fields |-> record[f]]

\* ops[x]: the operations for the entity x; one entity after the other.
ForEach(ops) ==
    LET order == SetToSeq(DOMAIN ops)
    IN  FlattenSeq([k \in DOMAIN order |-> ops[order[k]]])

-----------------------------------------------------------------------------
(* compute_delta                                                           *)

TrackDelta(old, new, t) ==
    LET changed == Differing({"name", "order_hint"}, old[t], new[t])
    IN  IF t \notin DOMAIN old
        THEN <<[type |-> "InsertTrack", track |-> t, writes |-> new[t]]>>
        ELSE When(changed # {},
                  [type |-> "UpdateTrackMetadata", track |-> t,
                   writes |-> Taken(changed, new[t])])

\* Mutant: a clip that has been moved is not trimmed as well.
ClipDeltaEither(old, new, c) ==
    LET Changed(fields) == Differing(fields, old[c], new[c])
    IN  IF c \notin DOMAIN old
        THEN <<[type |-> "InsertClip", clip |-> c,
                writes |-> [new[c] EXCEPT !["gain"] = 0]]>>
        ELSE IF Changed(MoveField) # {}
        THEN <<[type |-> "MoveClip", clip |-> c,
                writes |-> Taken(MoveField, new[c])]>>
        ELSE When(Changed({"duration_frames"}) # {},
                  [type |-> "TrimClip", clip |-> c,
                   writes |-> Taken(TrimField, new[c])])

\* An insert does not carry the gain.
ClipDelta(old, new, c) ==
    LET Changed(fields) == Differing(fields, old[c], new[c])
    IN  IF c \notin DOMAIN old
        THEN <<[type |-> "InsertClip", clip |-> c,
                writes |-> [new[c] EXCEPT !["gain"] = 0]]>>
        ELSE When(Changed(MoveField) # {},
                  [type |-> "MoveClip", clip |-> c,
                   writes |-> Taken(MoveField, new[c])])
             \o When(Changed({"duration_frames"}) # {},
                     [type |-> "TrimClip", clip |-> c,
                      writes |-> Taken(TrimField, new[c])])
             \o When(Changed({"name", "gain"}) # {},
                     [type |-> "UpdateClipMetadata", clip |-> c,
                      writes |-> Taken(Changed({"name", "gain"}), new[c])])

Removal(type, id) ==
    IF type = "DeleteTrack"
    THEN [type |-> type, track |-> id, writes |-> NoWrites]
    ELSE [type |-> type, clip |-> id, writes |-> NoWrites]

MetadataDelta(old, new) ==
    LET changed == Differing(MetaField, old, new)
    IN  When(changed # {}, [type |-> "UpdateSessionMetadata",
                            writes |-> Taken(changed, new)])

EnvelopeDelta(old, new, e) ==
    When(IF e \in DOMAIN old THEN old[e] # new[e] ELSE TRUE,
         [type |-> "UpdateEnvelope", target |-> e, points |-> new[e]])

\* Nothing is said of an envelope that only the old view has.
ComputeDelta(old, new) ==
    ForEach([t \in DOMAIN new.tracks |-> TrackDelta(old.tracks, new.tracks, t)])
    \o ForEach([t \in DOMAIN old.tracks \ DOMAIN new.tracks |->
                    <<Removal("DeleteTrack", t)>>])
    \o MetadataDelta(old.metadata, new.metadata)
    \o ForEach([c \in DOMAIN new.clips |-> ClipDelta(old.clips, new.clips, c)])
    \o ForEach([c \in DOMAIN old.clips \ DOMAIN new.clips |->
                    <<Removal("DeleteClip", c)>>])
    \o ForEach([e \in DOMAIN new.envelopes |->
                    EnvelopeDelta(old.envelopes, new.envelopes, e)])

-----------------------------------------------------------------------------
(* apply_delta: each operation ranks above the one before, and one that    *)
(* fails is passed over.                                                   *)

ApplyDelta(s, delta, base) ==
    LET rank(i) == [lamport |-> base.lamport + i - 1, peer |-> base.peer]
        after[i \in 0..Len(delta)] ==
            IF i = 0 THEN s
            ELSE Apply(after[i - 1], delta[i], rank(i)).session
    IN  after[Len(delta)]

-----------------------------------------------------------------------------
(* Properties                                                              *)

\* The code asks for a tag above every tag of the session.
Fresh == [lamport |-> MaxLamport + 1, peer |-> Least(Peers)]

\* Without these the code does not keep its word: the old session has no
\* pieces, no clips that only want for a track, and no envelope the new one
\* lacks; the targets of the new envelopes are there; and no clip is new that
\* has a gain.
InReach(s, old, new) ==
    /\ \A c \in ClipId : Exists(s.clips, c) =>
          /\ s.clips[c].splits = {}
          /\ s.clips[c].alive.value => c \in DOMAIN old.clips
    /\ DOMAIN old.envelopes \subseteq DOMAIN new.envelopes
    /\ \A e \in DOMAIN new.envelopes :
          \/ TargetExists(s, e)
          \/ e[2] \in DOMAIN (IF e[1] = "clip" THEN new.clips ELSE new.tracks)
    /\ \A c \in DOMAIN new.clips \ DOMAIN old.clips : new.clips[c]["gain"] = 0

Reaches(s, old, new) ==
    InReach(s, old, new) =>
        View(ApplyDelta(s, ComputeDelta(old, new), Fresh)) = new

\* A delta brings a replica from what it shows to what any other one shows,
\* whatever is hidden in its session: deleted clips and tracks that come back,
\* clips that have been moved, trimmed and renamed since.
DeltaReaches ==
    \A p, q \in Peers : p # q =>
        Reaches(crdt[p].session, View(crdt[p].session), View(crdt[q].session))

=============================================================================
