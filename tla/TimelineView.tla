---------------------------- MODULE TimelineView ----------------------------
(***************************************************************************)
(* The replication engine seen by an application: properties of the view   *)
(* that every replica resolves from its session while operations arrive.   *)
(***************************************************************************)
EXTENDS TimelineCrdt, SessionView

Clips(p) ==
    {c \in ClipId : Exists(crdt[p].session.clips, c)
                        /\ ~Cyclic(crdt[p].session, c)}

\* The clip at the top of a piece's chain, and all the pieces it was cut into.
RootOf(p, c) ==
    LET up == Chain(crdt[p].session, c)
    IN  up[CHOOSE k \in 0..(Depth - 1) : up[k] # Vacant /\ up[k + 1] = Vacant]
Pieces(p, c) == {d \in Clips(p) : RootOf(p, d) = c}

Frames(from, length) == {f \in 0..MaxFrame : from <= f /\ f < from + length}
FramesOf(p, c) ==
    LET place == Geometry(crdt[p].session, c)
    IN  IF place = NoRange THEN {} ELSE Frames(place[1], place[2])

\* Pieces that all live where their splits put them.
Attached(p, c) ==
    \A d \in Pieces(p, c) :
        LET clip == crdt[p].session.clips[d]
        IN  clip.alive.value /\ (d # c => ~clip.detached)

\* However splits of a clip and of its pieces, and trims of the clip, arrive:
\* its pieces cover the clip's own range, and no frame belongs to two of them.
PiecesTileTheClip ==
    \A p \in Peers : \A c \in Clips(p) :
        LET clip == crdt[p].session.clips[c]
            own  == OwnRange(clip)
        IN  clip.parent = NoParent /\ Attached(p, c) =>
                /\ UNION {FramesOf(p, d) : d \in Pieces(p, c)}
                        = Frames(own[1], own[2] - own[1])
                /\ \A d, e \in Pieces(p, c) :
                        d # e => FramesOf(p, d) \cap FramesOf(p, e) = {}

\* A piece that has not written a field shows what the clip it was cut from
\* shows, at any depth: rename the original and every un-renamed piece follows.
UnwrittenFollowsParent ==
    \A p \in Peers : \A c \in Clips(p) : \A f \in ClipField :
        LET s == crdt[p].session
        IN  Unwritten(s.clips[c].regs[f]) /\ ParentOf(s, c) # Vacant
                => Inherited(s, c, f) = Inherited(s, ParentOf(s, c), f)

\* The other half of that sentence: a piece that has been renamed does not
\* follow, it shows its own name.
WrittenFieldsShow ==
    \A p \in Peers : \A c \in Clips(p) : \A f \in ClipField :
        LET reg == crdt[p].session.clips[c].regs[f]
        IN  ~Unwritten(reg) => Inherited(crdt[p].session, c, f) = reg.value

\* Moving a clip that the user sees, on a track that exists, leaves a clip
\* that the user sees.
MovedClipStaysVisible ==
    [][\A p \in Peers : \A op \in Edits[p] :
        op.type = "MoveClip" /\ Issue(p, op)
            /\ TrackAlive(crdt[p].session, op.writes["track"])
            /\ Visible(crdt[p].session, op.clip)
                => Visible(crdt[p].session, op.clip)']_vars

=============================================================================
