---------------------------- MODULE SessionView ----------------------------
(***************************************************************************)
(* What the application sees of a session: Session::resolve_clip and       *)
(* Session::materialize (state.rs).  A clip made by a split inherits the   *)
(* fields it has not written, and its place, from the chain of clips it    *)
(* was split from.                                                         *)
(*                                                                         *)
(* The lists of the view are sets here: their order is a function of what  *)
(* is in them.                                                             *)
(***************************************************************************)
EXTENDS Session

\* A session holds finitely many clips, so a chain that ends does so within
\* Depth steps, and what stands for its end is no clip.
ASSUME ViewAssumption == IsFiniteSet(ClipId) /\ Vacant \notin ClipId

SatAdd(a, b) == IF a + b < MaxFrame THEN a + b ELSE MaxFrame
SatSub(a, b) == IF a > b THEN a - b ELSE 0

Least(S) == CHOOSE n \in S : \A m \in S : n <= m
Smaller(a, b) == IF a <= b THEN a ELSE b
Larger(a, b) == IF a >= b THEN a ELSE b

-----------------------------------------------------------------------------
(* The chain of parents                                                    *)

Depth == Cardinality(ClipId)

\* The clip a clip was split from, if it is known here.
ParentOf(s, c) ==
    LET link == s.clips[c].parent
    IN  IF link # NoParent /\ Exists(s.clips, link[1]) THEN link[1] ELSE Vacant

\* Chain(s, c)[k] is the k-th clip up from c, Vacant past the top.
Chain(s, c) ==
    LET up[k \in 0..Depth] ==
            IF k = 0 THEN c
            ELSE IF up[k - 1] = Vacant THEN Vacant
            ELSE ParentOf(s, up[k - 1])
    IN  up

\* The chain never ends: the code walks it for ever.
Cyclic(s, c) == Chain(s, c)[Depth] # Vacant

-----------------------------------------------------------------------------
(* Inherited fields                                                        *)

\* Mutant: the parent's value, whether the clip has written its own or not.
InheritedAlways(s, c, f) ==
    IF ParentOf(s, c) = Vacant THEN s.clips[c].regs[f].value
    ELSE s.clips[ParentOf(s, c)].regs[f].value

\* The loop of resolve_clip goes all the way up and takes the parent's value
\* at every clip that has not written the field, so the last such clip counts.
InheritedAlong(s, up, f) ==
    LET open == {k \in 0..(Depth - 1) :
                    /\ up[k] # Vacant /\ up[k + 1] # Vacant
                    /\ Unwritten(s.clips[up[k]].regs[f])}
        from == IF open = {} THEN 0 ELSE 1 + (CHOOSE k \in open :
                                                \A j \in open : j <= k)
    IN  s.clips[up[from]].regs[f].value

Inherited(s, c, f) == InheritedAlong(s, Chain(s, c), f)

-----------------------------------------------------------------------------
(* Geometry                                                                *)

NoRange == <<>>

SplitOffsets(clip) == {e[1] : e \in clip.splits}

OwnRange(clip) ==
    LET start == clip.regs["start_frame"].value
    IN  <<start, SatAdd(start, clip.regs["duration_frames"].value)>>

\* Mutant: a piece runs to the end of its parent whatever split comes next.
SegmentToTail(parent, range, offset) == <<SatAdd(range[1], offset), range[2]>>

\* The piece of the parent's range that starts at offset: it ends where the
\* parent's next split point is.
Segment(parent, range, offset) ==
    LET next  == {o \in SplitOffsets(parent) : o > offset}
        end   == IF next = {} THEN SatSub(range[2], range[1]) ELSE Least(next)
        start == SatAdd(range[1], offset)
    IN  <<start, Larger(Smaller(SatAdd(range[1], end), range[2]), start)>>

\* A clip's range, given that of the clip it was split from.
RangeBelow(s, clip, parent, above) ==
    IF clip.parent = NoParent
    THEN IF \E f \in TrimField : Unwritten(clip.regs[f])
         THEN NoRange ELSE OwnRange(clip)
    ELSE IF clip.detached THEN OwnRange(clip)
    ELSE IF parent = Vacant \/ above = NoRange THEN NoRange
    ELSE IF ~s.clips[parent].alive.value THEN NoRange
    ELSE Segment(s.clips[parent], above, clip.parent[2])

\* resolve_full_range, from the top of the chain down.
RangeAlong(s, up) ==
    LET range[n \in 0..Depth] ==
            LET k == Depth - n
            IN  IF up[k] = Vacant THEN NoRange
                ELSE RangeBelow(s, s.clips[up[k]], ParentOf(s, up[k]),
                                IF n = 0 THEN NoRange ELSE range[n - 1])
    IN  range[Depth]

FullRange(s, c) == RangeAlong(s, Chain(s, c))

\* resolve_geometry: a clip's own first split cuts off its tail.
CutTail(clip, range) ==
    LET full == SatSub(range[2], range[1])
        cuts == SplitOffsets(clip)
    IN  IF range = NoRange THEN NoRange
        ELSE <<range[1], IF cuts = {} THEN full ELSE Smaller(Least(cuts), full)>>

Geometry(s, c) == CutTail(s.clips[c], FullRange(s, c))

-----------------------------------------------------------------------------
(* The view                                                                *)

TrackAlive(s, t) ==
    IF t \in TrackId /\ Exists(s.tracks, t) THEN s.tracks[t].alive.value
    ELSE FALSE

\* resolve_clip: every field as a function, with the resolved geometry in the
\* place of the two geometry fields.
ResolvedAt(s, c, place) ==
    LET shown == IF place = NoRange THEN <<0, 0>> ELSE place
    IN  [ fields  |-> [f \in ClipField |->
                         IF f = "start_frame" THEN shown[1]
                         ELSE IF f = "duration_frames" THEN shown[2]
                         ELSE Inherited(s, c, f)],
          visible |-> /\ s.clips[c].alive.value
                      /\ place # NoRange
                      /\ TrackAlive(s, Inherited(s, c, "track"))
                      /\ shown[2] > 0 ]

ResolveClip(s, c) == ResolvedAt(s, c, Geometry(s, c))

Visible(s, c) == IF Exists(s.clips, c) THEN ResolveClip(s, c).visible ELSE FALSE

\* The fields of the clips that are visible.
VisibleOnes(resolved) ==
    [c \in {x \in DOMAIN resolved : resolved[x].visible} |-> resolved[c].fields]

\* materialize
View(s) ==
    [ clips     |-> VisibleOnes([c \in {x \in ClipId : Exists(s.clips, x)} |->
                                    ResolveClip(s, c)]),
      tracks    |-> [t \in {x \in TrackId : TrackAlive(s, x)} |->
                        [f \in TrackField |-> s.tracks[t].regs[f].value]],
      envelopes |-> [e \in {x \in Target : ~Unwritten(s.envelopes[x])} |->
                        s.envelopes[e].value],
      metadata  |-> [f \in MetaField |-> s.metadata[f].value] ]

=============================================================================
