----------------------------- MODULE Undo_proofs -----------------------------
(***************************************************************************)
(* Theorems about undo and redo, for every set of peers, clips and edits   *)
(* and every order of delivery.                                            *)
(*                                                                         *)
(* What is recorded of an edit finds its targets from then on              *)
(* (HistoryInv), so that taking it back never waits.  The operations of    *)
(* undo and redo win over all that is in the session because no register   *)
(* is ahead of its replica's clock (TagsInv), so that undo right after an  *)
(* edit, and redo right after that, restore the view: where nothing was    *)
(* split always (UndoWithoutSplits), elsewhere for the edits that          *)
(* compute_inverse takes back whole (Reversible).  On the way, the chains  *)
(* of pieces that resolve_clip follows are shown to end (ChainsEnd).       *)
(***************************************************************************)
EXTENDS UndoRedo, Layers_proofs

-----------------------------------------------------------------------------
(* The values a clip shows, which compute_inverse records                  *)

\* The clip a clip was split from, if there is one, exists.
LEMMA ParentKnown ==
    ASSUME NEW s \in SessionState, NEW c \in ClipId, Exists(s.clips, c),
           ParentOf(s, c) # Vacant
    PROVE  /\ ParentOf(s, c) \in ClipId /\ Exists(s.clips, ParentOf(s, c))
           /\ s.clips[c].parent \in Claim
<1>1. s.clips[c] \in Clip
    BY DEF Exists, SessionState
<1>2. s.clips[c].parent \in {NoParent} \cup Claim
    BY <1>1 DEF Clip
<1>3. s.clips[c].parent # NoParent /\ Exists(s.clips, s.clips[c].parent[1])
    BY DEF ParentOf
<1>4. ParentOf(s, c) = s.clips[c].parent[1]
    BY <1>3 DEF ParentOf
<1> QED
    BY <1>2, <1>3, <1>4 DEF Claim

\* Up the chain from a clip that exists there are clips that exist.
LEMMA ChainClips ==
    ASSUME NEW s \in SessionState, NEW c \in ClipId, Exists(s.clips, c),
           Depth \in Nat
    PROVE  \A k \in 0..Depth : Chain(s, c)[k] # Vacant =>
                Chain(s, c)[k] \in ClipId /\ Exists(s.clips, Chain(s, c)[k])
<1> DEFINE up == Chain(s, c)
           Known(x) == x # Vacant => x \in ClipId /\ Exists(s.clips, x)
           Bad == {m \in 0..Depth : ~Known(up[m])}
<1>1. up[0] = c /\ \A k \in 1..Depth : up[k] = Above(s, up[k - 1])
    BY ChainSteps
<1> HIDE DEF up
<1>2. ASSUME NEW m \in Bad, \A j \in Bad : m <= j
      PROVE  FALSE
    <2>1. m \in 0..Depth /\ m # 0 /\ ~Known(up[m])
        BY <1>1
    <2>2. m - 1 \in 0..Depth /\ m - 1 \notin Bad /\ up[m] = Above(s, up[m - 1])
        BY <1>1, <1>2, <2>1
    <2>3. Known(up[m - 1])
        BY <2>2
    <2> QED
        BY <2>1, <2>2, <2>3, ParentKnown DEF Above
<1>3. Bad = {}
    <2>1. Bad \subseteq Nat
        OBVIOUS
    <2> HIDE DEF Bad
    <2> QED
        BY <1>2, <2>1, NoLeast
<1>4. \A k \in 0..Depth : Known(up[k])
    BY <1>3
<1> QED
    BY <1>4 DEF up

\* The number of clip ids bounds how far up a chain goes.
LEMMA DepthTyped == Depth \in Nat
BY ViewAssumption, FS_CardinalityType DEF Depth

\* A field shows the value of a register.
LEMMA InheritedTyped ==
    ASSUME NEW s \in SessionState, NEW c \in ClipId, Exists(s.clips, c),
           NEW f \in ClipField
    PROVE  Inherited(s, c, f) \in Nat
<1> DEFINE up == Chain(s, c)
           open == {k \in 0..(Depth - 1) :
                        /\ up[k] # Vacant /\ up[k + 1] # Vacant
                        /\ Unwritten(s.clips[up[k]].regs[f])}
           from == IF open = {} THEN 0 ELSE 1 + (CHOOSE k \in open :
                                                    \A j \in open : j <= k)
<1>1. Inherited(s, c, f) = s.clips[up[from]].regs[f].value
    BY DEF Inherited, InheritedAlong
<1>2. /\ up[0] = c
      /\ \A k \in 0..Depth : up[k] # Vacant =>
                up[k] \in ClipId /\ Exists(s.clips, up[k])
    BY DepthTyped, ChainSteps, ChainClips
<1>3. c # Vacant
    BY ViewAssumption
<1>4. up[from] \in ClipId /\ Exists(s.clips, up[from])
    <2>1. CASE open = {}
        BY <1>2, <2>1
    <2>2. CASE open # {}
        <3>1. Depth - 1 \in Nat
            BY <2>2, DepthTyped
        <3>2. open \in SUBSET (0..(Depth - 1))
            OBVIOUS
        <3> DEFINE last == CHOOSE k \in open : \A j \in open : j <= k
        <3>3. last \in open
            <4>1. \E k \in open : \A j \in open : j <= k
                <5> HIDE DEF open
                <5> QED
                    BY <2>2, <3>1, <3>2, HasGreatest
            <4> HIDE DEF open
            <4> QED
                BY <4>1
        <3>4. from = 1 + last
            BY <2>2
        <3> HIDE DEF last, from
        <3>5. last \in 0..(Depth - 1) /\ up[last + 1] # Vacant
            BY <3>3
        <3> HIDE DEF up, open
        <3>6. from \in 0..Depth /\ from = last + 1
            BY <3>1, <3>4, <3>5, DepthTyped
        <3>7. up[from] # Vacant
            BY <3>5, <3>6
        <3> QED
            BY <1>2, <3>6, <3>7
    <2> QED
        BY <2>1, <2>2
<1> HIDE DEF from, up
<1>5. s.clips[up[from]] \in Clip
    BY <1>4 DEF Exists, SessionState
<1>6. s.clips[up[from]].regs[f] \in Register(Nat)
    BY <1>5 DEF Clip
<1> QED
    BY <1>1, <1>6 DEF Register

-----------------------------------------------------------------------------
(* Geometry                                                                *)

\* A range of frames, or none.
Range2 == {NoRange} \cup (Nat \X Nat)

\* Saturating arithmetic on frames yields frames.
LEMMA SaturatingTyped ==
    ASSUME NEW a \in Nat, NEW b \in Nat
    PROVE  SatAdd(a, b) \in Nat /\ SatSub(a, b) \in Nat
BY SessionAssumption DEF SatAdd, SatSub

\* The next cut after an offset is an offset.
LEMMA LeastTyped ==
    ASSUME NEW S \in SUBSET Nat, S # {}
    PROVE  Least(S) \in Nat
<1>1. \E n \in S : \A m \in S : n <= m
    BY NoLeast
<1> QED
    BY <1>1 DEF Least

\* What is stored of a clip are numbers.
LEMMA ClipNumbers ==
    ASSUME NEW clip \in Clip
    PROVE  /\ \A f \in ClipField : clip.regs[f].value \in Nat
           /\ SplitOffsets(clip) \in SUBSET Nat
<1>1. \A f \in ClipField : clip.regs[f] \in Register(Nat)
    BY DEF Clip
<1>2. clip.splits \in SUBSET (Nat \X ClipId)
    BY DEF Clip
<1>3. \A f \in ClipField : clip.regs[f].value \in Nat
    BY <1>1 DEF Register
<1> QED
    BY <1>2, <1>3 DEF SplitOffsets

\* A clip below a range on the chain has a range, or none.
LEMMA RangeBelowTyped ==
    ASSUME NEW s \in SessionState, NEW c \in ClipId, Exists(s.clips, c),
           NEW above \in Range2
    PROVE  RangeBelow(s, s.clips[c], ParentOf(s, c), above) \in Range2
<1> DEFINE clip == s.clips[c]
           parent == ParentOf(s, c)
<1>1. clip \in Clip
    BY DEF Exists, SessionState
<1>2. OwnRange(clip) \in Nat \X Nat
    <2>1. /\ clip.regs["start_frame"].value \in Nat
          /\ clip.regs["duration_frames"].value \in Nat
        BY <1>1, ClipNumbers DEF ClipField
    <2> QED
        BY <2>1, SaturatingTyped DEF OwnRange
<1>3. ASSUME parent # Vacant, above # NoRange, clip.parent # NoParent
      PROVE  Segment(s.clips[parent], above, clip.parent[2]) \in Nat \X Nat
    <2>1. parent \in ClipId /\ Exists(s.clips, parent) /\ clip.parent \in Claim
        BY <1>3, ParentKnown
    <2>2. s.clips[parent] \in Clip
        BY <2>1 DEF Exists, SessionState
    <2> DEFINE offset == clip.parent[2]
               next == {o \in SplitOffsets(s.clips[parent]) : o > offset}
               end == IF next = {} THEN SatSub(above[2], above[1]) ELSE Least(next)
               start == SatAdd(above[1], offset)
               stop == Larger(Smaller(SatAdd(above[1], end), above[2]), start)
    <2>3. offset \in Nat /\ above[1] \in Nat /\ above[2] \in Nat
        BY <1>3, <2>1 DEF Claim, Range2
    <2>4. end \in Nat
        <3>1. next \in SUBSET Nat
            BY <2>2, ClipNumbers
        <3> HIDE DEF next
        <3> QED
            BY <2>3, <3>1, LeastTyped, SaturatingTyped
    <2>5. start \in Nat
        BY <2>3, SaturatingTyped
    <2>6. Segment(s.clips[parent], above, offset) = <<start, stop>>
        BY DEF Segment
    <2> HIDE DEF end, start
    <2>7. stop \in Nat
        BY <2>3, <2>4, <2>5, SaturatingTyped DEF Larger, Smaller
    <2> HIDE DEF stop
    <2> QED
        BY <2>5, <2>6, <2>7
<1> HIDE DEF clip, parent
<1>4. RangeBelow(s, clip, parent, above) \in Range2
    BY <1>2, <1>3 DEF RangeBelow, Range2
<1> QED
    BY <1>4 DEF clip, parent

\* The loop of resolve_full_range, from the top of the chain down.
RangeStep(s, up, n, before) ==
    IF up[Depth - n] = Vacant THEN NoRange
    ELSE RangeBelow(s, s.clips[up[Depth - n]], ParentOf(s, up[Depth - n]),
                    IF n = 0 THEN NoRange ELSE before)

\* The ranges found after each of its first m steps.
IsRange(range, s, up, m) ==
    range = [n \in 0..m |-> RangeStep(s, up, n, range[n - 1])]

\* It is defined: were there a smallest number of steps for which it is not,
\* one step less could be extended.
LEMMA RangeExists ==
    ASSUME NEW s, NEW up, NEW n \in Nat
    PROVE  \E range : IsRange(range, s, up, n)
<1> DEFINE Bad == {m \in Nat : ~\E range : IsRange(range, s, up, m)}
<1>1. ASSUME NEW m \in Bad, \A j \in Bad : m <= j
      PROVE  FALSE
    <2>1. CASE m = 0
        <3> DEFINE f == [k \in 0..0 |-> RangeStep(s, up, 0, NoRange)]
        <3>1. ASSUME NEW before
              PROVE  RangeStep(s, up, 0, NoRange) = RangeStep(s, up, 0, before)
            BY DEF RangeStep
        <3>2. f = [k \in 0..0 |-> RangeStep(s, up, k, f[k - 1])]
            <4>1. \A k \in 0..0 :
                    RangeStep(s, up, 0, NoRange) = RangeStep(s, up, k, f[k - 1])
                <5> HIDE DEF f
                <5>1. \A k \in 0..0 : k = 0
                    OBVIOUS
                <5> QED
                    BY <3>1, <5>1
            <4> QED
                BY <4>1
        <3>3. IsRange(f, s, up, 0)
            BY <3>2 DEF IsRange
        <3> HIDE DEF f
        <3> QED
            BY <2>1, <3>3
    <2>2. CASE m # 0
        <3>1. m - 1 \in Nat /\ m - 1 \notin Bad
            BY <1>1, <2>2
        <3>2. PICK f : IsRange(f, s, up, m - 1)
            BY <3>1
        <3> DEFINE g == [k \in 0..m |->
                            IF k = m THEN RangeStep(s, up, m, f[m - 1]) ELSE f[k]]
        <3>3. ASSUME NEW k \in 0..m
              PROVE  g[k] = RangeStep(s, up, k, g[k - 1])
            <4>1. CASE k = m
                <5>1. g[k] = RangeStep(s, up, m, f[m - 1]) /\ g[k - 1] = f[m - 1]
                    BY <2>2, <3>1, <4>1
                <5> QED
                    BY <4>1, <5>1
            <4>2. CASE k # m
                <5>1. k \in 0..(m - 1) /\ g[k] = f[k]
                    BY <1>1, <4>2
                <5>2. f[k] = RangeStep(s, up, k, f[k - 1])
                    BY <3>2, <5>1 DEF IsRange
                <5>3. CASE k = 0
                    <6>1. RangeStep(s, up, 0, f[-1]) = RangeStep(s, up, 0, g[-1])
                        BY DEF RangeStep
                    <6> QED
                        BY <5>1, <5>2, <5>3, <6>1
                <5>4. CASE k # 0
                    <6>1. k - 1 \in 0..m /\ k - 1 # m /\ g[k - 1] = f[k - 1]
                        BY <5>1, <5>4
                    <6> QED
                        BY <5>1, <5>2, <6>1
                <5> QED
                    BY <5>3, <5>4
            <4> QED
                BY <4>1, <4>2
        <3>4. g = [k \in 0..m |-> g[k]]
            OBVIOUS
        <3>5. IsRange(g, s, up, m)
            <4> HIDE DEF g
            <4> QED
                BY <3>3, <3>4 DEF IsRange
        <3> HIDE DEF g
        <3> QED
            BY <3>5
    <2> QED
        BY <2>1, <2>2
<1>2. Bad = {}
    <2> HIDE DEF Bad
    <2>1. Bad \subseteq Nat
        BY DEF Bad
    <2> QED
        BY <1>1, <2>1, NoLeast
<1> QED
    BY <1>2

\* resolve_full_range finds no range, or one with two ends.
LEMMA FullRangeTyped ==
    ASSUME NEW s \in SessionState, NEW c \in ClipId, Exists(s.clips, c)
    PROVE  FullRange(s, c) \in Range2
<1> DEFINE up == Chain(s, c)
           range == CHOOSE f : IsRange(f, s, up, Depth)
           Bad == {m \in 0..Depth : range[m] \notin Range2}
<1>1. FullRange(s, c) = range[Depth]
    BY DEF FullRange, RangeAlong, IsRange, RangeStep
<1>2. IsRange(range, s, up, Depth)
    <2>1. \E f : IsRange(f, s, up, Depth)
        <3> HIDE DEF up
        <3> QED
            BY DepthTyped, RangeExists
    <2> QED
        BY <2>1
<1>3. \A n \in 0..Depth : range[n] = RangeStep(s, up, n, range[n - 1])
    <2> HIDE DEF range, up
    <2> QED
        BY <1>2 DEF IsRange
<1>4. \A k \in 0..Depth : up[k] # Vacant =>
            up[k] \in ClipId /\ Exists(s.clips, up[k])
    BY DepthTyped, ChainClips
<1> HIDE DEF range, up
<1>5. ASSUME NEW m \in Bad, \A j \in Bad : m <= j
      PROVE  FALSE
    <2> DEFINE before == IF m = 0 THEN NoRange ELSE range[m - 1]
    <2>1. m \in 0..Depth /\ range[m] \notin Range2 /\ Depth - m \in 0..Depth
        BY DepthTyped
    <2>2. before \in Range2
        <3>1. CASE m = 0
            BY <3>1 DEF Range2
        <3>2. CASE m # 0
            <4>1. m - 1 \in 0..Depth /\ ~(m <= m - 1)
                BY <2>1, <3>2, DepthTyped
            <4>2. m - 1 \notin Bad
                <5> HIDE DEF Bad
                <5> QED
                    BY <1>5, <4>1
            <4> QED
                BY <3>2, <4>1, <4>2
        <3> QED
            BY <3>1, <3>2
    <2>3. range[m] =
            IF up[Depth - m] = Vacant THEN NoRange
            ELSE RangeBelow(s, s.clips[up[Depth - m]],
                            ParentOf(s, up[Depth - m]), before)
        BY <1>3, <2>1 DEF RangeStep
    <2> HIDE DEF before
    <2>4. NoRange \in Range2
        BY DEF Range2
    <2> QED
        BY <1>4, <2>1, <2>2, <2>3, <2>4, RangeBelowTyped
<1>6. Bad = {}
    <2>1. Bad \subseteq Nat
        OBVIOUS
    <2> HIDE DEF Bad
    <2> QED
        BY <1>5, <2>1, NoLeast
<1>7. Depth \in 0..Depth
    BY DepthTyped
<1> QED
    BY <1>1, <1>6, <1>7

\* A clip shows a value in every field.
LEMMA ShownTyped ==
    ASSUME NEW s \in SessionState, NEW c \in ClipId, Exists(s.clips, c)
    PROVE  ResolveClip(s, c).fields \in [ClipField -> Nat]
<1> DEFINE place == Geometry(s, c)
           full == FullRange(s, c)
           seenAs == IF place = NoRange THEN <<0, 0>> ELSE place
<1>1. s.clips[c] \in Clip
    BY DEF Exists, SessionState
<1>2. place \in Range2
    <2>1. full \in Range2
        BY FullRangeTyped
    <2>2. place = CutTail(s.clips[c], full)
        BY DEF Geometry
    <2> HIDE DEF full, place
    <2>3. CASE full = NoRange
        BY <2>2, <2>3 DEF CutTail, Range2
    <2>4. CASE full # NoRange
        <3>1. full[1] \in Nat /\ full[2] \in Nat
            BY <2>1, <2>4 DEF Range2
        <3> DEFINE length == SatSub(full[2], full[1])
                   cuts == SplitOffsets(s.clips[c])
                   left == IF cuts = {} THEN length ELSE Smaller(Least(cuts), length)
        <3>2. place = <<full[1], left>>
            BY <2>2, <2>4 DEF CutTail
        <3>3. length \in Nat /\ cuts \in SUBSET Nat
            BY <1>1, <3>1, SaturatingTyped, ClipNumbers
        <3> HIDE DEF length, cuts
        <3>4. left \in Nat
            BY <3>3, LeastTyped DEF Smaller
        <3> HIDE DEF left
        <3> QED
            BY <3>1, <3>2, <3>4 DEF Range2
    <2> QED
        BY <2>3, <2>4
<1>3. ResolveClip(s, c).fields =
        [f \in ClipField |-> IF f = "start_frame" THEN seenAs[1]
                             ELSE IF f = "duration_frames" THEN seenAs[2]
                             ELSE Inherited(s, c, f)]
    BY DEF ResolveClip, ResolvedAt
<1> HIDE DEF place
<1>4. seenAs[1] \in Nat /\ seenAs[2] \in Nat
    BY <1>2 DEF Range2
<1> HIDE DEF seenAs
<1> QED
    BY <1>3, <1>4, InheritedTyped

-----------------------------------------------------------------------------
(* compute_inverse                                                         *)

\* Writing what is seenAs in the same fields is a write of the same kind.
LEMMA WritesOfShown ==
    ASSUME NEW f, NEW g, NEW w \in Writes(f, g, Nat), NEW seenAs,
           seenAs[f] \in Nat, seenAs[g] \in Nat
    PROVE  [x \in DOMAIN w |-> seenAs[x]] \in Writes(f, g, Nat)
<1>1. CASE w = NoWrites
    <2>1. DOMAIN w = {}
        BY <1>1 DEF NoWrites
    <2>2. [x \in DOMAIN w |-> seenAs[x]] = NoWrites
        BY <2>1 DEF NoWrites
    <2> QED
        BY <2>2 DEF Writes
<1>2. CASE w \in [{f} -> Nat]
    BY <1>2 DEF Writes
<1>3. CASE w \in [{g} -> Nat]
    BY <1>3 DEF Writes
<1>4. CASE w \in [{f, g} -> Nat]
    BY <1>4 DEF Writes
<1> QED
    BY <1>1, <1>2, <1>3, <1>4 DEF Writes

\* A clip edit is taken back by an edit of the same clip.
LEMMA ClipInverseTyped ==
    ASSUME NEW s \in SessionState, NEW op \in ClipEdit,
           ComputeInverse(s, op) # Vacant
    PROVE  ComputeInverse(s, op) \in ClipEdit /\ ComputeInverse(s, op).clip = op.clip
<1> DEFINE inv == ComputeInverse(s, op)
           seenAs == ResolveClip(s, op.clip).fields
           back == [op EXCEPT !.writes = [f \in DOMAIN @ |-> seenAs[f]]]
           away == [type |-> "DeleteClip", clip |-> op.clip, writes |-> NoWrites]
<1>1. /\ op.type \in {"InsertClip", "MoveClip", "TrimClip", "UpdateClipMetadata",
                      "DeleteClip"}
      /\ op.clip \in ClipId
    BY DEF ClipEdit
<1>2. inv = ClipInverse(s, op)
    BY <1>1 DEF ComputeInverse
<1>3. CASE ~Exists(s.clips, op.clip)
    <2>1. inv = away
        BY <1>2, <1>3 DEF ClipInverse
    <2> HIDE DEF inv
    <2> QED
        BY <1>1, <2>1 DEF ClipEdit, inv
<1>4. CASE Exists(s.clips, op.clip)
    <2>1. seenAs \in [ClipField -> Nat]
        BY <1>1, <1>4, ShownTyped
    <2>2. CASE op.type \in {"InsertClip", "DeleteClip"}
        <3> DEFINE w == [seenAs EXCEPT !["gain"] = 0]
        <3>1. inv = [type |-> "InsertClip", clip |-> op.clip, writes |-> w]
            BY <1>2, <1>4, <2>2 DEF ClipInverse, InsertBack
        <3> HIDE DEF seenAs, inv
        <3>2. w \in InsertWrites
            BY <2>1 DEF InsertWrites, ClipField
        <3> HIDE DEF w
        <3> QED
            BY <1>1, <3>1, <3>2 DEF ClipEdit, inv
    <2>3. CASE op.type \in {"MoveClip", "TrimClip", "UpdateClipMetadata"}
        <3>1. inv = back
            BY <1>2, <1>4, <2>3 DEF ClipInverse
        <3> HIDE DEF seenAs, inv
        <3>2. CASE op.type = "MoveClip"
            <4>1. op \in [type : {"MoveClip"}, clip : ClipId, writes : [MoveField -> Nat]]
                BY <3>2 DEF ClipEdit
            <4>2. [f \in DOMAIN op.writes |-> seenAs[f]] \in [MoveField -> Nat]
                BY <2>1, <4>1 DEF MoveField, ClipField
            <4>3. back \in [type : {"MoveClip"}, clip : ClipId, writes : [MoveField -> Nat]]
                BY <4>1, <4>2
            <4> QED
                BY <3>1, <4>1, <4>3 DEF ClipEdit, inv
        <3>3. CASE op.type = "TrimClip"
            <4>1. op \in [type : {"TrimClip"}, clip : ClipId, writes : [TrimField -> Nat]]
                BY <3>3 DEF ClipEdit
            <4>2. [f \in DOMAIN op.writes |-> seenAs[f]] \in [TrimField -> Nat]
                BY <2>1, <4>1 DEF TrimField, ClipField
            <4>3. back \in [type : {"TrimClip"}, clip : ClipId, writes : [TrimField -> Nat]]
                BY <4>1, <4>2
            <4> QED
                BY <3>1, <4>1, <4>3 DEF ClipEdit, inv
        <3>4. CASE op.type = "UpdateClipMetadata"
            <4>1. op \in [type : {"UpdateClipMetadata"}, clip : ClipId,
                          writes : Writes("name", "gain", Nat)]
                BY <3>4 DEF ClipEdit
            <4>2. [f \in DOMAIN op.writes |-> seenAs[f]] \in Writes("name", "gain", Nat)
                <5>1. seenAs["name"] \in Nat /\ seenAs["gain"] \in Nat
                    BY <2>1 DEF ClipField
                <5> QED
                    BY <4>1, <5>1, WritesOfShown
            <4>3. back \in [type : {"UpdateClipMetadata"}, clip : ClipId,
                            writes : Writes("name", "gain", Nat)]
                BY <4>1, <4>2
            <4> QED
                BY <3>1, <4>1, <4>3 DEF ClipEdit, inv
        <3> QED
            BY <2>3, <3>2, <3>3, <3>4 DEF inv
    <2> QED
        BY <1>1, <2>2, <2>3
<1> QED
    BY <1>3, <1>4

\* So is a track edit.
LEMMA TrackInverseTyped ==
    ASSUME NEW s \in SessionState, NEW op \in TrackEdit,
           ComputeInverse(s, op) # Vacant
    PROVE  ComputeInverse(s, op) \in TrackEdit /\ ComputeInverse(s, op).track = op.track
<1> DEFINE inv == ComputeInverse(s, op)
           held == [f \in TrackField |-> s.tracks[op.track].regs[f].value]
           back == [op EXCEPT !.writes = [f \in DOMAIN @ |-> held[f]]]
<1>1. /\ op.type \in {"InsertTrack", "UpdateTrackMetadata", "DeleteTrack"}
      /\ op.track \in TrackId
    BY DEF TrackEdit
<1>2. inv = TrackInverse(s, op)
    BY <1>1 DEF ComputeInverse
<1>3. CASE ~Exists(s.tracks, op.track)
    <2>1. inv = [type |-> "DeleteTrack", track |-> op.track, writes |-> NoWrites]
        BY <1>2, <1>3 DEF TrackInverse
    <2> HIDE DEF inv
    <2> QED
        BY <1>1, <2>1 DEF TrackEdit, inv
<1>4. CASE Exists(s.tracks, op.track)
    <2>1. s.tracks[op.track] \in Track
        BY <1>1, <1>4 DEF Exists, SessionState
    <2>2. \A f \in TrackField : s.tracks[op.track].regs[f] \in Register(Nat)
        BY <2>1 DEF Track
    <2>3. held \in [TrackField -> Nat]
        BY <2>2 DEF Register
    <2>4. CASE op.type \in {"InsertTrack", "DeleteTrack"}
        <3>1. inv = [type |-> "InsertTrack", track |-> op.track, writes |-> held]
            BY <1>2, <1>4, <2>4 DEF TrackInverse
        <3> HIDE DEF held, inv
        <3> QED
            BY <1>1, <2>3, <3>1 DEF TrackEdit, inv
    <2>5. CASE op.type = "UpdateTrackMetadata"
        <3>1. inv = back
            BY <1>2, <1>4, <2>5 DEF TrackInverse
        <3> HIDE DEF held, inv
        <3>2. op \in [type : {"UpdateTrackMetadata"}, track : TrackId,
                      writes : Writes("name", "order_hint", Nat)]
            BY <2>5 DEF TrackEdit
        <3>3. [f \in DOMAIN op.writes |-> held[f]] \in Writes("name", "order_hint", Nat)
            <4>1. held["name"] \in Nat /\ held["order_hint"] \in Nat
                BY <2>3 DEF TrackField
            <4> QED
                BY <3>2, <4>1, WritesOfShown
        <3>4. back \in [type : {"UpdateTrackMetadata"}, track : TrackId,
                        writes : Writes("name", "order_hint", Nat)]
            BY <3>2, <3>3
        <3> QED
            BY <3>1, <3>2, <3>4 DEF TrackEdit, inv
    <2> QED
        BY <1>1, <2>4, <2>5
<1> QED
    BY <1>3, <1>4

\* A split that made its piece is taken back by deleting it.
LEMMA SplitInverseTyped ==
    ASSUME NEW s \in SessionState, NEW op \in SplitEdit,
           ComputeInverse(s, op) # Vacant
    PROVE  /\ ComputeInverse(s, op) \in ClipEdit
           /\ ComputeInverse(s, op).clip = op.new_clip
           /\ ~Exists(s.clips, op.new_clip)
<1> DEFINE inv == ComputeInverse(s, op)
<1>1. op.type = "SplitClip" /\ op.new_clip \in ClipId
    BY DEF SplitEdit
<1>2. inv = SplitInverse(s, op)
    BY <1>1 DEF ComputeInverse
<1>3. /\ inv = [type |-> "DeleteClip", clip |-> op.new_clip, writes |-> NoWrites]
      /\ ~Exists(s.clips, op.new_clip)
    BY <1>2 DEF SplitInverse
<1> HIDE DEF inv
<1> QED
    BY <1>1, <1>3 DEF ClipEdit, inv

\* The points of an envelope, or the metadata, are put back.
LEMMA OtherInverseTyped ==
    ASSUME NEW s \in SessionState, NEW op \in EnvelopeEdit \cup MetadataEdit
    PROVE  /\ op \in EnvelopeEdit => /\ ComputeInverse(s, op) \in EnvelopeEdit
                                     /\ ComputeInverse(s, op).target = op.target
           /\ op \in MetadataEdit => ComputeInverse(s, op) \in MetadataEdit
<1> DEFINE inv == ComputeInverse(s, op)
<1>1. ASSUME op \in EnvelopeEdit
      PROVE  inv \in EnvelopeEdit /\ inv.target = op.target
    <2>1. op.type = "UpdateEnvelope" /\ op.target \in Target
        BY <1>1 DEF EnvelopeEdit
    <2>2. inv = [op EXCEPT !.points = s.envelopes[op.target].value]
        BY <2>1 DEF ComputeInverse
    <2>3. s.envelopes[op.target].value \in Nat
        BY <2>1 DEF SessionState, Register
    <2> HIDE DEF inv
    <2> QED
        BY <1>1, <2>2, <2>3 DEF EnvelopeEdit
<1>2. ASSUME op \in MetadataEdit
      PROVE  inv \in MetadataEdit
    <2>1. op.type = "UpdateSessionMetadata"
        BY <1>2 DEF MetadataEdit
    <2> DEFINE held == [f \in MetaField |-> s.metadata[f].value]
               w == [f \in DOMAIN op.writes |-> s.metadata[f].value]
    <2>2. inv = [op EXCEPT !.writes = w]
        BY <2>1 DEF ComputeInverse
    <2>3. \A f \in MetaField : s.metadata[f] \in Register(Nat)
        BY DEF SessionState
    <2>4. held["name"] \in Nat /\ held["tempo_bpm"] \in Nat
        BY <2>3 DEF MetaField, Register
    <2>5. op.writes \in Writes("name", "tempo_bpm", Nat)
        BY <1>2 DEF MetadataEdit
    <2>6. DOMAIN op.writes \subseteq MetaField
        BY <2>5 DEF Writes, NoWrites, MetaField
    <2>7. w = [f \in DOMAIN op.writes |-> held[f]]
        BY <2>6
    <2> HIDE DEF held
    <2>8. w \in Writes("name", "tempo_bpm", Nat)
        BY <2>4, <2>5, <2>7, WritesOfShown
    <2> HIDE DEF w, inv
    <2> QED
        BY <1>2, <2>2, <2>8 DEF MetadataEdit
<1> QED
    BY <1>1, <1>2

\* Whatever the edit, compute_inverse returns an operation or nothing.
LEMMA InverseTyped ==
    ASSUME NEW s \in SessionState, NEW op \in Operation,
           ComputeInverse(s, op) # Vacant
    PROVE  ComputeInverse(s, op) \in Operation
BY ClipInverseTyped, TrackInverseTyped, SplitInverseTyped, OtherInverseTyped
    DEF Operation

-----------------------------------------------------------------------------
(* What an operation needs, and what stays                                 *)

\* What exists in s exists in r.
NoneGone(s, r) == \A t \in Target : TargetExists(s, t) => TargetExists(r, t)

\* The targets an operation names are a matter of the operation.
LEMMA TargetsNamed ==
    ASSUME NEW op \in Operation
    PROVE  \E named \in SUBSET Target : \A s :
                MissingTargets(s, op) = {t \in named : ~TargetExists(s, t)}
<1> DEFINE named ==
            CASE op.type \in {"InsertClip", "InsertTrack",
                              "UpdateSessionMetadata"} -> {}
              [] op.type \in {"UpdateTrackMetadata", "DeleteTrack"} ->
                    {<<"track", op.track>>}
              [] op.type = "UpdateEnvelope" -> {op.target}
              [] OTHER -> {<<"clip", op.clip>>}
<1>1. \A s : MissingTargets(s, op) = {t \in named : ~TargetExists(s, t)}
    BY DEF MissingTargets
<1>2. named \in SUBSET Target
    <2>1. CASE op \in ClipEdit
        BY <2>1 DEF ClipEdit, Target
    <2>2. CASE op \in SplitEdit
        BY <2>2 DEF SplitEdit, Target
    <2>3. CASE op \in TrackEdit
        BY <2>3 DEF TrackEdit, Target
    <2>4. CASE op \in EnvelopeEdit
        BY <2>4 DEF EnvelopeEdit
    <2>5. CASE op \in MetadataEdit
        BY <2>5 DEF MetadataEdit
    <2> QED
        BY <2>1, <2>2, <2>3, <2>4, <2>5 DEF Operation
<1> HIDE DEF named
<1> QED
    BY <1>1, <1>2

\* An operation that found its targets finds them wherever none has gone.
LEMMA StillFound ==
    ASSUME NEW s, NEW r, NoneGone(s, r), NEW op \in Operation,
           MissingTargets(s, op) = {}
    PROVE  MissingTargets(r, op) = {}
<1>1. PICK named \in SUBSET Target : \A x :
            MissingTargets(x, op) = {t \in named : ~TargetExists(x, t)}
    BY TargetsNamed
<1> QED
    BY <1>1 DEF NoneGone

\* Applying an operation loses no clip or track.
LEMMA ApplyLosesNone ==
    ASSUME NEW s \in SessionState, NEW op \in Operation, NEW tag \in OpTag
    PROVE  NoneGone(s, Apply(s, op, tag).session)
BY ApplyExists DEF NoneGone

\* Retrying one buffered operation leaves a session and a buffer.
LEMMA DrainStepTyped ==
    ASSUME NEW x \in DrainState
    PROVE  DrainStep(x) \in DrainState
<1> DEFINE op  == Head(x.todo)
           res == Apply(x.session, op.operation, op.op_id)
<1>1. /\ x.todo \in Seq(TaggedOp) /\ x.waiting \in Seq(TaggedOp)
      /\ x.session \in SessionState /\ x.progress \in BOOLEAN
    BY DEF DrainState
<1>2. CASE x.todo # <<>>
    <2>1. op \in TaggedOp /\ Tail(x.todo) \in Seq(TaggedOp)
        BY <1>1, <1>2, TailOps
    <2>2. res.ok \in BOOLEAN /\ res.session \in SessionState
        BY <1>1, <2>1, ApplyTyped DEF TaggedOp
    <2>3. DrainStep(x) =
            [ session  |-> res.session,
              todo     |-> Tail(x.todo),
              waiting  |-> IF res.ok THEN x.waiting ELSE Append(x.waiting, op),
              progress |-> x.progress \/ res.ok ]
        BY <1>2 DEF DrainStep, Retry
    <2> HIDE DEF op, res
    <2>4. Append(x.waiting, op) \in Seq(TaggedOp)
        BY <1>1, <2>1, AppendOps
    <2> QED
        BY <1>1, <2>1, <2>2, <2>3, <2>4 DEF DrainState
<1>3. CASE x.todo = <<>>
    BY <1>1, <1>3 DEF DrainStep, NextPass, DrainState
<1> QED
    BY <1>2, <1>3

\* Nor do apply_remote and the retries it makes lose one.
LEMMA AcceptLosesNone ==
    ASSUME NEW t \in Timeline, NEW o \in TaggedOp
    PROVE  NoneGone(t.session, Accept(t, o).session)
<1> DEFINE res == Apply(t.session, o.operation, o.op_id)
           buffer == IF res.ok THEN t.pending ELSE Append(t.pending, o)
           States == {x \in DrainState : NoneGone(t.session, x.session)}
<1>1. t.session \in SessionState /\ t.pending \in Seq(TaggedOp)
    BY DEF Timeline
<1>2. o.operation \in Operation /\ o.op_id \in OpTag
    BY DEF TaggedOp
<1>3. res.session \in SessionState /\ NoneGone(t.session, res.session)
    BY <1>1, <1>2, ApplyTyped, ApplyLosesNone
<1>4. buffer \in Seq(TaggedOp)
    BY <1>1, AppendOps
<1>5. Accept(t, o).session = Drain(res.session, buffer).session
    BY DEF Accept
<1> HIDE DEF res, buffer
<1>6. DrainStart(res.session, buffer) \in States
    <2>1. <<>> \in Seq(TaggedOp)
        OBVIOUS
    <2> QED
        BY <1>3, <1>4, <2>1 DEF DrainStart, DrainState
<1>7. ASSUME NEW x \in States
      PROVE  DrainStep(x) \in States
    <2>1. DrainStep(x) \in DrainState
        BY DrainStepTyped
    <2>2. CASE x.todo # <<>>
        <3> DEFINE op == Head(x.todo)
        <3>1. x.todo \in Seq(TaggedOp) /\ x.session \in SessionState
            BY DEF DrainState
        <3>2. op \in TaggedOp
            BY <2>2, <3>1, TailOps
        <3>3. op.operation \in Operation /\ op.op_id \in OpTag
            BY <3>2 DEF TaggedOp
        <3>4. DrainStep(x).session = Apply(x.session, op.operation, op.op_id).session
            BY <2>2 DEF DrainStep, Retry
        <3> HIDE DEF op
        <3>5. NoneGone(x.session, DrainStep(x).session)
            BY <3>1, <3>3, <3>4, ApplyLosesNone
        <3> QED
            BY <2>1, <3>5 DEF NoneGone
    <2>3. CASE x.todo = <<>> /\ x.progress
        <3>1. DrainStep(x).session = x.session
            BY <2>3 DEF DrainStep, NextPass, DrainState
        <3> QED
            BY <2>1, <3>1
    <2>4. CASE x.todo = <<>> /\ ~x.progress
        BY <2>4 DEF DrainStep
    <2> QED
        BY <2>2, <2>3, <2>4
<1>8. Drain(res.session, buffer) \in States
    <2>1. Len(buffer) \in Nat
        BY <1>4
    <2> HIDE DEF States
    <2> QED
        BY <1>6, <1>7, <2>1, DrainStays
<1> QED
    BY <1>5, <1>8

\* An edit that is recorded finds its targets again, and so does what takes it
\* back: a piece that a split has made is there to be deleted.
LEMMA RecordedFindsTargets ==
    ASSUME NEW s \in SessionState, NEW op \in Operation, NEW tag \in OpTag,
           op \in SplitEdit => op.new_clip # op.clip,
           Apply(s, op, tag).ok, ComputeInverse(s, op) # Vacant
    PROVE  /\ MissingTargets(Apply(s, op, tag).session, op) = {}
           /\ MissingTargets(Apply(s, op, tag).session, ComputeInverse(s, op)) = {}
<1> DEFINE r == Apply(s, op, tag).session
           inv == ComputeInverse(s, op)
<1>1. ASSUME NEW e \in ClipEdit, Exists(r.clips, e.clip)
      PROVE  MissingTargets(r, e) = {}
    <2>1. e.type \in {"InsertClip", "MoveClip", "TrimClip", "UpdateClipMetadata",
                      "DeleteClip"}
        BY DEF ClipEdit
    <2>2. TargetExists(r, <<"clip", e.clip>>)
        BY <1>1 DEF TargetExists
    <2> HIDE DEF r
    <2> QED
        BY <2>1, <2>2 DEF MissingTargets
<1>2. CASE op \in ClipEdit
    <2>1. Exists(r.clips, op.clip)
        BY <1>2, ApplyDispatch, ClipEditEffect
    <2> HIDE DEF r
    <2> QED
        BY <1>1, <1>2, <2>1, ClipInverseTyped DEF r
<1>3. CASE op \in SplitEdit
    <2>1. /\ op.clip \in ClipId /\ op.new_clip \in ClipId /\ op.type = "SplitClip"
          /\ inv \in ClipEdit /\ inv.clip = op.new_clip
          /\ ~Exists(s.clips, op.new_clip)
        BY <1>3, SplitInverseTyped DEF SplitEdit
    <2>2. Apply(s, op, tag) = ApplySplit(s, op, tag)
        BY <1>3, ApplyDispatch
    <2>3. Exists(s.clips, op.clip)
        BY <1>3, <2>1, <2>2 DEF ApplySplit, UnknownTarget
    <2>4. SplitKeeps(s, op, Apply(s, op, tag))
        BY <1>3, <2>2, SplitEffect
    <2>5. Exists(r.clips, op.clip) /\ Exists(r.clips, op.new_clip)
        BY <1>3, <2>1, <2>3, <2>4 DEF SplitKeeps
    <2>6. MissingTargets(r, op) = {}
        <3>1. TargetExists(r, <<"clip", op.clip>>)
            BY <2>5 DEF TargetExists
        <3> HIDE DEF r
        <3> QED
            BY <2>1, <3>1 DEF MissingTargets
    <2>7. MissingTargets(r, inv) = {}
        <3> HIDE DEF r, inv
        <3> QED
            BY <1>1, <2>1, <2>5
    <2> QED
        BY <2>6, <2>7
<1>4. CASE op \in TrackEdit
    <2>1. inv \in TrackEdit /\ inv.track = op.track
        BY <1>4, TrackInverseTyped
    <2>2. Exists(r.tracks, op.track)
        BY <1>4, ApplyDispatch, TrackEditEffect
    <2> HIDE DEF r, inv
    <2>3. ASSUME NEW e \in TrackEdit, e.track = op.track
          PROVE  MissingTargets(r, e) = {}
        <3>1. e.type \in {"InsertTrack", "UpdateTrackMetadata", "DeleteTrack"}
            BY DEF TrackEdit
        <3>2. TargetExists(r, <<"track", e.track>>)
            BY <2>2, <2>3 DEF TargetExists
        <3> QED
            BY <3>1, <3>2 DEF MissingTargets
    <2> QED
        BY <1>4, <2>1, <2>3 DEF r, inv
<1>5. CASE op \in EnvelopeEdit
    <2>1. /\ inv \in EnvelopeEdit /\ inv.target = op.target
          /\ op.target \in Target
        BY <1>5, OtherInverseTyped DEF EnvelopeEdit
    <2>2. TargetExists(s, op.target)
        <3>1. ApplyEnvelope(s, op, tag).ok
            BY <1>5, ApplyDispatch
        <3> QED
            BY <1>5, <3>1, EnvelopeEffect
    <2>3. TargetExists(r, op.target)
        BY <2>1, <2>2, ApplyLosesNone DEF NoneGone
    <2> HIDE DEF r, inv
    <2>4. ASSUME NEW e \in EnvelopeEdit, e.target = op.target
          PROVE  MissingTargets(r, e) = {}
        <3>1. e.type = "UpdateEnvelope"
            BY DEF EnvelopeEdit
        <3> QED
            BY <2>3, <2>4, <3>1 DEF MissingTargets
    <2> QED
        BY <1>5, <2>1, <2>4 DEF r, inv
<1>6. CASE op \in MetadataEdit
    <2>1. inv \in MetadataEdit
        BY <1>6, OtherInverseTyped
    <2> HIDE DEF r, inv
    <2>2. ASSUME NEW e \in MetadataEdit
          PROVE  MissingTargets(r, e) = {}
        <3>1. e.type = "UpdateSessionMetadata"
            BY DEF MetadataEdit
        <3> QED
            BY <3>1 DEF MissingTargets
    <2> QED
        BY <1>6, <2>1, <2>2 DEF r, inv
<1> QED
    BY <1>2, <1>3, <1>4, <1>5, <1>6 DEF Operation

-----------------------------------------------------------------------------
(* The stacks                                                              *)

\* Both stacks are sequences: what is pushed, popped or dropped for want of
\* room leaves a sequence of the same entries.
LEMMA StackTyped ==
    ASSUME NEW S, NEW stack \in Seq(S)
    PROVE  /\ \A e \in S : Append(stack, e) \in Seq(S)
           /\ stack # <<>> => /\ Top(stack) \in S
                              /\ Pop(stack) \in Seq(S)
                              /\ Tail(stack) \in Seq(S)
<1>1. ASSUME stack # <<>>
      PROVE  Top(stack) \in S /\ Pop(stack) \in Seq(S) /\ Tail(stack) \in Seq(S)
    <2>1. Len(stack) \in Nat /\ Len(stack) >= 1
        BY <1>1
    <2>2. \A i \in 1..Len(stack) : stack[i] \in S
        OBVIOUS
    <2>3. Pop(stack) \in Seq(S)
        BY <2>1, <2>2, SubSeqProperties DEF Pop
    <2> QED
        BY <1>1, <2>1, <2>2, <2>3 DEF Top
<1> QED
    BY <1>1

\* A sequence of entries of which each is in another set too.
LEMMA StackMore ==
    ASSUME NEW S, NEW R, S \subseteq R, NEW stack \in Seq(S)
    PROVE  stack \in Seq(R)
OBVIOUS

\* record drops the oldest entry when the stack is full.
LEMMA RecordTyped ==
    ASSUME NEW S, NEW h, h.undo \in Seq(S), NEW e \in S
    PROVE  Record(h, e).undo \in Seq(S) /\ Record(h, e).redo \in Seq(S)
<1> DEFINE kept == IF Len(h.undo) >= HistoryCapacity THEN Tail(h.undo) ELSE h.undo
<1>1. kept \in Seq(S)
    <2>1. CASE h.undo = <<>>
        <3>1. Len(h.undo) = 0 /\ ~(0 >= HistoryCapacity)
            BY <2>1, HistoryAssumption
        <3> QED
            BY <3>1
    <2>2. CASE h.undo # <<>>
        BY <2>2, StackTyped
    <2> QED
        BY <2>1, <2>2
<1>2. Record(h, e) = [undo |-> Append(kept, e), redo |-> <<>>]
    BY DEF Record
<1> HIDE DEF kept
<1>3. Append(kept, e) \in Seq(S)
    BY <1>1, StackTyped
<1> QED
    BY <1>2, <1>3

\* No edit an application issues splits a clip into itself.
NoEditSplitsItself ==
    \A p \in Peers : \A op \in Edits[p] :
        op \in SplitEdit => op.new_clip # op.clip

\* The entries that find their targets, done again or taken back.
Ready(s) ==
    {e \in Entry : NoEditSplitsItself =>
                        /\ MissingTargets(s, e.forward) = {}
                        /\ MissingTargets(s, e.inverse) = {}}

\* The two stacks hold such entries.
Stacks(s) == [undo : Seq(Ready(s)), redo : Seq(Ready(s))]

\* At every peer, of the session it has now.
HistoryInv ==
    /\ DOMAIN history = Peers
    /\ \A p \in Peers : history[p] \in Stacks(crdt[p].session)

\* The inductive invariant of a system with undo.
UndoInv == IndInv /\ SessionsReflect /\ HistoryInv

\* An entry that finds its targets finds them ever after.
LEMMA StacksStay ==
    ASSUME NEW s, NEW r, NoneGone(s, r), NEW h \in Stacks(s)
    PROVE  h \in Stacks(r)
<1>1. Ready(s) \subseteq Ready(r)
    <2> SUFFICES ASSUME NEW e \in Ready(s)
                 PROVE  e \in Ready(r)
        OBVIOUS
    <2>1. e.forward \in Operation /\ e.inverse \in Operation
        BY DEF Ready, Entry
    <2> QED
        BY <2>1, StillFound DEF Ready
<1> DEFINE A == Seq(Ready(s))
           B == Seq(Ready(r))
<1>2. A \subseteq B
    <2> SUFFICES ASSUME NEW stack \in A
                 PROVE  stack \in B
        OBVIOUS
    <2> QED
        BY <1>1, StackMore
<1>3. h \in [undo : A, redo : A]
    BY DEF Stacks
<1> HIDE DEF A, B
<1>4. h \in [undo : B, redo : B]
    BY <1>2, <1>3
<1> QED
    BY <1>4 DEF Stacks, B

\* Every peer starts with empty stacks.
LEMMA InitUndo == UInit => UndoInv
<1> SUFFICES ASSUME UInit PROVE UndoInv
    OBVIOUS
<1>1. IndInv /\ SessionsReflect
    BY InitIndInv, InitReflects DEF UInit
<1>2. \A S : <<>> \in Seq(S)
    OBVIOUS
<1>3. HistoryInv
    <2>1. history = [p \in Peers |-> NoHistory]
        BY DEF UInit
    <2>2. \A s : NoHistory \in Stacks(s)
        BY <1>2 DEF NoHistory, Stacks
    <2> QED
        BY <2>1, <2>2 DEF HistoryInv
<1> QED
    BY <1>1, <1>3 DEF UndoInv

\* What issuing an operation does to its issuer: the operation is applied, and
\* waits only where it misses a target.
LEMMA IssueEffect ==
    ASSUME IndInv, NEW p \in Peers, NEW op \in Operation, Issue(p, op)
    PROVE  LET tag == Stamp(crdt[p], p, op).op_id
               res == Apply(crdt[p].session, op, tag)
           IN  /\ tag \in OpTag
               /\ crdt[p].session \in SessionState
               /\ crdt'[p].session = res.session
               /\ NoneGone(crdt[p].session, res.session)
               /\ MissingTargets(crdt[p].session, op) = {}
                    => crdt'[p].pending = crdt[p].pending
               /\ \A q \in Peers \ {p} : crdt'[q] = crdt[q]
<1> DEFINE o == Stamp(crdt[p], p, op)
           res == Apply(crdt[p].session, op, o.op_id)
<1>1. o \in TaggedOp /\ o.operation = op
    BY StampIsFresh DEF Issue, Stamp
<1>2. crdt \in [Peers -> Timeline] /\ crdt' = [crdt EXCEPT ![p] = Perform(crdt[p], o)]
    BY DEF IndInv, TypeOK, Issue
<1>3. crdt[p].session \in SessionState /\ o.op_id \in OpTag
    BY <1>1, <1>2 DEF Timeline, TaggedOp
<1> HIDE DEF o
<1>4. crdt'[p] = Perform(crdt[p], o) /\ \A q \in Peers \ {p} : crdt'[q] = crdt[q]
    BY <1>2
<1>5. /\ crdt'[p].session = res.session
      /\ res.ok => crdt'[p].pending = crdt[p].pending
    BY <1>1, <1>4 DEF Perform
<1>6. NoneGone(crdt[p].session, res.session)
    BY <1>3, ApplyLosesNone
<1>7. MissingTargets(crdt[p].session, op) = {} => res.ok
    BY <1>3, ApplyExists
<1> HIDE DEF res
<1> QED
    BY <1>3, <1>4, <1>5, <1>6, <1>7 DEF res, o

\* An edit is recorded as one that finds its targets.
LEMMA EditKeepsHistory ==
    ASSUME UndoInv, NEW p \in Peers, Edit(p)
    PROVE  HistoryInv'
<1>1. PICK op \in Edits[p] :
            LET s   == crdt[p].session
                tag == Stamp(crdt[p], p, op).op_id
            IN  /\ Issue(p, op)
                /\ history' = [history EXCEPT ![p] =
                        RecordEdit(@, op, ComputeInverse(s, op),
                                   Apply(s, op, tag).ok)]
    BY DEF Edit
<1> DEFINE s == crdt[p].session
           tag == Stamp(crdt[p], p, op).op_id
           res == Apply(s, op, tag)
           inv == ComputeInverse(s, op)
           h == history[p]
           entry == [forward |-> op, inverse |-> inv]
<1>2. op \in Operation
    BY EditIsOperation
<1>3. /\ tag \in OpTag /\ s \in SessionState
      /\ crdt'[p].session = res.session /\ NoneGone(s, res.session)
      /\ \A q \in Peers \ {p} : crdt'[q] = crdt[q]
    BY <1>1, <1>2, IssueEffect DEF UndoInv
<1>4. h \in Stacks(res.session)
    <2>1. h \in Stacks(s)
        BY DEF UndoInv, HistoryInv
    <2> QED
        BY <1>3, <2>1, StacksStay
<1>5. /\ DOMAIN history' = Peers
      /\ history'[p] = RecordEdit(h, op, inv, res.ok)
      /\ \A q \in Peers \ {p} : history'[q] = history[q]
    BY <1>1 DEF UndoInv, HistoryInv
<1> HIDE DEF tag, res, s, h
<1>6. RecordEdit(h, op, inv, res.ok) \in Stacks(res.session)
    <2>1. CASE inv = Vacant \/ ~res.ok
        BY <1>4, <2>1 DEF RecordEdit
    <2>2. CASE inv # Vacant /\ res.ok
        <3>1. inv \in Operation
            BY <1>2, <1>3, <2>2, InverseTyped
        <3>2. NoEditSplitsItself => /\ MissingTargets(res.session, op) = {}
                                    /\ MissingTargets(res.session, inv) = {}
            <4>1. NoEditSplitsItself => (op \in SplitEdit => op.new_clip # op.clip)
                BY DEF NoEditSplitsItself
            <4> QED
                BY <1>2, <1>3, <2>2, <4>1, RecordedFindsTargets DEF res
        <3>3. RecordEdit(h, op, inv, res.ok) = Record(h, entry)
            BY <2>2 DEF RecordEdit
        <3> HIDE DEF inv
        <3>4. entry \in Ready(res.session)
            BY <1>2, <3>1, <3>2 DEF Ready, Entry
        <3> HIDE DEF entry
        <3> DEFINE S == Ready(res.session)
                   r == Record(h, entry)
        <3>5. h.undo \in Seq(S)
            BY <1>4 DEF Stacks
        <3> HIDE DEF S
        <3>6. r.undo \in Seq(S) /\ r.redo \in Seq(S)
            BY <3>4, <3>5, RecordTyped DEF S
        <3>7. r = [undo |-> r.undo, redo |-> r.redo]
            BY DEF Record
        <3> HIDE DEF r
        <3>8. r \in [undo : Seq(S), redo : Seq(S)]
            BY <3>6, <3>7
        <3> QED
            BY <3>3, <3>8 DEF Stacks, S, r
    <2> QED
        BY <2>1, <2>2
<1> QED
    BY <1>3, <1>5, <1>6 DEF HistoryInv, UndoInv, s

\* Undo and redo move one entry from the top of a stack to the other, and what
\* they issue finds its target.
LEMMA StepBack ==
    ASSUME UndoInv, NEW p \in Peers, Undo(p) \/ Redo(p)
    PROVE  /\ \E op \in Operation : Issue(p, op)
           /\ NoEditSplitsItself => crdt'[p].pending = crdt[p].pending
           /\ HistoryInv'
<1> DEFINE s == crdt[p].session
           h == history[p]
           S == Ready(s)
<1>1. h \in Stacks(s) /\ DOMAIN history = Peers
    BY DEF UndoInv, HistoryInv
<1>2. h.undo \in Seq(S) /\ h.redo \in Seq(S)
    BY <1>1 DEF Stacks
<1> HIDE DEF S, h
<1>3. PICK op \in Operation, hp \in Stacks(s) :
            /\ Issue(p, op)
            /\ NoEditSplitsItself => MissingTargets(s, op) = {}
            /\ history' = [history EXCEPT ![p] = hp]
    <2>1. CASE Undo(p)
        <3> DEFINE e == Top(h.undo)
                   u == Pop(h.undo)
                   r == Append(h.redo, e)
        <3>1. h.undo # <<>> /\ Issue(p, e.inverse)
            BY <2>1 DEF Undo, h
        <3>2. e \in S /\ u \in Seq(S)
            BY <1>2, <3>1, StackTyped
        <3>3. history' = [history EXCEPT ![p] = [undo |-> u, redo |-> r]]
            BY <1>1, <2>1 DEF Undo, h, Stacks
        <3> HIDE DEF e, u
        <3>4. r \in Seq(S)
            BY <1>2, <3>2, StackTyped
        <3> HIDE DEF r
        <3>5. e.inverse \in Operation
              /\ (NoEditSplitsItself => MissingTargets(s, e.inverse) = {})
            BY <3>2 DEF S, Ready, Entry
        <3>6. [undo |-> u, redo |-> r] \in Stacks(s)
            BY <3>2, <3>4 DEF Stacks, S
        <3> QED
            BY <3>1, <3>3, <3>5, <3>6
    <2>2. CASE Redo(p)
        <3> DEFINE e == Top(h.redo)
                   r == Pop(h.redo)
                   u == Append(h.undo, e)
        <3>1. h.redo # <<>> /\ Issue(p, e.forward)
            BY <2>2 DEF Redo, h
        <3>2. e \in S /\ r \in Seq(S)
            BY <1>2, <3>1, StackTyped
        <3>3. history' = [history EXCEPT ![p] = [undo |-> u, redo |-> r]]
            BY <1>1, <2>2 DEF Redo, h, Stacks
        <3> HIDE DEF e, r
        <3>4. u \in Seq(S)
            BY <1>2, <3>2, StackTyped
        <3> HIDE DEF u
        <3>5. e.forward \in Operation
              /\ (NoEditSplitsItself => MissingTargets(s, e.forward) = {})
            BY <3>2 DEF S, Ready, Entry
        <3>6. [undo |-> u, redo |-> r] \in Stacks(s)
            BY <3>2, <3>4 DEF Stacks, S
        <3> QED
            BY <3>1, <3>3, <3>5, <3>6
    <2> QED
        BY <2>1, <2>2
<1> DEFINE res == Apply(s, op, Stamp(crdt[p], p, op).op_id)
<1>4. /\ s \in SessionState
      /\ crdt'[p].session = res.session /\ NoneGone(s, res.session)
      /\ MissingTargets(s, op) = {} => crdt'[p].pending = crdt[p].pending
      /\ \A q \in Peers \ {p} : crdt'[q] = crdt[q]
    BY <1>3, IssueEffect DEF UndoInv
<1> HIDE DEF res
<1>5. hp \in Stacks(res.session)
    BY <1>3, <1>4, StacksStay
<1>6. /\ DOMAIN history' = Peers /\ history'[p] = hp
      /\ \A q \in Peers \ {p} : history'[q] = history[q]
    BY <1>1, <1>3
<1>7. HistoryInv'
    <2>1. \A q \in Peers \ {p} : history[q] \in Stacks(crdt[q].session)
        BY DEF UndoInv, HistoryInv
    <2> QED
        BY <1>4, <1>5, <1>6, <2>1 DEF HistoryInv
<1> QED
    BY <1>3, <1>4, <1>7

\* What is received takes no clip or track away that an entry needs.
LEMMA RemoteKeepsHistory ==
    ASSUME UndoInv, NEW p \in Peers, NEW o \in sent, URemote(p, o)
    PROVE  HistoryInv'
<1> DEFINE t == crdt[p]
<1>1. /\ crdt' = [crdt EXCEPT ![p] = Receive(t, o)]
      /\ history' = history
    BY DEF URemote, ApplyRemote
<1>2. crdt \in [Peers -> Timeline] /\ t \in Timeline /\ o \in TaggedOp
    BY DEF UndoInv, IndInv, TypeOK
<1>3. NoneGone(t.session, Receive(t, o).session)
    <2>1. CASE o.op_id \in t.seen
        BY <2>1 DEF Receive, NoneGone
    <2>2. CASE o.op_id \notin t.seen
        BY <1>2, <2>2, AcceptLosesNone DEF Receive
    <2> QED
        BY <2>1, <2>2
<1>4. /\ crdt'[p] = Receive(t, o)
      /\ \A q \in Peers \ {p} : crdt'[q] = crdt[q]
    BY <1>1, <1>2
<1>5. DOMAIN history = Peers
      /\ \A q \in Peers : history[q] \in Stacks(crdt[q].session)
    BY DEF UndoInv, HistoryInv
<1>6. history[p] \in Stacks(crdt'[p].session)
    BY <1>3, <1>4, <1>5, StacksStay
<1> QED
    BY <1>1, <1>4, <1>5, <1>6 DEF HistoryInv

\* One step of a system with undo.
LEMMA UndoNext == UndoInv /\ [UNext]_uvars => UndoInv'
<1> SUFFICES ASSUME UndoInv, [UNext]_uvars PROVE UndoInv'
    OBVIOUS
<1>1. ASSUME NEW p \in Peers, NEW op \in Operation, Issue(p, op)
      PROVE  IndInv' /\ SessionsReflect'
    BY <1>1, IssueKeepsIndInv, IssueReflects DEF UndoInv
<1>2. ASSUME NEW p \in Peers, Edit(p)
      PROVE  UndoInv'
    <2>1. PICK op \in Edits[p] : Issue(p, op)
        BY <1>2 DEF Edit
    <2>2. op \in Operation
        BY EditIsOperation
    <2> QED
        BY <1>1, <1>2, <2>1, <2>2, EditKeepsHistory DEF UndoInv
<1>3. ASSUME NEW p \in Peers, Undo(p) \/ Redo(p)
      PROVE  UndoInv'
    BY <1>1, <1>3, StepBack DEF UndoInv
<1>4. ASSUME NEW p \in Peers, NEW o \in sent, URemote(p, o)
      PROVE  UndoInv'
    <2>1. IndInv' /\ SessionsReflect'
        BY <1>4, ReceiveKeepsIndInv, ReceiveReflects DEF URemote, UndoInv
    <2> QED
        BY <1>4, <2>1, RemoteKeepsHistory DEF UndoInv
<1>5. CASE UNCHANGED uvars
    BY <1>5 DEF uvars, vars, UndoInv, HistoryInv, IndInv, TypeOK,
        LogHasNoDuplicates, OpIdsUnique, IssuedAfterObserved, BufferIsLogged,
        ClockCoversLog, Log, Pending, SessionsReflect, Applied
<1> QED
    BY <1>2, <1>3, <1>4, <1>5 DEF UNext

\* In every state of a system with undo and redo.
LEMMA UndoInvariance == USpec => []UndoInv
<1> QED
    BY InitUndo, UndoNext, PTL DEF USpec

\* Undo and redo take effect at once, whatever was received since the edit:
\* clips and tracks are only marked deleted, so what an entry is about stays
\* known.  A clip split into itself is the exception: where there is no such
\* clip apply_op lets the split through without making one, and the deletion
\* recorded as its inverse waits.
THEOREM UndoneAtOnce ==
    ASSUME NoEditSplitsItself
    PROVE  USpec => UndoTakesEffect
<1>1. UndoInv /\ [UNext]_uvars
        => [\A p \in Peers :
                Undo(p) \/ Redo(p) => crdt'[p].pending = crdt[p].pending]_uvars
    BY StepBack
<1> QED
    BY <1>1, UndoInvariance, PTL DEF USpec, UndoTakesEffect

\* Peers that undo and redo converge like peers that only edit: what is
\* reverted is one more operation, under a tag of its own.
THEOREM UndoConverges ==
    USpec => /\ []LastWriterWins
             /\ []EditsConverge
             /\ [](OneSplitPerPiece(sent) => Convergence)
<1>1. UndoInv => /\ LastWriterWins
                 /\ EditsConverge
                 /\ (OneSplitPerPiece(sent) => Convergence)
    BY ReflectsLastWrites, ReflectsEdits, ReflectsSessions DEF UndoInv
<1> QED
    BY <1>1, UndoInvariance, PTL

-----------------------------------------------------------------------------
(* Undo and redo restore the view                                          *)

\* The fields of a clip but those of its place, which splits have a say in.
PlainField == ClipField \ TrimField

\* What the view shows of s and of t is the same: a clip that only t knows is
\* deleted there.
LooksAlike(s, t) ==
    /\ \A x \in ClipId :
        /\ Exists(s.clips, x) =>
            /\ Exists(t.clips, x)
            /\ t.clips[x].alive.value = s.clips[x].alive.value
            /\ Geometry(t, x) = Geometry(s, x)
            /\ \A f \in PlainField : Inherited(t, x, f) = Inherited(s, x, f)
        /\ Exists(t.clips, x) /\ ~Exists(s.clips, x) => ~t.clips[x].alive.value
    /\ \A k \in TrackId :
        /\ TrackAlive(t, k) <=> TrackAlive(s, k)
        /\ TrackAlive(s, k) => \A f \in TrackField :
                t.tracks[k].regs[f].value = s.tracks[k].regs[f].value
    /\ \A e \in Target :
        /\ Unwritten(t.envelopes[e]) <=> Unwritten(s.envelopes[e])
        /\ t.envelopes[e].value = s.envelopes[e].value
    /\ \A f \in MetaField : t.metadata[f].value = s.metadata[f].value

\* A clip that looks the same at the same place, on a track that is there in
\* both sessions, resolves to the same fields and is visible in both or neither.
LEMMA ResolvesAlike ==
    ASSUME NEW s, NEW t, LooksAlike(s, t), NEW x \in ClipId, Exists(s.clips, x)
    PROVE  /\ ResolveClip(t, x).fields = ResolveClip(s, x).fields
           /\ ResolveClip(t, x).visible <=> ResolveClip(s, x).visible
<1> DEFINE place == Geometry(s, x)
           seenAs == IF place = NoRange THEN <<0, 0>> ELSE place
<1>1. /\ Exists(t.clips, x) /\ Geometry(t, x) = place
      /\ t.clips[x].alive.value = s.clips[x].alive.value
      /\ \A f \in PlainField : Inherited(t, x, f) = Inherited(s, x, f)
    BY DEF LooksAlike
<1>2. \A k : TrackAlive(t, k) <=> TrackAlive(s, k)
    <2>1. \A k : k \notin TrackId => ~TrackAlive(t, k) /\ ~TrackAlive(s, k)
        BY DEF TrackAlive
    <2> QED
        BY <2>1 DEF LooksAlike
<1>3. Inherited(t, x, "track") = Inherited(s, x, "track")
    BY <1>1 DEF PlainField, ClipField, TrimField
<1>4. /\ ResolveClip(s, x) = ResolvedAt(s, x, place)
      /\ ResolveClip(t, x) = ResolvedAt(t, x, place)
    BY <1>1 DEF ResolveClip
<1> HIDE DEF place
<1>5. /\ ResolveClip(s, x).fields = [f \in ClipField |->
                                        IF f = "start_frame" THEN seenAs[1]
                                        ELSE IF f = "duration_frames" THEN seenAs[2]
                                        ELSE Inherited(s, x, f)]
      /\ ResolveClip(t, x).fields = [f \in ClipField |->
                                        IF f = "start_frame" THEN seenAs[1]
                                        ELSE IF f = "duration_frames" THEN seenAs[2]
                                        ELSE Inherited(t, x, f)]
      /\ ResolveClip(s, x).visible = (/\ s.clips[x].alive.value
                                      /\ place # NoRange
                                      /\ TrackAlive(s, Inherited(s, x, "track"))
                                      /\ seenAs[2] > 0)
      /\ ResolveClip(t, x).visible = (/\ t.clips[x].alive.value
                                      /\ place # NoRange
                                      /\ TrackAlive(t, Inherited(t, x, "track"))
                                      /\ seenAs[2] > 0)
    BY <1>4 DEF ResolvedAt
<1> HIDE DEF seenAs
<1>6. \A f \in ClipField : f # "start_frame" /\ f # "duration_frames"
            => Inherited(t, x, f) = Inherited(s, x, f)
    BY <1>1 DEF PlainField, TrimField
<1>7. ResolveClip(t, x).fields = ResolveClip(s, x).fields
    BY <1>5, <1>6
<1> QED
    BY <1>1, <1>2, <1>3, <1>5, <1>7

\* Sessions that look alike have the same view.
LEMMA SameView ==
    ASSUME NEW s, NEW t, LooksAlike(s, t)
    PROVE  View(t) = View(s)
<1> DEFINE Known(r) == {x \in ClipId : Exists(r.clips, x)}
           resolved(r) == [c \in Known(r) |-> ResolveClip(r, c)]
           seenIn(r) == {x \in Known(r) : ResolveClip(r, x).visible}
           tracks(r) == {x \in TrackId : TrackAlive(r, x)}
           written(r) == {x \in Target : ~Unwritten(r.envelopes[x])}
<1>1. \A r : VisibleOnes(resolved(r))
                = [c \in seenIn(r) |-> ResolveClip(r, c).fields]
    <2> SUFFICES ASSUME NEW r
                 PROVE  VisibleOnes(resolved(r))
                            = [c \in seenIn(r) |-> ResolveClip(r, c).fields]
        OBVIOUS
    <2>1. {x \in DOMAIN resolved(r) : resolved(r)[x].visible} = seenIn(r)
        OBVIOUS
    <2>2. \A c \in seenIn(r) : resolved(r)[c].fields = ResolveClip(r, c).fields
        OBVIOUS
    <2> HIDE DEF resolved, seenIn
    <2> QED
        BY <2>1, <2>2 DEF VisibleOnes
<1>2. seenIn(t) = seenIn(s)
    <2>1. ASSUME NEW x \in ClipId, Exists(t.clips, x), ~Exists(s.clips, x)
          PROVE  ~ResolveClip(t, x).visible
        <3>1. ~t.clips[x].alive.value
            BY <2>1 DEF LooksAlike
        <3> QED
            BY <3>1 DEF ResolveClip, ResolvedAt
    <2>2. \A x \in ClipId : Exists(s.clips, x) => Exists(t.clips, x)
        BY DEF LooksAlike
    <2> QED
        BY <2>1, <2>2, ResolvesAlike
<1>3. \A c \in seenIn(s) : ResolveClip(t, c).fields = ResolveClip(s, c).fields
    BY ResolvesAlike
<1>4. VisibleOnes(resolved(t)) = VisibleOnes(resolved(s))
    <2> HIDE DEF resolved, seenIn
    <2> QED
        BY <1>1, <1>2, <1>3
<1>5. tracks(t) = tracks(s) /\ written(t) = written(s)
    BY DEF LooksAlike
<1>6. /\ \A x \in tracks(s) : [f \in TrackField |-> t.tracks[x].regs[f].value]
                                = [f \in TrackField |-> s.tracks[x].regs[f].value]
      /\ \A e \in written(s) : t.envelopes[e].value = s.envelopes[e].value
      /\ [f \in MetaField |-> t.metadata[f].value]
            = [f \in MetaField |-> s.metadata[f].value]
    BY DEF LooksAlike
<1>7. \A r : View(r) =
            [ clips     |-> VisibleOnes(resolved(r)),
              tracks    |-> [x \in tracks(r) |->
                                [f \in TrackField |-> r.tracks[x].regs[f].value]],
              envelopes |-> [e \in written(r) |-> r.envelopes[e].value],
              metadata  |-> [f \in MetaField |-> r.metadata[f].value] ]
    BY DEF View
<1> HIDE DEF resolved, tracks, written
<1> QED
    BY <1>4, <1>5, <1>6, <1>7

\* What exists in s was split from the same clip in t.
SameParents(s, t) ==
    \A x \in ClipId : Exists(s.clips, x) => ParentOf(t, x) = ParentOf(s, x)

\* Then the chains are the same.
LEMMA SameChains ==
    ASSUME NEW s \in SessionState, NEW t, SameParents(s, t),
           NEW c \in ClipId, Exists(s.clips, c)
    PROVE  \A k \in 0..Depth : Chain(t, c)[k] = Chain(s, c)[k]
<1> DEFINE up == Chain(s, c)
           other == Chain(t, c)
           Bad == {m \in 0..Depth : other[m] # up[m]}
<1>1. /\ up[0] = c /\ \A k \in 1..Depth : up[k] = Above(s, up[k - 1])
      /\ other[0] = c /\ \A k \in 1..Depth : other[k] = Above(t, other[k - 1])
    BY DepthTyped, ChainSteps
<1>2. \A k \in 0..Depth : up[k] # Vacant =>
            up[k] \in ClipId /\ Exists(s.clips, up[k])
    BY DepthTyped, ChainClips
<1> HIDE DEF up, other
<1>3. ASSUME NEW m \in Bad, \A j \in Bad : m <= j
      PROVE  FALSE
    <2>1. m \in 0..Depth /\ m # 0 /\ other[m] # up[m]
        BY <1>1
    <2>2. m - 1 \in 0..Depth /\ m \in 1..Depth /\ m - 1 \notin Bad
        BY <1>3, <2>1, DepthTyped
    <2>3. other[m - 1] = up[m - 1]
        BY <2>2
    <2>4. up[m] = Above(s, up[m - 1]) /\ other[m] = Above(t, up[m - 1])
        BY <1>1, <2>2, <2>3
    <2>5. Above(t, up[m - 1]) = Above(s, up[m - 1])
        BY <1>2, <2>2 DEF Above, SameParents
    <2> QED
        BY <2>1, <2>4, <2>5
<1>4. Bad = {}
    <2>1. Bad \subseteq Nat
        BY DepthTyped
    <2> HIDE DEF Bad
    <2> QED
        BY <1>3, <2>1, NoLeast
<1> QED
    BY <1>4 DEF up, other

\* What exists in s has the same range in t, below the same range.
SameRules(s, t) ==
    \A x \in ClipId : Exists(s.clips, x) =>
        \A above : RangeBelow(t, t.clips[x], ParentOf(t, x), above)
                        = RangeBelow(s, s.clips[x], ParentOf(s, x), above)

\* Then it has the same range.
LEMMA SameRanges ==
    ASSUME NEW s \in SessionState, NEW t, SameParents(s, t), SameRules(s, t),
           NEW c \in ClipId, Exists(s.clips, c)
    PROVE  FullRange(t, c) = FullRange(s, c)
<1> DEFINE up == Chain(s, c)
           other == Chain(t, c)
           range == CHOOSE f : IsRange(f, s, up, Depth)
           ranger == CHOOSE f : IsRange(f, t, other, Depth)
           Bad == {m \in 0..Depth : ranger[m] # range[m]}
<1>1. FullRange(s, c) = range[Depth] /\ FullRange(t, c) = ranger[Depth]
    BY DEF FullRange, RangeAlong, IsRange, RangeStep
<1>2. \A k \in 0..Depth : other[k] = up[k]
    BY SameChains
<1>3. \A k \in 0..Depth : up[k] # Vacant =>
            up[k] \in ClipId /\ Exists(s.clips, up[k])
    BY DepthTyped, ChainClips
<1> HIDE DEF up, other
<1>4. IsRange(range, s, up, Depth)
    <2>1. \E f : IsRange(f, s, up, Depth)
        BY DepthTyped, RangeExists
    <2> QED
        BY <2>1
<1>5. IsRange(ranger, t, other, Depth)
    <2>1. \E f : IsRange(f, t, other, Depth)
        BY DepthTyped, RangeExists
    <2> QED
        BY <2>1
<1> HIDE DEF range, ranger
<1>6. \A n \in 0..Depth : /\ range[n] = RangeStep(s, up, n, range[n - 1])
                          /\ ranger[n] = RangeStep(t, other, n, ranger[n - 1])
    BY <1>4, <1>5 DEF IsRange
<1>7. ASSUME NEW n \in 0..Depth, NEW a, NEW b, n # 0 => a = b
      PROVE  RangeStep(t, other, n, a) = RangeStep(s, up, n, b)
    <2> DEFINE x == up[Depth - n]
               before == IF n = 0 THEN NoRange ELSE b
    <2>1. Depth - n \in 0..Depth
        BY DepthTyped
    <2>2. other[Depth - n] = x
        BY <1>2, <2>1
    <2>3. x # Vacant => x \in ClipId /\ Exists(s.clips, x)
        BY <1>3, <2>1
    <2>4. /\ RangeStep(s, up, n, b) =
                IF x = Vacant THEN NoRange
                ELSE RangeBelow(s, s.clips[x], ParentOf(s, x), before)
          /\ RangeStep(t, other, n, a) =
                IF x = Vacant THEN NoRange
                ELSE RangeBelow(t, t.clips[x], ParentOf(t, x), before)
        <3> HIDE DEF x
        <3> QED
            BY <1>7, <2>2 DEF RangeStep, x
    <2> HIDE DEF x, before
    <2> QED
        BY <2>3, <2>4 DEF SameRules
<1>8. ASSUME NEW m \in Bad, \A j \in Bad : m <= j
      PROVE  FALSE
    <2>1. m \in 0..Depth /\ ranger[m] # range[m]
        OBVIOUS
    <2>2. m # 0 => ranger[m - 1] = range[m - 1]
        <3>1. m # 0 => m - 1 \in 0..Depth /\ ~(m <= m - 1)
            BY <2>1, DepthTyped
        <3>2. m # 0 => m - 1 \notin Bad
            <4> HIDE DEF Bad
            <4> QED
                BY <1>8, <3>1
        <3> QED
            BY <3>1, <3>2
    <2>3. RangeStep(t, other, m, ranger[m - 1]) = RangeStep(s, up, m, range[m - 1])
        BY <1>7, <2>1, <2>2
    <2> QED
        BY <1>6, <2>1, <2>3
<1>9. Bad = {}
    <2>1. Bad \subseteq Nat
        BY DepthTyped
    <2> HIDE DEF Bad
    <2> QED
        BY <1>8, <2>1, NoLeast
<1>10. Depth \in 0..Depth
    BY DepthTyped
<1> QED
    BY <1>1, <1>9, <1>10

\* There is nothing above a clip without a known parent.
LEMMA NothingAbove ==
    ASSUME NEW s, NEW c \in ClipId, ParentOf(s, c) = Vacant
    PROVE  \A m \in 1..Depth : Chain(s, c)[m] = Vacant
<1> DEFINE up == Chain(s, c)
           Higher == {m \in 0..Depth : m # 0 /\ up[m] # Vacant}
<1>1. up[0] = c /\ \A k \in 1..Depth : up[k] = Above(s, up[k - 1])
    BY DepthTyped, ChainSteps
<1> HIDE DEF up
<1>2. ASSUME NEW m \in Higher, \A j \in Higher : m <= j
      PROVE  FALSE
    <2>1. m \in 0..Depth /\ m # 0 /\ up[m] # Vacant
        OBVIOUS
    <2>2. m - 1 \in 0..Depth /\ m \in 1..Depth /\ ~(m <= m - 1)
        BY <2>1, DepthTyped
    <2>3. m - 1 \notin Higher
        <3> HIDE DEF Higher
        <3> QED
            BY <1>2, <2>2
    <2>4. m - 1 = 0 \/ up[m - 1] = Vacant
        BY <2>2, <2>3
    <2>5. up[m] = Above(s, up[m - 1])
        BY <1>1, <2>2
    <2> QED
        BY <1>1, <2>1, <2>4, <2>5 DEF Above
<1>3. Higher = {}
    <2>1. Higher \subseteq Nat
        BY DepthTyped
    <2> HIDE DEF Higher
    <2> QED
        BY <1>2, <2>1, NoLeast
<1> QED
    BY <1>3, DepthTyped DEF up

\* So its chain ends.
LEMMA TopEnds ==
    ASSUME NEW s, NEW c \in ClipId, ParentOf(s, c) = Vacant
    PROVE  ~Cyclic(s, c)
<1>1. Depth # 0
    BY ViewAssumption, FS_EmptySet DEF Depth
<1>2. Depth \in 1..Depth
    BY <1>1, DepthTyped
<1> QED
    BY <1>2, NothingAbove DEF Cyclic

\* Some clip of a chain, not the top one, has not written the field.
OpenAlong(s, c, f) ==
    \E k \in 0..(Depth - 1) :
        /\ Chain(s, c)[k] # Vacant /\ Chain(s, c)[k + 1] # Vacant
        /\ Unwritten(s.clips[Chain(s, c)[k]].regs[f])

\* A clip at the top of a chain shows its own values.
LEMMA InheritedAtTop ==
    ASSUME NEW s, NEW c \in ClipId, NEW f, ParentOf(s, c) = Vacant
    PROVE  /\ ~OpenAlong(s, c, f)
           /\ Inherited(s, c, f) = s.clips[c].regs[f].value
<1> DEFINE up == Chain(s, c)
           open == {k \in 0..(Depth - 1) :
                        /\ up[k] # Vacant /\ up[k + 1] # Vacant
                        /\ Unwritten(s.clips[up[k]].regs[f])}
<1>1. up[0] = c
    BY DepthTyped, ChainSteps
<1>2. Inherited(s, c, f) = s.clips[up[IF open = {} THEN 0
                                      ELSE 1 + (CHOOSE k \in open :
                                            \A j \in open : j <= k)]].regs[f].value
    BY DEF Inherited, InheritedAlong
<1>3. OpenAlong(s, c, f) <=> open # {}
    BY DEF OpenAlong
<1>4. open = {}
    <2>1. \A k \in 0..(Depth - 1) : k + 1 \in 1..Depth
        BY DepthTyped
    <2> QED
        BY <2>1, NothingAbove
<1> HIDE DEF up, open
<1> QED
    BY <1>1, <1>2, <1>3, <1>4

\* Below the top, what resolve_clip's loop does with one clip of the chain: it
\* takes the value of the clip above where this clip or one above has not
\* written the field, and this clip's own value otherwise.
LEMMA InheritedStep ==
    ASSUME NEW s, NEW c \in ClipId, NEW f,
           ~Cyclic(s, c), ParentOf(s, c) # Vacant
    PROVE  /\ OpenAlong(s, c, f) <=>
                    \/ Unwritten(s.clips[c].regs[f])
                    \/ OpenAlong(s, ParentOf(s, c), f)
           /\ OpenAlong(s, c, f) =>
                    Inherited(s, c, f) = Inherited(s, ParentOf(s, c), f)
           /\ ~OpenAlong(s, c, f) => Inherited(s, c, f) = s.clips[c].regs[f].value
<1> DEFINE up == Chain(s, c)
           above == Chain(s, ParentOf(s, c))
           Open(ch) == {k \in 0..(Depth - 1) :
                            /\ ch[k] # Vacant /\ ch[k + 1] # Vacant
                            /\ Unwritten(s.clips[ch[k]].regs[f])}
           Last(S) == CHOOSE k \in S : \A j \in S : j <= k
           From(S) == IF S = {} THEN 0 ELSE 1 + Last(S)
<1>1. Depth \in Nat /\ c # Vacant
    BY DepthTyped, ViewAssumption
<1>2. /\ up[0] = c /\ \A k \in 1..Depth : up[k] = Above(s, up[k - 1])
      /\ above[0] = ParentOf(s, c)
      /\ \A k \in 1..Depth : above[k] = Above(s, above[k - 1])
    BY <1>1, ChainSteps
<1>3. \A k \in 0..(Depth - 1) : above[k] = up[k + 1]
    BY <1>1, ChainOfParent
<1>4. up[Depth] = Vacant
    BY DEF Cyclic
<1>5. /\ Inherited(s, c, f) = s.clips[up[From(Open(up))]].regs[f].value
      /\ Inherited(s, ParentOf(s, c), f)
            = s.clips[above[From(Open(above))]].regs[f].value
      /\ OpenAlong(s, c, f) <=> Open(up) # {}
      /\ OpenAlong(s, ParentOf(s, c), f) <=> Open(above) # {}
    BY DEF Inherited, InheritedAlong, OpenAlong
<1> HIDE DEF up, above
<1>6. Depth # 0 /\ Depth # 1
    <2>1. Depth # 0
        BY <1>1, <1>2, <1>4
    <2>2. above[0] = up[1]
        BY <1>1, <1>3, <2>1
    <2> QED
        BY <1>2, <1>4, <2>1, <2>2
<1>7. 0 \in Open(up) <=> Unwritten(s.clips[c].regs[f])
    <2>1. 0 \in 0..(Depth - 1) /\ above[0] = up[0 + 1]
        BY <1>1, <1>3, <1>6
    <2> QED
        BY <1>1, <1>2, <2>1
<1>8. ASSUME NEW k \in Open(above)
      PROVE  k + 1 \in Open(up) /\ k + 1 \in 0..(Depth - 1)
    <2>1. k \in 0..(Depth - 1) /\ above[k] = up[k + 1]
        BY <1>3
    <2>2. k # Depth - 1
        BY <1>1, <1>4, <2>1
    <2>3. k + 1 \in 0..(Depth - 1) /\ above[k + 1] = up[(k + 1) + 1]
        BY <1>1, <1>3, <2>1, <2>2
    <2> QED
        BY <2>1, <2>3
<1>9. ASSUME NEW k \in Open(up), k # 0
      PROVE  k - 1 \in Open(above)
    <2>1. k - 1 \in 0..(Depth - 1) /\ k \in 0..(Depth - 1) /\ (k - 1) + 1 = k
        BY <1>1, <1>9
    <2>2. above[k - 1] = up[k] /\ above[k] = up[k + 1]
        BY <1>3, <2>1
    <2> QED
        BY <2>1, <2>2
<1>10. /\ Open(up) \in SUBSET (0..Depth) /\ Open(above) \in SUBSET (0..Depth)
    BY <1>1
<1>11. \A S \in SUBSET (0..Depth) :
            S # {} => /\ Last(S) \in S /\ \A j \in S : j <= Last(S)
    <2> SUFFICES ASSUME NEW S \in SUBSET (0..Depth), S # {}
                 PROVE  /\ Last(S) \in S /\ \A j \in S : j <= Last(S)
        OBVIOUS
    <2>1. \E m \in S : \A j \in S : j <= m
        BY <1>1, HasGreatest
    <2> QED
        BY <2>1
<1>12. Open(up) # {} <=> Unwritten(s.clips[c].regs[f]) \/ Open(above) # {}
    <2> HIDE DEF Open
    <2> QED
        BY <1>7, <1>8, <1>9
<1> HIDE DEF Open, Last
<1>13. ASSUME Open(up) # {}
       PROVE  /\ From(Open(up)) = 1 + From(Open(above))
              /\ From(Open(above)) \in 0..(Depth - 1)
    <2> DEFINE top == Last(Open(up))
               topAbove == Last(Open(above))
    <2>1. top \in Open(up) /\ (\A j \in Open(up) : j <= top) /\ top \in Nat
        BY <1>1, <1>10, <1>11, <1>13
    <2>2. CASE Open(above) = {}
        <3>1. top = 0
            BY <1>9, <2>1, <2>2
        <3> QED
            BY <1>1, <1>6, <1>13, <2>2, <3>1
    <2>3. CASE Open(above) # {}
        <3>1. /\ topAbove \in Open(above) /\ topAbove \in Nat
              /\ \A j \in Open(above) : j <= topAbove
            BY <1>1, <1>10, <1>11, <2>3
        <3>2. topAbove + 1 \in Open(up) /\ topAbove + 1 \in 0..(Depth - 1)
            BY <1>8, <3>1
        <3>3. top >= topAbove + 1
            BY <2>1, <3>2
        <3> HIDE DEF top, topAbove
        <3>4. top - 1 \in Open(above)
            BY <1>9, <2>1, <3>1, <3>3
        <3>5. top - 1 <= topAbove
            BY <3>1, <3>4
        <3>6. top = 1 + topAbove
            BY <2>1, <3>1, <3>3, <3>5
        <3>7. /\ From(Open(up)) = 1 + top
              /\ From(Open(above)) = 1 + topAbove
            BY <1>13, <2>3 DEF top, topAbove
        <3> QED
            BY <3>1, <3>2, <3>6, <3>7
    <2> QED
        BY <2>2, <2>3
<1>14. Open(up) = {} => From(Open(up)) = 0
    OBVIOUS
<1> HIDE DEF From
<1>15. Open(up) # {} => up[From(Open(up))] = above[From(Open(above))]
    <2> DEFINE n == From(Open(above))
    <2>1. Open(up) # {} => n \in 0..(Depth - 1) /\ From(Open(up)) = n + 1
        BY <1>1, <1>13
    <2> HIDE DEF n
    <2>2. Open(up) # {} => above[n] = up[n + 1]
        BY <1>3, <2>1
    <2> QED
        BY <2>1, <2>2 DEF n
<1> QED
    BY <1>2, <1>5, <1>12, <1>14, <1>15

\* Writing what a clip shows where it stands changes what its pieces show,
\* unless the clip had written the field, is at the top of its chain, or has
\* no pieces.
FollowsAlone(s, c, f) ==
    \/ ~Unwritten(s.clips[c].regs[f])
    \/ ParentOf(s, c) = Vacant
    \/ \A x \in ClipId : Exists(s.clips, x) => ParentOf(s, x) # c

\* In field f clip x is in t as it is in s, or holds what it shows in s.
KeepsShowing(s, t, x, f) ==
    \/ /\ Unwritten(t.clips[x].regs[f]) <=> Unwritten(s.clips[x].regs[f])
       /\ t.clips[x].regs[f].value = s.clips[x].regs[f].value
    \/ /\ ~Unwritten(t.clips[x].regs[f])
       /\ t.clips[x].regs[f].value = Inherited(s, x, f)
       /\ FollowsAlone(s, x, f)

\* No chain of clips that exist runs in a circle: resolve_clip ends.
NoCircles(s) == \A x \in ClipId : Exists(s.clips, x) => ~Cyclic(s, x)

\* If all clips do, all clips show the same, which is shown from the top of
\* the chains downwards.
LEMMA SameInherited ==
    ASSUME NEW s \in SessionState, NEW t, SameParents(s, t), NoCircles(s), NEW f,
           \A x \in ClipId : Exists(s.clips, x) => KeepsShowing(s, t, x, f)
    PROVE  \A x \in ClipId : Exists(s.clips, x) =>
                Inherited(t, x, f) = Inherited(s, x, f)
<1> DEFINE Pieces0(x) == \E y \in ClipId : Exists(s.clips, y) /\ ParentOf(s, y) = x
           Same(x) ==
                /\ Inherited(t, x, f) = Inherited(s, x, f)
                /\ Pieces0(x) => (OpenAlong(t, x, f) <=> OpenAlong(s, x, f))
           High(x, m) == x \in ClipId /\ Exists(s.clips, x) /\ Chain(s, x)[m] = Vacant
           Bad == {m \in 0..Depth : \E x : High(x, m) /\ ~Same(x)}
<1>1. \A x \in ClipId : Exists(s.clips, x) => High(x, Depth) /\ ~Cyclic(t, x)
    BY SameChains, DepthTyped DEF NoCircles, Cyclic
<1>2. ASSUME NEW x \in ClipId, Exists(s.clips, x),
             ParentOf(s, x) # Vacant => Same(ParentOf(s, x))
      PROVE  Same(x)
    <2> DEFINE p == ParentOf(s, x)
    <2>1. ParentOf(t, x) = p
        BY <1>2 DEF SameParents
    <2>2. KeepsShowing(s, t, x, f)
        BY <1>2
    <2>3. CASE p = Vacant
        <3>1. /\ ~OpenAlong(s, x, f) /\ Inherited(s, x, f) = s.clips[x].regs[f].value
              /\ ~OpenAlong(t, x, f) /\ Inherited(t, x, f) = t.clips[x].regs[f].value
            BY <2>1, <2>3, InheritedAtTop
        <3> QED
            BY <2>2, <3>1 DEF KeepsShowing
    <2>4. CASE p # Vacant
        <3>1. /\ OpenAlong(s, x, f) <=>
                    Unwritten(s.clips[x].regs[f]) \/ OpenAlong(s, p, f)
              /\ OpenAlong(s, x, f) => Inherited(s, x, f) = Inherited(s, p, f)
              /\ ~OpenAlong(s, x, f)
                    => Inherited(s, x, f) = s.clips[x].regs[f].value
            BY <1>2, <2>4, InheritedStep DEF NoCircles
        <3>2. /\ OpenAlong(t, x, f) <=>
                    Unwritten(t.clips[x].regs[f]) \/ OpenAlong(t, p, f)
              /\ OpenAlong(t, x, f) => Inherited(t, x, f) = Inherited(t, p, f)
              /\ ~OpenAlong(t, x, f)
                    => Inherited(t, x, f) = t.clips[x].regs[f].value
            BY <1>1, <1>2, <2>1, <2>4, InheritedStep
        <3>3. /\ Inherited(t, p, f) = Inherited(s, p, f)
              /\ OpenAlong(t, p, f) <=> OpenAlong(s, p, f)
            BY <1>2, <2>4
        <3> HIDE DEF p
        <3>4. FollowsAlone(s, x, f) =>
                    ~Unwritten(s.clips[x].regs[f]) \/ ~Pieces0(x)
            BY <2>4 DEF FollowsAlone, p
        <3> QED
            BY <2>2, <3>1, <3>2, <3>3, <3>4 DEF KeepsShowing
    <2> QED
        BY <2>3, <2>4
<1>3. ASSUME NEW m \in Bad, \A j \in Bad : m <= j
      PROVE  FALSE
    <2>1. PICK x : High(x, m) /\ ~Same(x)
        OBVIOUS
    <2>2. m \in 0..Depth /\ x \in ClipId /\ Exists(s.clips, x) /\ x # Vacant
        BY <2>1, ViewAssumption
    <2>3. m # 0
        <3>1. Chain(s, x)[0] = x
            BY DepthTyped, ChainSteps
        <3> QED
            BY <2>1, <2>2, <3>1
    <2>4. m - 1 \in 0..Depth /\ ~(m <= m - 1) /\ m - 1 \in 0..(Depth - 1)
          /\ (m - 1) + 1 = m
        BY <2>2, <2>3, DepthTyped
    <2>5. m - 1 \notin Bad
        <3> HIDE DEF Bad
        <3> QED
            BY <1>3, <2>4
    <2>6. ASSUME ParentOf(s, x) # Vacant
          PROVE  Same(ParentOf(s, x))
        <3>1. ParentOf(s, x) \in ClipId /\ Exists(s.clips, ParentOf(s, x))
            BY <2>2, <2>6, ParentKnown
        <3>2. Chain(s, ParentOf(s, x))[m - 1] = Chain(s, x)[m]
            BY <2>2, <2>4, ChainOfParent, DepthTyped
        <3>3. High(ParentOf(s, x), m - 1)
            BY <2>1, <3>1, <3>2
        <3> HIDE DEF High, Same
        <3> QED
            BY <2>4, <2>5, <3>3
    <2> HIDE DEF Same
    <2> QED
        BY <1>2, <2>1, <2>2, <2>6
<1>4. Bad = {}
    <2>1. Bad \subseteq Nat
        BY DepthTyped
    <2> HIDE DEF Bad
    <2> QED
        BY <1>3, <2>1, NoLeast
<1>5. Depth \in 0..Depth
    BY DepthTyped
<1>6. \A x \in ClipId : Exists(s.clips, x) => Same(x)
    <2> HIDE DEF Same, High
    <2> QED
        BY <1>1, <1>4, <1>5
<1> QED
    BY <1>6

\* A piece that follows the splits of the clip it was cut from.
FollowsSplits(clip) == clip.parent # NoParent /\ ~clip.detached

\* What exists in s is cut from the same clip, cut at the same frames, deleted
\* or not and placed in t as it is in s; what only t knows is deleted there,
\* and no piece of s was cut from it.
KeepsPlace(s, t) ==
    /\ \A x \in ClipId : Exists(s.clips, x) =>
        /\ Exists(t.clips, x)
        /\ t.clips[x].parent = s.clips[x].parent
        /\ t.clips[x].splits = s.clips[x].splits
        /\ t.clips[x].alive.value = s.clips[x].alive.value
        /\ s.clips[x].parent # NoParent
                => t.clips[x].detached = s.clips[x].detached
        /\ s.clips[x].parent = NoParent =>
                ((\E f \in TrimField : Unwritten(t.clips[x].regs[f]))
                    <=> \E f \in TrimField : Unwritten(s.clips[x].regs[f]))
        /\ ~FollowsSplits(s.clips[x])
                => OwnRange(t.clips[x]) = OwnRange(s.clips[x])
    /\ \A x \in ClipId : Exists(t.clips, x) /\ ~Exists(s.clips, x) =>
        /\ ~t.clips[x].alive.value
        /\ \A y \in ClipId : Exists(s.clips, y) /\ s.clips[y].parent # NoParent
                => s.clips[y].parent[1] # x

\* So every clip is split from the same clip.
LEMMA KeptParents ==
    ASSUME NEW s \in SessionState, NEW t, KeepsPlace(s, t)
    PROVE  SameParents(s, t)
<1> SUFFICES ASSUME NEW x \in ClipId, Exists(s.clips, x)
             PROVE  ParentOf(t, x) = ParentOf(s, x)
    BY DEF SameParents
<1>1. t.clips[x].parent = s.clips[x].parent
    BY DEF KeepsPlace
<1>2. s.clips[x].parent \in {NoParent} \cup Claim
    BY DEF Exists, SessionState, Clip
<1>3. ASSUME s.clips[x].parent # NoParent
      PROVE  LET y == s.clips[x].parent[1]
             IN  Exists(t.clips, y) <=> Exists(s.clips, y)
    <2> DEFINE y == s.clips[x].parent[1]
    <2>1. y \in ClipId
        BY <1>2, <1>3 DEF Claim
    <2> QED
        BY <1>3, <2>1 DEF KeepsPlace
<1> QED
    BY <1>1, <1>3 DEF ParentOf

\* And has the same place.
LEMMA KeptGeometry ==
    ASSUME NEW s \in SessionState, NEW t, KeepsPlace(s, t),
           NEW c \in ClipId, Exists(s.clips, c)
    PROVE  Geometry(t, c) = Geometry(s, c)
<1>1. SameParents(s, t)
    BY KeptParents
<1>2. \A x \in ClipId : Exists(s.clips, x)
            => SplitOffsets(t.clips[x]) = SplitOffsets(s.clips[x])
    BY DEF KeepsPlace, SplitOffsets
<1>3. ASSUME NEW x \in ClipId, Exists(s.clips, x), NEW above
      PROVE  RangeBelow(t, t.clips[x], ParentOf(t, x), above)
                = RangeBelow(s, s.clips[x], ParentOf(s, x), above)
    <2> DEFINE old == s.clips[x]
               new == t.clips[x]
               p   == ParentOf(s, x)
    <2>1. ParentOf(t, x) = p
        BY <1>1, <1>3 DEF SameParents
    <2>2. /\ new.parent = old.parent
          /\ old.parent # NoParent => new.detached = old.detached
          /\ old.parent = NoParent =>
                ((\E f \in TrimField : Unwritten(new.regs[f]))
                    <=> \E f \in TrimField : Unwritten(old.regs[f]))
          /\ old.parent = NoParent \/ old.detached
                => OwnRange(new) = OwnRange(old)
        BY <1>3 DEF KeepsPlace, FollowsSplits
    <2>3. ASSUME p # Vacant
          PROVE  /\ t.clips[p].alive.value = s.clips[p].alive.value
                 /\ \A offset : Segment(t.clips[p], above, offset)
                                    = Segment(s.clips[p], above, offset)
        <3>1. p \in ClipId /\ Exists(s.clips, p)
            BY <1>3, <2>3, ParentKnown
        <3> HIDE DEF p
        <3> QED
            BY <1>2, <3>1 DEF KeepsPlace, Segment
    <2> HIDE DEF old, new, p
    <2>4. RangeBelow(t, new, p, above) = RangeBelow(s, old, p, above)
        BY <2>2, <2>3 DEF RangeBelow
    <2> QED
        BY <2>1, <2>4 DEF old, new, p
<1>4. FullRange(t, c) = FullRange(s, c)
    BY <1>1, <1>3, SameRanges DEF SameRules
<1> QED
    BY <1>2, <1>4 DEF Geometry, CutTail

\* A session whose clips keep their places and show what they showed looks
\* the same.
LEMMA ClipsLookAlike ==
    ASSUME NEW s \in SessionState, NEW t, NoCircles(s), KeepsPlace(s, t),
           SameBut(s, t, "clips"),
           \A x \in ClipId : Exists(s.clips, x) =>
                \A f \in PlainField : KeepsShowing(s, t, x, f)
    PROVE  LooksAlike(s, t)
<1>1. t.tracks = s.tracks /\ t.envelopes = s.envelopes /\ t.metadata = s.metadata
    BY DEF SameBut
<1>2. \A x \in ClipId : Exists(s.clips, x) =>
            \A f \in PlainField : Inherited(t, x, f) = Inherited(s, x, f)
    BY KeptParents, SameInherited
<1>3. \A x \in ClipId : Exists(s.clips, x) => Geometry(t, x) = Geometry(s, x)
    BY KeptGeometry
<1>4. \A k \in TrackId : TrackAlive(t, k) <=> TrackAlive(s, k)
    BY <1>1 DEF TrackAlive
<1>5. /\ \A x \in ClipId : Exists(s.clips, x) =>
            Exists(t.clips, x) /\ t.clips[x].alive.value = s.clips[x].alive.value
      /\ \A x \in ClipId : Exists(t.clips, x) /\ ~Exists(s.clips, x)
            => ~t.clips[x].alive.value
    BY DEF KeepsPlace
<1> QED
    BY <1>1, <1>2, <1>3, <1>4, <1>5 DEF LooksAlike

\* Registers last written at or before time n.
TagsBelow(s, n) ==
    /\ \A c \in ClipId : Exists(s.clips, c) =>
        /\ s.clips[c].alive.tag.lamport <= n
        /\ \A f \in ClipField : s.clips[c].regs[f].tag.lamport <= n
    /\ \A k \in TrackId : Exists(s.tracks, k) =>
        /\ s.tracks[k].alive.tag.lamport <= n
        /\ \A f \in TrackField : s.tracks[k].regs[f].tag.lamport <= n
    /\ \A e \in Target : s.envelopes[e].tag.lamport <= n
    /\ \A f \in MetaField : s.metadata[f].tag.lamport <= n

\* A later write wins, and is a write.
LEMMA LaterWins ==
    ASSUME NEW V, NEW reg \in Register(V), NEW n \in Nat,
           reg.tag.lamport <= n, NEW tag \in OpTag, tag.lamport > n, NEW v
    PROVE  Set(reg, v, tag) = Written(v, tag) /\ ~Unwritten(Written(v, tag))
<1>1. reg.tag \in OpTag /\ reg.tag.lamport \in Nat /\ tag.lamport \in Nat
    BY DEF Register, OpTag
<1>2. TagLess(reg.tag, tag)
    BY <1>1 DEF TagLess
<1>3. tag # InitialTag
    BY <1>1 DEF InitialTag
<1> QED
    BY <1>2, <1>3 DEF Set, Unwritten, Written

\* The registers of an entity after a later operation on it.
LaterRegs(F, regs, writes, tag) ==
    [f \in F |-> IF f \in DOMAIN writes THEN Written(writes[f], tag) ELSE regs[f]]

\* A later operation's writes all win.
LEMMA LaterSetAll ==
    ASSUME NEW F, NEW regs \in [F -> Register(Nat)], NEW n \in Nat,
           \A f \in F : regs[f].tag.lamport <= n,
           NEW tag \in OpTag, tag.lamport > n, NEW writes
    PROVE  SetAll(regs, writes, tag) = LaterRegs(F, regs, writes, tag)
<1>1. \A f \in F : Set(regs[f], writes[f], tag) = Written(writes[f], tag)
    BY LaterWins
<1> QED
    BY <1>1 DEF SetAll, LaterRegs

\* Those registers are no later than the operation.
LEMMA LaterRegsBelow ==
    ASSUME NEW F, NEW regs, NEW writes, NEW tag \in OpTag,
           NEW n \in Nat, tag.lamport > n,
           \A f \in F : f \notin DOMAIN writes =>
                /\ regs[f] \in Register(Nat) /\ regs[f].tag.lamport <= n
    PROVE  \A f \in F : LaterRegs(F, regs, writes, tag)[f].tag.lamport <= tag.lamport
<1> SUFFICES ASSUME NEW f \in F
             PROVE  LaterRegs(F, regs, writes, tag)[f].tag.lamport <= tag.lamport
    OBVIOUS
<1>1. tag.lamport \in Nat
    BY DEF OpTag
<1>2. CASE f \in DOMAIN writes
    <2>1. LaterRegs(F, regs, writes, tag)[f] = Written(writes[f], tag)
        BY <1>2 DEF LaterRegs
    <2> QED
        BY <1>1, <2>1 DEF Written
<1>3. CASE f \notin DOMAIN writes
    <2>1. LaterRegs(F, regs, writes, tag)[f] = regs[f]
        BY <1>3 DEF LaterRegs
    <2>2. regs[f].tag.lamport \in Nat
        BY <1>3 DEF Register, OpTag
    <2> QED
        BY <1>1, <1>3, <2>1, <2>2
<1> QED
    BY <1>2, <1>3

\* Which way a later operation leaves the liveness register.
LaterLife(alive, op) ==
    IF op.type \in {"InsertClip", "InsertTrack"} THEN TRUE
    ELSE IF op.type \in {"DeleteClip", "DeleteTrack"} THEN FALSE
    ELSE alive

\* A later operation decides whether its clip or track is alive.
LEMMA LaterSetAlive ==
    ASSUME NEW reg \in Register(BOOLEAN), NEW n \in Nat, reg.tag.lamport <= n,
           NEW tag \in OpTag, tag.lamport > n, NEW op
    PROVE  /\ SetAlive(reg, op, tag).value = LaterLife(reg.value, op)
           /\ SetAlive(reg, op, tag).tag.lamport <= tag.lamport
<1>1. \A v : Set(reg, v, tag) = Written(v, tag)
    BY LaterWins
<1>2. reg.tag.lamport \in Nat /\ tag.lamport \in Nat
    BY DEF Register, OpTag
<1>3. CASE op.type \in {"InsertClip", "InsertTrack"}
    <2>1. SetAlive(reg, op, tag) = Written(TRUE, tag) /\ LaterLife(reg.value, op) = TRUE
        BY <1>1, <1>3 DEF SetAlive, LaterLife
    <2>2. Written(TRUE, tag).value = TRUE /\ Written(TRUE, tag).tag = tag
        BY DEF Written
    <2>3. tag.lamport <= tag.lamport
        BY <1>2
    <2> QED
        BY <2>1, <2>2, <2>3, Zenon
<1>4. CASE op.type \in {"DeleteClip", "DeleteTrack"}
    <2>1. SetAlive(reg, op, tag) = Written(FALSE, tag) /\ LaterLife(reg.value, op) = FALSE
        BY <1>1, <1>4 DEF SetAlive, LaterLife
    <2>2. Written(FALSE, tag).value = FALSE /\ Written(FALSE, tag).tag = tag
        BY DEF Written
    <2>3. tag.lamport <= tag.lamport
        BY <1>2
    <2> QED
        BY <2>1, <2>2, <2>3, Zenon
<1>5. CASE op.type \notin {"InsertClip", "InsertTrack", "DeleteClip", "DeleteTrack"}
    <2>1. SetAlive(reg, op, tag) = reg /\ LaterLife(reg.value, op) = reg.value
        BY <1>5 DEF SetAlive, LaterLife
    <2> QED
        BY <1>2, <2>1
<1> QED
    BY <1>3, <1>4, <1>5

\* What a later clip edit leaves.
ClipEdited(s, r, op, tag) ==
    LET c == op.clip
    IN  /\ SameBut(s, r, "clips")
        /\ \A x \in ClipId \ {c} : r.clips[x] = s.clips[x]
        /\ Exists(r.clips, c)
        /\ r.clips[c].regs = LaterRegs(ClipField, s.clips[c].regs, op.writes, tag)
        /\ Exists(s.clips, c) =>
            /\ r.clips[c].alive.value = LaterLife(s.clips[c].alive.value, op)
            /\ r.clips[c].parent = s.clips[c].parent
            /\ r.clips[c].splits = s.clips[c].splits
            /\ r.clips[c].detached =
                    (s.clips[c].detached \/ op.type \in {"MoveClip", "TrimClip"})
        /\ ~Exists(s.clips, c) =>
            /\ r.clips[c].alive.value
            /\ r.clips[c].parent = NoParent
            /\ r.clips[c].splits = {}

\* ClipCrdt::apply of an operation later than all the session has seen.
LEMMA LaterClipEdit ==
    ASSUME NEW s \in SessionState, NEW n \in Nat, TagsBelow(s, n),
           NEW op \in ClipEdit, NEW tag \in OpTag, tag.lamport > n,
           Exists(s.clips, op.clip) \/ op.type = "InsertClip"
    PROVE  LET r == Apply(s, op, tag).session
           IN  /\ r \in SessionState
               /\ ClipEdited(s, r, op, tag)
               /\ TagsBelow(r, tag.lamport)
<1> DEFINE c == op.clip
           r == Apply(s, op, tag).session
           new == r.clips[c]
<1>1. op \in Operation /\ c \in ClipId /\ tag.lamport \in Nat
    BY DEF Operation, ClipEdit, OpTag
<1>2. r \in SessionState
    BY <1>1, ApplyTyped
<1>3. r = ApplyClipEdit(s, op, tag).session
    BY <1>1, ApplyDispatch
<1>4. /\ SameBut(s, r, "clips")
      /\ \A x \in ClipId \ {c} : r.clips[x] = s.clips[x]
      /\ Exists(r.clips, c)
      /\ new = IF Exists(s.clips, c) THEN ApplyToClip(s.clips[c], op, tag)
               ELSE ClipFromInsert(op, tag)
    <2> DEFINE a == ApplyClipEdit(s, op, tag)
    <2>1. a.ok
        BY ClipEditEffect
    <2> QED
        BY <1>3, <2>1, ClipEditEffect
<1> HIDE DEF r
<1>5. /\ ClipEdited(s, r, op, tag)
      /\ new.alive.tag.lamport <= tag.lamport
      /\ \A f \in ClipField : new.regs[f].tag.lamport <= tag.lamport
    <2>1. CASE Exists(s.clips, c)
        <3> DEFINE old == s.clips[c]
        <3>1. old \in Clip
            BY <1>1, <2>1 DEF Exists, SessionState
        <3>2. old.regs \in [ClipField -> Register(Nat)] /\ old.alive \in Register(BOOLEAN)
            BY <3>1 DEF Clip
        <3>3. /\ \A f \in ClipField : old.regs[f].tag.lamport <= n
              /\ old.alive.tag.lamport <= n
            BY <1>1, <2>1 DEF TagsBelow
        <3>4. /\ new.alive = SetAlive(old.alive, op, tag)
              /\ new.regs = SetAll(old.regs, op.writes, tag)
              /\ new.detached = (old.detached \/ op.type \in {"MoveClip", "TrimClip"})
              /\ new.parent = old.parent /\ new.splits = old.splits
            BY <1>4, <2>1, <3>1 DEF ApplyToClip, Clip
        <3> HIDE DEF old
        <3>5. new.regs = LaterRegs(ClipField, old.regs, op.writes, tag)
            BY <3>2, <3>3, <3>4, LaterSetAll
        <3>6. \A f \in ClipField :
                    LaterRegs(ClipField, old.regs, op.writes, tag)[f].tag.lamport
                        <= tag.lamport
            BY <3>2, <3>3, LaterRegsBelow
        <3>7. /\ new.alive.value = LaterLife(old.alive.value, op)
              /\ new.alive.tag.lamport <= tag.lamport
            BY <3>2, <3>3, <3>4, LaterSetAlive
        <3> QED
            BY <1>4, <2>1, <3>4, <3>5, <3>6, <3>7 DEF ClipEdited, old
    <2>2. CASE ~Exists(s.clips, c)
        <3>1. op.type = "InsertClip"
            BY <2>2
        <3>2. DOMAIN op.writes = ClipField
            BY <3>1 DEF ClipEdit, InsertWrites
        <3>3. new = ClipFromInsert(op, tag)
            BY <1>4, <2>2
        <3>4. /\ new.regs = AllWritten(op.writes, tag)
              /\ new.alive = Written(TRUE, tag)
              /\ new.parent = NoParent /\ new.splits = {}
            BY <3>3 DEF ClipFromInsert
        <3>5. new.regs = LaterRegs(ClipField, s.clips[c].regs, op.writes, tag)
            BY <3>2, <3>4 DEF AllWritten, LaterRegs
        <3>6. \A f \in ClipField :
                LaterRegs(ClipField, s.clips[c].regs, op.writes, tag)[f].tag.lamport
                    <= tag.lamport
            BY <3>2, LaterRegsBelow
        <3>7. new.alive.tag.lamport <= tag.lamport /\ new.alive.value
            BY <1>1, <3>4 DEF Written
        <3> HIDE DEF new
        <3> QED
            BY <1>4, <2>2, <3>4, <3>5, <3>6, <3>7 DEF ClipEdited, new
    <2> QED
        BY <2>1, <2>2
<1>6. TagsBelow(r, tag.lamport)
    <2>1. \A k \in Nat : k <= n => k <= tag.lamport
        BY <1>1
    <2>2. ASSUME NEW x \in ClipId, Exists(s.clips, x)
          PROVE  /\ s.clips[x].alive.tag.lamport \in Nat
                 /\ \A f \in ClipField : s.clips[x].regs[f].tag.lamport \in Nat
        BY <2>2 DEF Exists, SessionState, Clip, Register, OpTag
    <2>3. ASSUME NEW k \in TrackId, Exists(s.tracks, k)
          PROVE  /\ s.tracks[k].alive.tag.lamport \in Nat
                 /\ \A f \in TrackField : s.tracks[k].regs[f].tag.lamport \in Nat
        BY <2>3 DEF Exists, SessionState, Track, Register, OpTag
    <2>4. /\ \A e \in Target : s.envelopes[e].tag.lamport \in Nat
          /\ \A f \in MetaField : s.metadata[f].tag.lamport \in Nat
        BY DEF SessionState, Register, OpTag
    <2>5. r.tracks = s.tracks /\ r.envelopes = s.envelopes /\ r.metadata = s.metadata
        BY <1>4 DEF SameBut
    <2>6. \A x \in ClipId \ {c} : Exists(r.clips, x) =>
                Exists(s.clips, x) /\ r.clips[x] = s.clips[x]
        BY <1>4 DEF Exists
    <2> QED
        BY <1>5, <2>1, <2>2, <2>3, <2>4, <2>5, <2>6 DEF TagsBelow
<1> QED
    BY <1>2, <1>5, <1>6 DEF r

\* A clip's range is found from some range of the clip above it.
LEMMA RangeBelowSome ==
    ASSUME NEW s, NEW c \in ClipId
    PROVE  \E above : FullRange(s, c)
                        = RangeBelow(s, s.clips[c], ParentOf(s, c), above)
<1> DEFINE up == Chain(s, c)
           range == CHOOSE f : IsRange(f, s, up, Depth)
           before == IF Depth = 0 THEN NoRange ELSE range[Depth - 1]
<1>1. FullRange(s, c) = range[Depth]
    BY DEF FullRange, RangeAlong, IsRange, RangeStep
<1>2. up[0] = c /\ c # Vacant
    BY DepthTyped, ChainSteps, ViewAssumption
<1> HIDE DEF up
<1>3. IsRange(range, s, up, Depth)
    <2>1. \E f : IsRange(f, s, up, Depth)
        BY DepthTyped, RangeExists
    <2> QED
        BY <2>1
<1> HIDE DEF range
<1>4. Depth \in 0..Depth /\ Depth - Depth = 0
    BY DepthTyped
<1>5. range[Depth] = RangeStep(s, up, Depth, range[Depth - 1])
    BY <1>3, <1>4 DEF IsRange
<1>6. range[Depth] = RangeBelow(s, s.clips[c], ParentOf(s, c), before)
    BY <1>2, <1>4, <1>5 DEF RangeStep
<1> QED
    BY <1>1, <1>6

\* A clip that is seen, and does not follow the splits of another, is seen
\* where its own fields put it; where it has not been split itself, those
\* fields are what is shown of its place.
LEMMA SeenWhereItSays ==
    ASSUME NEW s \in SessionState, NEW c \in ClipId, Exists(s.clips, c),
           Visible(s, c), ~FollowsSplits(s.clips[c])
    PROVE  LET clip == s.clips[c]
               here == ResolveClip(s, c).fields
               own  == clip.regs["start_frame"].value
           IN  /\ clip.parent = NoParent
                    => \A f \in TrimField : ~Unwritten(clip.regs[f])
               /\ here["start_frame"] = own
               /\ clip.splits = {} =>
                    <<own, SatAdd(own, here["duration_frames"])>> = OwnRange(clip)
<1> DEFINE clip == s.clips[c]
           here == ResolveClip(s, c).fields
           place == Geometry(s, c)
           full == FullRange(s, c)
           own == clip.regs["start_frame"].value
           lasts == clip.regs["duration_frames"].value
           end == SatAdd(own, lasts)
<1>1. clip \in Clip
    BY DEF Exists, SessionState
<1>2. own \in Nat /\ lasts \in Nat /\ end \in Nat
    BY <1>1, ClipNumbers, SaturatingTyped DEF ClipField
<1>3. /\ place # NoRange /\ place = CutTail(clip, full)
      /\ here["start_frame"] = place[1] /\ here["duration_frames"] = place[2]
      /\ place[2] > 0
    <2>1. ResolveClip(s, c).visible /\ ResolveClip(s, c) = ResolvedAt(s, c, place)
        BY DEF Visible, ResolveClip
    <2>2. place # NoRange /\ place[2] > 0
        <3> HIDE DEF place
        <3> QED
            BY <2>1 DEF ResolvedAt
    <2>3. here = [f \in ClipField |->
                         IF f = "start_frame" THEN place[1]
                         ELSE IF f = "duration_frames" THEN place[2]
                         ELSE Inherited(s, c, f)]
        <3> HIDE DEF place
        <3> QED
            BY <2>1, <2>2 DEF ResolvedAt
    <2>4. place = CutTail(clip, full)
        BY DEF Geometry
    <2> HIDE DEF place, here
    <2> QED
        BY <2>2, <2>3, <2>4 DEF ClipField
<1>4. PICK above : full = RangeBelow(s, clip, ParentOf(s, c), above)
    BY RangeBelowSome
<1> HIDE DEF full, place, here, clip
<1>5. full # NoRange
    BY <1>3 DEF CutTail
<1>6. full = <<own, end>>
      /\ (clip.parent = NoParent => \A f \in TrimField : ~Unwritten(clip.regs[f]))
    BY <1>4, <1>5 DEF RangeBelow, FollowsSplits, OwnRange, clip
<1>7. place[1] = own
    BY <1>3, <1>5, <1>6 DEF CutTail
<1>8. ASSUME clip.splits = {}
      PROVE  SatAdd(own, place[2]) = end
    <2>1. SplitOffsets(clip) = {}
        BY <1>8 DEF SplitOffsets
    <2>2. place[2] = SatSub(end, own)
        BY <1>3, <1>5, <1>6, <2>1 DEF CutTail
    <2> QED
        BY <1>2, <1>3, <2>2, SessionAssumption DEF SatAdd, SatSub
<1>9. OwnRange(clip) = <<own, end>>
    BY DEF OwnRange
<1> HIDE DEF own, end, lasts
<1> QED
    BY <1>3, <1>6, <1>7, <1>8, <1>9 DEF clip, here, own

\* Clip c is put back as it is seen in s, in a session base that has changed
\* nothing but its liveness: the fields W are those the inverse writes.
PutBack(s, base, t, c, W) ==
    LET old == base.clips[c]
        new == t.clips[c]
    IN  /\ SameBut(base, t, "clips")
        /\ \A x \in ClipId \ {c} : base.clips[x] = s.clips[x] /\ t.clips[x] = s.clips[x]
        /\ Exists(base.clips, c) /\ Exists(t.clips, c)
        /\ old.parent = s.clips[c].parent /\ old.splits = s.clips[c].splits
        /\ old.detached = s.clips[c].detached /\ old.regs = s.clips[c].regs
        /\ new.parent = old.parent /\ new.splits = old.splits
        /\ new.alive.value = old.alive.value
        /\ old.parent # NoParent => new.detached = old.detached
        /\ \A f \in ClipField \ W : new.regs[f] = old.regs[f]
        /\ \A f \in W : /\ ~Unwritten(new.regs[f])
                        /\ new.regs[f].value = ResolveClip(s, c).fields[f]

\* That looks the same, if what a piece of c shows does not depend on which
\* clip holds the value, and c has no splits when its duration is written:
\* the duration shown is that of what is left of the clip.
LEMMA PutBackLooksAlike ==
    ASSUME NEW s \in SessionState, NEW base \in SessionState, NEW t,
           NEW c \in ClipId, Exists(s.clips, c), Visible(s, c), NoCircles(s),
           NEW W \in SUBSET ClipField, PutBack(s, base, t, c, W),
           \A f \in W \cap PlainField : FollowsAlone(s, c, f),
           "duration_frames" \in W =>
                FollowsSplits(s.clips[c]) \/ s.clips[c].splits = {}
    PROVE  LooksAlike(base, t)
<1> DEFINE old == base.clips[c]
           new == t.clips[c]
           clip == s.clips[c]
<1>1. /\ SameBut(base, t, "clips")
      /\ \A x \in ClipId \ {c} : base.clips[x] = s.clips[x] /\ t.clips[x] = s.clips[x]
      /\ Exists(base.clips, c) /\ Exists(t.clips, c)
      /\ old.parent = clip.parent /\ old.splits = clip.splits
      /\ old.detached = clip.detached /\ old.regs = clip.regs
      /\ new.parent = old.parent /\ new.splits = old.splits
      /\ new.alive.value = old.alive.value
      /\ old.parent # NoParent => new.detached = old.detached
      /\ \A f \in ClipField \ W : new.regs[f] = old.regs[f]
      /\ \A f \in W : /\ ~Unwritten(new.regs[f])
                      /\ new.regs[f].value = ResolveClip(s, c).fields[f]
    BY DEF PutBack
<1>2. \A x \in ClipId : /\ Exists(base.clips, x) <=> Exists(s.clips, x)
                        /\ Exists(t.clips, x) <=> Exists(s.clips, x)
    BY <1>1 DEF Exists
<1>3. SameParents(s, base)
    <2> SUFFICES ASSUME NEW x \in ClipId, Exists(s.clips, x)
                 PROVE  ParentOf(base, x) = ParentOf(s, x)
        BY DEF SameParents
    <2>1. base.clips[x].parent = s.clips[x].parent
        BY <1>1
    <2>2. s.clips[x].parent \in {NoParent} \cup Claim
        BY DEF Exists, SessionState, Clip
    <2>3. s.clips[x].parent # NoParent => s.clips[x].parent[1] \in ClipId
        BY <2>2 DEF Claim
    <2> QED
        BY <1>2, <2>1, <2>3 DEF ParentOf
<1>4. NoCircles(base)
    BY <1>2, <1>3, SameChains, DepthTyped DEF NoCircles, Cyclic
<1>5. \A f : Inherited(base, c, f) = Inherited(s, c, f)
    <2> SUFFICES ASSUME NEW f PROVE Inherited(base, c, f) = Inherited(s, c, f)
        OBVIOUS
    <2>1. \A x \in ClipId : KeepsShowing(s, base, x, f)
        BY <1>1 DEF KeepsShowing
    <2> QED
        BY <1>3, <2>1, SameInherited
<1>6. ResolveClip(s, c).fields = [f \in ClipField |->
            IF f \in PlainField THEN Inherited(s, c, f)
            ELSE ResolveClip(s, c).fields[f]]
    <2>1. \A f \in ClipField : f \in PlainField => f # "start_frame" /\ f # "duration_frames"
        BY DEF PlainField, TrimField
    <2> QED
        BY <2>1 DEF ResolveClip, ResolvedAt
<1>7. ASSUME NEW x \in ClipId, Exists(base.clips, x), NEW f \in PlainField
      PROVE  KeepsShowing(base, t, x, f)
    <2>1. CASE x # c
        BY <1>1, <2>1 DEF KeepsShowing
    <2>2. CASE x = c /\ f \notin W
        <3>1. f \in ClipField \ W
            BY <2>2 DEF PlainField
        <3> QED
            BY <1>1, <2>2, <3>1 DEF KeepsShowing
    <2>3. CASE x = c /\ f \in W
        <3>1. FollowsAlone(s, c, f) /\ f \in ClipField
            BY <2>3 DEF PlainField
        <3>2. FollowsAlone(base, c, f)
            BY <1>1, <1>2, <1>3, <3>1 DEF FollowsAlone, SameParents
        <3>3. new.regs[f].value = Inherited(base, c, f)
            BY <1>1, <1>5, <1>6, <2>3, <3>1
        <3> QED
            BY <1>1, <2>3, <3>2, <3>3 DEF KeepsShowing
    <2> QED
        BY <2>1, <2>2, <2>3
<1>8. ~FollowsSplits(old) => OwnRange(new) = OwnRange(old)
    <2> SUFFICES ASSUME ~FollowsSplits(old)
                 PROVE  OwnRange(new) = OwnRange(old)
        OBVIOUS
    <2> DEFINE here == ResolveClip(s, c).fields
               own == clip.regs["start_frame"].value
    <2>1. /\ here["start_frame"] = own
          /\ clip.splits = {} =>
                <<own, SatAdd(own, here["duration_frames"])>> = OwnRange(clip)
        BY <1>1, SeenWhereItSays DEF FollowsSplits
    <2>2. new.regs["start_frame"].value = own
        <3>1. CASE "start_frame" \in W
            BY <1>1, <2>1, <3>1
        <3>2. CASE "start_frame" \notin W
            <4>1. "start_frame" \in ClipField \ W
                BY <3>2 DEF ClipField
            <4> QED
                BY <1>1, <4>1
        <3> QED
            BY <3>1, <3>2
    <2>3. OwnRange(old) = OwnRange(clip)
        BY <1>1 DEF OwnRange
    <2>4. CASE "duration_frames" \in W
        <3>1. clip.splits = {}
            BY <1>1, <2>4 DEF FollowsSplits
        <3>2. new.regs["duration_frames"].value = here["duration_frames"]
            BY <1>1, <2>4
        <3> HIDE DEF here, own, clip, new, old
        <3>3. OwnRange(new) = <<own, SatAdd(own, here["duration_frames"])>>
            BY <2>2, <3>2 DEF OwnRange
        <3> QED
            BY <2>1, <2>3, <3>1, <3>3
    <2>5. CASE "duration_frames" \notin W
        <3>1. "duration_frames" \in ClipField \ W
            BY <2>5 DEF ClipField
        <3>2. new.regs["duration_frames"] = clip.regs["duration_frames"]
            BY <1>1, <3>1
        <3> HIDE DEF new, old
        <3> QED
            BY <2>2, <2>3, <3>2 DEF OwnRange
    <2> QED
        BY <2>4, <2>5
<1>9. old.parent = NoParent =>
        /\ \A f \in TrimField : ~Unwritten(old.regs[f])
        /\ \A f \in TrimField : ~Unwritten(new.regs[f])
    <2> SUFFICES ASSUME old.parent = NoParent, NEW f \in TrimField
                 PROVE  ~Unwritten(old.regs[f]) /\ ~Unwritten(new.regs[f])
        OBVIOUS
    <2>1. ~Unwritten(clip.regs[f]) /\ f \in ClipField
        BY <1>1, SeenWhereItSays DEF FollowsSplits, TrimField, ClipField
    <2> QED
        BY <1>1, <2>1
<1>10. KeepsPlace(base, t)
    <2>1. ASSUME NEW x \in ClipId, Exists(base.clips, x)
          PROVE  /\ Exists(t.clips, x)
                 /\ t.clips[x].parent = base.clips[x].parent
                 /\ t.clips[x].splits = base.clips[x].splits
                 /\ t.clips[x].alive.value = base.clips[x].alive.value
                 /\ base.clips[x].parent # NoParent
                        => t.clips[x].detached = base.clips[x].detached
                 /\ base.clips[x].parent = NoParent =>
                        ((\E f \in TrimField : Unwritten(t.clips[x].regs[f]))
                            <=> \E f \in TrimField : Unwritten(base.clips[x].regs[f]))
                 /\ ~FollowsSplits(base.clips[x])
                        => OwnRange(t.clips[x]) = OwnRange(base.clips[x])
        <3>1. CASE x # c
            <4>1. t.clips[x] = base.clips[x]
                BY <1>1, <3>1
            <4>2. Exists(t.clips, x)
                BY <1>2, <2>1
            <4> QED
                BY <4>1, <4>2
        <3>2. CASE x = c
            <4> HIDE DEF new, old
            <4>1. base.clips[x] = old /\ t.clips[x] = new
                BY <3>2 DEF new, old
            <4> QED
                BY <1>1, <1>8, <1>9, <3>2, <4>1
        <3> QED
            BY <3>1, <3>2
    <2> QED
        BY <1>2, <2>1 DEF KeepsPlace
<1> QED
    BY <1>1, <1>4, <1>7, <1>10, ClipsLookAlike

\* The clips of s and t differ in clip c alone, and there its registers hold the
\* same values, whatever their tags.
SameValues(s, t, c) ==
    LET old == s.clips[c]
        new == t.clips[c]
    IN  /\ SameBut(s, t, "clips")
        /\ Exists(s.clips, c) /\ Exists(t.clips, c)
        /\ \A x \in ClipId \ {c} : t.clips[x] = s.clips[x]
        /\ new.parent = old.parent /\ new.splits = old.splits
        /\ new.alive.value = old.alive.value
        /\ old.parent # NoParent => new.detached = old.detached
        /\ \A f \in ClipField : /\ Unwritten(new.regs[f]) <=> Unwritten(old.regs[f])
                                /\ new.regs[f].value = old.regs[f].value

\* Such sessions look the same.
LEMMA SameValuesLookAlike ==
    ASSUME NEW s \in SessionState, NEW t, NEW c \in ClipId, NoCircles(s),
           SameValues(s, t, c)
    PROVE  LooksAlike(s, t)
<1> USE DEF SameValues
<1>1. \A x \in ClipId : Exists(t.clips, x) <=> Exists(s.clips, x)
    BY DEF Exists
<1>2. ASSUME NEW x \in ClipId, NEW f \in ClipField
      PROVE  /\ Unwritten(t.clips[x].regs[f]) <=> Unwritten(s.clips[x].regs[f])
             /\ t.clips[x].regs[f].value = s.clips[x].regs[f].value
    OBVIOUS
<1>3. \A x \in ClipId : \A f \in PlainField : KeepsShowing(s, t, x, f)
    BY <1>2 DEF KeepsShowing, PlainField
<1>4. KeepsPlace(s, t)
    <2>1. ASSUME NEW x \in ClipId, Exists(s.clips, x)
          PROVE  /\ t.clips[x].parent = s.clips[x].parent
                 /\ t.clips[x].splits = s.clips[x].splits
                 /\ t.clips[x].alive.value = s.clips[x].alive.value
                 /\ s.clips[x].parent # NoParent
                        => t.clips[x].detached = s.clips[x].detached
        OBVIOUS
    <2>2. ASSUME NEW x \in ClipId
          PROVE  /\ (\E f \in TrimField : Unwritten(t.clips[x].regs[f]))
                        <=> \E f \in TrimField : Unwritten(s.clips[x].regs[f])
                 /\ OwnRange(t.clips[x]) = OwnRange(s.clips[x])
        BY <1>2 DEF OwnRange, TrimField, ClipField
    <2> QED
        BY <1>1, <2>1, <2>2 DEF KeepsPlace
<1> QED
    BY <1>3, <1>4, ClipsLookAlike

\* What an edit left, what taking it back left, and what doing it again left.
Done(s, op, a) == Apply(s, op, a).session
TakenBack(s, op, a, b) == Done(Done(s, op, a), ComputeInverse(s, op), b)
DoneAgain(s, op, a, b, c) == Done(TakenBack(s, op, a, b), op, c)

\* The edits that compute_inverse takes back whole.  A split is not: deleting
\* the piece does not lengthen the clip again.  A new clip must not be one that
\* waiting pieces were cut from.  What a clip shows is written into the clip,
\* so its pieces must not depend on the clip above it; a piece that is moved or
\* trimmed leaves its splits behind; the duration of a clip is shown without
\* what its splits have taken; and a deleted clip comes back without its gain.
Reversible(s, op) ==
    /\ op.type # "SplitClip"
    /\ op.type = "InsertClip" =>
            \A x \in ClipId : Exists(s.clips, x) /\ s.clips[x].parent # NoParent
                                => s.clips[x].parent[1] # op.clip
    /\ op.type \in {"MoveClip", "TrimClip"} => ~FollowsSplits(s.clips[op.clip])
    /\ op.type = "TrimClip" => s.clips[op.clip].splits = {}
    /\ op.type \in {"MoveClip", "UpdateClipMetadata"} =>
            \A f \in DOMAIN op.writes \cap PlainField : FollowsAlone(s, op.clip, f)
    /\ op.type = "DeleteClip" =>
            /\ \A f \in PlainField : FollowsAlone(s, op.clip, f)
            /\ FollowsSplits(s.clips[op.clip]) \/ s.clips[op.clip].splits = {}
            /\ Inherited(s, op.clip, "gain") = 0

\* The inverse of an edit of a clip that exists writes what the clip shows.
LEMMA InverseWrites ==
    ASSUME NEW s \in SessionState, NEW op \in ClipEdit, Exists(s.clips, op.clip),
           op.type # "InsertClip", Reversible(s, op)
    PROVE  LET inv == ComputeInverse(s, op)
           IN  /\ inv \in ClipEdit /\ inv.clip = op.clip
               /\ op.type = "DeleteClip" =>
                    inv.type = "InsertClip" /\ DOMAIN inv.writes = ClipField
               /\ op.type # "DeleteClip" =>
                    inv.type = op.type /\ DOMAIN inv.writes = DOMAIN op.writes
               /\ \A f \in DOMAIN inv.writes :
                    inv.writes[f] = ResolveClip(s, op.clip).fields[f]
<1> DEFINE inv == ComputeInverse(s, op)
           here == ResolveClip(s, op.clip).fields
           back == [op EXCEPT !.writes = [f \in DOMAIN @ |-> here[f]]]
           w == [here EXCEPT !["gain"] = 0]
<1>1. /\ op.type \in {"MoveClip", "TrimClip", "UpdateClipMetadata", "DeleteClip"}
      /\ op.clip \in ClipId
    BY DEF ClipEdit
<1>2. inv = ClipInverse(s, op)
    BY <1>1 DEF ComputeInverse
<1>3. here \in [ClipField -> Nat]
    BY <1>1, ShownTyped
<1>4. inv # Vacant => inv \in ClipEdit /\ inv.clip = op.clip
    BY ClipInverseTyped
<1>5. CASE op.type = "DeleteClip"
    <2>1. inv = [type |-> "InsertClip", clip |-> op.clip, writes |-> w]
        BY <1>2, <1>5 DEF ClipInverse, InsertBack
    <2>2. here["gain"] = Inherited(s, op.clip, "gain")
        BY DEF ResolveClip, ResolvedAt, ClipField
    <2>3. here["gain"] = 0
        BY <1>5, <2>2 DEF Reversible
    <2> HIDE DEF here, inv
    <2>4. DOMAIN w = ClipField /\ \A f \in ClipField : w[f] = here[f]
        BY <1>3, <2>3
    <2>5. w \in InsertWrites
        BY <1>3 DEF InsertWrites, ClipField
    <2> HIDE DEF w
    <2>6. inv \in ClipEdit
        BY <1>1, <2>1, <2>5 DEF ClipEdit
    <2> QED
        BY <1>5, <2>1, <2>4, <2>6 DEF inv, here
<1>6. CASE op.type # "DeleteClip"
    <2>1. inv = back
        BY <1>1, <1>2, <1>6 DEF ClipInverse
    <2> HIDE DEF here, inv
    <2>2. /\ back.type = op.type
          /\ back.clip = op.clip
          /\ back.writes = [f \in DOMAIN op.writes |-> here[f]]
        BY <1>1, <1>6 DEF ClipEdit
    <2>3. inv \in ClipEdit
        <3>1. CASE op.type = "MoveClip"
            <4>1. op \in [type : {"MoveClip"}, clip : ClipId, writes : [MoveField -> Nat]]
                BY <3>1 DEF ClipEdit
            <4>2. [f \in DOMAIN op.writes |-> here[f]] \in [MoveField -> Nat]
                BY <1>3, <4>1 DEF MoveField, ClipField
            <4>3. back \in [type : {"MoveClip"}, clip : ClipId, writes : [MoveField -> Nat]]
                BY <4>1, <4>2
            <4> QED
                BY <2>1, <4>3 DEF ClipEdit
        <3>2. CASE op.type = "TrimClip"
            <4>1. op \in [type : {"TrimClip"}, clip : ClipId, writes : [TrimField -> Nat]]
                BY <3>2 DEF ClipEdit
            <4>2. [f \in DOMAIN op.writes |-> here[f]] \in [TrimField -> Nat]
                BY <1>3, <4>1 DEF TrimField, ClipField
            <4>3. back \in [type : {"TrimClip"}, clip : ClipId, writes : [TrimField -> Nat]]
                BY <4>1, <4>2
            <4> QED
                BY <2>1, <4>3 DEF ClipEdit
        <3>3. CASE op.type = "UpdateClipMetadata"
            <4>1. op \in [type : {"UpdateClipMetadata"}, clip : ClipId,
                          writes : Writes("name", "gain", Nat)]
                BY <3>3 DEF ClipEdit
            <4>2. [f \in DOMAIN op.writes |-> here[f]] \in Writes("name", "gain", Nat)
                <5>1. here["name"] \in Nat /\ here["gain"] \in Nat
                    BY <1>3 DEF ClipField
                <5> QED
                    BY <4>1, <5>1, WritesOfShown
            <4>3. back \in [type : {"UpdateClipMetadata"}, clip : ClipId,
                            writes : Writes("name", "gain", Nat)]
                BY <4>1, <4>2
            <4> QED
                BY <2>1, <4>3 DEF ClipEdit
        <3> QED
            BY <1>1, <1>6, <3>1, <3>2, <3>3
    <2>4. DOMAIN back.writes = DOMAIN op.writes
          /\ \A f \in DOMAIN back.writes : back.writes[f] = here[f]
        BY <2>2
    <2> HIDE DEF back
    <2> QED
        BY <1>6, <2>1, <2>2, <2>3, <2>4 DEF inv, here
<1> QED
    BY <1>5, <1>6

\* Three tags, each later than the one before and the first later than n.
InTurn(n, a, b, c) ==
    /\ a \in OpTag /\ b \in OpTag /\ c \in OpTag
    /\ a.lamport > n /\ b.lamport > a.lamport /\ c.lamport > b.lamport

\* An edit of a clip that is seen, taken back and done again.
LEMMA EditOfSeenUndone ==
    ASSUME NEW s \in SessionState, NEW n \in Nat, TagsBelow(s, n), NoCircles(s),
           NEW a, NEW b, NEW c, InTurn(n, a, b, c),
           NEW op \in ClipEdit, op.type # "InsertClip",
           Exists(s.clips, op.clip), Visible(s, op.clip), Reversible(s, op)
    PROVE  /\ LooksAlike(s, TakenBack(s, op, a, b))
           /\ LooksAlike(Done(s, op, a), DoneAgain(s, op, a, b, c))
<1> DEFINE k == op.clip
           inv == ComputeInverse(s, op)
           s1 == Done(s, op, a)
           s2 == TakenBack(s, op, a, b)
           s3 == DoneAgain(s, op, a, b, c)
           W == DOMAIN inv.writes
           here == ResolveClip(s, k).fields
           moves == op.type \in {"MoveClip", "TrimClip"}
<1>1. /\ op.type \in {"MoveClip", "TrimClip", "UpdateClipMetadata", "DeleteClip"}
      /\ k \in ClipId
    BY DEF ClipEdit
<1>2. /\ inv \in ClipEdit /\ inv.clip = k
      /\ op.type = "DeleteClip" => inv.type = "InsertClip" /\ W = ClipField
      /\ op.type # "DeleteClip" => inv.type = op.type /\ W = DOMAIN op.writes
      /\ \A f \in W : inv.writes[f] = here[f]
    BY InverseWrites
<1>3. /\ a \in OpTag /\ b \in OpTag /\ c \in OpTag
      /\ a.lamport \in Nat /\ b.lamport \in Nat /\ c.lamport \in Nat
      /\ a.lamport > n /\ b.lamport > a.lamport /\ c.lamport > b.lamport
    BY DEF InTurn, OpTag
<1>4. s1 \in SessionState /\ ClipEdited(s, s1, op, a) /\ TagsBelow(s1, a.lamport)
    BY <1>3, LaterClipEdit DEF Done
<1> HIDE DEF s1, inv
<1>5. Exists(s1.clips, k)
    BY <1>4 DEF ClipEdited
<1>6. s2 \in SessionState /\ ClipEdited(s1, s2, inv, b) /\ TagsBelow(s2, b.lamport)
    BY <1>2, <1>3, <1>4, <1>5, LaterClipEdit DEF Done, TakenBack, s1, inv
<1> HIDE DEF s2
<1>7. Exists(s2.clips, k)
    BY <1>2, <1>6 DEF ClipEdited
<1>8. ClipEdited(s2, s3, op, c)
    BY <1>3, <1>6, <1>7, LaterClipEdit DEF Done, DoneAgain, s2
<1> HIDE DEF s3
<1>9. W \in SUBSET ClipField /\ DOMAIN op.writes \subseteq W
    <2>1. DOMAIN op.writes \subseteq ClipField
        BY DEF ClipEdit, InsertWrites, MoveField, TrimField, Writes, NoWrites, ClipField
    <2> QED
        BY <1>1, <1>2, <2>1
<1>10. op.type = "DeleteClip" => DOMAIN op.writes = {}
    BY DEF ClipEdit, NoWrites
<1>11. \A v \in Nat, tag \in {a, b, c} : ~Unwritten(Written(v, tag))
                                       /\ Written(v, tag).value = v
    <2>1. \A tag \in {a, b, c} : tag # InitialTag
        BY <1>3 DEF InitialTag
    <2> QED
        BY <2>1 DEF Unwritten, Written
<1>12. here \in [ClipField -> Nat]
    BY <1>1, ShownTyped
<1>13. \A f \in DOMAIN op.writes : op.writes[f] \in Nat
    BY WritesTyped
<1>14. s.clips[k].alive.value = TRUE
    <2>1. s.clips[k].alive.value
        BY DEF Visible, ResolveClip, ResolvedAt
    <2>2. s.clips[k].alive.value \in BOOLEAN
        BY <1>1 DEF Exists, SessionState, Clip, Register
    <2> QED
        BY <2>1, <2>2
<1> HIDE DEF k, here
<1>15. /\ s1.clips[k].regs = LaterRegs(ClipField, s.clips[k].regs, op.writes, a)
       /\ s2.clips[k].regs = LaterRegs(ClipField, s1.clips[k].regs, inv.writes, b)
       /\ s3.clips[k].regs = LaterRegs(ClipField, s2.clips[k].regs, op.writes, c)
    BY <1>2, <1>4, <1>6, <1>8 DEF ClipEdited, k
<1>16. /\ Exists(s.clips, k) /\ Exists(s3.clips, k)
       /\ s1.clips[k].parent = s.clips[k].parent
       /\ s2.clips[k].parent = s.clips[k].parent
       /\ s3.clips[k].parent = s.clips[k].parent
       /\ s1.clips[k].splits = s.clips[k].splits
       /\ s2.clips[k].splits = s.clips[k].splits
       /\ s3.clips[k].splits = s.clips[k].splits
    BY <1>2, <1>4, <1>5, <1>6, <1>7, <1>8 DEF ClipEdited, k
<1>17. /\ s1.clips[k].alive.value = LaterLife(s.clips[k].alive.value, op)
       /\ s2.clips[k].alive.value = LaterLife(s1.clips[k].alive.value, inv)
       /\ s3.clips[k].alive.value = LaterLife(s2.clips[k].alive.value, op)
    BY <1>2, <1>4, <1>5, <1>6, <1>7, <1>8 DEF ClipEdited, k
<1>18. /\ s1.clips[k].detached = (s.clips[k].detached \/ moves)
       /\ s2.clips[k].detached = (s1.clips[k].detached \/ inv.type \in {"MoveClip", "TrimClip"})
       /\ s3.clips[k].detached = (s2.clips[k].detached \/ moves)
    BY <1>2, <1>4, <1>5, <1>6, <1>7, <1>8 DEF ClipEdited, k
<1>19. /\ \A x \in ClipId \ {k} : /\ s1.clips[x] = s.clips[x]
                                  /\ s2.clips[x] = s.clips[x]
                                  /\ s3.clips[x] = s.clips[x]
       /\ SameBut(s, s1, "clips") /\ SameBut(s, s2, "clips") /\ SameBut(s1, s3, "clips")
    BY <1>2, <1>4, <1>6, <1>8 DEF ClipEdited, SameBut, k
<1>20. \A f \in ClipField :
        /\ f \in W => /\ s2.clips[k].regs[f] = Written(here[f], b)
                      /\ op.type = "DeleteClip" => s3.clips[k].regs[f] = Written(here[f], b)
        /\ f \notin W => /\ s2.clips[k].regs[f] = s.clips[k].regs[f]
                         /\ s3.clips[k].regs[f] = s.clips[k].regs[f]
        /\ op.type = "DeleteClip" => s1.clips[k].regs[f] = s.clips[k].regs[f]
        /\ f \in DOMAIN op.writes =>
                /\ s1.clips[k].regs[f] = Written(op.writes[f], a)
                /\ s3.clips[k].regs[f] = Written(op.writes[f], c)
        /\ f \notin DOMAIN op.writes => s1.clips[k].regs[f] = s.clips[k].regs[f]
    <2> SUFFICES ASSUME NEW f \in ClipField
                 PROVE  /\ f \in W => /\ s2.clips[k].regs[f] = Written(here[f], b)
                                      /\ op.type = "DeleteClip" => s3.clips[k].regs[f] = Written(here[f], b)
                        /\ f \notin W => /\ s2.clips[k].regs[f] = s.clips[k].regs[f]
                                         /\ s3.clips[k].regs[f] = s.clips[k].regs[f]
                        /\ op.type = "DeleteClip" => s1.clips[k].regs[f] = s.clips[k].regs[f]
                        /\ f \in DOMAIN op.writes =>
                                /\ s1.clips[k].regs[f] = Written(op.writes[f], a)
                                /\ s3.clips[k].regs[f] = Written(op.writes[f], c)
                        /\ f \notin DOMAIN op.writes => s1.clips[k].regs[f] = s.clips[k].regs[f]
        OBVIOUS
    <2>1. \A regs, writes, tag : LaterRegs(ClipField, regs, writes, tag)[f]
                = IF f \in DOMAIN writes THEN Written(writes[f], tag) ELSE regs[f]
        BY DEF LaterRegs
    <2>2. /\ s1.clips[k].regs[f] = IF f \in DOMAIN op.writes THEN Written(op.writes[f], a)
                                   ELSE s.clips[k].regs[f]
          /\ s2.clips[k].regs[f] = IF f \in W THEN Written(inv.writes[f], b)
                                   ELSE s1.clips[k].regs[f]
          /\ s3.clips[k].regs[f] = IF f \in DOMAIN op.writes THEN Written(op.writes[f], c)
                                   ELSE s2.clips[k].regs[f]
        BY <1>15, <2>1
    <2> HIDE DEF W
    <2>3. f \in W => inv.writes[f] = here[f]
        BY <1>2 DEF here
    <2> QED
        BY <1>9, <1>10, <2>2, <2>3
<1>21. LooksAlike(s, s2)
    <2>1. /\ s2.clips[k].alive.value = s.clips[k].alive.value
          /\ s.clips[k].parent # NoParent => s2.clips[k].detached = s.clips[k].detached
        <3>1. op.type = "DeleteClip" => s2.clips[k].alive.value = TRUE
            BY <1>2, <1>17 DEF LaterLife
        <3>2. op.type # "DeleteClip" => s2.clips[k].alive.value = s.clips[k].alive.value
            BY <1>1, <1>2, <1>17 DEF LaterLife
        <3>3. s.clips[k].detached \in BOOLEAN
            BY <1>1, <1>16 DEF Exists, SessionState, Clip, k
        <3>4. moves /\ s.clips[k].parent # NoParent => s.clips[k].detached = TRUE
            BY <3>3 DEF Reversible, FollowsSplits, k
        <3>5. ~moves => inv.type \notin {"MoveClip", "TrimClip"}
            BY <1>2
        <3> QED
            BY <1>14, <1>18, <3>1, <3>2, <3>3, <3>4, <3>5
    <2>2. \A f \in W : /\ ~Unwritten(s2.clips[k].regs[f])
                       /\ s2.clips[k].regs[f].value = here[f]
        <3> SUFFICES ASSUME NEW f \in W
                     PROVE  /\ ~Unwritten(s2.clips[k].regs[f])
                            /\ s2.clips[k].regs[f].value = here[f]
            OBVIOUS
        <3>1. f \in ClipField /\ here[f] \in Nat
            BY <1>9, <1>12
        <3>2. s2.clips[k].regs[f] = Written(here[f], b)
            BY <1>20, <3>1
        <3> QED
            BY <1>11, <3>1, <3>2
    <2>3. PutBack(s, s, s2, k, W)
        BY <1>5, <1>7, <1>16, <1>19, <1>20, <2>1, <2>2 DEF PutBack, here
    <2>4. /\ \A f \in W \cap PlainField : FollowsAlone(s, k, f)
          /\ "duration_frames" \in W => FollowsSplits(s.clips[k]) \/ s.clips[k].splits = {}
        <3>1. CASE op.type = "DeleteClip"
            BY <1>2, <3>1 DEF Reversible, k
        <3>2. CASE op.type = "TrimClip"
            <4>1. DOMAIN op.writes = TrimField
                BY <3>2 DEF ClipEdit
            <4> QED
                BY <1>2, <3>2, <4>1 DEF Reversible, k, PlainField
        <3>3. CASE op.type \in {"MoveClip", "UpdateClipMetadata"}
            <4>1. "duration_frames" \notin DOMAIN op.writes
                BY <3>3 DEF ClipEdit, MoveField, Writes, NoWrites
            <4> QED
                BY <1>2, <3>3, <4>1 DEF Reversible, k
        <3> QED
            BY <1>1, <3>1, <3>2, <3>3
    <2> HIDE DEF W
    <2> QED
        BY <1>1, <1>9, <1>16, <2>3, <2>4, PutBackLooksAlike DEF k
<1>22. LooksAlike(s1, s3)
    <2>1. CASE op.type = "DeleteClip"
        <3>1. /\ s1.clips[k].alive.value = FALSE /\ s3.clips[k].alive.value = FALSE
              /\ s1.clips[k].detached = s.clips[k].detached
              /\ s3.clips[k].detached = s.clips[k].detached
            <4>1. s.clips[k].detached \in BOOLEAN
                BY <1>1, <1>16 DEF Exists, SessionState, Clip, k
            <4> QED
                BY <1>2, <1>17, <1>18, <2>1, <4>1 DEF LaterLife
        <3>2. \A f \in ClipField : /\ ~Unwritten(s3.clips[k].regs[f])
                                   /\ s3.clips[k].regs[f].value = here[f]
            <4> SUFFICES ASSUME NEW f \in ClipField
                         PROVE  /\ ~Unwritten(s3.clips[k].regs[f])
                                /\ s3.clips[k].regs[f].value = here[f]
                OBVIOUS
            <4>1. s3.clips[k].regs[f] = Written(here[f], b)
                BY <1>2, <1>20, <2>1
            <4> QED
                BY <1>11, <1>12, <4>1
        <3>3. s1.clips[k].regs = s.clips[k].regs
            <4>1. s.clips[k].regs \in [ClipField -> Register(Nat)]
                BY <1>1, <1>16 DEF Exists, SessionState, Clip, k
            <4>2. s1.clips[k].regs = [f \in ClipField |-> s.clips[k].regs[f]]
                BY <1>10, <1>15, <2>1 DEF LaterRegs
            <4> QED
                BY <4>1, <4>2
        <3>4. PutBack(s, s1, s3, k, ClipField)
            BY <1>5, <1>16, <1>19, <3>1, <3>2, <3>3 DEF PutBack, here, k
        <3>5. /\ \A f \in ClipField \cap PlainField : FollowsAlone(s, k, f)
              /\ FollowsSplits(s.clips[k]) \/ s.clips[k].splits = {}
            BY <2>1 DEF Reversible, k
        <3> QED
            BY <1>1, <1>4, <1>16, <3>4, <3>5, PutBackLooksAlike DEF k
    <2>2. CASE op.type # "DeleteClip"
        <3>1. /\ s3.clips[k].alive.value = s1.clips[k].alive.value
              /\ s3.clips[k].detached = s1.clips[k].detached
            BY <1>1, <1>2, <1>17, <1>18, <2>2 DEF LaterLife
        <3>2. ASSUME NEW f \in ClipField
              PROVE  /\ Unwritten(s3.clips[k].regs[f]) <=> Unwritten(s1.clips[k].regs[f])
                     /\ s3.clips[k].regs[f].value = s1.clips[k].regs[f].value
            <4>1. CASE f \in DOMAIN op.writes
                <5>1. /\ s1.clips[k].regs[f] = Written(op.writes[f], a)
                      /\ s3.clips[k].regs[f] = Written(op.writes[f], c)
                    BY <1>20, <4>1
                <5> QED
                    BY <1>11, <1>13, <4>1, <5>1
            <4>2. CASE f \notin DOMAIN op.writes
                BY <1>2, <1>20, <2>2, <4>2
            <4> QED
                BY <4>1, <4>2
        <3>3. NoCircles(s1)
            <4>1. \A x \in ClipId : Exists(s1.clips, x) <=> Exists(s.clips, x)
                BY <1>5, <1>16, <1>19 DEF Exists
            <4>2. SameParents(s, s1)
                <5> SUFFICES ASSUME NEW x \in ClipId, Exists(s.clips, x)
                             PROVE  ParentOf(s1, x) = ParentOf(s, x)
                    BY DEF SameParents
                <5>1. s1.clips[x].parent = s.clips[x].parent
                    BY <1>16, <1>19
                <5>2. s.clips[x].parent \in {NoParent} \cup Claim
                    BY DEF Exists, SessionState, Clip
                <5>3. s.clips[x].parent # NoParent => s.clips[x].parent[1] \in ClipId
                    BY <5>2 DEF Claim
                <5> QED
                    BY <4>1, <5>1, <5>3 DEF ParentOf
            <4> QED
                BY <4>1, <4>2, SameChains, DepthTyped DEF NoCircles, Cyclic
        <3>4. \A f \in ClipField :
                /\ Unwritten(s3.clips[k].regs[f]) <=> Unwritten(s1.clips[k].regs[f])
                /\ s3.clips[k].regs[f].value = s1.clips[k].regs[f].value
            BY <3>2
        <3>5. \A x \in ClipId \ {k} : s3.clips[x] = s1.clips[x]
            BY <1>19
        <3>6. s3.clips[k].parent = s1.clips[k].parent /\ s3.clips[k].splits = s1.clips[k].splits
            BY <1>16
        <3>7. SameValues(s1, s3, k)
            BY <1>5, <1>16, <1>19, <3>1, <3>4, <3>5, <3>6 DEF SameValues
        <3>8. k \in ClipId /\ s1 \in SessionState
            BY <1>1, <1>4
        <3> QED
            BY <3>3, <3>7, <3>8, SameValuesLookAlike
    <2> QED
        BY <2>1, <2>2
<1> QED
    BY <1>21, <1>22 DEF s1, s2, s3

\* An insert of a new clip, taken back and done again.
LEMMA InsertUndone ==
    ASSUME NEW s \in SessionState, NEW n \in Nat, TagsBelow(s, n), NoCircles(s),
           NEW a, NEW b, NEW c, InTurn(n, a, b, c),
           NEW op \in ClipEdit, op.type = "InsertClip",
           ~Exists(s.clips, op.clip), Reversible(s, op)
    PROVE  /\ LooksAlike(s, TakenBack(s, op, a, b))
           /\ LooksAlike(Done(s, op, a), DoneAgain(s, op, a, b, c))
<1> DEFINE k == op.clip
           inv == ComputeInverse(s, op)
           s1 == Done(s, op, a)
           s2 == TakenBack(s, op, a, b)
           s3 == DoneAgain(s, op, a, b, c)
<1>1. k \in ClipId /\ DOMAIN op.writes = ClipField
    BY DEF ClipEdit, InsertWrites
<1>2. /\ inv \in ClipEdit /\ inv.clip = k /\ inv.type = "DeleteClip"
      /\ DOMAIN inv.writes = {}
    <2>1. inv = ClipInverse(s, op)
        BY DEF ComputeInverse
    <2>2. ClipInverse(s, op) = [type |-> "DeleteClip", clip |-> k, writes |-> NoWrites]
        BY DEF ClipInverse
    <2>3. inv = [type |-> "DeleteClip", clip |-> k, writes |-> NoWrites]
        BY <2>1, <2>2
    <2> HIDE DEF inv, k
    <2> QED
        BY <1>1, <2>3 DEF ClipEdit, NoWrites
<1>3. /\ a \in OpTag /\ b \in OpTag /\ c \in OpTag
      /\ a.lamport \in Nat /\ b.lamport \in Nat /\ c.lamport \in Nat
      /\ a.lamport > n /\ b.lamport > a.lamport /\ c.lamport > b.lamport
    BY DEF InTurn, OpTag
<1>4. s1 \in SessionState /\ ClipEdited(s, s1, op, a) /\ TagsBelow(s1, a.lamport)
    BY <1>3, LaterClipEdit DEF Done
<1> HIDE DEF s1, inv
<1>5. Exists(s1.clips, k)
    BY <1>4 DEF ClipEdited
<1>6. s2 \in SessionState /\ ClipEdited(s1, s2, inv, b) /\ TagsBelow(s2, b.lamport)
    BY <1>2, <1>3, <1>4, <1>5, LaterClipEdit DEF Done, TakenBack, s1, inv
<1> HIDE DEF s2
<1>7. Exists(s2.clips, k)
    BY <1>2, <1>6 DEF ClipEdited
<1>8. ClipEdited(s2, s3, op, c)
    BY <1>3, <1>6, <1>7, LaterClipEdit DEF Done, DoneAgain, s2
<1> HIDE DEF s3
<1>9. \A v \in Nat, tag \in {a, b, c} : ~Unwritten(Written(v, tag))
                                      /\ Written(v, tag).value = v
    <2>1. \A tag \in {a, b, c} : tag # InitialTag
        BY <1>3 DEF InitialTag
    <2> QED
        BY <2>1 DEF Unwritten, Written
<1>10. \A f \in DOMAIN op.writes : op.writes[f] \in Nat
    BY WritesTyped
<1>11. \A x \in ClipId : Exists(s.clips, x) /\ s.clips[x].parent # NoParent
                            => s.clips[x].parent[1] # k
    BY DEF Reversible
<1>12. ~Exists(s.clips, k)
    OBVIOUS
<1> HIDE DEF k
<1>13. /\ s1.clips[k].regs = LaterRegs(ClipField, s.clips[k].regs, op.writes, a)
       /\ s3.clips[k].regs = LaterRegs(ClipField, s2.clips[k].regs, op.writes, c)
       /\ s1.clips[k].parent = NoParent /\ s1.clips[k].splits = {}
       /\ s2.clips[k].parent = NoParent /\ s2.clips[k].splits = {}
       /\ s3.clips[k].parent = NoParent /\ s3.clips[k].splits = {}
       /\ Exists(s3.clips, k)
    <2>1. /\ s1.clips[k].regs = LaterRegs(ClipField, s.clips[k].regs, op.writes, a)
          /\ s1.clips[k].parent = NoParent /\ s1.clips[k].splits = {}
        BY <1>4, <1>12 DEF ClipEdited, k
    <2>2. /\ s2.clips[k].parent = s1.clips[k].parent
          /\ s2.clips[k].splits = s1.clips[k].splits
        BY <1>2, <1>5, <1>6 DEF ClipEdited
    <2>3. /\ s3.clips[k].regs = LaterRegs(ClipField, s2.clips[k].regs, op.writes, c)
          /\ s3.clips[k].parent = s2.clips[k].parent
          /\ s3.clips[k].splits = s2.clips[k].splits
          /\ Exists(s3.clips, k)
        BY <1>7, <1>8 DEF ClipEdited, k
    <2> QED
        BY <2>1, <2>2, <2>3
<1>14. /\ s1.clips[k].alive.value
       /\ s2.clips[k].alive.value = LaterLife(s1.clips[k].alive.value, inv)
       /\ s3.clips[k].alive.value = LaterLife(s2.clips[k].alive.value, op)
    BY <1>2, <1>4, <1>5, <1>6, <1>7, <1>8, <1>12 DEF ClipEdited, k
<1>15. /\ \A x \in ClipId \ {k} : /\ s1.clips[x] = s.clips[x]
                                  /\ s2.clips[x] = s.clips[x]
                                  /\ s3.clips[x] = s.clips[x]
       /\ SameBut(s, s2, "clips") /\ SameBut(s1, s3, "clips")
    BY <1>2, <1>4, <1>6, <1>8 DEF ClipEdited, SameBut, k
<1>16. LooksAlike(s, s2)
    <2>1. ~s2.clips[k].alive.value
        BY <1>2, <1>14 DEF LaterLife
    <2>2. \A x \in ClipId : Exists(s.clips, x) =>
                x # k /\ s2.clips[x] = s.clips[x] /\ Exists(s2.clips, x)
        BY <1>12, <1>15 DEF Exists
    <2>3. \A x \in ClipId : Exists(s2.clips, x) /\ ~Exists(s.clips, x) => x = k
        BY <1>15 DEF Exists
    <2>4. KeepsPlace(s, s2)
        BY <1>11, <2>1, <2>2, <2>3 DEF KeepsPlace
    <2>5. \A x \in ClipId : Exists(s.clips, x) =>
                \A f \in PlainField : KeepsShowing(s, s2, x, f)
        BY <2>2 DEF KeepsShowing
    <2> QED
        BY <1>15, <2>4, <2>5, ClipsLookAlike
<1>17. NoCircles(s1)
    <2>1. \A x \in ClipId : Exists(s.clips, x) => x # k /\ Exists(s1.clips, x)
        BY <1>12, <1>15 DEF Exists
    <2>2. SameParents(s, s1)
        <3> SUFFICES ASSUME NEW x \in ClipId, Exists(s.clips, x)
                     PROVE  ParentOf(s1, x) = ParentOf(s, x)
            BY DEF SameParents
        <3>1. s1.clips[x] = s.clips[x]
            BY <1>15, <2>1
        <3>2. s.clips[x].parent \in {NoParent} \cup Claim
            BY DEF Exists, SessionState, Clip
        <3>3. s.clips[x].parent # NoParent =>
                    s.clips[x].parent[1] \in ClipId \ {k}
            BY <1>11, <3>2 DEF Claim
        <3>4. \A y \in ClipId \ {k} : Exists(s1.clips, y) <=> Exists(s.clips, y)
            BY <1>15 DEF Exists
        <3> QED
            BY <3>1, <3>3, <3>4 DEF ParentOf
    <2>3. ASSUME NEW x \in ClipId, Exists(s.clips, x)
          PROVE  ~Cyclic(s1, x)
        BY <2>2, <2>3, SameChains, DepthTyped DEF NoCircles, Cyclic
    <2>4. ~Cyclic(s1, k)
        <3>1. ParentOf(s1, k) = Vacant
            BY <1>13 DEF ParentOf
        <3> QED
            BY <1>1, <3>1, TopEnds DEF k
    <2>5. \A x \in ClipId : Exists(s1.clips, x) => Exists(s.clips, x) \/ x = k
        BY <1>15 DEF Exists
    <2> QED
        BY <2>3, <2>4, <2>5 DEF NoCircles
<1>18. LooksAlike(s1, s3)
    <2>1. s3.clips[k].alive.value = s1.clips[k].alive.value
        <3>1. s1.clips[k].alive.value \in BOOLEAN
            BY <1>1, <1>4, <1>5 DEF Exists, SessionState, Clip, Register, k
        <3>2. s3.clips[k].alive.value = TRUE
            BY <1>14 DEF LaterLife
        <3> QED
            BY <1>14, <3>1, <3>2
    <2>2. ASSUME NEW f \in ClipField
          PROVE  /\ Unwritten(s3.clips[k].regs[f]) <=> Unwritten(s1.clips[k].regs[f])
                 /\ s3.clips[k].regs[f].value = s1.clips[k].regs[f].value
        <3>1. /\ s1.clips[k].regs[f] = Written(op.writes[f], a)
              /\ s3.clips[k].regs[f] = Written(op.writes[f], c)
            BY <1>1, <1>13 DEF LaterRegs
        <3> QED
            BY <1>1, <1>9, <1>10, <3>1
    <2>3. /\ s3.clips[k].parent = s1.clips[k].parent
          /\ s3.clips[k].splits = s1.clips[k].splits
          /\ s1.clips[k].parent = NoParent
        BY <1>13
    <2>4. \A x \in ClipId \ {k} : s3.clips[x] = s1.clips[x]
        BY <1>15
    <2>5. SameBut(s1, s3, "clips") /\ Exists(s1.clips, k) /\ Exists(s3.clips, k)
        BY <1>5, <1>13, <1>15
    <2>6. k \in ClipId /\ s1 \in SessionState
        BY <1>1, <1>4 DEF k
    <2>7. s1.clips[k].parent # NoParent => s3.clips[k].detached = s1.clips[k].detached
        BY <2>3
    <2>8. \A f \in ClipField :
                /\ Unwritten(s3.clips[k].regs[f]) <=> Unwritten(s1.clips[k].regs[f])
                /\ s3.clips[k].regs[f].value = s1.clips[k].regs[f].value
        BY <2>2
    <2>9. SameValues(s1, s3, k)
        BY <2>1, <2>3, <2>4, <2>5, <2>7, <2>8 DEF SameValues
    <2> QED
        BY <1>17, <2>6, <2>9, SameValuesLookAlike
<1> QED
    BY <1>16, <1>18 DEF s1, s2, s3

\* Two sessions with the same clips show the same of them.
LEMMA SameClipsLookAlike ==
    ASSUME NEW s \in SessionState, NEW t, NoCircles(s), t.clips = s.clips
    PROVE  /\ NoCircles(t)
           /\ \A x \in ClipId : Exists(s.clips, x) =>
                /\ Geometry(t, x) = Geometry(s, x)
                /\ \A f \in PlainField : Inherited(t, x, f) = Inherited(s, x, f)
<1>1. KeepsPlace(s, t)
    BY DEF KeepsPlace
<1>2. SameParents(s, t)
    BY <1>1, KeptParents
<1>3. \A x \in ClipId, f \in PlainField : KeepsShowing(s, t, x, f)
    BY DEF KeepsShowing
<1>4. NoCircles(t)
    BY <1>2, SameChains, DepthTyped DEF NoCircles, Cyclic
<1>5. \A x \in ClipId : Exists(s.clips, x) => Geometry(t, x) = Geometry(s, x)
    BY <1>1, KeptGeometry
<1>6. \A f \in PlainField : \A x \in ClipId : Exists(s.clips, x) =>
            Inherited(t, x, f) = Inherited(s, x, f)
    BY <1>2, <1>3, SameInherited
<1> QED
    BY <1>4, <1>5, <1>6

\* What was written by time n was written by any later time.
LEMMA LaterTagsBelow ==
    ASSUME NEW s \in SessionState, NEW n \in Nat, NEW m \in Nat, m > n,
           TagsBelow(s, n)
    PROVE  TagsBelow(s, m)
<1>1. ASSUME NEW x \in ClipId, Exists(s.clips, x)
      PROVE  /\ s.clips[x].alive.tag.lamport <= m
             /\ \A f \in ClipField : s.clips[x].regs[f].tag.lamport <= m
    <2>1. /\ s.clips[x].alive.tag.lamport \in Nat
          /\ \A f \in ClipField : s.clips[x].regs[f].tag.lamport \in Nat
        BY <1>1 DEF Exists, SessionState, Clip, Register, OpTag
    <2>2. /\ s.clips[x].alive.tag.lamport <= n
          /\ \A f \in ClipField : s.clips[x].regs[f].tag.lamport <= n
        BY <1>1 DEF TagsBelow
    <2> QED
        BY <2>1, <2>2
<1>2. ASSUME NEW k \in TrackId, Exists(s.tracks, k)
      PROVE  /\ s.tracks[k].alive.tag.lamport <= m
             /\ \A f \in TrackField : s.tracks[k].regs[f].tag.lamport <= m
    <2>1. /\ s.tracks[k].alive.tag.lamport \in Nat
          /\ \A f \in TrackField : s.tracks[k].regs[f].tag.lamport \in Nat
        BY <1>2 DEF Exists, SessionState, Track, Register, OpTag
    <2>2. /\ s.tracks[k].alive.tag.lamport <= n
          /\ \A f \in TrackField : s.tracks[k].regs[f].tag.lamport <= n
        BY <1>2 DEF TagsBelow
    <2> QED
        BY <2>1, <2>2
<1>3. \A e \in Target : s.envelopes[e].tag.lamport <= m
    <2>1. \A e \in Target : s.envelopes[e].tag.lamport \in Nat
        BY DEF SessionState, Register, OpTag
    <2>2. \A e \in Target : s.envelopes[e].tag.lamport <= n
        BY DEF TagsBelow
    <2> QED
        BY <2>1, <2>2
<1>4. \A f \in MetaField : s.metadata[f].tag.lamport <= m
    <2>1. \A f \in MetaField : s.metadata[f].tag.lamport \in Nat
        BY DEF SessionState, Register, OpTag
    <2>2. \A f \in MetaField : s.metadata[f].tag.lamport <= n
        BY DEF TagsBelow
    <2> QED
        BY <2>1, <2>2
<1> QED
    BY <1>1, <1>2, <1>3, <1>4 DEF TagsBelow

\* What a later track edit leaves.
TrackEdited(s, r, op, tag) ==
    LET k == op.track
    IN  /\ SameBut(s, r, "tracks")
        /\ \A x \in TrackId \ {k} : r.tracks[x] = s.tracks[x]
        /\ Exists(r.tracks, k)
        /\ r.tracks[k].regs = LaterRegs(TrackField, s.tracks[k].regs, op.writes, tag)
        /\ Exists(s.tracks, k) =>
                r.tracks[k].alive.value = LaterLife(s.tracks[k].alive.value, op)
        /\ ~Exists(s.tracks, k) => r.tracks[k].alive.value

\* TrackCrdt::apply of an operation later than all the session has seen.
LEMMA LaterTrackEdit ==
    ASSUME NEW s \in SessionState, NEW n \in Nat, TagsBelow(s, n),
           NEW op \in TrackEdit, NEW tag \in OpTag, tag.lamport > n,
           Exists(s.tracks, op.track) \/ op.type = "InsertTrack"
    PROVE  LET r == Apply(s, op, tag).session
           IN  /\ r \in SessionState
               /\ TrackEdited(s, r, op, tag)
               /\ TagsBelow(r, tag.lamport)
<1> DEFINE k == op.track
           r == Apply(s, op, tag).session
           old == s.tracks[k]
           new == r.tracks[k]
<1>1. op \in Operation /\ k \in TrackId /\ tag.lamport \in Nat
    BY DEF Operation, TrackEdit, OpTag
<1>2. r \in SessionState
    BY <1>1, ApplyTyped
<1>3. r = ApplyTrackEdit(s, op, tag).session
    BY <1>1, ApplyDispatch
<1>4. old \in Track \cup {Vacant} /\ (Exists(s.tracks, k) <=> old # Vacant)
    BY <1>1 DEF Exists, SessionState
<1>5. /\ SameBut(s, r, "tracks")
      /\ \A x \in TrackId \ {k} : r.tracks[x] = s.tracks[x]
      /\ Exists(r.tracks, k)
      /\ new = EditedTrack(old, op, tag)
    <2> DEFINE res == ApplyTrackEdit(s, op, tag)
    <2>1. res.ok
        BY TrackEditEffect
    <2> QED
        BY <1>3, <2>1, TrackEditEffect
<1>6. /\ new.regs = IF old # Vacant THEN SetAll(old.regs, op.writes, tag)
                    ELSE AllWritten(op.writes, tag)
      /\ new.alive = IF old # Vacant THEN SetAlive(old.alive, op, tag)
                     ELSE Written(TRUE, tag)
    <2>1. old # Vacant \/ op.type = "InsertTrack"
        BY <1>4
    <2>2. new = EditedTrack(old, op, tag)
        BY <1>5
    <2> HIDE DEF old, new
    <2> QED
        BY <1>4, <2>1, <2>2, EditedTrackTyped
<1> HIDE DEF r
<1>7. /\ TrackEdited(s, r, op, tag)
      /\ new.alive.tag.lamport <= tag.lamport
      /\ \A f \in TrackField : new.regs[f].tag.lamport <= tag.lamport
    <2>1. CASE old # Vacant
        <3>1. old.regs \in [TrackField -> Register(Nat)] /\ old.alive \in Register(BOOLEAN)
            BY <1>4, <2>1 DEF Track
        <3>2. /\ \A f \in TrackField : old.regs[f].tag.lamport <= n
              /\ old.alive.tag.lamport <= n
            BY <1>1, <1>4, <2>1 DEF TagsBelow
        <3>3. /\ new.alive = SetAlive(old.alive, op, tag)
              /\ new.regs = SetAll(old.regs, op.writes, tag)
            BY <1>6, <2>1
        <3> HIDE DEF old
        <3>4. new.regs = LaterRegs(TrackField, old.regs, op.writes, tag)
            BY <3>1, <3>2, <3>3, LaterSetAll
        <3>5. \A f \in TrackField :
                    LaterRegs(TrackField, old.regs, op.writes, tag)[f].tag.lamport
                        <= tag.lamport
            BY <3>1, <3>2, LaterRegsBelow
        <3>6. /\ new.alive.value = LaterLife(old.alive.value, op)
              /\ new.alive.tag.lamport <= tag.lamport
            BY <3>1, <3>2, <3>3, LaterSetAlive
        <3> QED
            BY <1>4, <1>5, <2>1, <3>4, <3>5, <3>6 DEF TrackEdited, old
    <2>2. CASE old = Vacant
        <3>1. op.type = "InsertTrack"
            BY <1>4, <2>2
        <3>2. DOMAIN op.writes = TrackField
            BY <3>1 DEF TrackEdit
        <3>3. /\ new.regs = AllWritten(op.writes, tag)
              /\ new.alive = Written(TRUE, tag)
            BY <1>6, <2>2
        <3>4. new.regs = LaterRegs(TrackField, old.regs, op.writes, tag)
            BY <3>2, <3>3 DEF AllWritten, LaterRegs
        <3>5. \A f \in TrackField :
                LaterRegs(TrackField, old.regs, op.writes, tag)[f].tag.lamport
                    <= tag.lamport
            BY <3>2, LaterRegsBelow
        <3>6. new.alive.tag.lamport <= tag.lamport /\ new.alive.value
            BY <1>1, <3>3 DEF Written
        <3> HIDE DEF new
        <3> QED
            BY <1>4, <1>5, <2>2, <3>4, <3>5, <3>6 DEF TrackEdited, new
    <2> QED
        BY <2>1, <2>2
<1>8. TagsBelow(r, tag.lamport)
    <2>1. TagsBelow(s, tag.lamport)
        BY <1>1, LaterTagsBelow
    <2>2. r.clips = s.clips /\ r.envelopes = s.envelopes /\ r.metadata = s.metadata
        BY <1>5 DEF SameBut
    <2>3. \A x \in TrackId \ {k} : Exists(r.tracks, x) =>
                Exists(s.tracks, x) /\ r.tracks[x] = s.tracks[x]
        BY <1>5 DEF Exists
    <2> HIDE DEF new
    <2> QED
        BY <1>7, <2>1, <2>2, <2>3 DEF TagsBelow, new
<1> QED
    BY <1>2, <1>7, <1>8 DEF r

\* compute_inverse of an edit of a track that may be offered: the opposite for
\* an insert or a delete, and for the rest the values held now.
LEMMA TrackInverseWrites ==
    ASSUME NEW s \in SessionState, NEW op \in TrackEdit,
           op.type = "InsertTrack" <=> ~Exists(s.tracks, op.track)
    PROVE  LET inv == ComputeInverse(s, op)
           IN  /\ inv \in TrackEdit /\ inv.track = op.track
               /\ op.type = "InsertTrack" =>
                    inv.type = "DeleteTrack" /\ DOMAIN inv.writes = {}
               /\ op.type = "DeleteTrack" =>
                    inv.type = "InsertTrack" /\ DOMAIN inv.writes = TrackField
               /\ op.type = "UpdateTrackMetadata" =>
                    inv.type = op.type /\ DOMAIN inv.writes = DOMAIN op.writes
               /\ \A f \in DOMAIN inv.writes :
                    inv.writes[f] = s.tracks[op.track].regs[f].value
<1> DEFINE inv == ComputeInverse(s, op)
           held == [f \in TrackField |-> s.tracks[op.track].regs[f].value]
           back == [op EXCEPT !.writes = [f \in DOMAIN @ |-> held[f]]]
<1>1. /\ op.type \in {"InsertTrack", "UpdateTrackMetadata", "DeleteTrack"}
      /\ op.track \in TrackId
    BY DEF TrackEdit
<1>2. inv = TrackInverse(s, op)
    BY <1>1 DEF ComputeInverse
<1>3. CASE op.type = "InsertTrack"
    <2>1. inv = [type |-> "DeleteTrack", track |-> op.track, writes |-> NoWrites]
        BY <1>2, <1>3 DEF TrackInverse
    <2> HIDE DEF inv
    <2> QED
        BY <1>1, <1>3, <2>1 DEF TrackEdit, NoWrites, inv
<1>4. CASE op.type = "DeleteTrack"
    <2>1. inv = [type |-> "InsertTrack", track |-> op.track, writes |-> held]
        BY <1>2, <1>4 DEF TrackInverse
    <2>2. inv # Vacant => inv \in TrackEdit /\ inv.track = op.track
        BY TrackInverseTyped
    <2>3. s.tracks[op.track] \in Track
        BY <1>1, <1>4 DEF Exists, SessionState
    <2>4. held \in [TrackField -> Nat]
        <3>1. \A f \in TrackField : s.tracks[op.track].regs[f] \in Register(Nat)
            BY <2>3 DEF Track
        <3> QED
            BY <3>1 DEF Register
    <2>5. \A f \in TrackField : held[f] = s.tracks[op.track].regs[f].value
        OBVIOUS
    <2> HIDE DEF inv, held
    <2>6. inv \in TrackEdit
        BY <1>1, <2>1, <2>4 DEF TrackEdit
    <2> QED
        BY <1>4, <2>1, <2>4, <2>5, <2>6 DEF inv
<1>5. CASE op.type = "UpdateTrackMetadata"
    <2>1. inv = back
        BY <1>1, <1>2, <1>5 DEF TrackInverse
    <2>2. op \in [type : {"UpdateTrackMetadata"}, track : TrackId,
                  writes : Writes("name", "order_hint", Nat)]
        BY <1>5 DEF TrackEdit
    <2>3. DOMAIN op.writes \subseteq TrackField
        BY <2>2 DEF Writes, NoWrites, TrackField
    <2>4. s.tracks[op.track] \in Track
        BY <1>1, <1>5 DEF Exists, SessionState
    <2>5. held["name"] \in Nat /\ held["order_hint"] \in Nat
        <3>1. \A f \in TrackField : s.tracks[op.track].regs[f] \in Register(Nat)
            BY <2>4 DEF Track
        <3> QED
            BY <3>1 DEF Register, TrackField
    <2>6. \A f \in TrackField : held[f] = s.tracks[op.track].regs[f].value
        OBVIOUS
    <2> HIDE DEF inv, held
    <2>7. [f \in DOMAIN op.writes |-> held[f]] \in Writes("name", "order_hint", Nat)
        BY <2>2, <2>5, WritesOfShown
    <2>8. /\ back \in [type : {"UpdateTrackMetadata"}, track : TrackId,
                       writes : Writes("name", "order_hint", Nat)]
          /\ back.type = op.type /\ back.track = op.track
          /\ back.writes = [f \in DOMAIN op.writes |-> held[f]]
        BY <2>2, <2>7
    <2> HIDE DEF back
    <2> QED
        BY <1>5, <2>1, <2>3, <2>6, <2>8 DEF TrackEdit, inv
<1> QED
    BY <1>1, <1>3, <1>4, <1>5

\* Tracks that are alive in both sessions with the same values, or in neither,
\* look alike if nothing else differs.
LEMMA TracksLookAlike ==
    ASSUME NEW s \in SessionState, NEW t, NoCircles(s), SameBut(s, t, "tracks"),
           NEW k \in TrackId, \A x \in TrackId \ {k} : t.tracks[x] = s.tracks[x],
           TrackAlive(t, k) <=> TrackAlive(s, k),
           TrackAlive(s, k) => \A f \in TrackField :
                t.tracks[k].regs[f].value = s.tracks[k].regs[f].value
    PROVE  LooksAlike(s, t)
<1>1. t.clips = s.clips /\ t.envelopes = s.envelopes /\ t.metadata = s.metadata
    BY DEF SameBut
<1>2. \A x \in ClipId : Exists(s.clips, x) =>
            /\ Geometry(t, x) = Geometry(s, x)
            /\ \A f \in PlainField : Inherited(t, x, f) = Inherited(s, x, f)
    BY <1>1, SameClipsLookAlike
<1>3. \A x \in TrackId \ {k} : TrackAlive(t, x) <=> TrackAlive(s, x)
    BY DEF TrackAlive, Exists
<1> QED
    BY <1>1, <1>2, <1>3 DEF LooksAlike

\* An edit of a track, taken back and done again.
LEMMA TrackEditUndone ==
    ASSUME NEW s \in SessionState, NEW n \in Nat, TagsBelow(s, n), NoCircles(s),
           NEW a, NEW b, NEW c, InTurn(n, a, b, c),
           NEW op \in TrackEdit,
           op.type = "InsertTrack" => ~Exists(s.tracks, op.track),
           op.type # "InsertTrack" => TrackAlive(s, op.track)
    PROVE  /\ LooksAlike(s, TakenBack(s, op, a, b))
           /\ LooksAlike(Done(s, op, a), DoneAgain(s, op, a, b, c))
<1> DEFINE k == op.track
           inv == ComputeInverse(s, op)
           s1 == Done(s, op, a)
           s2 == TakenBack(s, op, a, b)
           s3 == DoneAgain(s, op, a, b, c)
           W == DOMAIN inv.writes
           insert == op.type = "InsertTrack"
           delete == op.type = "DeleteTrack"
           update == op.type = "UpdateTrackMetadata"
<1>1. k \in TrackId /\ (insert \/ delete \/ update)
    BY DEF TrackEdit
<1>2. insert <=> ~Exists(s.tracks, k)
    BY DEF TrackAlive
<1>3. /\ inv \in TrackEdit /\ inv.track = k
      /\ insert => inv.type = "DeleteTrack" /\ W = {}
      /\ delete => inv.type = "InsertTrack" /\ W = TrackField
      /\ update => inv.type = op.type /\ W = DOMAIN op.writes
      /\ \A f \in W : inv.writes[f] = s.tracks[k].regs[f].value
    BY <1>2, TrackInverseWrites
<1>4. /\ a \in OpTag /\ b \in OpTag /\ c \in OpTag
      /\ a.lamport \in Nat /\ b.lamport \in Nat /\ c.lamport \in Nat
      /\ a.lamport > n /\ b.lamport > a.lamport /\ c.lamport > b.lamport
    BY DEF InTurn, OpTag
<1>5. s1 \in SessionState /\ TrackEdited(s, s1, op, a) /\ TagsBelow(s1, a.lamport)
    BY <1>2, <1>4, LaterTrackEdit DEF Done
<1> HIDE DEF s1, inv
<1>6. Exists(s1.tracks, k)
    BY <1>5 DEF TrackEdited
<1>7. s2 \in SessionState /\ TrackEdited(s1, s2, inv, b) /\ TagsBelow(s2, b.lamport)
    BY <1>3, <1>4, <1>5, <1>6, LaterTrackEdit DEF Done, TakenBack, s1, inv
<1> HIDE DEF s2
<1>8. Exists(s2.tracks, k)
    BY <1>3, <1>7 DEF TrackEdited
<1>9. TrackEdited(s2, s3, op, c)
    BY <1>4, <1>7, <1>8, LaterTrackEdit DEF Done, DoneAgain, s2
<1> HIDE DEF s3
<1>10. insert => DOMAIN op.writes = TrackField
    BY DEF TrackEdit
<1>11. delete => DOMAIN op.writes = {}
    BY DEF TrackEdit, NoWrites
<1> HIDE DEF k
<1>12. /\ Exists(s3.tracks, k)
       /\ s1.tracks[k].regs = LaterRegs(TrackField, s.tracks[k].regs, op.writes, a)
       /\ s2.tracks[k].regs = LaterRegs(TrackField, s1.tracks[k].regs, inv.writes, b)
       /\ s3.tracks[k].regs = LaterRegs(TrackField, s2.tracks[k].regs, op.writes, c)
       /\ Exists(s.tracks, k) =>
                s1.tracks[k].alive.value = LaterLife(s.tracks[k].alive.value, op)
       /\ ~Exists(s.tracks, k) => s1.tracks[k].alive.value
       /\ s2.tracks[k].alive.value = LaterLife(s1.tracks[k].alive.value, inv)
       /\ s3.tracks[k].alive.value = LaterLife(s2.tracks[k].alive.value, op)
    BY <1>3, <1>5, <1>6, <1>7, <1>8, <1>9 DEF TrackEdited, k
<1>13. /\ \A x \in TrackId \ {k} : /\ s1.tracks[x] = s.tracks[x]
                                   /\ s2.tracks[x] = s.tracks[x]
                                   /\ s3.tracks[x] = s.tracks[x]
       /\ SameBut(s, s1, "tracks") /\ SameBut(s, s2, "tracks")
       /\ SameBut(s1, s3, "tracks")
    BY <1>3, <1>5, <1>7, <1>9 DEF TrackEdited, SameBut, k
<1>14. /\ TrackAlive(s, k) <=> ~insert
       /\ TrackAlive(s1, k) <=> ~delete
       /\ TrackAlive(s2, k) <=> ~insert
       /\ TrackAlive(s3, k) <=> ~delete
    <2>1. TrackAlive(s, k) <=> ~insert
        BY <1>2 DEF TrackAlive, k
    <2>2. /\ ~insert => s.tracks[k].alive.value
          /\ TrackAlive(s1, k) <=> s1.tracks[k].alive.value
          /\ TrackAlive(s2, k) <=> s2.tracks[k].alive.value
          /\ TrackAlive(s3, k) <=> s3.tracks[k].alive.value
        BY <1>1, <1>2, <1>6, <1>8, <1>12, <2>1 DEF TrackAlive
    <2>3. s1.tracks[k].alive.value <=> ~delete
        BY <1>1, <1>2, <1>12, <2>2 DEF LaterLife
    <2>4. s2.tracks[k].alive.value <=> ~insert
        BY <1>1, <1>3, <1>12, <2>3 DEF LaterLife
    <2>5. s3.tracks[k].alive.value <=> ~delete
        BY <1>1, <1>12, <2>4 DEF LaterLife
    <2> QED
        BY <2>1, <2>2, <2>3, <2>4, <2>5
<1>15. \A regs, writes, tag, f : f \in TrackField =>
            LaterRegs(TrackField, regs, writes, tag)[f].value
                = IF f \in DOMAIN writes THEN writes[f] ELSE regs[f].value
    BY DEF LaterRegs, Written
<1>16. ASSUME NEW f \in TrackField
       PROVE  /\ ~insert => s2.tracks[k].regs[f].value = s.tracks[k].regs[f].value
              /\ ~delete => s3.tracks[k].regs[f].value = s1.tracks[k].regs[f].value
    <2>1. /\ s1.tracks[k].regs[f].value = IF f \in DOMAIN op.writes THEN op.writes[f]
                                          ELSE s.tracks[k].regs[f].value
          /\ s2.tracks[k].regs[f].value = IF f \in W THEN inv.writes[f]
                                          ELSE s1.tracks[k].regs[f].value
          /\ s3.tracks[k].regs[f].value = IF f \in DOMAIN op.writes THEN op.writes[f]
                                          ELSE s2.tracks[k].regs[f].value
        BY <1>12, <1>15
    <2> QED
        BY <1>1, <1>3, <1>10, <1>11, <2>1
<1>17. LooksAlike(s, s2)
    BY <1>1, <1>13, <1>14, <1>16, TracksLookAlike DEF k
<1>18. NoCircles(s1)
    BY <1>13, SameClipsLookAlike DEF SameBut
<1>19. \A x \in TrackId \ {k} : s3.tracks[x] = s1.tracks[x]
    BY <1>13
<1>20. LooksAlike(s1, s3)
    BY <1>1, <1>5, <1>13, <1>14, <1>16, <1>18, <1>19, TracksLookAlike DEF k
<1> QED
    BY <1>17, <1>20 DEF s1, s2, s3

\* Session::apply of a write to an envelope later than all the session has
\* seen.
LEMMA LaterEnvelope ==
    ASSUME NEW s \in SessionState, NEW n \in Nat, TagsBelow(s, n),
           NEW op \in EnvelopeEdit, TargetExists(s, op.target),
           NEW tag \in OpTag, tag.lamport > n
    PROVE  LET r == Apply(s, op, tag).session
           IN  /\ r \in SessionState /\ SameBut(s, r, "envelopes")
               /\ r.envelopes = [s.envelopes EXCEPT
                                    ![op.target] = Written(op.points, tag)]
               /\ TagsBelow(r, tag.lamport)
<1> DEFINE r == Apply(s, op, tag).session
<1>1. op \in Operation /\ op.target \in Target /\ tag.lamport \in Nat
    BY DEF Operation, EnvelopeEdit, OpTag
<1>2. r \in SessionState
    BY <1>1, ApplyTyped
<1>3. r = ApplyEnvelope(s, op, tag).session
    BY <1>1, ApplyDispatch
<1>4. /\ SameBut(s, r, "envelopes")
      /\ r.envelopes = [s.envelopes EXCEPT
                ![op.target] = Set(s.envelopes[op.target], op.points, tag)]
    BY <1>3, EnvelopeEffect
<1> HIDE DEF r
<1>5. s.envelopes \in [Target -> Register(Nat)]
    BY DEF SessionState
<1>6. s.envelopes[op.target].tag.lamport <= n
    BY <1>1 DEF TagsBelow
<1>7. Set(s.envelopes[op.target], op.points, tag) = Written(op.points, tag)
    BY <1>1, <1>5, <1>6, LaterWins
<1>8. r.envelopes = [s.envelopes EXCEPT ![op.target] = Written(op.points, tag)]
    BY <1>4, <1>7
<1>9. TagsBelow(s, tag.lamport)
    BY <1>1, LaterTagsBelow
<1>10. \A e \in Target : r.envelopes[e].tag.lamport <= tag.lamport
    <2>1. \A e \in Target : r.envelopes[e] =
                IF e = op.target THEN Written(op.points, tag) ELSE s.envelopes[e]
        BY <1>5, <1>8
    <2>2. Written(op.points, tag).tag.lamport <= tag.lamport
        BY <1>1 DEF Written
    <2>3. \A e \in Target : s.envelopes[e].tag.lamport <= tag.lamport
        BY <1>9 DEF TagsBelow
    <2> QED
        BY <2>1, <2>2, <2>3
<1>11. r.clips = s.clips /\ r.tracks = s.tracks /\ r.metadata = s.metadata
    BY <1>4 DEF SameBut
<1>12. TagsBelow(r, tag.lamport)
    BY <1>9, <1>10, <1>11 DEF TagsBelow
<1> QED
    BY <1>2, <1>4, <1>8, <1>12 DEF r

\* A write to a written envelope, taken back and done again.
LEMMA EnvelopeUndone ==
    ASSUME NEW s \in SessionState, NEW n \in Nat, TagsBelow(s, n), NoCircles(s),
           NEW a, NEW b, NEW c, InTurn(n, a, b, c),
           NEW op \in EnvelopeEdit, TargetExists(s, op.target),
           ~Unwritten(s.envelopes[op.target])
    PROVE  /\ LooksAlike(s, TakenBack(s, op, a, b))
           /\ LooksAlike(Done(s, op, a), DoneAgain(s, op, a, b, c))
<1> DEFINE g == op.target
           old == s.envelopes[g].value
           inv == ComputeInverse(s, op)
           s1 == Done(s, op, a)
           s2 == TakenBack(s, op, a, b)
           s3 == DoneAgain(s, op, a, b, c)
<1>1. g \in Target /\ old \in Nat /\ op.points \in Nat
    BY DEF EnvelopeEdit, SessionState, Register
<1>2. inv \in EnvelopeEdit /\ inv.target = g /\ inv.points = old
    <2>1. op.type = "UpdateEnvelope"
        BY DEF EnvelopeEdit
    <2>2. inv = [op EXCEPT !.points = old]
        BY <2>1 DEF ComputeInverse
    <2> HIDE DEF inv, old
    <2> QED
        BY <1>1, <2>2 DEF EnvelopeEdit
<1>3. /\ a \in OpTag /\ b \in OpTag /\ c \in OpTag
      /\ a.lamport \in Nat /\ b.lamport \in Nat /\ c.lamport \in Nat
      /\ a.lamport > n /\ b.lamport > a.lamport /\ c.lamport > b.lamport
    BY DEF InTurn, OpTag
<1>4. /\ s1 \in SessionState /\ SameBut(s, s1, "envelopes")
      /\ s1.envelopes = [s.envelopes EXCEPT ![g] = Written(op.points, a)]
      /\ TagsBelow(s1, a.lamport)
    BY <1>3, LaterEnvelope DEF Done
<1> HIDE DEF s1, inv
<1>5. TargetExists(s1, g)
    BY <1>4 DEF SameBut, TargetExists
<1>6. /\ s2 \in SessionState /\ SameBut(s1, s2, "envelopes")
      /\ s2.envelopes = [s1.envelopes EXCEPT ![g] = Written(old, b)]
      /\ TagsBelow(s2, b.lamport)
    BY <1>2, <1>3, <1>4, <1>5, LaterEnvelope DEF Done, TakenBack, s1, inv
<1> HIDE DEF s2
<1>7. TargetExists(s2, g)
    BY <1>5, <1>6 DEF SameBut, TargetExists
<1>8. /\ SameBut(s2, s3, "envelopes")
      /\ s3.envelopes = [s2.envelopes EXCEPT ![g] = Written(op.points, c)]
    BY <1>3, <1>6, <1>7, LaterEnvelope DEF Done, DoneAgain, s2
<1> HIDE DEF s3, old
<1>9. \A v : \A tag \in {a, b, c} : /\ ~Unwritten(Written(v, tag))
                                    /\ Written(v, tag).value = v
    BY <1>3 DEF Unwritten, Written, InitialTag
<1>10. /\ s.envelopes \in [Target -> Register(Nat)]
       /\ s1.envelopes \in [Target -> Register(Nat)]
       /\ s2.envelopes \in [Target -> Register(Nat)]
    BY <1>4, <1>6 DEF SessionState
<1>11. \A e \in Target :
        /\ Unwritten(s2.envelopes[e]) <=> Unwritten(s.envelopes[e])
        /\ s2.envelopes[e].value = s.envelopes[e].value
        /\ Unwritten(s3.envelopes[e]) <=> Unwritten(s1.envelopes[e])
        /\ s3.envelopes[e].value = s1.envelopes[e].value
    <2> SUFFICES ASSUME NEW e \in Target
                 PROVE  /\ Unwritten(s2.envelopes[e]) <=> Unwritten(s.envelopes[e])
                        /\ s2.envelopes[e].value = s.envelopes[e].value
                        /\ Unwritten(s3.envelopes[e]) <=> Unwritten(s1.envelopes[e])
                        /\ s3.envelopes[e].value = s1.envelopes[e].value
        OBVIOUS
    <2>1. CASE e = g
        <3>1. /\ s1.envelopes[e] = Written(op.points, a)
              /\ s2.envelopes[e] = Written(old, b)
              /\ s3.envelopes[e] = Written(op.points, c)
            BY <1>4, <1>6, <1>8, <1>10, <2>1
        <3> QED
            BY <1>9, <2>1, <3>1 DEF old
    <2>2. CASE e # g
        BY <1>4, <1>6, <1>8, <1>10, <2>2
    <2> QED
        BY <2>1, <2>2
<1>12. /\ s1.clips = s.clips /\ s1.tracks = s.tracks /\ s1.metadata = s.metadata
       /\ s2.clips = s.clips /\ s2.tracks = s.tracks /\ s2.metadata = s.metadata
       /\ s3.clips = s.clips /\ s3.tracks = s.tracks /\ s3.metadata = s.metadata
    BY <1>4, <1>6, <1>8 DEF SameBut
<1>13. NoCircles(s1)
    BY <1>12, SameClipsLookAlike
<1>14. /\ \A k \in TrackId : TrackAlive(s2, k) <=> TrackAlive(s, k)
       /\ \A k \in TrackId : TrackAlive(s3, k) <=> TrackAlive(s1, k)
    BY <1>12 DEF TrackAlive
<1>15. LooksAlike(s, s2)
    <2>1. \A x \in ClipId : Exists(s.clips, x) =>
            /\ Geometry(s2, x) = Geometry(s, x)
            /\ \A f \in PlainField : Inherited(s2, x, f) = Inherited(s, x, f)
        BY <1>12, SameClipsLookAlike
    <2> QED
        BY <1>11, <1>12, <1>14, <2>1 DEF LooksAlike
<1>16. LooksAlike(s1, s3)
    <2>1. \A x \in ClipId : Exists(s1.clips, x) =>
            /\ Geometry(s3, x) = Geometry(s1, x)
            /\ \A f \in PlainField : Inherited(s3, x, f) = Inherited(s1, x, f)
        <3>1. s3.clips = s1.clips
            BY <1>12
        <3> QED
            BY <1>4, <1>13, <3>1, SameClipsLookAlike
    <2> QED
        BY <1>11, <1>12, <1>14, <2>1 DEF LooksAlike
<1> QED
    BY <1>15, <1>16 DEF s1, s2, s3

\* Session::apply of metadata later than all the session has seen.
LEMMA LaterMetadata ==
    ASSUME NEW s \in SessionState, NEW n \in Nat, TagsBelow(s, n),
           NEW op \in MetadataEdit, NEW tag \in OpTag, tag.lamport > n
    PROVE  LET r == Apply(s, op, tag).session
           IN  /\ r \in SessionState /\ SameBut(s, r, "metadata")
               /\ r.metadata = LaterRegs(MetaField, s.metadata, op.writes, tag)
               /\ TagsBelow(r, tag.lamport)
<1> DEFINE r == Apply(s, op, tag).session
<1>1. op \in Operation /\ tag.lamport \in Nat
    BY DEF Operation, MetadataEdit, OpTag
<1>2. r \in SessionState
    BY <1>1, ApplyTyped
<1>3. SameBut(s, r, "metadata") /\ r.metadata = SetAll(s.metadata, op.writes, tag)
    BY MetadataEffect
<1> HIDE DEF r
<1>4. s.metadata \in [MetaField -> Register(Nat)]
    BY DEF SessionState
<1>5. \A f \in MetaField : s.metadata[f].tag.lamport <= n
    BY DEF TagsBelow
<1>6. r.metadata = LaterRegs(MetaField, s.metadata, op.writes, tag)
    BY <1>3, <1>4, <1>5, LaterSetAll
<1>7. \A f \in MetaField : r.metadata[f].tag.lamport <= tag.lamport
    BY <1>4, <1>5, <1>6, LaterRegsBelow
<1>8. TagsBelow(s, tag.lamport)
    BY <1>1, LaterTagsBelow
<1>9. r.clips = s.clips /\ r.tracks = s.tracks /\ r.envelopes = s.envelopes
    BY <1>3 DEF SameBut
<1>10. TagsBelow(r, tag.lamport)
    BY <1>7, <1>8, <1>9 DEF TagsBelow
<1> QED
    BY <1>2, <1>3, <1>6, <1>10 DEF r

\* A change of the session's metadata, taken back and done again.
LEMMA MetadataUndone ==
    ASSUME NEW s \in SessionState, NEW n \in Nat, TagsBelow(s, n), NoCircles(s),
           NEW a, NEW b, NEW c, InTurn(n, a, b, c), NEW op \in MetadataEdit
    PROVE  /\ LooksAlike(s, TakenBack(s, op, a, b))
           /\ LooksAlike(Done(s, op, a), DoneAgain(s, op, a, b, c))
<1> DEFINE inv == ComputeInverse(s, op)
           s1 == Done(s, op, a)
           s2 == TakenBack(s, op, a, b)
           s3 == DoneAgain(s, op, a, b, c)
<1>1. /\ inv \in MetadataEdit /\ DOMAIN inv.writes = DOMAIN op.writes
      /\ \A f \in DOMAIN op.writes : inv.writes[f] = s.metadata[f].value
    <2>1. op.type = "UpdateSessionMetadata"
        BY DEF MetadataEdit
    <2>2. DOMAIN op.writes \subseteq MetaField
        BY DEF MetadataEdit, Writes, NoWrites, MetaField
    <2>3. inv = [op EXCEPT !.writes = [f \in DOMAIN @ |-> s.metadata[f].value]]
        BY <2>1 DEF ComputeInverse
    <2>4. inv.writes = [f \in DOMAIN op.writes |-> s.metadata[f].value]
        BY <2>3 DEF MetadataEdit
    <2>5. inv \in MetadataEdit
        BY <2>1, OtherInverseTyped
    <2> HIDE DEF inv
    <2> QED
        BY <2>4, <2>5
<1>2. /\ a \in OpTag /\ b \in OpTag /\ c \in OpTag
      /\ a.lamport \in Nat /\ b.lamport \in Nat /\ c.lamport \in Nat
      /\ a.lamport > n /\ b.lamport > a.lamport /\ c.lamport > b.lamport
    BY DEF InTurn, OpTag
<1>3. /\ s1 \in SessionState /\ SameBut(s, s1, "metadata")
      /\ s1.metadata = LaterRegs(MetaField, s.metadata, op.writes, a)
      /\ TagsBelow(s1, a.lamport)
    BY <1>2, LaterMetadata DEF Done
<1> HIDE DEF s1, inv
<1>4. /\ s2 \in SessionState /\ SameBut(s1, s2, "metadata")
      /\ s2.metadata = LaterRegs(MetaField, s1.metadata, inv.writes, b)
      /\ TagsBelow(s2, b.lamport)
    BY <1>1, <1>2, <1>3, LaterMetadata DEF Done, TakenBack, s1, inv
<1> HIDE DEF s2
<1>5. /\ SameBut(s2, s3, "metadata")
      /\ s3.metadata = LaterRegs(MetaField, s2.metadata, op.writes, c)
    BY <1>2, <1>4, LaterMetadata DEF Done, DoneAgain, s2
<1> HIDE DEF s3
<1>6. ASSUME NEW f \in MetaField
      PROVE  /\ s2.metadata[f].value = s.metadata[f].value
             /\ s3.metadata[f].value = s1.metadata[f].value
    <2>1. \A regs, writes, tag :
            LaterRegs(MetaField, regs, writes, tag)[f].value
                = IF f \in DOMAIN writes THEN writes[f] ELSE regs[f].value
        BY DEF LaterRegs, Written
    <2> QED
        BY <1>1, <1>3, <1>4, <1>5, <2>1
<1>7. /\ s1.clips = s.clips /\ s1.tracks = s.tracks /\ s1.envelopes = s.envelopes
      /\ s2.clips = s.clips /\ s2.tracks = s.tracks /\ s2.envelopes = s.envelopes
      /\ s3.clips = s.clips /\ s3.tracks = s.tracks /\ s3.envelopes = s.envelopes
    BY <1>3, <1>4, <1>5 DEF SameBut
<1>8. NoCircles(s1)
    BY <1>7, SameClipsLookAlike
<1>9. /\ \A k \in TrackId : TrackAlive(s2, k) <=> TrackAlive(s, k)
      /\ \A k \in TrackId : TrackAlive(s3, k) <=> TrackAlive(s1, k)
    BY <1>7 DEF TrackAlive
<1>10. LooksAlike(s, s2)
    <2>1. \A x \in ClipId : Exists(s.clips, x) =>
            /\ Geometry(s2, x) = Geometry(s, x)
            /\ \A f \in PlainField : Inherited(s2, x, f) = Inherited(s, x, f)
        BY <1>7, SameClipsLookAlike
    <2> QED
        BY <1>6, <1>7, <1>9, <2>1 DEF LooksAlike
<1>11. LooksAlike(s1, s3)
    <2>1. \A x \in ClipId : Exists(s1.clips, x) =>
            /\ Geometry(s3, x) = Geometry(s1, x)
            /\ \A f \in PlainField : Inherited(s3, x, f) = Inherited(s1, x, f)
        <3>1. s3.clips = s1.clips
            BY <1>7
        <3> QED
            BY <1>3, <1>8, <3>1, SameClipsLookAlike
    <2> QED
        BY <1>6, <1>7, <1>9, <2>1 DEF LooksAlike
<1> QED
    BY <1>10, <1>11 DEF s1, s2, s3

\* What an application offers and compute_inverse takes back whole, taken back
\* and done again.
LEMMA OfferedUndone ==
    ASSUME NEW s \in SessionState, NEW n \in Nat, TagsBelow(s, n), NoCircles(s),
           NEW a, NEW b, NEW c, InTurn(n, a, b, c), NEW op \in Operation,
           Offered(s, op), Reversible(s, op)
    PROVE  /\ View(TakenBack(s, op, a, b)) = View(s)
           /\ View(DoneAgain(s, op, a, b, c)) = View(Done(s, op, a))
<1>1. /\ LooksAlike(s, TakenBack(s, op, a, b))
      /\ LooksAlike(Done(s, op, a), DoneAgain(s, op, a, b, c))
    <2>1. CASE op \in ClipEdit /\ op.type = "InsertClip"
        <3>1. ~Exists(s.clips, op.clip)
            BY <2>1 DEF Offered
        <3> QED
            BY <2>1, <3>1, InsertUndone
    <2>2. CASE op \in ClipEdit /\ op.type # "InsertClip"
        <3>1. op.type \in {"MoveClip", "TrimClip", "UpdateClipMetadata", "DeleteClip"}
            BY <2>2 DEF ClipEdit
        <3>2. Visible(s, op.clip)
            BY <3>1 DEF Offered
        <3>3. Exists(s.clips, op.clip)
            BY <3>2 DEF Visible
        <3> QED
            BY <2>2, <3>2, <3>3, EditOfSeenUndone
    <2>3. CASE op \in SplitEdit
        BY <2>3 DEF SplitEdit, Reversible
    <2>4. CASE op \in TrackEdit
        <3>1. op.type \in {"InsertTrack", "UpdateTrackMetadata", "DeleteTrack"}
            BY <2>4 DEF TrackEdit
        <3>2. /\ op.type = "InsertTrack" => ~Exists(s.tracks, op.track)
              /\ op.type # "InsertTrack" => TrackAlive(s, op.track)
            BY <3>1 DEF Offered
        <3> QED
            BY <2>4, <3>2, TrackEditUndone
    <2>5. CASE op \in EnvelopeEdit
        <3>1. TargetExists(s, op.target) /\ ~Unwritten(s.envelopes[op.target])
            BY <2>5 DEF EnvelopeEdit, Offered
        <3> QED
            BY <2>5, <3>1, EnvelopeUndone
    <2>6. CASE op \in MetadataEdit
        BY <2>6, MetadataUndone
    <2> QED
        BY <2>1, <2>2, <2>3, <2>4, <2>5, <2>6 DEF Operation
<1>2. Done(s, op, a) \in SessionState
    BY ApplyTyped DEF Done, InTurn
<1> QED
    BY <1>1, <1>2, SameView

-----------------------------------------------------------------------------
(* No register is ahead of the clock of its replica                        *)

\* A write no later than n leaves a register no later than n.
LEMMA SetBelow ==
    ASSUME NEW reg, NEW v, NEW tag, NEW n,
           reg.tag.lamport <= n, tag.lamport <= n
    PROVE  Set(reg, v, tag).tag.lamport <= n
BY DEF Set, Written

\* So do a delete and an insert.
LEMMA SetAliveBelow ==
    ASSUME NEW reg, NEW op, NEW tag, NEW n,
           reg.tag.lamport <= n, tag.lamport <= n
    PROVE  SetAlive(reg, op, tag).tag.lamport <= n
BY SetBelow DEF SetAlive

\* And the writes of an operation.
LEMMA SetAllBelow ==
    ASSUME NEW F, NEW regs, DOMAIN regs = F, NEW writes, NEW tag, NEW n,
           \A f \in F : regs[f].tag.lamport <= n, tag.lamport <= n
    PROVE  \A f \in F : SetAll(regs, writes, tag)[f].tag.lamport <= n
<1> SUFFICES ASSUME NEW f \in F
             PROVE  SetAll(regs, writes, tag)[f].tag.lamport <= n
    OBVIOUS
<1>1. SetAll(regs, writes, tag)[f] =
            IF f \in DOMAIN writes THEN Set(regs[f], writes[f], tag) ELSE regs[f]
    BY DEF SetAll
<1>2. Set(regs[f], writes[f], tag).tag.lamport <= n
    BY SetBelow
<1> QED
    BY <1>1, <1>2

\* And so is an entity made by an operation.
LEMMA AllWrittenBelow ==
    ASSUME NEW writes, NEW tag, NEW n, tag.lamport <= n
    PROVE  \A f \in DOMAIN writes : AllWritten(writes, tag)[f].tag.lamport <= n
BY DEF AllWritten, Written

\* The liveness registers of clips, written at or before time n.
LivesBelow(clips, n) ==
    \A c \in ClipId : Exists(clips, c) => clips[c].alive.tag.lamport <= n

\* Replacing one clip.
LEMMA OneLifeBelow ==
    ASSUME NEW clips \in ClipMap, NEW n, LivesBelow(clips, n),
           NEW c \in ClipId, NEW clip, clip.alive.tag.lamport <= n
    PROVE  LivesBelow([clips EXCEPT ![c] = clip], n)
<1> DEFINE new == [clips EXCEPT ![c] = clip]
<1>1. \A x \in ClipId : new[x] = IF x = c THEN clip ELSE clips[x]
    BY DEF ClipMap
<1> HIDE DEF new
<1> QED
    BY <1>1 DEF LivesBelow, Exists, new

\* Reparent does not touch them.
LEMMA ReparentBelow ==
    ASSUME NEW clips \in ClipMap, NEW child \in ClipId, NEW claim \in Claim,
           Exists(clips, child), clips[child].parent # NoParent,
           NEW n, LivesBelow(clips, n)
    PROVE  LivesBelow(Reparent(clips, child, claim), n)
<1> DEFINE old == clips[child].parent
           robbed == [clips[old[1]] EXCEPT !.splits = @ \ {<<old[2], child>>}]
           disowned == IF Exists(clips, old[1])
                       THEN [clips EXCEPT ![old[1]] = robbed] ELSE clips
           moved == [disowned[child] EXCEPT !.parent = claim]
<1>1. clips[child] \in Clip /\ old \in Claim
    BY DEF Exists, ClipMap, Clip
<1>2. old[1] \in ClipId
    BY <1>1 DEF Claim
<1> HIDE DEF old
<1>3. /\ disowned \in ClipMap /\ LivesBelow(disowned, n)
      /\ Exists(disowned, child)
    <2>1. CASE Exists(clips, old[1])
        <3>1. clips[old[1]] \in Clip
            BY <1>2, <2>1 DEF Exists, ClipMap
        <3>2. robbed \in Clip /\ robbed.alive = clips[old[1]].alive
            BY <3>1 DEF Clip
        <3>3. robbed.alive.tag.lamport <= n /\ robbed # Vacant
            BY <1>2, <2>1, <3>2, VacantAssumption DEF LivesBelow
        <3> HIDE DEF robbed
        <3>4. LivesBelow([clips EXCEPT ![old[1]] = robbed], n)
            BY <1>2, <3>3, OneLifeBelow
        <3>5. /\ [clips EXCEPT ![old[1]] = robbed] \in ClipMap
              /\ Exists([clips EXCEPT ![old[1]] = robbed], child)
            BY <1>2, <3>2, <3>3 DEF ClipMap, Exists
        <3> QED
            BY <2>1, <3>4, <3>5
    <2>2. CASE ~Exists(clips, old[1])
        BY <2>2
    <2> QED
        BY <2>1, <2>2
<1>4. Reparent(clips, child, claim) = [disowned EXCEPT ![child] = moved]
    <2>1. [clips EXCEPT ![old[1]].splits = @ \ {<<old[2], child>>}]
                = [clips EXCEPT ![old[1]] = robbed]
        BY <1>2 DEF ClipMap
    <2>2. disowned = IF Exists(clips, old[1])
                     THEN [clips EXCEPT ![old[1]].splits = @ \ {<<old[2], child>>}]
                     ELSE clips
        BY <2>1
    <2> HIDE DEF disowned, robbed
    <2>3. Reparent(clips, child, claim) = [disowned EXCEPT ![child].parent = claim]
        BY <2>2 DEF Reparent, old
    <2> QED
        BY <1>3, <2>3 DEF ClipMap
<1> HIDE DEF disowned
<1>5. moved.alive.tag.lamport <= n
    <2>1. disowned[child] \in Clip
        BY <1>3 DEF Exists, ClipMap
    <2>2. moved.alive = disowned[child].alive
        BY <2>1 DEF Clip
    <2> QED
        BY <1>3, <2>2 DEF LivesBelow
<1> HIDE DEF moved
<1>6. LivesBelow([disowned EXCEPT ![child] = moved], n)
    BY <1>3, <1>5, OneLifeBelow
<1> QED
    BY <1>4, <1>6

\* Nor does a split, but for the life it gives its child.
LEMMA SplitBelow ==
    ASSUME NEW s \in SessionState, NEW op \in SplitEdit, NEW tag \in OpTag,
           NEW n, tag.lamport <= n, LivesBelow(s.clips, n)
    PROVE  LivesBelow(ApplySplit(s, op, tag).session.clips, n)
<1> DEFINE res == ApplySplit(s, op, tag)
<1>1. /\ op.clip \in ClipId /\ op.new_clip \in ClipId /\ op.split_frame \in Nat
      /\ s.clips \in ClipMap
    BY ClipsOf DEF SplitEdit
<1>2. ASSUME NEW clips \in ClipMap, LivesBelow(clips, n), Exists(clips, op.clip)
      PROVE  LivesBelow([clips EXCEPT ![op.clip] =
                            RecordSplit(@, op.split_frame, op.new_clip)], n)
    <2> DEFINE parent == RecordSplit(clips[op.clip], op.split_frame, op.new_clip)
    <2>1. clips[op.clip] \in Clip
        BY <1>1, <1>2 DEF Exists, ClipMap
    <2>2. parent.alive = clips[op.clip].alive
        BY <2>1 DEF RecordSplit, Clip
    <2>3. parent.alive.tag.lamport <= n
        BY <1>1, <1>2, <2>2 DEF LivesBelow
    <2> HIDE DEF parent
    <2>4. LivesBelow([clips EXCEPT ![op.clip] = parent], n)
        BY <1>1, <1>2, <2>3, OneLifeBelow
    <2> QED
        BY <1>1, <2>4 DEF parent, ClipMap
<1>3. CASE op.clip = op.new_clip
    BY <1>3 DEF ApplySplit, Ok
<1>4. CASE op.clip # op.new_clip /\ Exists(s.clips, op.new_clip)
    <2> DEFINE claim   == <<op.clip, op.split_frame>>
               link    == s.clips[op.new_clip].parent
               current == IF link = NoParent THEN claim ELSE link
               owned   == IF ClaimLess(claim, current)
                          THEN Reparent(s.clips, op.new_clip, claim) ELSE s.clips
               child   == [owned[op.new_clip] EXCEPT !.alive = Set(@, TRUE, tag)]
               revived == [owned EXCEPT ![op.new_clip] = child]
               split   == [revived EXCEPT ![op.clip] =
                               RecordSplit(@, op.split_frame, op.new_clip)]
    <2>1. ClaimLess(claim, current) => link # NoParent
        <3>1. op.clip \in Nat
            BY <1>1, SessionAssumption
        <3>2. ~ClaimLess(claim, claim)
            BY <1>1, <3>1 DEF ClaimLess
        <3> QED
            BY <3>2
    <2>2. /\ owned \in ClipMap /\ LivesBelow(owned, n)
          /\ owned[op.new_clip] \in Clip
          /\ Exists(owned, op.clip) <=> Exists(s.clips, op.clip)
        <3>1. CASE ClaimLess(claim, current)
            <4>1. claim \in Claim
                BY <1>1 DEF Claim
            <4>2. owned = Reparent(s.clips, op.new_clip, claim)
                BY <3>1
            <4> HIDE DEF owned, claim, current
            <4>3. owned \in ClipMap /\ owned[op.new_clip] \in Clip
                BY <1>1, <1>4, <2>1, <3>1, <4>1, <4>2, ReparentTyped
            <4>4. LivesBelow(owned, n)
                BY <1>1, <1>4, <2>1, <3>1, <4>1, <4>2, ReparentBelow
            <4>5. Exists(owned, op.clip) <=> Exists(s.clips, op.clip)
                BY <1>1, <1>4, <2>1, <3>1, <4>1, <4>2, ReparentEffect
            <4> QED
                BY <4>3, <4>4, <4>5
        <3>2. CASE ~ClaimLess(claim, current)
            BY <1>1, <1>4, <3>2 DEF Exists, ClipMap
        <3> QED
            BY <3>1, <3>2
    <2>3. res = IF ClaimLess(current, claim) THEN Ok(s)
                ELSE IF Exists(s.clips, op.clip) THEN Ok([s EXCEPT !.clips = split])
                ELSE UnknownTarget([s EXCEPT !.clips = revived])
        <3> DEFINE raised == [owned EXCEPT ![op.new_clip].alive = Set(@, TRUE, tag)]
        <3>1. ReclaimChild(s, op, tag) =
                IF ClaimLess(current, claim) THEN Ok(s)
                ELSE IF Exists(s.clips, op.clip)
                THEN Ok([s EXCEPT !.clips = [raised EXCEPT ![op.clip] =
                                RecordSplit(@, op.split_frame, op.new_clip)]])
                ELSE UnknownTarget([s EXCEPT !.clips = raised])
            BY DEF ReclaimChild
        <3>2. res = ReclaimChild(s, op, tag)
            BY <1>4 DEF ApplySplit
        <3> HIDE DEF owned, claim, current
        <3>3. raised = revived
            BY <1>1, <2>2 DEF ClipMap
        <3> HIDE DEF raised, revived, res
        <3> QED
            BY <3>1, <3>2, <3>3
    <2> HIDE DEF owned, claim, current, res
    <2>4. child.alive = Set(owned[op.new_clip].alive, TRUE, tag) /\ child \in Clip
        <3>1. Set(owned[op.new_clip].alive, TRUE, tag) \in Register(BOOLEAN)
            BY <2>2, SetTyped DEF Clip
        <3> QED
            BY <2>2, <3>1 DEF Clip
    <2>5. child.alive.tag.lamport <= n
        <3>1. owned[op.new_clip].alive.tag.lamport <= n
            BY <1>1, <2>2, VacantAssumption DEF LivesBelow, Exists
        <3> QED
            BY <2>4, <3>1, SetBelow
    <2> HIDE DEF child
    <2>6. /\ revived \in ClipMap /\ LivesBelow(revived, n)
          /\ Exists(s.clips, op.clip) => Exists(revived, op.clip)
        <3>1. LivesBelow(revived, n)
            BY <1>1, <2>2, <2>5, OneLifeBelow
        <3> QED
            BY <1>1, <1>4, <2>2, <2>4, <3>1 DEF ClipMap, Exists
    <2> HIDE DEF revived
    <2>7. Exists(s.clips, op.clip) => LivesBelow(split, n)
        BY <1>2, <2>6
    <2> HIDE DEF split
    <2>8. \A clips : /\ Ok([s EXCEPT !.clips = clips]).session.clips = clips
                     /\ UnknownTarget([s EXCEPT !.clips = clips]).session.clips = clips
        BY DEF Ok, UnknownTarget, SessionState
    <2>9. Ok(s).session = s
        BY DEF Ok
    <2> QED
        BY <2>3, <2>6, <2>7, <2>8, <2>9 DEF res
<1>5. CASE /\ op.clip # op.new_clip
           /\ ~Exists(s.clips, op.new_clip) /\ Exists(s.clips, op.clip)
    <2> DEFINE parted == [s.clips EXCEPT ![op.clip] =
                              RecordSplit(@, op.split_frame, op.new_clip)]
               child  == ClipFromSplit(<<op.clip, op.split_frame>>, tag)
               clips  == [parted EXCEPT ![op.new_clip] = child]
    <2>1. res = Ok([s EXCEPT !.clips = clips])
        BY <1>1, <1>5 DEF ApplySplit, SessionState
    <2>2. child.alive.tag.lamport <= n
        BY DEF ClipFromSplit, Written
    <2>3. parted \in ClipMap /\ LivesBelow(parted, n)
        <3>1. LivesBelow(parted, n)
            BY <1>1, <1>2, <1>5
        <3>2. s.clips[op.clip] \in Clip
            BY <1>1, <1>5 DEF Exists, ClipMap
        <3>3. RecordSplit(s.clips[op.clip], op.split_frame, op.new_clip) \in Clip
            BY <1>1, <3>2, RecordSplitTyped
        <3> QED
            BY <1>1, <3>1, <3>3 DEF ClipMap
    <2> HIDE DEF parted, child
    <2>4. LivesBelow(clips, n)
        BY <1>1, <2>2, <2>3, OneLifeBelow
    <2> HIDE DEF clips
    <2>5. Ok([s EXCEPT !.clips = clips]).session.clips = clips
        BY DEF Ok, SessionState
    <2> QED
        BY <2>1, <2>4, <2>5
<1>6. CASE /\ op.clip # op.new_clip
           /\ ~Exists(s.clips, op.new_clip) /\ ~Exists(s.clips, op.clip)
    BY <1>6 DEF ApplySplit, UnknownTarget
<1> QED
    BY <1>3, <1>4, <1>5, <1>6

\* Session::apply writes at the operation's tag, or not at all.
LEMMA ApplyBelow ==
    ASSUME NEW s \in SessionState, NEW op \in Operation, NEW tag \in OpTag,
           NEW n \in Nat, tag.lamport <= n, TagsBelow(s, n)
    PROVE  TagsBelow(Apply(s, op, tag).session, n)
<1> DEFINE res == Apply(s, op, tag)
           r == res.session
<1>1. CASE op \in ClipEdit
    <2> DEFINE c == op.clip
    <2>1. res = ApplyClipEdit(s, op, tag) /\ c \in ClipId
        BY <1>1, ApplyDispatch DEF ClipEdit
    <2>2. /\ SameBut(s, r, "clips")
          /\ \A x \in ClipId \ {c} : r.clips[x] = s.clips[x]
        BY <1>1, <2>1, ClipEditEffect
    <2>3. ASSUME Exists(r.clips, c)
          PROVE  /\ r.clips[c].alive.tag.lamport <= n
                 /\ \A f \in ClipField : r.clips[c].regs[f].tag.lamport <= n
        <3>1. CASE ~res.ok
            <4>1. r = s
                BY <1>1, <2>1, <3>1, ClipEditEffect
            <4> QED
                BY <2>1, <2>3, <4>1 DEF TagsBelow
        <3>2. CASE res.ok /\ Exists(s.clips, c)
            <4> DEFINE old == s.clips[c]
            <4>1. r.clips[c] = ApplyToClip(old, op, tag)
                BY <1>1, <2>1, <3>2, ClipEditEffect
            <4>2. old \in Clip
                BY <2>1, <3>2 DEF Exists, SessionState
            <4>3. /\ r.clips[c].alive = SetAlive(old.alive, op, tag)
                  /\ r.clips[c].regs = SetAll(old.regs, op.writes, tag)
                BY <4>1, <4>2 DEF ApplyToClip, Clip
            <4>4. /\ old.alive.tag.lamport <= n
                  /\ \A f \in ClipField : old.regs[f].tag.lamport <= n
                BY <2>1, <3>2 DEF TagsBelow
            <4>5. DOMAIN old.regs = ClipField
                BY <4>2 DEF Clip
            <4> HIDE DEF old, r, c
            <4> QED
                BY <4>3, <4>4, <4>5, SetAliveBelow, SetAllBelow
        <3>3. CASE res.ok /\ ~Exists(s.clips, c)
            <4>1. r.clips[c] = ClipFromInsert(op, tag) /\ op.type = "InsertClip"
                BY <1>1, <2>1, <3>3, ClipEditEffect
            <4>2. DOMAIN op.writes = ClipField
                BY <1>1, <4>1 DEF ClipEdit, InsertWrites
            <4>3. /\ r.clips[c].alive = Written(TRUE, tag)
                  /\ r.clips[c].regs = AllWritten(op.writes, tag)
                BY <4>1 DEF ClipFromInsert
            <4>4. Written(TRUE, tag).tag = tag
                BY DEF Written
            <4> HIDE DEF r, c
            <4> QED
                BY <4>2, <4>3, <4>4, AllWrittenBelow
        <3> QED
            BY <3>1, <3>2, <3>3
    <2> HIDE DEF r, c
    <2>4. \A x \in ClipId \ {c} : Exists(r.clips, x) =>
                Exists(s.clips, x) /\ r.clips[x] = s.clips[x]
        BY <2>2 DEF Exists
    <2>5. r.tracks = s.tracks /\ r.envelopes = s.envelopes /\ r.metadata = s.metadata
        BY <2>2 DEF SameBut
    <2> QED
        BY <2>3, <2>4, <2>5 DEF TagsBelow, r
<1>2. CASE op \in SplitEdit
    <2>1. res = ApplySplit(s, op, tag)
        BY <1>2, ApplyDispatch
    <2>2. SplitKeeps(s, op, res)
        BY <1>2, <2>1, SplitEffect
    <2>3. LivesBelow(s.clips, n)
        BY DEF TagsBelow, LivesBelow
    <2>4. LivesBelow(r.clips, n)
        BY <1>2, <2>1, <2>3, SplitBelow
    <2> HIDE DEF res
    <2>5. ASSUME NEW x \in ClipId, Exists(r.clips, x), NEW f \in ClipField
          PROVE  r.clips[x].regs[f].tag.lamport <= n
        <3>1. CASE Exists(s.clips, x)
            <4>1. r.clips[x].regs = s.clips[x].regs
                BY <2>2, <3>1 DEF SplitKeeps
            <4> QED
                BY <3>1, <4>1 DEF TagsBelow
        <3>2. CASE ~Exists(s.clips, x)
            <4>1. r.clips[x].regs = [g \in ClipField |-> NewInitial(0)]
                BY <2>2, <2>5, <3>2 DEF SplitKeeps
            <4>2. r.clips[x].regs[f].tag.lamport = 0
                BY <4>1 DEF NewInitial, Written, InitialTag
            <4> QED
                BY <4>2
        <3> QED
            BY <3>1, <3>2
    <2>6. r.tracks = s.tracks /\ r.envelopes = s.envelopes /\ r.metadata = s.metadata
        BY <2>2 DEF SplitKeeps, SameBut
    <2> HIDE DEF r
    <2> QED
        BY <2>4, <2>5, <2>6 DEF TagsBelow, LivesBelow, r, res
<1>3. CASE op \in TrackEdit
    <2> DEFINE k == op.track
               old == s.tracks[k]
    <2>1. res = ApplyTrackEdit(s, op, tag) /\ k \in TrackId
        BY <1>3, ApplyDispatch DEF TrackEdit
    <2>2. /\ SameBut(s, r, "tracks")
          /\ \A x \in TrackId \ {k} : r.tracks[x] = s.tracks[x]
        BY <1>3, <2>1, TrackEditEffect
    <2>3. old \in Track \cup {Vacant} /\ (Exists(s.tracks, k) <=> old # Vacant)
        BY <2>1 DEF Exists, SessionState
    <2>4. ASSUME Exists(r.tracks, k)
          PROVE  /\ r.tracks[k].alive.tag.lamport <= n
                 /\ \A f \in TrackField : r.tracks[k].regs[f].tag.lamport <= n
        <3>1. CASE ~res.ok
            <4>1. r = s
                BY <1>3, <2>1, <3>1, TrackEditEffect
            <4> QED
                BY <2>1, <2>4, <4>1 DEF TagsBelow
        <3>2. CASE res.ok
            <4>1. r.tracks[k] = EditedTrack(old, op, tag)
                BY <1>3, <2>1, <3>2, TrackEditEffect
            <4>2. old # Vacant \/ op.type = "InsertTrack"
                BY <1>3, <2>1, <2>3, <3>2, TrackEditEffect
            <4> HIDE DEF r, k, old
            <4>3. LET new == EditedTrack(old, op, tag)
                  IN  /\ new.regs = IF old # Vacant THEN SetAll(old.regs, op.writes, tag)
                                    ELSE AllWritten(op.writes, tag)
                      /\ new.alive = IF old # Vacant THEN SetAlive(old.alive, op, tag)
                                     ELSE Written(TRUE, tag)
                BY <1>3, <2>3, <4>2, EditedTrackTyped
            <4>4. CASE old # Vacant
                <5>1. /\ old.alive.tag.lamport <= n
                      /\ \A f \in TrackField : old.regs[f].tag.lamport <= n
                    BY <2>1, <2>3, <4>4 DEF TagsBelow, old
                <5>2. DOMAIN old.regs = TrackField
                    BY <2>3, <4>4 DEF Track
                <5>3. tag.lamport <= n
                    OBVIOUS
                <5>4. SetAlive(old.alive, op, tag).tag.lamport <= n
                    BY <5>1, <5>3, SetAliveBelow
                <5>5. \A f \in TrackField : SetAll(old.regs, op.writes, tag)[f].tag.lamport <= n
                    BY <5>1, <5>2, <5>3, SetAllBelow
                <5> QED
                    BY <4>1, <4>3, <4>4, <5>4, <5>5
            <4>5. CASE old = Vacant
                <5>1. DOMAIN op.writes = TrackField
                    BY <1>3, <4>2, <4>5 DEF TrackEdit
                <5>2. Written(TRUE, tag).tag = tag
                    BY DEF Written
                <5> QED
                    BY <4>1, <4>3, <4>5, <5>1, <5>2, AllWrittenBelow
            <4> QED
                BY <4>4, <4>5
        <3> QED
            BY <3>1, <3>2
    <2> HIDE DEF r, k
    <2>5. \A x \in TrackId \ {k} : Exists(r.tracks, x) =>
                Exists(s.tracks, x) /\ r.tracks[x] = s.tracks[x]
        BY <2>2 DEF Exists
    <2>6. r.clips = s.clips /\ r.envelopes = s.envelopes /\ r.metadata = s.metadata
        BY <2>2 DEF SameBut
    <2> QED
        BY <2>4, <2>5, <2>6 DEF TagsBelow, r
<1>4. CASE op \in EnvelopeEdit
    <2> DEFINE g == op.target
    <2>1. res = ApplyEnvelope(s, op, tag) /\ g \in Target
        BY <1>4, ApplyDispatch DEF EnvelopeEdit
    <2>2. /\ SameBut(s, r, "envelopes")
          /\ res.ok => r.envelopes =
                [s.envelopes EXCEPT ![g] = Set(s.envelopes[g], op.points, tag)]
          /\ ~res.ok => r = s
        BY <1>4, <2>1, EnvelopeEffect
    <2> HIDE DEF res, r, g
    <2>3. DOMAIN s.envelopes = Target
        BY DEF SessionState
    <2>4. \A e \in Target : s.envelopes[e].tag.lamport <= n
        BY DEF TagsBelow
    <2>5. Set(s.envelopes[g], op.points, tag).tag.lamport <= n
        BY <2>1, <2>4, SetBelow
    <2>6. \A e \in Target : r.envelopes[e].tag.lamport <= n
        BY <2>2, <2>3, <2>4, <2>5
    <2>7. r.clips = s.clips /\ r.tracks = s.tracks /\ r.metadata = s.metadata
        BY <2>2 DEF SameBut
    <2> QED
        BY <2>6, <2>7 DEF TagsBelow, r, res
<1>5. CASE op \in MetadataEdit
    <2>1. SameBut(s, r, "metadata") /\ r.metadata = SetAll(s.metadata, op.writes, tag)
        BY <1>5, MetadataEffect
    <2> HIDE DEF r
    <2>2. DOMAIN s.metadata = MetaField
        BY DEF SessionState
    <2>3. \A f \in MetaField : s.metadata[f].tag.lamport <= n
        BY DEF TagsBelow
    <2>4. \A f \in MetaField : r.metadata[f].tag.lamport <= n
        BY <2>1, <2>2, <2>3, SetAllBelow
    <2>5. r.clips = s.clips /\ r.tracks = s.tracks /\ r.envelopes = s.envelopes
        BY <2>1 DEF SameBut
    <2> QED
        BY <2>4, <2>5 DEF TagsBelow, r
<1> QED
    BY <1>1, <1>2, <1>3, <1>4, <1>5 DEF Operation

\* apply_remote and the retries it makes.
LEMMA AcceptBelow ==
    ASSUME NEW t \in Timeline, NEW o \in TaggedOp, NEW n \in Nat,
           o.op_id.lamport <= n, TagsBelow(t.session, n),
           \A x \in OpsIn(t.pending) : x.op_id.lamport <= n
    PROVE  TagsBelow(Accept(t, o).session, n)
<1> DEFINE res == Apply(t.session, o.operation, o.op_id)
           buffer == IF res.ok THEN t.pending ELSE Append(t.pending, o)
           Early(log) == \A x \in OpsIn(log) : x.op_id.lamport <= n
           States == {x \in DrainState : /\ TagsBelow(x.session, n)
                                         /\ Early(x.todo) /\ Early(x.waiting)}
<1>1. t.session \in SessionState /\ t.pending \in Seq(TaggedOp)
    BY DEF Timeline
<1>2. o.operation \in Operation /\ o.op_id \in OpTag
    BY DEF TaggedOp
<1>3. res.session \in SessionState /\ TagsBelow(res.session, n)
    BY <1>1, <1>2, ApplyTyped, ApplyBelow
<1>4. buffer \in Seq(TaggedOp) /\ Early(buffer)
    <2>1. /\ Append(t.pending, o) \in Seq(TaggedOp)
          /\ OpsIn(Append(t.pending, o)) = OpsIn(t.pending) \cup {o}
        BY <1>1, AppendOps
    <2> HIDE DEF res
    <2> QED
        BY <1>1, <2>1
<1>5. Accept(t, o).session = Drain(res.session, buffer).session
    BY DEF Accept
<1> HIDE DEF res, buffer
<1>6. DrainStart(res.session, buffer) \in States
    <2>1. <<>> \in Seq(TaggedOp) /\ OpsIn(<<>>) = {}
        BY DEF OpsIn
    <2> QED
        BY <1>3, <1>4, <2>1 DEF DrainStart, DrainState
<1>7. ASSUME NEW x \in States
      PROVE  DrainStep(x) \in States
    <2>1. DrainStep(x) \in DrainState
        BY DrainStepTyped
    <2>2. /\ x.todo \in Seq(TaggedOp) /\ x.waiting \in Seq(TaggedOp)
          /\ x.session \in SessionState
        BY DEF DrainState
    <2>3. CASE x.todo # <<>>
        <3> DEFINE op == Head(x.todo)
                   tried == Apply(x.session, op.operation, op.op_id)
        <3>1. /\ op \in TaggedOp /\ op \in OpsIn(x.todo)
              /\ OpsIn(Tail(x.todo)) \subseteq OpsIn(x.todo)
            BY <2>2, <2>3, TailOps
        <3>2. op.operation \in Operation /\ op.op_id \in OpTag
            BY <3>1 DEF TaggedOp
        <3>3. /\ DrainStep(x).session = tried.session
              /\ DrainStep(x).todo = Tail(x.todo)
              /\ DrainStep(x).waiting = IF tried.ok THEN x.waiting
                                        ELSE Append(x.waiting, op)
            BY <2>3 DEF DrainStep, Retry
        <3> HIDE DEF op
        <3>4. OpsIn(Append(x.waiting, op)) = OpsIn(x.waiting) \cup {op}
            BY <2>2, <3>1, AppendOps
        <3>5. TagsBelow(tried.session, n)
            BY <2>2, <3>1, <3>2, ApplyBelow
        <3> HIDE DEF tried
        <3> QED
            BY <2>1, <3>1, <3>3, <3>4, <3>5
    <2>4. CASE x.todo = <<>> /\ x.progress
        <3>1. DrainStep(x) = NextPass(x)
            BY <2>4 DEF DrainStep
        <3>2. /\ DrainStep(x).session = x.session
              /\ DrainStep(x).todo = x.waiting
              /\ DrainStep(x).waiting = <<>>
            BY <3>1 DEF NextPass, DrainState
        <3>3. OpsIn(<<>>) = {}
            BY DEF OpsIn
        <3> QED
            BY <2>1, <3>2, <3>3
    <2>5. CASE x.todo = <<>> /\ ~x.progress
        BY <2>5 DEF DrainStep
    <2> QED
        BY <2>3, <2>4, <2>5
<1>8. Drain(res.session, buffer) \in States
    <2>1. Len(buffer) \in Nat
        BY <1>4
    <2> HIDE DEF States
    <2> QED
        BY <1>6, <1>7, <2>1, DrainStays
<1> QED
    BY <1>5, <1>8

\* On every replica the Lamport clock has caught up with every register, so
\* what is issued next wins wherever it writes.
TagsInv == \A p \in Peers : TagsBelow(crdt[p].session, crdt[p].lamport)

\* Nobody has written anything at first.
LEMMA InitTags == UInit => TagsInv
<1> SUFFICES ASSUME UInit PROVE TagsInv
    OBVIOUS
<1>1. \A p \in Peers : crdt[p].session = EmptySession /\ crdt[p].lamport = 0
    BY DEF UInit, Init, NewTimeline
<1>2. TagsBelow(EmptySession, 0)
    BY DEF TagsBelow, EmptySession, Exists, NewInitial, Written, InitialTag
<1> QED
    BY <1>1, <1>2 DEF TagsInv

\* An operation that is issued is stamped later than all its issuer has seen.
LEMMA IssueKeepsTags ==
    ASSUME IndInv, TagsInv, NEW p \in Peers, NEW op \in Operation, Issue(p, op)
    PROVE  TagsInv'
<1> DEFINE o == Stamp(crdt[p], p, op)
           s == crdt[p].session
           n == crdt[p].lamport
<1>1. o \in TaggedOp
    BY StampIsFresh DEF Issue
<1>2. /\ crdt \in [Peers -> Timeline]
      /\ crdt' = [crdt EXCEPT ![p] = Perform(crdt[p], o)]
    BY DEF IndInv, TypeOK, Issue
<1>3. s \in SessionState /\ n \in Nat
    BY <1>2 DEF Timeline
<1>4. o.operation = op /\ o.op_id.lamport = n + 1
    BY <1>3 DEF Issue, WithinBounds, Stamp, Tick
<1>5. o.op_id \in OpTag
    BY <1>1 DEF TaggedOp
<1> HIDE DEF o
<1>6. crdt'[p] = Perform(crdt[p], o) /\ \A q \in Peers \ {p} : crdt'[q] = crdt[q]
    BY <1>2
<1>7. crdt'[p].session = Apply(s, op, o.op_id).session /\ crdt'[p].lamport = n + 1
    BY <1>4, <1>6 DEF Perform
<1> HIDE DEF s, n
<1>8. TagsBelow(s, n + 1)
    <2>1. TagsBelow(s, n)
        BY DEF TagsInv, s, n
    <2>2. n + 1 \in Nat /\ n + 1 > n
        BY <1>3
    <2> QED
        BY <1>3, <2>1, <2>2, LaterTagsBelow
<1>9. TagsBelow(crdt'[p].session, crdt'[p].lamport)
    <2>1. n + 1 \in Nat /\ n + 1 <= n + 1
        BY <1>3
    <2> QED
        BY <1>3, <1>4, <1>5, <1>7, <1>8, <2>1, ApplyBelow
<1> QED
    BY <1>6, <1>9 DEF TagsInv

\* An operation that is received moves the clock on to its own tag, and all
\* that is retried was received before.
LEMMA ReceiveKeepsTags ==
    ASSUME IndInv, TagsInv, NEW p \in Peers, NEW o \in sent, ApplyRemote(p, o)
    PROVE  TagsInv'
<1> DEFINE t == crdt[p]
           n == crdt[p].lamport
           m == Observe(n, o.op_id.lamport)
<1>1. /\ crdt \in [Peers -> Timeline] /\ o \in TaggedOp
      /\ crdt' = [crdt EXCEPT ![p] = Receive(t, o)]
    BY DEF IndInv, TypeOK, ApplyRemote
<1>2. crdt'[p] = Receive(t, o) /\ \A q \in Peers \ {p} : crdt'[q] = crdt[q]
    BY <1>1
<1>3. /\ t \in Timeline /\ t.session \in SessionState /\ n \in Nat
      /\ o.op_id.lamport \in Nat
    BY <1>1 DEF Timeline, TaggedOp, OpTag
<1>4. m \in Nat /\ m >= n /\ m >= o.op_id.lamport
    BY <1>3 DEF Observe
<1>5. TagsBelow(t.session, n)
    BY DEF TagsInv
<1>6. \A x \in OpsIn(t.pending) : x.op_id.lamport <= m
    <2> SUFFICES ASSUME NEW x \in OpsIn(t.pending)
                 PROVE  x.op_id.lamport <= m
        OBVIOUS
    <2>1. x \in Log(p)
        BY DEF IndInv, BufferIsLogged, Pending
    <2>2. x \in TaggedOp /\ x.op_id.lamport <= n
        BY <2>1 DEF IndInv, TypeOK, ClockCoversLog
    <2>3. x.op_id.lamport \in Nat
        BY <2>2 DEF TaggedOp, OpTag
    <2> HIDE DEF m, n
    <2> QED
        BY <1>3, <1>4, <2>2, <2>3 DEF n
<1>7. CASE o.op_id \in t.seen
    <2>1. crdt'[p] = crdt[p]
        BY <1>2, <1>7 DEF Receive
    <2> QED
        BY <1>2, <2>1 DEF TagsInv
<1>8. CASE o.op_id \notin t.seen
    <2>1. crdt'[p] = Accept(t, o)
        BY <1>2, <1>8 DEF Receive
    <2>2. crdt'[p].session = Accept(t, o).session /\ crdt'[p].lamport = m
        BY <2>1 DEF Accept
    <2> HIDE DEF t, n, m
    <2>3. TagsBelow(t.session, m)
        <3>1. m = n \/ m > n
            BY <1>3, <1>4
        <3> QED
            BY <1>3, <1>4, <1>5, <3>1, LaterTagsBelow
    <2>4. TagsBelow(crdt'[p].session, crdt'[p].lamport)
        <3>1. o.op_id.lamport <= m
            BY <1>3, <1>4
        <3> QED
            BY <1>1, <1>3, <1>4, <1>6, <2>2, <2>3, <3>1, AcceptBelow
    <2> QED
        BY <1>2, <2>4 DEF TagsInv
<1> QED
    BY <1>7, <1>8

\* So it is after every step.
LEMMA TagsNext == UndoInv /\ TagsInv /\ [UNext]_uvars => TagsInv'
<1> SUFFICES ASSUME UndoInv, TagsInv, [UNext]_uvars PROVE TagsInv'
    OBVIOUS
<1>1. ASSUME NEW p \in Peers, Edit(p)
      PROVE  TagsInv'
    <2>1. PICK op \in Edits[p] : Issue(p, op)
        BY <1>1 DEF Edit
    <2>2. op \in Operation
        BY EditIsOperation
    <2> QED
        BY <2>1, <2>2, IssueKeepsTags DEF UndoInv
<1>2. ASSUME NEW p \in Peers, Undo(p) \/ Redo(p)
      PROVE  TagsInv'
    <2>1. \E op \in Operation : Issue(p, op)
        BY <1>2, StepBack DEF UndoInv
    <2> QED
        BY <2>1, IssueKeepsTags DEF UndoInv
<1>3. ASSUME NEW p \in Peers, NEW o \in sent, URemote(p, o)
      PROVE  TagsInv'
    BY <1>3, ReceiveKeepsTags DEF URemote, UndoInv
<1>4. CASE UNCHANGED uvars
    BY <1>4 DEF uvars, vars, TagsInv
<1> QED
    BY <1>1, <1>2, <1>3, <1>4 DEF UNext

-----------------------------------------------------------------------------
(* Undo and redo right after an edit                                       *)

\* What peer p can offer and take back whole: the clips of its session run in
\* no circle, and its clock has room for three more operations.
TakesBack(p, op) ==
    /\ Offered(crdt[p].session, op) /\ Reversible(crdt[p].session, op)
    /\ NoCircles(crdt[p].session)
    /\ crdt[p].lamport + 3 <= MaxLamport

\* An operation that is performed is applied at the next tag.
LEMMA PerformedEffect ==
    ASSUME NEW t, NEW p, NEW op
    PROVE  /\ Performed(t, p, op).session =
                Apply(t.session, op, [lamport |-> Tick(t.lamport), peer |-> p]).session
           /\ Performed(t, p, op).lamport = Tick(t.lamport)
<1> DEFINE o == Stamp(t, p, op)
<1>1. /\ o.op_id = [lamport |-> Tick(t.lamport), peer |-> p]
      /\ o.operation = op
    BY DEF Stamp
<1>2. o.op_id.lamport = Tick(t.lamport)
    BY <1>1
<1> HIDE DEF o
<1>3. /\ Perform(t, o).session = Apply(t.session, o.operation, o.op_id).session
      /\ Perform(t, o).lamport = o.op_id.lamport
    BY DEF Perform
<1>4. Performed(t, p, op) = Perform(t, o)
    BY DEF Performed, o
<1> QED
    BY <1>1, <1>2, <1>3, <1>4

\* In every state undo and redo right after such an edit restore the view.
LEMMA ViewsRestored ==
    ASSUME UndoInv, TagsInv, NEW p \in Peers, NEW op \in Edits[p], TakesBack(p, op)
    PROVE  /\ View(Undone(crdt[p], p, op).session) = View(crdt[p].session)
           /\ View(Performed(Undone(crdt[p], p, op), p, op).session)
                    = View(Performed(crdt[p], p, op).session)
<1> DEFINE t == crdt[p]
           s == t.session
           n == t.lamport
           a == [lamport |-> n + 1, peer |-> p]
           b == [lamport |-> n + 2, peer |-> p]
           c == [lamport |-> n + 3, peer |-> p]
           inv == ComputeInverse(s, op)
           t1 == Performed(t, p, op)
           t2 == Undone(t, p, op)
           t3 == Performed(t2, p, op)
<1>1. s \in SessionState /\ n \in Nat /\ TagsBelow(s, n)
    BY DEF UndoInv, IndInv, TypeOK, Timeline, TagsInv
<1>2. p \in Nat /\ op \in Operation
    BY ClockAssumption, EditIsOperation
<1>3. MaxLamport \in Nat /\ n + 3 <= MaxLamport
    BY ClockAssumption DEF TakesBack
<1> HIDE DEF t, s, n, inv, t1, t2, t3
<1>4. InTurn(n, a, b, c)
    BY <1>1, <1>2 DEF InTurn, OpTag
<1>5. Tick(n) = n + 1 /\ Tick(n + 1) = n + 2 /\ Tick(n + 2) = n + 3
    BY <1>1, <1>3 DEF Tick
<1>6. t1.session = Done(s, op, a) /\ t1.lamport = n + 1
    BY <1>5, PerformedEffect DEF Done, t1, s, n
<1>7. t2.session = TakenBack(s, op, a, b) /\ t2.lamport = n + 2
    <2>1. t2 = Performed(t1, p, inv)
        BY DEF Undone, t2, t1, inv, s
    <2>2. /\ t2.session = Apply(t1.session, inv, [lamport |-> Tick(t1.lamport),
                                                  peer |-> p]).session
          /\ t2.lamport = Tick(t1.lamport)
        BY <2>1, PerformedEffect
    <2> QED
        BY <1>5, <1>6, <2>2 DEF TakenBack, Done, inv
<1>8. t3.session = DoneAgain(s, op, a, b, c)
    <2>1. t3.session = Apply(t2.session, op, [lamport |-> Tick(t2.lamport),
                                              peer |-> p]).session
        BY PerformedEffect DEF t3
    <2> QED
        BY <1>5, <1>7, <2>1 DEF DoneAgain, Done
<1>9. Offered(s, op) /\ Reversible(s, op) /\ NoCircles(s)
    BY DEF TakesBack, s, t
<1> HIDE DEF a, b, c
<1>10. /\ View(TakenBack(s, op, a, b)) = View(s)
       /\ View(DoneAgain(s, op, a, b, c)) = View(Done(s, op, a))
    BY <1>1, <1>2, <1>4, <1>9, OfferedUndone
<1> QED
    BY <1>6, <1>7, <1>8, <1>10 DEF t, s, t1, t2, t3

\* The lasting facts the two theorems rest on.
LEMMA UndoTagsInvariance == USpec => [](UndoInv /\ TagsInv)
<1> QED
    BY InitUndo, InitTags, UndoNext, TagsNext, PTL DEF USpec

\* Undo right after an edit that can be taken back whole restores the view,
\* whatever the session was made of; where all that is offered can be, the
\* property that the model checker found to hold on its instance holds.
THEOREM UndoRestores ==
    USpec => /\ [](\A p \in Peers : \A op \in Edits[p] : TakesBack(p, op) =>
                        View(Undone(crdt[p], p, op).session) = View(crdt[p].session))
             /\ []((\A p \in Peers : \A op \in Edits[p] :
                        Offered(crdt[p].session, op) => TakesBack(p, op))
                    => UndoRestoresView)
<1>1. UndoInv /\ TagsInv =>
        \A p \in Peers : \A op \in Edits[p] : TakesBack(p, op) =>
            View(Undone(crdt[p], p, op).session) = View(crdt[p].session)
    BY ViewsRestored
<1>2. UndoInv /\ TagsInv =>
        ((\A p \in Peers : \A op \in Edits[p] :
                Offered(crdt[p].session, op) => TakesBack(p, op))
            => UndoRestoresView)
    BY <1>1 DEF UndoRestoresView
<1> QED
    BY <1>1, <1>2, UndoTagsInvariance, PTL

\* And redo right after that undo restores what the edit had made of it.
THEOREM RedoRestores ==
    USpec => /\ [](\A p \in Peers : \A op \in Edits[p] : TakesBack(p, op) =>
                        View(Performed(Undone(crdt[p], p, op), p, op).session)
                            = View(Performed(crdt[p], p, op).session))
             /\ []((\A p \in Peers : \A op \in Edits[p] :
                        Offered(crdt[p].session, op) => TakesBack(p, op))
                    => RedoRestoresView)
<1>1. UndoInv /\ TagsInv =>
        \A p \in Peers : \A op \in Edits[p] : TakesBack(p, op) =>
            View(Performed(Undone(crdt[p], p, op), p, op).session)
                = View(Performed(crdt[p], p, op).session)
    BY ViewsRestored
<1>2. UndoInv /\ TagsInv =>
        ((\A p \in Peers : \A op \in Edits[p] :
                Offered(crdt[p].session, op) => TakesBack(p, op))
            => RedoRestoresView)
    BY <1>1 DEF RedoRestoresView
<1> QED
    BY <1>1, <1>2, UndoTagsInvariance, PTL

-----------------------------------------------------------------------------
(* No chain of clips runs in a circle                                      *)

\* Where a chain goes on, it has gone on all the way.
LEMMA ChainUnbroken ==
    ASSUME NEW s, NEW c, Cyclic(s, c)
    PROVE  \A k \in 0..Depth : Chain(s, c)[k] # Vacant
<1> DEFINE up == Chain(s, c)
           Ended == {d \in 0..Depth : up[Depth - d] = Vacant}
<1>1. \A k \in 1..Depth : up[k] = Above(s, up[k - 1])
    BY DepthTyped, ChainSteps
<1>2. up[Depth] # Vacant
    BY DEF Cyclic
<1> HIDE DEF up
<1>3. ASSUME NEW d \in Ended
      PROVE  \E e \in Ended : ~(d <= e)
    <2>1. d \in 0..Depth /\ up[Depth - d] = Vacant /\ Depth \in Nat
        BY DepthTyped
    <2>2. d # 0
        BY <1>2, <2>1
    <2>3. /\ d - 1 \in 0..Depth /\ ~(d <= d - 1)
          /\ Depth - (d - 1) \in 1..Depth
          /\ (Depth - (d - 1)) - 1 = Depth - d
        BY <2>1, <2>2
    <2>4. up[Depth - (d - 1)] = Above(s, up[Depth - d])
        BY <1>1, <2>3
    <2>5. up[Depth - (d - 1)] = Vacant
        BY <2>1, <2>4 DEF Above
    <2> QED
        BY <2>3, <2>5
<1>4. Ended = {}
    <2>1. Ended \subseteq Nat
        BY DepthTyped
    <2> HIDE DEF Ended
    <2> QED
        BY <1>3, <2>1, NoLeast
<1>5. ASSUME NEW k \in 0..Depth
      PROVE  up[k] # Vacant
    <2>1. Depth - k \in 0..Depth /\ Depth - (Depth - k) = k
        BY DepthTyped
    <2> QED
        BY <1>4, <2>1
<1> QED
    BY <1>5 DEF up

\* Where the id of a piece stands for one split, no clip was split, however
\* indirectly, from a piece of its own, whatever the splits that are still on
\* their way: of the clips of a circle one would have been made by an operation
\* that needed none of them.
LEMMA NoCirclesWhereGrounded ==
    ASSUME NEW s \in SessionState, NEW ops, NEW log, ops \subseteq log,
           OneSplitPerPiece(log), Reflects(s, ops, log)
    PROVE  NoCircles(s)
<1> SUFFICES ASSUME NEW x \in ClipId, Exists(s.clips, x), Cyclic(s, x)
             PROVE  FALSE
    BY DEF NoCircles
<1> DEFINE up == Chain(s, x)
<1>1. ASSUME NEW k \in 0..Depth
      PROVE  up[k] \in ClipId /\ Exists(s.clips, up[k])
    BY DepthTyped, ChainUnbroken, ChainClips
<1>2. \A k \in 1..Depth : up[k] = ParentOf(s, up[k - 1])
    <2> SUFFICES ASSUME NEW k \in 1..Depth
                 PROVE  up[k] = ParentOf(s, up[k - 1])
        OBVIOUS
    <2>1. up[k] = Above(s, up[k - 1])
        BY DepthTyped, ChainSteps
    <2>2. k - 1 \in 0..Depth
        BY DepthTyped
    <2>3. up[k - 1] # Vacant
        BY <2>2, ChainUnbroken
    <2> HIDE DEF up
    <2> QED
        BY <2>1, <2>3 DEF Above
<1> HIDE DEF up
<1>3. PICK i \in 0..Depth, j \in 0..Depth : i < j /\ up[i] = up[j]
    <2> DEFINE S == 0..Depth
               g == [k \in S |-> up[k]]
    <2>1. IsFiniteSet(S) /\ Cardinality(S) = Depth + 1
        BY DepthTyped, FS_Interval
    <2>2. g \in [S -> ClipId]
        BY <1>1
    <2>3. Cardinality(ClipId) < Cardinality(S)
        BY <2>1, DepthTyped DEF Depth
    <2>4. \A k \in S : g[k] = up[k]
        OBVIOUS
    <2>5. S \subseteq Int
        BY DepthTyped
    <2> HIDE DEF g, S
    <2>6. \E k, m \in S : k # m /\ g[k] = g[m]
        BY <2>1, <2>2, <2>3, ViewAssumption, FS_PigeonHole
    <2>7. PICK k \in S, m \in S : k # m /\ up[k] = up[m]
        BY <2>4, <2>6
    <2>8. k < m \/ m < k
        BY <2>5, <2>7
    <2> QED
        BY <2>7, <2>8 DEF S
<1> DEFINE circle == {up[k] : k \in i..(j - 1)}
<1>4. \A c \in circle : /\ c \in ClipId /\ Exists(s.clips, c)
                        /\ ParentOf(s, c) \in circle
    <2> SUFFICES ASSUME NEW k \in i..(j - 1)
                 PROVE  /\ up[k] \in ClipId /\ Exists(s.clips, up[k])
                        /\ ParentOf(s, up[k]) \in circle
        OBVIOUS
    <2>1. k \in 0..Depth /\ k + 1 \in 1..Depth /\ (k + 1) - 1 = k
        BY <1>3, DepthTyped
    <2>2. ParentOf(s, up[k]) = up[k + 1]
        BY <1>2, <2>1
    <2>3. up[k + 1] \in circle
        <3>1. CASE k + 1 = j
            <4>1. i \in i..(j - 1)
                BY <1>3, DepthTyped
            <4> QED
                BY <1>3, <3>1, <4>1
        <3>2. CASE k + 1 # j
            <4>1. k + 1 \in i..(j - 1)
                BY <3>2, DepthTyped
            <4> QED
                BY <4>1
        <3> QED
            BY <3>1, <3>2
    <2> QED
        BY <1>1, <2>1, <2>2, <2>3
<1>5. circle # {}
    <2>1. i \in i..(j - 1)
        BY <1>3, DepthTyped
    <2> QED
        BY <2>1
<1> HIDE DEF circle
<1>6. /\ Grounded(s, ops)
      /\ \A c \in ClipId : ClipStructure(s, ops, c)
    BY DEF Reflects
<1>7. PICK c \in circle, o \in ops :
            /\ Creates(o.operation, c)
            /\ o.operation \in SplitEdit => o.operation.clip \notin circle
    BY <1>4, <1>5, <1>6 DEF Grounded
<1>8. /\ c \in ClipId /\ Exists(s.clips, c) /\ ParentOf(s, c) \in circle
      /\ ParentOf(s, c) \in ClipId
    BY <1>4
<1>9. /\ s.clips[c].parent # NoParent
      /\ s.clips[c].parent[1] = ParentOf(s, c)
    <2>1. ParentOf(s, c) # Vacant
        BY <1>8, ViewAssumption
    <2> QED
        BY <2>1 DEF ParentOf
<1>10. PICK z \in SplitsInto(ops, c) : TRUE
    BY <1>6, <1>8, <1>9 DEF ClipStructure
<1>11. s.clips[c].parent = <<z.operation.clip, z.operation.split_frame>>
    BY <1>6, <1>8, <1>10 DEF ClipStructure
<1>12. o.operation = z.operation /\ z.operation \in SplitEdit
    BY <1>7, <1>8, <1>10 DEF SplitsInto, OneSplitPerPiece
<1> QED
    BY <1>7, <1>8, <1>9, <1>11, <1>12

\* So it is with the session of every peer.
LEMMA SessionsWithoutCircles ==
    ASSUME IndInv, SessionsReflect, OneSplitPerPiece(sent), NEW p \in Peers
    PROVE  NoCircles(crdt[p].session)
<1>1. Log(p) \subseteq sent /\ Applied(p) \subseteq Log(p)
    BY DEF IndInv, ClockCoversLog, Applied
<1>2. OneSplitPerPiece(Log(p))
    BY <1>1 DEF OneSplitPerPiece
<1>3. /\ crdt[p].session \in SessionState
      /\ Reflects(crdt[p].session, Applied(p), Log(p))
    BY DEF IndInv, TypeOK, Timeline, SessionsReflect
<1> QED
    BY <1>1, <1>2, <1>3, NoCirclesWhereGrounded

\* resolve_clip walks from a clip to the clip it was split from until it comes
\* to one that was not split: in the session of every peer that walk ends, as
\* long as the id of a piece is used for one split only, undo and redo included
\* and in whatever order the splits arrive.  (The code stops a walk that does
\* not end; this is the case it need not stop.)
THEOREM ChainsEnd ==
    USpec => [](OneSplitPerPiece(sent) =>
                    \A p \in Peers : NoCircles(crdt[p].session))
<1>1. UndoInv => (OneSplitPerPiece(sent) =>
                      \A p \in Peers : NoCircles(crdt[p].session))
    BY SessionsWithoutCircles DEF UndoInv
<1> QED
    BY <1>1, UndoTagsInvariance, PTL

-----------------------------------------------------------------------------
(* Undo and redo where no clip was split                                   *)

\* No clip has been split.
NothingSplit(ops) == \A o \in ops : o.operation \notin SplitEdit

\* What compute_inverse takes back whole where nothing was split: all but a
\* split itself and the removal of a clip whose gain was set.
Restorable(s, op) ==
    /\ Offered(s, op) /\ op.type # "SplitClip"
    /\ op.type = "DeleteClip" => Inherited(s, op.clip, "gain") = 0

\* Then no id of a piece stands for two splits.
LEMMA NoSplitIsOneSplit ==
    ASSUME NEW ops, NothingSplit(ops)
    PROVE  OneSplitPerPiece(ops)
<1> SUFFICES ASSUME NEW a \in ops, NEW b \in ops, a.operation \in SplitEdit
             PROVE  FALSE
    BY DEF OneSplitPerPiece
<1> QED
    BY DEF NothingSplit

\* Where nothing was split every clip stands alone.
LEMMA ClipsStandAlone ==
    ASSUME IndInv, SessionsReflect, NothingSplit(sent), NEW p \in Peers,
           NEW x \in ClipId, Exists(crdt[p].session.clips, x)
    PROVE  /\ crdt[p].session.clips[x].parent = NoParent
           /\ crdt[p].session.clips[x].splits = {}
           /\ ParentOf(crdt[p].session, x) = Vacant
<1> DEFINE s == crdt[p].session
<1>1. Applied(p) \subseteq sent /\ OneSplitPerPiece(Log(p))
    <2>1. Log(p) \subseteq sent /\ Applied(p) \subseteq Log(p)
        BY DEF IndInv, ClockCoversLog, Applied
    <2>2. NothingSplit(Log(p))
        BY <2>1 DEF NothingSplit
    <2> QED
        BY <2>1, <2>2, NoSplitIsOneSplit
<1>2. SplitsInto(Applied(p), x) = {} /\ CutsOf(Applied(p), x) = {}
    BY <1>1 DEF SplitsInto, CutsOf, NothingSplit
<1>3. Reflects(s, Applied(p), Log(p))
    BY DEF SessionsReflect
<1> HIDE DEF s
<1>4. ClipStructure(s, Applied(p), x)
    BY <1>1, <1>3 DEF Reflects
<1>5. s.clips[x].parent = NoParent
    BY <1>2, <1>4 DEF ClipStructure, s
<1>6. IsLeast(s.clips[x].splits, {})
    BY <1>2, <1>4 DEF ClipStructure, s
<1>7. s.clips[x].splits = {}
    BY <1>6 DEF IsLeast
<1> QED
    BY <1>5, <1>7 DEF ParentOf, s

\* So what can be restored there is what can be taken back whole.
LEMMA StandAloneReversible ==
    ASSUME IndInv, SessionsReflect, NothingSplit(sent), NEW p \in Peers,
           NEW op \in Operation, Restorable(crdt[p].session, op)
    PROVE  Reversible(crdt[p].session, op) /\ NoCircles(crdt[p].session)
<1> DEFINE s == crdt[p].session
<1>1. \A x \in ClipId : Exists(s.clips, x) =>
            /\ s.clips[x].parent = NoParent /\ s.clips[x].splits = {}
            /\ ParentOf(s, x) = Vacant
    BY ClipsStandAlone
<1>2. NoCircles(s)
    <2>1. OneSplitPerPiece(sent)
        BY NoSplitIsOneSplit
    <2> QED
        BY <2>1, SessionsWithoutCircles
<1> HIDE DEF s
<1>3. ASSUME op.type \in {"MoveClip", "TrimClip", "UpdateClipMetadata", "DeleteClip"}
      PROVE  op.clip \in ClipId /\ Exists(s.clips, op.clip)
    <2>1. op \in ClipEdit
        BY <1>3 DEF Operation, SplitEdit, TrackEdit, EnvelopeEdit, MetadataEdit
    <2>2. Visible(s, op.clip)
        BY <1>3 DEF Restorable, Offered, s
    <2> QED
        BY <2>1, <2>2 DEF ClipEdit, Visible
<1>4. /\ op.type # "SplitClip"
      /\ op.type = "DeleteClip" => Inherited(s, op.clip, "gain") = 0
    BY DEF Restorable, s
<1>5. Reversible(s, op)
    BY <1>1, <1>3, <1>4 DEF Reversible, FollowsSplits, FollowsAlone
<1> QED
    BY <1>2, <1>5 DEF s

\* Where no clip was split, every edit a peer makes is taken back by undo right
\* after it and made again by redo right after that, whatever it and the other
\* peers did before and in whatever order it arrived: the view is the one there
\* was.  Excepted are the edits of Restorable, and a clock at its bound.
THEOREM UndoWithoutSplits ==
    USpec =>
        [](NothingSplit(sent) =>
            \A p \in Peers : \A op \in Edits[p] :
                Restorable(crdt[p].session, op) /\ crdt[p].lamport + 3 <= MaxLamport =>
                    /\ View(Undone(crdt[p], p, op).session) = View(crdt[p].session)
                    /\ View(Performed(Undone(crdt[p], p, op), p, op).session)
                            = View(Performed(crdt[p], p, op).session))
<1>1. ASSUME UndoInv, TagsInv, NothingSplit(sent), NEW p \in Peers,
             NEW op \in Edits[p], Restorable(crdt[p].session, op),
             crdt[p].lamport + 3 <= MaxLamport
      PROVE  /\ View(Undone(crdt[p], p, op).session) = View(crdt[p].session)
             /\ View(Performed(Undone(crdt[p], p, op), p, op).session)
                     = View(Performed(crdt[p], p, op).session)
    <2>1. op \in Operation
        BY EditIsOperation
    <2>2. Reversible(crdt[p].session, op) /\ NoCircles(crdt[p].session)
        BY <1>1, <2>1, StandAloneReversible DEF UndoInv
    <2>3. TakesBack(p, op)
        BY <1>1, <2>2 DEF TakesBack, Restorable
    <2> QED
        BY <1>1, <2>3, ViewsRestored
<1>2. UndoInv /\ TagsInv =>
        (NothingSplit(sent) =>
            \A p \in Peers : \A op \in Edits[p] :
                Restorable(crdt[p].session, op) /\ crdt[p].lamport + 3 <= MaxLamport =>
                    /\ View(Undone(crdt[p], p, op).session) = View(crdt[p].session)
                    /\ View(Performed(Undone(crdt[p], p, op), p, op).session)
                            = View(Performed(crdt[p], p, op).session))
    BY <1>1
<1> QED
    BY <1>2, UndoTagsInvariance, PTL

=============================================================================
