---------------------------- MODULE Layers_proofs ----------------------------
(***************************************************************************)
(* Theorems about what is built on the replication engine, for every set   *)
(* of peers, clips and edits and every order of delivery.                  *)
(*                                                                         *)
(* Conflict events: vector clocks tell whether an operation was issued in  *)
(* knowledge of another, so that every conflict that is reported is one.   *)
(* The inductive invariants: a replica's vector clock covers those of all  *)
(* it has logged, and what it issues itself comes after all of them        *)
(* (CausalInv); and an event, pushed or taken, is that of two logged       *)
(* operations whose vector clocks are concurrent (EventsInv).              *)
(*                                                                         *)
(* The view: at any depth of splits a piece follows the clip it was cut    *)
(* from in the fields it has not written.                                  *)
(*                                                                         *)
(* Snapshots: replaying a log in the order of the tags rebuilds the        *)
(* session that applied it in any other order, and a replica that has      *)
(* compacted its log takes nothing twice (QuietInv).                       *)
(***************************************************************************)
EXTENDS ConflictEvents, TimelineView, Snapshots,
        TimelineCrdt_proofs, FiniteSetTheorems, SequenceTheorems

-----------------------------------------------------------------------------
(* The replication engine goes on as before                                *)

\* The events are kept beside the replicas: a step is one of theirs, or takes
\* events.
LEMMA StepIsEngineStep ==
    ASSUME [CNext]_cvars
    PROVE  [Next]_vars
<1>1. CASE UNCHANGED cvars
    BY <1>1 DEF cvars, vars
<1>2. ASSUME NEW p \in Peers, Local(p)
      PROVE  Next
    BY <1>2 DEF Local, Next
<1>3. ASSUME NEW p \in Peers, NEW o \in sent, Remote(p, o)
      PROVE  Next
    BY <1>3 DEF Remote, Next
<1>4. ASSUME NEW p \in Peers, TakeResolutionEvents(p)
      PROVE  UNCHANGED vars
    BY <1>4 DEF TakeResolutionEvents
<1> QED
    BY <1>1, <1>2, <1>3, <1>4 DEF CNext

\* What holds of the replication engine holds when events are kept.
LEMMA CSpecImpliesSpec == CSpec => Spec
<1>1. CInit => Init
    BY DEF CInit
<1>2. [CNext]_cvars => [Next]_vars
    BY StepIsEngineStep
<1> QED
    BY <1>1, <1>2, PTL DEF CSpec, Spec

-----------------------------------------------------------------------------
(* Vector clocks                                                           *)

Covers(vc, other) == \A q \in Peers : other[q] <= vc[q]

CausalInv ==
    \A p \in Peers :
        LET log == crdt[p].operation_log
        IN  /\ \A i \in DOMAIN log : Covers(crdt[p].vector_clock, log[i].vector_clock)
            /\ \A i, j \in DOMAIN log :
                    i < j /\ log[j].op_id.peer = p
                        => HappensBefore(log[i].vector_clock, log[j].vector_clock)

\* A merged clock covers both, and an incremented one comes after all that
\* the clock covered.
LEMMA ClocksCover ==
    ASSUME NEW vc \in VectorClock, NEW other \in VectorClock,
           NEW p \in Peers, NEW n \in Nat
    PROVE  /\ Covers(Witness(Merge(vc, other), p, n), vc)
           /\ Covers(Witness(Merge(vc, other), p, n), other)
           /\ Covers(Increment(vc, p), vc)
           /\ \A x \in VectorClock :
                Covers(vc, x) => /\ Covers(Increment(vc, p), x)
                                 /\ HappensBefore(x, Increment(vc, p))
<1> DEFINE m   == Merge(vc, other)
           w   == Witness(m, p, n)
           new == Increment(vc, p)
<1>1. m \in VectorClock /\ w \in VectorClock /\ new \in VectorClock
    BY VectorClockTyped
<1>2. ASSUME NEW q \in Peers
      PROVE  /\ vc[q] <= w[q] /\ other[q] <= w[q]
             /\ vc[q] <= new[q]
             /\ vc[q] \in Nat /\ w[q] \in Nat /\ new[q] \in Nat
    <2>1. /\ vc[q] \in Nat /\ other[q] \in Nat /\ m[q] \in Nat /\ w[q] \in Nat
          /\ new[q] \in Nat
        BY <1>1 DEF VectorClock
    <2>2. m[q] = Observe(vc[q], other[q])
        BY DEF Merge
    <2>3. w[q] = IF q = p THEN Observe(m[q], n) ELSE m[q]
        BY <1>1 DEF Witness, VectorClock
    <2>4. new[q] = IF q = p THEN vc[q] + 1 ELSE vc[q]
        BY DEF Increment, VectorClock
    <2> HIDE DEF m, w, new
    <2>5. vc[q] <= m[q] /\ other[q] <= m[q]
        BY <2>1, <2>2, ClockTyped
    <2>6. m[q] <= w[q]
        <3>0. \A a, b \in Nat : a <= Observe(a, b) /\ a <= a
            BY ClockTyped
        <3>1. m[q] <= Observe(m[q], n) /\ m[q] <= m[q]
            BY <2>1, <3>0
        <3> QED
            BY <2>3, <3>1
    <2>7. \A a, b, c \in Nat : a <= b /\ b <= c => a <= c
        OBVIOUS
    <2>8. vc[q] <= w[q] /\ other[q] <= w[q]
        BY <2>1, <2>5, <2>6, <2>7
    <2>9. vc[q] <= new[q]
        BY <2>1, <2>4
    <2> QED
        BY <2>1, <2>8, <2>9
<1>3. vc[p] < new[p]
    BY DEF Increment, VectorClock
<1> HIDE DEF m, w, new
<1>4. Covers(w, vc) /\ Covers(w, other) /\ Covers(new, vc)
    BY <1>2 DEF Covers
<1>5. ASSUME NEW x \in VectorClock, Covers(vc, x)
      PROVE  Covers(new, x) /\ HappensBefore(x, new)
    <2>1. \A a, b, c \in Nat : (a <= b /\ b <= c => a <= c) /\ (a <= b /\ b < c => a < c)
        OBVIOUS
    <2>2. \A q \in Peers : x[q] \in Nat /\ x[q] <= vc[q]
        BY <1>5 DEF VectorClock, Covers
    <2>3. \A q \in Peers : x[q] <= new[q]
        BY <1>2, <2>1, <2>2
    <2>4. x[p] < new[p]
        BY <1>2, <1>3, <2>1, <2>2
    <2> QED
        BY <2>3, <2>4 DEF Covers, HappensBefore
<1> QED
    BY <1>4, <1>5 DEF w, m, new

\* A log that grows by one operation, under a clock that covers the old clock
\* and that operation, which is another's or comes after the whole log.
LEMMA CausalAppend ==
    ASSUME IndInv, CausalInv, NEW p \in Peers, NEW o \in TaggedOp,
           crdt' \in [Peers -> Timeline],
           \A q \in Peers \ {p} : crdt'[q] = crdt[q],
           crdt'[p].operation_log = Append(crdt[p].operation_log, o),
           Covers(crdt'[p].vector_clock, crdt[p].vector_clock),
           Covers(crdt'[p].vector_clock, o.vector_clock),
           o.op_id.peer = p => \A x \in Log(p) : HappensBefore(x.vector_clock, o.vector_clock)
    PROVE  CausalInv'
<1> DEFINE log == crdt[p].operation_log
<1>1. /\ log \in Seq(TaggedOp) /\ crdt[p].vector_clock \in VectorClock
      /\ crdt'[p].vector_clock \in VectorClock
    BY DEF IndInv, TypeOK, Timeline
<1>2. /\ DOMAIN log = 1..Len(log) /\ Len(log) \in Nat
      /\ DOMAIN Append(log, o) = 1..(Len(log) + 1)
      /\ \A k \in DOMAIN log : Append(log, o)[k] = log[k]
      /\ Append(log, o)[Len(log) + 1] = o
      /\ \A k \in DOMAIN log : log[k] \in TaggedOp
    BY <1>1
<1>3. ASSUME NEW q \in Peers \ {p}
      PROVE  LET new == crdt'[q].operation_log
             IN  /\ \A i \in DOMAIN new : Covers(crdt'[q].vector_clock, new[i].vector_clock)
                 /\ \A i, j \in DOMAIN new :
                        i < j /\ new[j].op_id.peer = q
                            => HappensBefore(new[i].vector_clock, new[j].vector_clock)
    BY <1>3 DEF CausalInv
<1>4. ASSUME NEW i \in DOMAIN Append(log, o)
      PROVE  Covers(crdt'[p].vector_clock, Append(log, o)[i].vector_clock)
    <2>1. CASE i \in DOMAIN log
        <3> DEFINE x == log[i].vector_clock
        <3>1. Covers(crdt[p].vector_clock, x)
            BY <2>1 DEF CausalInv
        <3>2. x \in VectorClock
            BY <1>2, <2>1 DEF TaggedOp
        <3> HIDE DEF x
        <3>3. \A q \in Peers :
                /\ x[q] \in Nat /\ crdt[p].vector_clock[q] \in Nat
                /\ crdt'[p].vector_clock[q] \in Nat
            BY <1>1, <3>2 DEF VectorClock
        <3>4. Covers(crdt'[p].vector_clock, x)
            BY <3>1, <3>3 DEF Covers
        <3> QED
            BY <1>2, <2>1, <3>4 DEF x
    <2>2. CASE i \notin DOMAIN log
        <3>1. Append(log, o)[i] = o
            BY <1>2, <2>2
        <3> QED
            BY <3>1
    <2> QED
        BY <2>1, <2>2
<1>5. ASSUME NEW i \in DOMAIN Append(log, o), NEW j \in DOMAIN Append(log, o),
             i < j, Append(log, o)[j].op_id.peer = p
      PROVE  HappensBefore(Append(log, o)[i].vector_clock,
                           Append(log, o)[j].vector_clock)
    <2>1. i \in DOMAIN log /\ Append(log, o)[i] = log[i]
        BY <1>2, <1>5
    <2>2. CASE j \in DOMAIN log
        <3>1. Append(log, o)[j] = log[j]
            BY <1>2, <2>2
        <3> QED
            BY <1>5, <2>1, <2>2, <3>1 DEF CausalInv
    <2>3. CASE j \notin DOMAIN log
        <3>1. Append(log, o)[j] = o
            BY <1>2, <2>3
        <3>2. log[i] \in Log(p)
            BY <2>1 DEF Log, OpsIn
        <3> QED
            BY <1>5, <2>1, <3>1, <3>2
    <2> QED
        BY <2>2, <2>3
<1> QED
    BY <1>3, <1>4, <1>5 DEF CausalInv

\* An issued operation comes after all its issuer has logged.
LEMMA IssueKeepsCausal ==
    ASSUME IndInv, CausalInv, NEW p \in Peers, NEW operation \in Edits[p],
           Issue(p, operation)
    PROVE  CausalInv'
<1> DEFINE o == Stamp(crdt[p], p, operation)
           vc == crdt[p].vector_clock
<1>1. o \in TaggedOp
    BY EditIsOperation, StampIsFresh DEF Issue
<1>2. /\ crdt \in [Peers -> Timeline] /\ vc \in VectorClock
      /\ crdt'[p] = Perform(crdt[p], o)
      /\ \A q \in Peers \ {p} : crdt'[q] = crdt[q]
    BY DEF IndInv, TypeOK, Timeline, Issue
<1>3. /\ crdt'[p].operation_log = Append(crdt[p].operation_log, o)
      /\ crdt'[p].vector_clock = o.vector_clock
    BY <1>2 DEF Perform
<1>4. o.vector_clock = Increment(vc, p)
    BY DEF Stamp
<1>5. Covers(Increment(vc, p), vc) /\ Covers(Increment(vc, p), Increment(vc, p))
    <2>1. Increment(vc, p) \in VectorClock /\ Covers(Increment(vc, p), vc)
        BY <1>2, ClocksCover, VectorClockTyped, ClockAssumption
    <2>2. \A x \in VectorClock : Covers(x, x)
        BY DEF VectorClock, Covers
    <2> QED
        BY <2>1, <2>2
<1>6. \A x \in Log(p) : HappensBefore(x.vector_clock, Increment(vc, p))
    <2> SUFFICES ASSUME NEW x \in Log(p)
                 PROVE  HappensBefore(x.vector_clock, Increment(vc, p))
        OBVIOUS
    <2>1. Covers(vc, x.vector_clock)
        BY DEF CausalInv, Log, OpsIn
    <2>2. x.vector_clock \in VectorClock
        BY DEF IndInv, TypeOK, ClockCoversLog, TaggedOp
    <2> QED
        BY <1>2, <2>1, <2>2, ClocksCover, ClockAssumption
<1>7. crdt' \in [Peers -> Timeline]
    BY EditIsOperation, IssueKeepsIndInv DEF IndInv, TypeOK
<1> HIDE DEF o, vc
<1> QED
    BY <1>1, <1>2, <1>3, <1>4, <1>5, <1>6, <1>7, CausalAppend DEF vc

\* A received operation is another's, and its clock is merged.
LEMMA ReceiveKeepsCausal ==
    ASSUME IndInv, CausalInv, NEW p \in Peers, NEW o \in sent, ApplyRemote(p, o)
    PROVE  CausalInv'
<1> DEFINE t == crdt[p]
<1>1. /\ crdt \in [Peers -> Timeline] /\ t \in Timeline /\ o \in TaggedOp
      /\ t.vector_clock \in VectorClock /\ o.vector_clock \in VectorClock
      /\ o.op_id.lamport \in Nat /\ o.op_id.peer \in Peers
    BY DEF IndInv, TypeOK, Timeline, TaggedOp, OpTag
<1>2. crdt' = [crdt EXCEPT ![p] = Receive(t, o)]
    BY DEF ApplyRemote
<1>3. CASE o.op_id \in t.seen
    <2>1. crdt' = crdt
        BY <1>1, <1>2, <1>3 DEF Receive
    <2> QED
        BY <2>1 DEF CausalInv
<1>4. CASE o.op_id \notin t.seen
    <2>1. /\ crdt'[p] = Accept(t, o)
          /\ \A q \in Peers \ {p} : crdt'[q] = crdt[q]
        BY <1>1, <1>2, <1>4 DEF Receive
    <2>2. /\ crdt'[p].operation_log = Append(t.operation_log, o)
          /\ crdt'[p].vector_clock = Witness(Merge(t.vector_clock, o.vector_clock),
                                             o.op_id.peer, o.op_id.lamport)
        BY <2>1 DEF Accept
    <2>3. /\ Covers(crdt'[p].vector_clock, t.vector_clock)
          /\ Covers(crdt'[p].vector_clock, o.vector_clock)
        BY <1>1, <2>2, ClocksCover
    <2>4. o.op_id.peer # p
        <3>1. o.op_id \notin IdsIn(t.operation_log)
            BY <1>4 DEF IndInv, LogHasNoDuplicates
        <3> QED
            BY <3>1 DEF IndInv, BufferIsLogged, Log, IdsIn
    <2>5. crdt' \in [Peers -> Timeline]
        BY ReceiveKeepsIndInv DEF IndInv, TypeOK
    <2> QED
        BY <1>1, <2>1, <2>2, <2>3, <2>4, <2>5, CausalAppend
<1> QED
    BY <1>3, <1>4

\* Nothing is logged at first, and every step keeps the order.
LEMMA NextKeepsCausal ==
    /\ Init => CausalInv
    /\ IndInv /\ CausalInv /\ [Next]_vars => CausalInv'
<1>1. Init => CausalInv
    <2>1. NewTimeline.operation_log = <<>>
        BY DEF NewTimeline
    <2>2. ASSUME Init, NEW p \in Peers
          PROVE  crdt[p].operation_log = <<>>
        BY <2>1, <2>2 DEF Init
    <2>3. \A i : i \notin DOMAIN <<>>
        OBVIOUS
    <2> QED
        BY <2>2, <2>3, Zenon DEF CausalInv
<1>2. ASSUME IndInv, CausalInv, [Next]_vars
      PROVE  CausalInv'
    <2>1. CASE UNCHANGED vars
        BY <1>2, <2>1 DEF CausalInv, vars
    <2>2. ASSUME NEW p \in Peers, ApplyLocal(p)
          PROVE  CausalInv'
        BY <1>2, <2>2, IssueKeepsCausal DEF ApplyLocal
    <2>3. ASSUME NEW p \in Peers, NEW o \in sent, ApplyRemote(p, o)
          PROVE  CausalInv'
        BY <1>2, <2>3, ReceiveKeepsCausal
    <2> QED
        BY <1>2, <2>1, <2>2, <2>3 DEF Next
<1> QED
    BY <1>1, <1>2

\* The invariants of the replication engine in a behaviour with events.
LEMMA CausalInvariance == CSpec => [](IndInv /\ CausalInv)
<1>1. Spec => [](IndInv /\ CausalInv)
    BY NextKeepsCausal, Invariance, PTL DEF Spec
<1> QED
    BY <1>1, CSpecImpliesSpec, PTL

\* Of two issued operations, the one that the issuer of the other knew of when
\* it issued that one has the earlier vector clock.
LEMMA CausalSeen == IndInv /\ CausalInv => CausalityIsSeen
<1> SUFFICES ASSUME IndInv, CausalInv, NEW a \in sent, NEW b \in sent, Causal(a, b)
             PROVE  HappensBefore(a.vector_clock, b.vector_clock)
    BY DEF CausalityIsSeen
<1>1. b.op_id.peer \in Peers
    BY DEF IndInv
<1> QED
    BY <1>1 DEF Causal, CausalInv

\* Vector clocks never forget: whatever the order of delivery, what an
\* operation's issuer knew comes before it.
THEOREM CausalityTheorem == CSpec => []CausalityIsSeen
BY CausalSeen, CausalInvariance, PTL

-----------------------------------------------------------------------------
(* Events                                                                  *)

\* e tells of a conflict between a and b: two operations of one kind on one
\* clip whose vector clocks are concurrent, and which of them wins.
Tells(e, a, b) ==
    /\ a.op_id = e.op
    /\ a.operation.type = e.kind /\ a.operation.clip = e.clip_id
    /\ MatchesConflictClass(a, b)
    /\ IsConcurrent(a.vector_clock, b.vector_clock)
    /\ e.kind = "SplitClip" => SamePoint(a.operation, b.operation)
    /\ e.op_won <=> IF e.kind = "SplitClip"
                    THEN a.operation.new_clip < b.operation.new_clip
                    ELSE TagLess(b.op_id, a.op_id)

GenuineIn(ops) == {e \in ResolutionEvent : \E a, b \in ops : Tells(e, a, b)}

EventsInv ==
    /\ events \in [Peers -> Seq(ResolutionEvent)]
    /\ shown \in [Peers -> Seq(ResolutionEvent)]
    /\ \A p \in Peers : /\ events[p] \in Seq(GenuineIn(Log(p)))
                        /\ shown[p] \in Seq(GenuineIn(Log(p)))

\* Whatever observe_resolution pushes for a logged operation is genuine.
LEMMA ObservedIsGenuine ==
    ASSUME NEW log \in Seq(TaggedOp), NEW o \in OpsIn(log)
    PROVE  ObserveResolution(log, o) \in Seq(GenuineIn(OpsIn(log)))
<1> DEFINE found == {i \in Prior(log, o) : Conflicts(o, log[i])}
           prior == log[CHOOSE i \in found : TRUE]
           event == [ kind    |-> o.operation.type,
                      clip_id |-> o.operation.clip,
                      op      |-> o.op_id,
                      op_won  |-> Resolve(o, prior) ]
<1>1. CASE o.operation.type \notin Contested \/ found = {}
    BY <1>1 DEF ObserveResolution
<1>2. CASE o.operation.type \in Contested /\ found # {}
    <2>1. ObserveResolution(log, o) = <<event>>
        BY <1>2 DEF ObserveResolution
    <2>2. PICK i \in found : prior = log[i]
        BY <1>2
    <2>3. /\ i \in DOMAIN log /\ MatchesConflictClass(log[i], o)
          /\ Conflicts(o, log[i])
        <3>1. /\ i \in DOMAIN SubSeq(log, 1, Len(log) - 1)
              /\ MatchesConflictClass(SubSeq(log, 1, Len(log) - 1)[i], o)
            BY <2>2 DEF Prior
        <3>2. /\ i \in DOMAIN log
              /\ SubSeq(log, 1, Len(log) - 1)[i] = log[i]
            BY <3>1
        <3> QED
            BY <2>2, <3>1, <3>2
    <2> HIDE DEF prior, found
    <2>4. prior \in OpsIn(log)
        BY <2>2, <2>3 DEF OpsIn
    <2>5. o \in TaggedOp
        BY DEF OpsIn
    <2>6. event \in ResolutionEvent
        <3>1. o.op_id \in OpTag /\ o.operation \in Operation
            BY <2>5 DEF TaggedOp
        <3>2. o.operation.clip \in ClipId
            <4> DEFINE x == o.operation
            <4>1. x \in ClipEdit => x.clip \in ClipId
                BY DEF ClipEdit
            <4>2. x \in SplitEdit => x.clip \in ClipId
                BY DEF SplitEdit
            <4>3. x.type \in Contested => x \notin TrackEdit
                BY DEF Contested, TrackEdit
            <4>4. x.type \in Contested => x \notin EnvelopeEdit /\ x \notin MetadataEdit
                BY DEF Contested, EnvelopeEdit, MetadataEdit
            <4> HIDE DEF x
            <4>5. x \in ClipEdit \/ x \in SplitEdit
                BY <1>2, <3>1, <4>3, <4>4 DEF Operation, x
            <4> QED
                BY <4>1, <4>2, <4>5 DEF x
        <3>3. Resolve(o, prior) \in BOOLEAN
            <4>1. CASE o.operation.type = "SplitClip"
                <5>1. prior.operation \in Operation /\ prior.operation.type = "SplitClip"
                    <6>1. prior \in TaggedOp
                        BY <2>4 DEF OpsIn
                    <6>2. prior.operation \in Operation
                        BY <6>1 DEF TaggedOp
                    <6> QED
                        BY <2>2, <2>3, <4>1, <6>2 DEF MatchesConflictClass
                <5>2. \A x \in Operation : x.type = "SplitClip" => x.new_clip \in Nat
                    BY SessionAssumption
                       DEF Operation, ClipEdit, SplitEdit, TrackEdit, EnvelopeEdit,
                           MetadataEdit
                <5>3. \A a, b \in Nat : (a < b) \in BOOLEAN
                    OBVIOUS
                <5>4. o.operation.new_clip \in Nat /\ prior.operation.new_clip \in Nat
                    BY <3>1, <4>1, <5>1, <5>2
                <5>5. Resolve(o, prior) =
                        (o.operation.new_clip < prior.operation.new_clip)
                    BY <4>1, Zenon DEF Resolve
                <5> QED
                    BY <5>3, <5>4, <5>5, Zenon
            <4>2. CASE o.operation.type # "SplitClip"
                BY <4>2, Zenon DEF Resolve, TagLess
            <4> QED
                BY <4>1, <4>2
        <3> QED
            BY <1>2, <3>1, <3>2, <3>3 DEF ResolutionEvent
    <2>7. /\ MatchesConflictClass(o, prior)
          /\ IsConcurrent(o.vector_clock, prior.vector_clock)
          /\ event.kind = "SplitClip" => SamePoint(o.operation, prior.operation)
        BY <2>2, <2>3 DEF MatchesConflictClass, Conflicts
    <2>8. event.op_won <=> IF event.kind = "SplitClip"
                           THEN o.operation.new_clip < prior.operation.new_clip
                           ELSE TagLess(prior.op_id, o.op_id)
        BY DEF Resolve
    <2>9. /\ event.op = o.op_id
          /\ o.operation.type = event.kind /\ o.operation.clip = event.clip_id
        OBVIOUS
    <2> HIDE DEF event
    <2>10. event \in GenuineIn(OpsIn(log))
        BY <2>4, <2>6, <2>7, <2>8, <2>9 DEF GenuineIn, Tells
    <2> QED
        BY <2>1, <2>10
<1> QED
    BY <1>1, <1>2

\* f strings first and the sequences of new together, one by one.
Strings(f, first, new, n) ==
    f = [k \in 0..n |-> IF k = 0 THEN first ELSE f[k - 1] \o new[k - 1]]

\* There is such a function.
LEMMA StringExists ==
    ASSUME NEW first, NEW new, NEW n \in Nat
    PROVE  \E f : Strings(f, first, new, n)
<1> USE DEF Strings
<1> DEFINE Is(f, m) == Strings(f, first, new, m)
           Bad == {m \in Nat : ~\E f : Is(f, m)}
<1>1. ASSUME NEW m \in Bad, \A j \in Bad : m <= j
      PROVE  FALSE
    <2>1. CASE m = 0
        <3> DEFINE f == [k \in 0..0 |-> first]
        <3>1. \A k \in 0..0 : first = IF k = 0 THEN first ELSE f[k - 1] \o new[k - 1]
            OBVIOUS
        <3>2. Is(f, 0)
            BY <3>1
        <3> HIDE DEF f, Is
        <3> QED
            BY <2>1, <3>2
    <2>2. CASE m # 0
        <3>1. m - 1 \in Nat /\ m - 1 \notin Bad
            <4> HIDE DEF Is
            <4> QED
                BY <1>1, <2>2
        <3>2. PICK f : Is(f, m - 1)
            BY <3>1
        <3> DEFINE g == [k \in 0..m |->
                            IF k = m THEN f[m - 1] \o new[m - 1] ELSE f[k]]
        <3>3. ASSUME NEW k \in 0..m
              PROVE  g[k] = IF k = 0 THEN first ELSE g[k - 1] \o new[k - 1]
            <4>1. CASE k = m
                <5>1. g[k] = f[m - 1] \o new[m - 1] /\ g[k - 1] = f[m - 1]
                    BY <2>2, <3>1, <4>1
                <5> QED
                    BY <2>2, <4>1, <5>1
            <4>2. CASE k # m
                <5>1. k \in 0..(m - 1) /\ g[k] = f[k]
                    BY <1>1, <4>2
                <5>2. f[k] = IF k = 0 THEN first ELSE f[k - 1] \o new[k - 1]
                    BY <3>2, <5>1
                <5>3. k # 0 => k - 1 \in 0..m /\ k - 1 # m /\ g[k - 1] = f[k - 1]
                    BY <5>1
                <5> HIDE DEF g
                <5> QED
                    BY <5>1, <5>2, <5>3
            <4> QED
                BY <4>1, <4>2
        <3>4. g = [k \in 0..m |-> g[k]]
            OBVIOUS
        <3>5. Is(g, m)
            <4> HIDE DEF g
            <4> QED
                BY <3>3, <3>4
        <3> HIDE DEF g, Is
        <3> QED
            BY <3>5
    <2> QED
        BY <2>1, <2>2
<1>2. Bad = {}
    <2> HIDE DEF Bad
    <2>1. Bad \subseteq Nat
        BY DEF Bad
    <2> QED
        BY <1>1, <2>1, NoLeast
<1> QED
    BY <1>2

\* So are all the events pushed while the buffer is drained.
LEMMA PushedAreGenuine ==
    ASSUME NEW s \in SessionState, NEW pending \in Seq(TaggedOp),
           NEW log \in Seq(TaggedOp), OpsIn(pending) \subseteq OpsIn(log),
           NEW first \in Seq(GenuineIn(OpsIn(log)))
    PROVE  PushedBy(s, pending, log, first)[DrainSteps(Len(pending))]
                \in Seq(GenuineIn(OpsIn(log)))
<1> DEFINE n     == DrainSteps(Len(pending))
           loop  == DrainLoop(s, pending)
           new   == [k \in 0..n |-> IF loop[k].todo = <<>> THEN <<>>
                                    ELSE ObserveResolution(log, Head(loop[k].todo))]
           pushed == CHOOSE f : Strings(f, first, new, n)
           Good  == GenuineIn(OpsIn(log))
           Bad   == {m \in 0..n : pushed[m] \notin Seq(Good)}
<1>1. n \in Nat
    BY DEF DrainSteps
<1>2. PushedBy(s, pending, log, first) = pushed
    BY DEF PushedBy, Strings
<1>3. ASSUME NEW k \in 0..n
      PROVE  new[k] \in Seq(Good)
    <2>1. /\ loop[k].todo \in Seq(TaggedOp)
          /\ OpsIn(loop[k].todo) \subseteq OpsIn(log)
        BY DrainKeeps DEF DrainState
    <2>2. CASE loop[k].todo = <<>>
        <3>1. new[k] = <<>>
            BY <2>2
        <3> HIDE DEF new, Good
        <3>2. <<>> \in Seq(Good)
            OBVIOUS
        <3> QED
            BY <3>1, <3>2
    <2>3. CASE loop[k].todo # <<>>
        <3> DEFINE o == Head(loop[k].todo)
        <3>1. new[k] = ObserveResolution(log, o)
            <4> HIDE DEF n, loop
            <4> QED
                BY <2>3
        <3>2. o \in OpsIn(log)
            BY <2>1, <2>3, TailOps
        <3> HIDE DEF o, new
        <3> QED
            BY <3>1, <3>2, ObservedIsGenuine
    <2> QED
        BY <2>2, <2>3
<1> HIDE DEF n, new, Good
<1>4. Strings(pushed, first, new, n)
    <2>1. \E f : Strings(f, first, new, n)
        BY <1>1, StringExists
    <2> QED
        BY <2>1
<1>5. \A k \in 0..n : pushed[k] = IF k = 0 THEN first ELSE pushed[k - 1] \o new[k - 1]
    <2> HIDE DEF pushed
    <2> QED
        BY <1>4 DEF Strings
<1> HIDE DEF pushed
<1>6. ASSUME NEW m \in Bad, \A j \in Bad : m <= j
      PROVE  FALSE
    <2>1. m # 0
        BY <1>1, <1>5 DEF Good
    <2>2. m - 1 \in 0..n /\ m - 1 \notin Bad
        BY <1>1, <1>6, <2>1
    <2>3. pushed[m] = pushed[m - 1] \o new[m - 1]
        BY <1>5, <2>1
    <2>4. pushed[m - 1] \in Seq(Good) /\ new[m - 1] \in Seq(Good)
        BY <1>3, <2>2
    <2>5. \A a, b \in Seq(Good) : a \o b \in Seq(Good)
        OBVIOUS
    <2>6. pushed[m] \in Seq(Good)
        BY <2>3, <2>4, <2>5, Zenon
    <2> QED
        BY <2>6
<1>7. Bad = {}
    <2>1. Bad \subseteq Nat
        BY <1>1
    <2> HIDE DEF Bad
    <2> QED
        BY <1>6, <2>1, NoLeast
<1> QED
    BY <1>1, <1>2, <1>7 DEF n, Good

\* What is genuine among some operations is genuine among more, and so is a
\* sequence of such events.
LEMMA GenuineMore ==
    ASSUME NEW ops, NEW more, ops \subseteq more
    PROVE  /\ GenuineIn(ops) \subseteq GenuineIn(more)
           /\ Seq(GenuineIn(ops)) \subseteq Seq(GenuineIn(more))
<1>1. GenuineIn(ops) \subseteq GenuineIn(more)
    BY DEF GenuineIn
<1>2. \A A, B : A \subseteq B => Seq(A) \subseteq Seq(B)
    OBVIOUS
<1> QED
    BY <1>1, <1>2

\* Receiving an operation pushes genuine events only.
LEMMA RemoteIsGenuine ==
    ASSUME IndInv, NEW p \in Peers, NEW o \in sent, ApplyRemote(p, o),
           o.op_id \notin crdt[p].seen
    PROVE  Observed(crdt[p], o) \in Seq(GenuineIn(Log(p)'))
<1> DEFINE t      == crdt[p]
           log    == Append(t.operation_log, o)
           res    == Apply(t.session, o.operation, o.op_id)
           buffer == IF res.ok THEN t.pending ELSE Append(t.pending, o)
           first  == ObserveResolution(log, o)
<1>1. /\ t \in Timeline /\ o \in TaggedOp /\ crdt \in [Peers -> Timeline]
      /\ t.session \in SessionState /\ t.pending \in Seq(TaggedOp)
      /\ t.operation_log \in Seq(TaggedOp)
      /\ OpsIn(t.pending) \subseteq OpsIn(t.operation_log)
    BY DEF IndInv, TypeOK, Timeline, BufferIsLogged, Pending, Log
<1>2. /\ log \in Seq(TaggedOp)
      /\ OpsIn(log) = OpsIn(t.operation_log) \cup {o}
    BY <1>1, AppendOps
<1>3. /\ buffer \in Seq(TaggedOp)
      /\ OpsIn(buffer) \subseteq OpsIn(t.pending) \cup {o}
    <2> HIDE DEF res
    <2> QED
        BY <1>1, AppendOps
<1>4. res.session \in SessionState
    <2>1. o.operation \in Operation /\ o.op_id \in OpTag
        BY <1>1 DEF TaggedOp
    <2> QED
        BY <1>1, <2>1, ApplyTyped
<1>5. Log(p)' = OpsIn(log)
    <2>1. crdt'[p] = Accept(t, o)
        BY <1>1 DEF ApplyRemote, Receive
    <2>2. crdt'[p].operation_log = log
        BY <2>1 DEF Accept
    <2> QED
        BY <2>2 DEF Log
<1>6. Observed(t, o) =
        PushedBy(res.session, buffer, log, first)[DrainSteps(Len(buffer))]
    BY DEF Observed
<1> HIDE DEF log, res, buffer
<1>7. first \in Seq(GenuineIn(OpsIn(log)))
    BY <1>2, ObservedIsGenuine
<1>8. OpsIn(buffer) \subseteq OpsIn(log)
    BY <1>1, <1>2, <1>3
<1> HIDE DEF first
<1> QED
    BY <1>2, <1>3, <1>4, <1>5, <1>6, <1>7, <1>8, PushedAreGenuine

\* A log never loses an operation.
LEMMA LogGrows ==
    ASSUME IndInv, [Next]_vars, NEW q \in Peers
    PROVE  Log(q) \subseteq Log(q)'
<1>1. /\ crdt \in [Peers -> Timeline] /\ sent \subseteq TaggedOp
      /\ \A p \in Peers : crdt[p].operation_log \in Seq(TaggedOp)
    BY DEF IndInv, TypeOK, Timeline
<1>2. CASE UNCHANGED vars
    BY <1>2 DEF vars, Log
<1>3. ASSUME NEW p \in Peers, NEW operation \in Edits[p], Issue(p, operation)
      PROVE  Log(q) \subseteq Log(q)'
    <2> DEFINE o == Stamp(crdt[p], p, operation)
    <2>1. o \in TaggedOp
        BY <1>3, EditIsOperation, StampIsFresh DEF Issue
    <2>2. crdt' = [crdt EXCEPT ![p] = Perform(crdt[p], o)]
        BY <1>3 DEF Issue
    <2> HIDE DEF o
    <2>3. q = p => crdt'[q].operation_log = Append(crdt[p].operation_log, o)
        BY <1>1, <2>2 DEF Perform
    <2>4. q # p => crdt'[q] = crdt[q]
        BY <1>1, <2>2
    <2>5. CASE q = p
        <3>1. OpsIn(crdt[p].operation_log)
                \subseteq OpsIn(Append(crdt[p].operation_log, o))
            BY <1>1, <2>1, AppendOps
        <3> QED
            BY <2>3, <2>5, <3>1 DEF Log
    <2>6. CASE q # p
        BY <2>4, <2>6 DEF Log
    <2> QED
        BY <2>5, <2>6
<1>4. ASSUME NEW p \in Peers, NEW o \in sent, ApplyRemote(p, o)
      PROVE  Log(q) \subseteq Log(q)'
    <2>1. crdt' = [crdt EXCEPT ![p] = Receive(crdt[p], o)]
        BY <1>4 DEF ApplyRemote
    <2>2. \/ crdt'[q] = crdt[q]
          \/ crdt'[q] = Accept(crdt[q], o)
        BY <1>1, <2>1 DEF Receive
    <2>3. CASE crdt'[q] = Accept(crdt[q], o)
        <3>1. crdt'[q].operation_log = Append(crdt[q].operation_log, o)
            BY <2>3 DEF Accept
        <3> QED
            BY <1>1, <3>1, AppendOps DEF Log
    <2>4. CASE crdt'[q] = crdt[q]
        BY <2>4 DEF Log
    <2> QED
        BY <2>2, <2>3, <2>4
<1> QED
    BY <1>2, <1>3, <1>4 DEF Next, ApplyLocal

\* A peer's events may be replaced by genuine ones.
LEMMA EventsUpdate ==
    ASSUME EventsInv, \A q \in Peers : Log(q) \subseteq Log(q)', NEW p \in Peers,
           NEW v \in Seq(GenuineIn(Log(p)')), NEW w \in Seq(GenuineIn(Log(p)')),
           events' = [events EXCEPT ![p] = v], shown' = [shown EXCEPT ![p] = w]
    PROVE  EventsInv'
<1>1. ASSUME NEW q \in Peers
      PROVE  /\ events[q] \in Seq(GenuineIn(Log(q)'))
             /\ shown[q] \in Seq(GenuineIn(Log(q)'))
    BY GenuineMore DEF EventsInv
<1>2. /\ events \in [Peers -> Seq(ResolutionEvent)]
      /\ shown \in [Peers -> Seq(ResolutionEvent)]
    BY DEF EventsInv
<1>3. v \in Seq(ResolutionEvent) /\ w \in Seq(ResolutionEvent)
    <2>1. GenuineIn(Log(p)') \subseteq ResolutionEvent
        BY DEF GenuineIn
    <2>2. \A A, B : A \subseteq B => Seq(A) \subseteq Seq(B)
        OBVIOUS
    <2> QED
        BY <2>1, <2>2
<1> DEFINE Lists == Seq(ResolutionEvent)
<1> HIDE DEF Lists
<1>4. events' \in [Peers -> Lists] /\ shown' \in [Peers -> Lists]
    BY <1>2, <1>3 DEF Lists
<1>5. ASSUME NEW q \in Peers
      PROVE  /\ events'[q] \in Seq(GenuineIn(Log(q)'))
             /\ shown'[q] \in Seq(GenuineIn(Log(q)'))
    <2>1. CASE q = p
        <3>1. events'[q] = v /\ shown'[q] = w
            BY <1>2, <2>1
        <3> QED
            BY <2>1, <3>1
    <2>2. CASE q # p
        <3>1. events'[q] = events[q] /\ shown'[q] = shown[q]
            BY <1>2, <2>2
        <3> QED
            BY <1>1, <3>1
    <2> QED
        BY <2>1, <2>2
<1> QED
    BY <1>4, <1>5 DEF EventsInv, Lists

\* Every step keeps the events genuine.
LEMMA NextKeepsEvents ==
    ASSUME IndInv, EventsInv, [CNext]_cvars, [Next]_vars
    PROVE  EventsInv'
<1>1. \A q \in Peers : Log(q) \subseteq Log(q)'
    BY LogGrows
<1>2. ASSUME NEW q \in Peers
      PROVE  /\ events[q] \in Seq(GenuineIn(Log(q)'))
             /\ shown[q] \in Seq(GenuineIn(Log(q)'))
    BY <1>1, GenuineMore DEF EventsInv
<1>3. \A A : \A a, b \in Seq(A) : a \o b \in Seq(A)
    OBVIOUS
<1>4. ASSUME UNCHANGED <<events, shown>>
      PROVE  EventsInv'
    BY <1>2, <1>4 DEF EventsInv
<1>5. ASSUME NEW p \in Peers, NEW o \in sent, Remote(p, o)
      PROVE  EventsInv'
    <2>1. CASE o.op_id \in crdt[p].seen
        <3>1. events' = [events EXCEPT ![p] = events[p]]
            BY <1>5, <2>1 DEF Remote
        <3>2. events' = events
            BY <3>1 DEF EventsInv
        <3> QED
            BY <1>4, <1>5, <3>2 DEF Remote
    <2>2. CASE o.op_id \notin crdt[p].seen
        <3> DEFINE v == events[p] \o Observed(crdt[p], o)
        <3>1. Observed(crdt[p], o) \in Seq(GenuineIn(Log(p)'))
            BY <1>5, <2>2, RemoteIsGenuine DEF Remote
        <3>2. v \in Seq(GenuineIn(Log(p)'))
            BY <1>2, <1>3, <3>1, Zenon
        <3>3. events' = [events EXCEPT ![p] = v]
            BY <1>5, <2>2 DEF Remote
        <3> HIDE DEF v
        <3>4. shown' = [shown EXCEPT ![p] = shown[p]]
            BY <1>5 DEF Remote, EventsInv
        <3> QED
            BY <1>1, <1>2, <3>2, <3>3, <3>4, EventsUpdate
    <2> QED
        BY <2>1, <2>2
<1>6. ASSUME NEW p \in Peers, TakeResolutionEvents(p)
      PROVE  EventsInv'
    <2> DEFINE w == shown[p] \o events[p]
    <2>1. w \in Seq(GenuineIn(Log(p)'))
        BY <1>2, <1>3, Zenon
    <2>2. /\ shown' = [shown EXCEPT ![p] = w]
          /\ events' = [events EXCEPT ![p] = <<>>]
        BY <1>6 DEF TakeResolutionEvents
    <2> HIDE DEF w
    <2>3. <<>> \in Seq(GenuineIn(Log(p)'))
        OBVIOUS
    <2> QED
        BY <1>1, <2>1, <2>2, <2>3, EventsUpdate
<1> QED
    BY <1>4, <1>5, <1>6 DEF CNext, Local, cvars

\* No event is there at first.
LEMMA InitEvents == CInit => EventsInv
<1>1. \A A : <<>> \in Seq(A)
    OBVIOUS
<1> QED
    BY <1>1 DEF CInit, EventsInv

\* The invariant of the events.
THEOREM EventsInvariance == CSpec => [](IndInv /\ CausalInv /\ EventsInv)
<1>1. [CNext]_cvars => [Next]_vars
    <2> SUFFICES ASSUME [CNext]_cvars PROVE [Next]_vars
        OBVIOUS
    <2> QED
        BY StepIsEngineStep
<1>2. IndInv /\ EventsInv /\ [CNext]_cvars => EventsInv'
    BY <1>1, NextKeepsEvents
<1> QED
    BY <1>2, InitEvents, CausalInvariance, PTL DEF CSpec

\* Concurrent vector clocks are those of two operations of which neither
\* issuer knew the other's when it issued its own.
LEMMA GenuineEvent ==
    ASSUME IndInv, CausalInv, EventsInv
    PROVE  EventsAreGenuine
<1> SUFFICES ASSUME NEW p \in Peers, NEW i \in DOMAIN Reported(p)
             PROVE  LET e == Reported(p)[i]
                    IN  \E a, b \in Log(p) :
                            /\ a.op_id = e.op
                            /\ a.operation.type = e.kind
                            /\ a.operation.clip = e.clip_id
                            /\ MatchesConflictClass(a, b)
                            /\ ~Causal(a, b) /\ ~Causal(b, a)
                            /\ e.kind = "SplitClip" =>
                                    SamePoint(a.operation, b.operation)
                            /\ e.op_won <=>
                                    IF e.kind = "SplitClip"
                                    THEN a.operation.new_clip < b.operation.new_clip
                                    ELSE TagLess(b.op_id, a.op_id)
    BY DEF EventsAreGenuine
<1>1. Reported(p) \in Seq(GenuineIn(Log(p)))
    <2>1. \A A : \A a, b \in Seq(A) : a \o b \in Seq(A)
        OBVIOUS
    <2>2. events[p] \in Seq(GenuineIn(Log(p))) /\ shown[p] \in Seq(GenuineIn(Log(p)))
        BY DEF EventsInv
    <2> QED
        BY <2>1, <2>2, Zenon DEF Reported
<1>2. Reported(p)[i] \in GenuineIn(Log(p))
    <2> DEFINE list == Reported(p)
               Gen  == GenuineIn(Log(p))
    <2>1. list \in Seq(Gen) /\ i \in DOMAIN list
        BY <1>1
    <2> HIDE DEF list, Gen
    <2>2. list[i] \in Gen
        BY <2>1
    <2> QED
        BY <2>2 DEF list, Gen
<1> DEFINE e == Reported(p)[i]
<1>3. PICK a \in Log(p), b \in Log(p) : Tells(e, a, b)
    BY <1>2 DEF GenuineIn
<1>4. a \in sent /\ b \in sent
    BY DEF IndInv, ClockCoversLog
<1>5. ~Causal(a, b) /\ ~Causal(b, a)
    BY <1>3, <1>4, CausalSeen DEF CausalityIsSeen, IsConcurrent, Tells
<1> QED
    BY <1>3, <1>5 DEF Tells

\* Nobody is told of a conflict that was none: the two operations were issued
\* in ignorance of each other, and the outcome is the one the rule gives.
THEOREM EventsTheorem == CSpec => []EventsAreGenuine
BY GenuineEvent, EventsInvariance, PTL

-----------------------------------------------------------------------------
(* What has lost leaves no trace.                                          *)

\* No split names its own clip as the piece.  Such a split does nothing, yet
\* observe_resolution lets it win over a real one.
NoSelfSplit(ops) ==
    \A o \in ops : o.operation \in SplitEdit => o.operation.new_clip # o.operation.clip

\* An operation of a contested kind has its clip for its only target.
LEMMA ContestedTarget ==
    ASSUME NEW s, NEW op \in Operation, op.type \in Contested,
           MissingTargets(s, op) # {}
    PROVE  ~Exists(s.clips, op.clip)
<1>1. MissingTargets(s, op) = {t \in {<<"clip", op.clip>>} : ~TargetExists(s, t)}
    BY DEF Contested, MissingTargets
<1>2. TargetExists(s, <<"clip", op.clip>>) <=> Exists(s.clips, op.clip)
    BY DEF TargetExists
<1> QED
    BY <1>1, <1>2

\* A contested operation is an edit of its clip or a cut in it.
LEMMA ContestedOp ==
    ASSUME NEW op \in Operation, op.type \in Contested
    PROVE  /\ op.clip \in ClipId
           /\ op.type # "SplitClip" => op \in ClipEdit
           /\ op.type = "SplitClip" => op \in SplitEdit
           /\ op.type = "MoveClip" => "track" \in DOMAIN op.writes
<1>1. op \notin TrackEdit /\ op \notin EnvelopeEdit /\ op \notin MetadataEdit
    BY DEF Contested, TrackEdit, EnvelopeEdit, MetadataEdit
<1>2. op \in ClipEdit => op.type # "SplitClip" /\ op.clip \in ClipId
    BY DEF ClipEdit
<1>3. op \in SplitEdit => op.type = "SplitClip" /\ op.clip \in ClipId
    BY DEF SplitEdit
<1>4. op \in ClipEdit \/ op \in SplitEdit
    BY <1>1 DEF Operation
<1>5. op \in ClipEdit /\ op.type = "MoveClip" => op.writes \in [MoveField -> Nat]
    BY DEF ClipEdit
<1> QED
    BY <1>2, <1>3, <1>4, <1>5 DEF MoveField

\* What has been applied to a clip has found it.
LEMMA AppliedHasTarget ==
    ASSUME NEW s, NEW ops \in SUBSET TaggedOp, NEW log, Reflects(s, ops, log),
           OneSplitPerPiece(log), NoSelfSplit(ops),
           NEW a \in ops, a.operation.type \in Contested
    PROVE  Exists(s.clips, a.operation.clip)
<1> DEFINE c == a.operation.clip
<1>1. a.operation \in Operation
    BY DEF TaggedOp
<1>2. c \in ClipId
    BY <1>1, ContestedOp
<1>3. ClipReflects(s, ops, c) /\ ClipStructure(s, ops, c)
    BY <1>2 DEF Reflects
<1>4. CASE a.operation.type # "SplitClip"
  <2>1. a \in EditsOfClip(ops, c)
      BY <1>1, <1>4, ContestedOp DEF EditsOfClip
  <2> QED
      BY <1>3, <2>1 DEF ClipReflects
<1>5. CASE a.operation.type = "SplitClip"
  <2>1. a.operation \in SplitEdit /\ a.operation.new_clip # c
      BY <1>1, <1>5, ContestedOp DEF NoSelfSplit
  <2>2. <<a.operation.split_frame, a.operation.new_clip>> \in CutsOf(ops, c)
      BY <2>1 DEF CutsOf
  <2> QED
      BY <1>3, <2>2 DEF ClipStructure
<1> QED
    BY <1>4, <1>5

\* The registers and the split points do not hold what has lost against an
\* operation that has been applied too.
LEMMA LoserIsGone ==
    ASSUME NEW s, NEW ops \in SUBSET Stamped, NEW log, Reflects(s, ops, log),
           OneSplitPerPiece(log), NoSelfSplit(ops),
           NEW a \in ops, NEW b \in ops, NEW e \in ResolutionEvent,
           Tells(e, a, b), ~e.op_won, a.op_id = b.op_id => a = b
    PROVE  LET clip == s.clips[e.clip_id]
           IN  CASE e.kind = "MoveClip" -> clip.regs["track"].tag # e.op
                 [] e.kind = "DeleteClip" -> clip.alive.tag # e.op
                 [] OTHER -> <<a.operation.split_frame, a.operation.new_clip>>
                                \notin clip.splits
<1> DEFINE c == e.clip_id
           clip == s.clips[c]
<1>1. /\ a \in TaggedOp /\ b \in TaggedOp
      /\ a.operation \in Operation /\ b.operation \in Operation
      /\ a.op_id \in OpTag /\ b.op_id \in OpTag
    BY DEF Stamped, TaggedOp
<1>2. /\ a.operation.type = e.kind /\ b.operation.type = e.kind
      /\ a.operation.clip = c /\ b.operation.clip = c
      /\ e.kind \in Contested /\ a.op_id = e.op
    BY DEF Tells, MatchesConflictClass, ResolutionEvent
<1>3. /\ c \in ClipId /\ Exists(s.clips, c)
  <2>1. ops \subseteq TaggedOp
      BY DEF Stamped
  <2> QED
      BY <1>1, <1>2, <2>1, ContestedOp, AppliedHasTarget
<1>4. ClipReflects(s, ops, c) /\ ClipStructure(s, ops, c)
    BY <1>3 DEF Reflects
<1>5. e.kind # "SplitClip" => TagLess(a.op_id, b.op_id)
  <2>1. a.op_id # b.op_id
      BY DEF Tells, IsConcurrent
  <2>2. e.kind # "SplitClip" => ~TagLess(b.op_id, a.op_id)
      BY DEF Tells
  <2> QED
      BY <1>1, <2>1, <2>2, TagOrder
<1>6. CASE e.kind = "MoveClip"
  <2>1. /\ b \in EditsOfClip(ops, c) /\ "track" \in DOMAIN b.operation.writes
      BY <1>1, <1>2, <1>6, ContestedOp DEF EditsOfClip
  <2>2. Written(b.operation.writes["track"], b.op_id)
            \in WritesTo(EditsOfClip(ops, c), "track")
      BY <2>1 DEF WritesTo
  <2>3. IsTop(clip.regs["track"], WritesTo(EditsOfClip(ops, c), "track"))
      BY <1>3, <1>4 DEF ClipReflects, ClipField
  <2>4. ~TagLess(clip.regs["track"].tag, b.op_id)
      BY <2>2, <2>3 DEF IsTop, Written
  <2>5. clip.regs["track"].tag # e.op
      BY <2>4, <1>2, <1>5, <1>6
  <2> QED
      BY <2>5, <1>6
<1>7. CASE e.kind = "DeleteClip"
  <2>1. b \in EditsOfClip(ops, c)
      BY <1>1, <1>2, <1>7, ContestedOp DEF EditsOfClip
  <2>2. Written(FALSE, b.op_id) \in AliveWrites(EditsOfClip(ops, c) \cup SplitsInto(ops, c))
    <3>1. b.operation.type \notin Reviving /\ b.operation.type \in Burying
        BY <1>2, <1>7 DEF Reviving, Burying
    <3>2. (b.operation.type \in Reviving) = FALSE
        BY <3>1
    <3>3. Written(b.operation.type \in Reviving, b.op_id)
              \in AliveWrites(EditsOfClip(ops, c) \cup SplitsInto(ops, c))
        BY <2>1, <3>1 DEF AliveWrites
    <3> QED
        BY <3>2, <3>3, Zenon
  <2>3. IsTop(clip.alive, AliveWrites(EditsOfClip(ops, c) \cup SplitsInto(ops, c)))
      BY <1>3, <1>4 DEF ClipStructure
  <2>4. ~TagLess(clip.alive.tag, b.op_id)
      BY <2>2, <2>3 DEF IsTop, Written
  <2>5. clip.alive.tag # e.op
      BY <2>4, <1>2, <1>5, <1>7
  <2> QED
      BY <2>5, <1>7
<1>8. CASE e.kind = "SplitClip"
  <2>1. /\ a.operation \in SplitEdit /\ b.operation \in SplitEdit
        /\ b.operation.new_clip # c
        /\ a.operation.new_clip \in Nat /\ b.operation.new_clip \in Nat
    <3>1. a.operation \in SplitEdit /\ b.operation \in SplitEdit
        BY <1>1, <1>2, <1>8, ContestedOp
    <3> QED
        BY <3>1, <1>2, SessionAssumption DEF NoSelfSplit, SplitEdit
  <2>2. /\ a.operation.split_frame = b.operation.split_frame
        /\ b.operation.new_clip < a.operation.new_clip
      BY <1>8, <2>1 DEF Tells, SamePoint
  <2>3. <<b.operation.split_frame, b.operation.new_clip>> \in CutsOf(ops, c)
      BY <1>2, <2>1 DEF CutsOf
  <2>4. IsLeast(clip.splits, CutsOf(ops, c))
      BY <1>3, <1>4 DEF ClipStructure
  <2>5. PICK x \in clip.splits : /\ x[1] = b.operation.split_frame
                                 /\ x[2] <= b.operation.new_clip
      BY <2>3, <2>4 DEF IsLeast
  <2>6. <<a.operation.split_frame, a.operation.new_clip>> \notin clip.splits
    <3> DEFINE y == <<a.operation.split_frame, a.operation.new_clip>>
    <3> SUFFICES ASSUME y \in clip.splits PROVE FALSE
        OBVIOUS
    <3>1. y[1] = a.operation.split_frame /\ y[2] = a.operation.new_clip
        OBVIOUS
    <3>2. y = x
        BY <2>2, <2>4, <2>5, <3>1 DEF IsLeast
    <3>3. a.operation.new_clip <= b.operation.new_clip
        BY <2>5, <3>1, <3>2
    <3> QED
        BY <2>1, <2>2, <3>3
  <2> QED
      BY <2>6, <1>8
<1> QED
    BY <1>2, <1>6, <1>7, <1>8 DEF Contested

\* Events of conflicts in which the other operation has been applied, or the
\* one that is reported has not.
SettledIn(ops, wait) ==
    {e \in ResolutionEvent :
        \E a, b \in ops : Tells(e, a, b) /\ (b \in wait => a \in wait)}

LosersInv ==
    \A p \in Peers : /\ events[p] \in Seq(SettledIn(Log(p), Pending(p)))
                     /\ shown[p] \in Seq(SettledIn(Log(p), Pending(p)))

\* The splits somebody has issued are what the code expects of them.
SplitsInOrder == OneSplitPerPiece(sent) /\ NoSelfSplit(sent)

\* A drain lets no operation wait for a clip that others have found.
LEMMA ReceivingSettles ==
    ASSUME IndInv, SessionsReflect, IndInv', SessionsReflect', SplitsInOrder',
           NEW p \in Peers, NEW o \in sent,
           ApplyRemote(p, o), o.op_id \notin crdt[p].seen
    PROVE  GenuineIn(Log(p)') \subseteq SettledIn(Log(p)', Pending(p)')
<1> SUFFICES ASSUME NEW e \in ResolutionEvent,
                    NEW a \in Log(p)', NEW b \in Log(p)', Tells(e, a, b),
                    b \in Pending(p)', a \notin Pending(p)'
             PROVE  FALSE
    BY DEF GenuineIn, SettledIn
<1> DEFINE s   == crdt'[p].session
           ops == Log(p)' \ Pending(p)'
           log == Log(p)'
<1>1. /\ Reflects(s, ops, log) /\ log \in SUBSET Stamped /\ a \in ops
      /\ OneSplitPerPiece(log) /\ NoSelfSplit(ops)
  <2>1. Reflects(crdt[p].session, Applied(p), Log(p))'
      BY DEF SessionsReflect
  <2>2. Log(p)' \subseteq sent' /\ sent' \subseteq TaggedOp
      BY DEF IndInv, ClockCoversLog, TypeOK
  <2>3. Log(p)' \in SUBSET Stamped
    <3>1. IndInv' => (Log(p) \in SUBSET Stamped)'
        BY ReplicaFacts DEF IndInv, TypeOK, ClockCoversLog, Stamped
    <3> QED
        BY <3>1
  <2>4. OneSplitPerPiece(log) /\ NoSelfSplit(ops)
      BY <2>2 DEF SplitsInOrder, OneSplitPerPiece, NoSelfSplit
  <2> QED
      BY <2>1, <2>3, <2>4 DEF Applied
<1>2. MissingTargets(s, b.operation) # {}
    BY ReceiveLeavesOrphans
<1> HIDE DEF s, ops, log
<1>3. /\ a.operation.type \in Contested /\ b.operation.type \in Contested
      /\ a.operation.clip = b.operation.clip
    BY DEF Tells, MatchesConflictClass, ResolutionEvent
<1>4. b.operation \in Operation /\ ops \in SUBSET TaggedOp
    BY <1>1 DEF Stamped, TaggedOp, ops, log
<1>5. ~Exists(s.clips, b.operation.clip)
    BY <1>2, <1>3, <1>4, ContestedTarget
<1>6. Exists(s.clips, a.operation.clip)
    BY <1>1, <1>3, <1>4, AppliedHasTarget
<1> QED
    BY <1>3, <1>5, <1>6

\* What p waits for, of what it has in its log, stays the same.
WaitStays(p) ==
    /\ Pending(p) \subseteq Pending(p)'
    /\ Pending(p)' \cap Log(p) \subseteq Pending(p)

LEMMA SettledStays ==
    ASSUME NEW p \in Peers, WaitStays(p), Log(p) \subseteq Log(p)'
    PROVE  Seq(SettledIn(Log(p), Pending(p))) \subseteq Seq(SettledIn(Log(p)', Pending(p)'))
<1>1. SettledIn(Log(p), Pending(p)) \subseteq SettledIn(Log(p)', Pending(p)')
    BY DEF WaitStays, SettledIn
<1>2. \A S, T : S \subseteq T => Seq(S) \subseteq Seq(T)
    OBVIOUS
<1> QED
    BY <1>1, <1>2, Zenon

\* Nothing that was logged before begins to wait, or ceases to, when an edit
\* is made or a duplicate comes in.
LEMMA IssueWaitStays ==
    ASSUME IndInv, NEW p \in Peers, ApplyLocal(p), NEW q \in Peers
    PROVE  WaitStays(q)
<1>1. PICK operation \in Edits[p] : Issue(p, operation)
    BY DEF ApplyLocal
<1> DEFINE o == Stamp(crdt[p], p, operation)
<1>2. /\ o \in TaggedOp /\ \A x \in sent : x.op_id # o.op_id
      /\ crdt' = [crdt EXCEPT ![p] = Perform(crdt[p], o)]
    BY <1>1, EditIsOperation, StampIsFresh DEF Issue
<1> HIDE DEF o
<1>3. o \notin Log(p) /\ crdt \in [Peers -> Timeline]
    BY <1>2 DEF IndInv, ClockCoversLog, TypeOK
<1>4. CASE q = p
  <2>1. /\ crdt'[p].pending = crdt[p].pending
           \/ crdt'[p].pending = Append(crdt[p].pending, o)
        /\ crdt[p].pending \in Seq(TaggedOp)
      BY <1>2, <1>3 DEF Perform, Timeline
  <2>2. OpsIn(Append(crdt[p].pending, o)) = OpsIn(crdt[p].pending) \cup {o}
      BY <2>1, <1>2, AppendOps
  <2>3. Pending(p) = OpsIn(crdt[p].pending) /\ Pending(p)' = OpsIn(crdt'[p].pending)
      BY DEF Pending
  <2>4. Pending(p)' = Pending(p) \/ Pending(p)' = Pending(p) \cup {o}
      BY <2>1, <2>2, <2>3
  <2> QED
      BY <1>3, <1>4, <2>4 DEF WaitStays
<1>5. CASE q # p
    BY <1>2, <1>3, <1>5 DEF WaitStays, Pending
<1> QED
    BY <1>4, <1>5

LEMMA NextKeepsLosers ==
    ASSUME IndInv, SessionsReflect, LosersInv,
           IndInv', SessionsReflect', EventsInv', SplitsInOrder', EventsInv,
           [CNext]_cvars, [Next]_vars
    PROVE  LosersInv'
<1>1. ASSUME NEW q \in Peers, WaitStays(q)
      PROVE  /\ events[q] \in Seq(SettledIn(Log(q)', Pending(q)'))
             /\ shown[q] \in Seq(SettledIn(Log(q)', Pending(q)'))
    BY <1>1, LogGrows, SettledStays DEF LosersInv
<1>2. ASSUME \A q \in Peers : WaitStays(q), UNCHANGED <<events, shown>>
      PROVE  LosersInv'
    BY <1>1, <1>2 DEF LosersInv
<1>3. ASSUME UNCHANGED crdt
      PROVE  \A q \in Peers : WaitStays(q)
    BY <1>3 DEF WaitStays, Pending
<1>t. /\ crdt \in [Peers -> Timeline]
      /\ events \in [Peers -> Seq(ResolutionEvent)]
      /\ shown \in [Peers -> Seq(ResolutionEvent)]
    BY DEF EventsInv, IndInv, TypeOK
<1>4. ASSUME NEW p \in Peers, Local(p)
      PROVE  LosersInv'
    BY <1>2, <1>4, IssueWaitStays DEF Local
<1>5. ASSUME NEW p \in Peers, NEW o \in sent, Remote(p, o)
      PROVE  LosersInv'
  <2>1. crdt' = [crdt EXCEPT ![p] = Receive(crdt[p], o)]
      BY <1>5 DEF Remote, ApplyRemote
  <2>2. CASE o.op_id \in crdt[p].seen
    <3>1. crdt' = crdt
        BY <1>t, <2>1, <2>2 DEF Receive
    <3>2. events' = [events EXCEPT ![p] = events[p]] /\ shown' = shown
        BY <1>5, <2>2 DEF Remote
    <3>3. events' = events
        BY <1>t, <3>2
    <3> QED
        BY <1>2, <1>3, <3>1, <3>2, <3>3
  <2>3. CASE o.op_id \notin crdt[p].seen
    <3>1. ASSUME NEW q \in Peers
          PROVE  /\ events'[q] \in Seq(SettledIn(Log(q)', Pending(q)'))
                 /\ shown'[q] \in Seq(SettledIn(Log(q)', Pending(q)'))
      <4>1. CASE q = p
        <5>1. GenuineIn(Log(p)') \subseteq SettledIn(Log(p)', Pending(p)')
            BY <1>5, <2>3, ReceivingSettles DEF Remote
        <5>2. \A S, T : S \subseteq T => Seq(S) \subseteq Seq(T)
            OBVIOUS
        <5>3. events'[p] \in Seq(GenuineIn(Log(p)')) /\ shown'[p] \in Seq(GenuineIn(Log(p)'))
            BY DEF EventsInv
        <5>4. /\ events'[p] \in Seq(SettledIn(Log(p)', Pending(p)'))
              /\ shown'[p] \in Seq(SettledIn(Log(p)', Pending(p)'))
            BY <5>1, <5>2, <5>3, Zenon
        <5> QED
            BY <4>1, <5>4
      <4>2. CASE q # p
        <5>1. crdt'[q] = crdt[q] /\ events'[q] = events[q] /\ shown'[q] = shown[q]
            BY <1>t, <1>5, <2>1, <4>2 DEF Remote
        <5>2. WaitStays(q)
            BY <5>1 DEF WaitStays, Pending
        <5> QED
            BY <1>1, <5>1, <5>2
      <4> QED
          BY <4>1, <4>2
    <3> QED
        BY <3>1 DEF LosersInv
  <2> QED
      BY <2>2, <2>3
<1>6. ASSUME NEW p \in Peers, TakeResolutionEvents(p)
      PROVE  LosersInv'
  <2>1. /\ shown' = [shown EXCEPT ![p] = shown[p] \o events[p]]
        /\ events' = [events EXCEPT ![p] = <<>>]
        /\ \A q \in Peers : WaitStays(q)
      BY <1>3, <1>6 DEF TakeResolutionEvents, vars
  <2>2. ASSUME NEW q \in Peers
        PROVE  /\ events'[q] \in Seq(SettledIn(Log(q)', Pending(q)'))
               /\ shown'[q] \in Seq(SettledIn(Log(q)', Pending(q)'))
    <3> DEFINE Good == Seq(SettledIn(Log(q)', Pending(q)'))
    <3>1. events[q] \in Good /\ shown[q] \in Good
        BY <1>1, <2>1
    <3>2. <<>> \in Good /\ \A x, y \in Good : x \o y \in Good
        OBVIOUS
    <3> HIDE DEF Good
    <3>3. shown[q] \o events[q] \in Good
        BY <3>1, <3>2
    <3>4. ASSUME q = p
          PROVE  events'[q] \in Good /\ shown'[q] \in Good
      <4>1. events'[q] = <<>> /\ shown'[q] = shown[q] \o events[q]
          BY <1>t, <2>1, <3>4
      <4> QED
          BY <4>1, <3>2, <3>3
    <3>5. ASSUME q # p
          PROVE  events'[q] \in Good /\ shown'[q] \in Good
      <4>1. events'[q] = events[q] /\ shown'[q] = shown[q]
          BY <1>t, <2>1, <3>5
      <4> QED
          BY <4>1, <3>1
    <3>6. events'[q] \in Good /\ shown'[q] \in Good
        BY <3>4, <3>5
    <3> QED
        BY <3>6 DEF Good
  <2> QED
      BY <2>2 DEF LosersInv
<1>7. CASE UNCHANGED cvars
    BY <1>2, <1>3, <1>7 DEF cvars, vars
<1> QED
    BY <1>4, <1>5, <1>6, <1>7 DEF CNext

\* A reported loser is not among the tags and the pieces of its clip.
LEMMA LosersAreGone ==
    ASSUME IndInv, SessionsReflect, SplitsInOrder, LosersInv
    PROVE  LosersLeaveNoTrace
<1> SUFFICES ASSUME NEW p \in Peers, NEW i \in DOMAIN Reported(p), NEW o \in Applied(p),
                    o.op_id = Reported(p)[i].op, ~Reported(p)[i].op_won
             PROVE  LET e    == Reported(p)[i]
                        clip == crdt[p].session.clips[e.clip_id]
                    IN  CASE e.kind = "MoveClip" -> clip.regs["track"].tag # e.op
                          [] e.kind = "DeleteClip" -> clip.alive.tag # e.op
                          [] OTHER -> <<o.operation.split_frame, o.operation.new_clip>>
                                         \notin clip.splits
    BY DEF LosersLeaveNoTrace
<1> DEFINE e == Reported(p)[i]
<1>1. e \in SettledIn(Log(p), Pending(p))
  <2> DEFINE list == Reported(p)
             Good == SettledIn(Log(p), Pending(p))
  <2>1. \A S : \A x, y \in Seq(S) : x \o y \in Seq(S)
      OBVIOUS
  <2>2. list \in Seq(Good)
      BY <2>1, Zenon DEF Reported, LosersInv
  <2>3. i \in DOMAIN list
      OBVIOUS
  <2> HIDE DEF list, Good
  <2>4. list[i] \in Good
      BY <2>2, <2>3
  <2> QED
      BY <2>4 DEF list, Good
<1> HIDE DEF e
<1>2. /\ Log(p) \in SUBSET Stamped /\ \A x, y \in Log(p) : x.op_id = y.op_id => x = y
      /\ Log(p) \subseteq sent
    BY ReplicaFacts DEF IndInv, ClockCoversLog
<1>3. PICK a \in Log(p), b \in Log(p) : Tells(e, a, b) /\ (b \in Pending(p) => a \in Pending(p))
    BY <1>1 DEF SettledIn
<1>4. a = o
    BY <1>2, <1>3 DEF Tells, Applied, e
<1>5. a \in Applied(p) /\ b \in Applied(p)
    BY <1>3, <1>4 DEF Applied
<1>6. /\ Reflects(crdt[p].session, Applied(p), Log(p))
      /\ Applied(p) \in SUBSET Stamped
      /\ OneSplitPerPiece(Log(p)) /\ NoSelfSplit(Applied(p))
    BY <1>2 DEF SessionsReflect, Applied, SplitsInOrder, OneSplitPerPiece, NoSelfSplit
<1>7. e \in ResolutionEvent /\ ~e.op_won
    BY <1>1 DEF SettledIn, e
<1>8. LET clip == crdt[p].session.clips[e.clip_id]
      IN  CASE e.kind = "MoveClip" -> clip.regs["track"].tag # e.op
            [] e.kind = "DeleteClip" -> clip.alive.tag # e.op
            [] OTHER -> <<a.operation.split_frame, a.operation.new_clip>>
                           \notin clip.splits
    BY <1>2, <1>3, <1>5, <1>6, <1>7, LoserIsGone
<1> QED
    BY <1>4, <1>8 DEF e

\* An operation that is reported to have lost (observe_resolution) leaves no
\* trace in the session, as long as the id of a piece is used for one split
\* only and no split names its own clip as the piece.  That the operation it
\* lost against has been applied wherever it has is what drain_pending sees to.
THEOREM LosersTheorem == CSpec => [](SplitsInOrder => LosersLeaveNoTrace)
<1> DEFINE Inv == /\ IndInv /\ SessionsReflect /\ EventsInv
                  /\ (SplitsInOrder => LosersInv)
<1>1. CInit => LosersInv
  <2>1. \A S : <<>> \in Seq(S)
      OBVIOUS
  <2> QED
      BY <2>1 DEF CInit, LosersInv
<1>2. IndInv /\ [Next]_vars /\ SplitsInOrder' => SplitsInOrder
  <2>1. [Next]_vars => sent \subseteq sent'
      BY DEF Next, vars, ApplyLocal, Issue, ApplyRemote
  <2> QED
      BY <2>1 DEF SplitsInOrder, OneSplitPerPiece, NoSelfSplit
<1>3. ASSUME IndInv, SessionsReflect, EventsInv, SplitsInOrder => LosersInv,
             IndInv', SessionsReflect', EventsInv', [CNext]_cvars
      PROVE  (SplitsInOrder => LosersInv)'
  <2>1. [Next]_vars
      BY <1>3, StepIsEngineStep
  <2> QED
      BY <1>2, <1>3, <2>1, NextKeepsLosers
<1>4. CSpec => [](IndInv /\ EventsInv)
    BY EventsInvariance, PTL
<1>5. CSpec => []SessionsReflect
    BY SessionInvariance, CSpecImpliesSpec, PTL
<1>6. CSpec => [](SplitsInOrder => LosersInv)
    BY <1>1, <1>3, <1>4, <1>5, PTL DEF CSpec
<1>7. IndInv /\ SessionsReflect /\ (SplitsInOrder => LosersInv)
          => (SplitsInOrder => LosersLeaveNoTrace)
    BY LosersAreGone
<1> QED
    BY <1>4, <1>5, <1>6, <1>7, PTL

-----------------------------------------------------------------------------
(* The view                                                                *)

\* A set of numbers up to n that has an element has a greatest one.
LEMMA HasGreatest ==
    ASSUME NEW n \in Nat, NEW S \in SUBSET (0..n), S # {}
    PROVE  \E m \in S : \A j \in S : j <= m
<1> DEFINE Down == {n - k : k \in S}
<1>1. Down \in SUBSET Nat /\ Down # {}
    <2>1. \A k \in S : k \in 0..n /\ n - k \in Nat
        OBVIOUS
    <2>2. \E k \in S : n - k \in Down
        OBVIOUS
    <2> QED
        BY <2>1, <2>2
<1>2. PICK m \in Down : \A j \in Down : m <= j
    <2> HIDE DEF Down
    <2> QED
        BY <1>1, NoLeast
<1>3. PICK k \in S : m = n - k
    BY <1>2
<1>4. ASSUME NEW j \in S PROVE j <= k
    <2>1. n - j \in Down
        OBVIOUS
    <2>2. n - k <= n - j
        BY <1>2, <1>3, <2>1
    <2>3. j \in 0..n /\ k \in 0..n
        OBVIOUS
    <2> HIDE DEF Down
    <2> QED
        BY <2>2, <2>3
<1> QED
    BY <1>4

\* One step up a chain.
Above(s, x) == IF x = Vacant THEN Vacant ELSE ParentOf(s, x)

\* up lists the first n clips above c.
IsChain(up, s, c, n) ==
    up = [k \in 0..n |-> IF k = 0 THEN c ELSE Above(s, up[k - 1])]

\* Whatever the parents are, the chain of the first n clips up from one is
\* defined: were there a smallest n without it, the one for n - 1 could be
\* extended.
LEMMA ChainExists ==
    ASSUME NEW s, NEW c, NEW n \in Nat
    PROVE  \E up : IsChain(up, s, c, n)
<1> DEFINE Bad == {m \in Nat : ~\E up : IsChain(up, s, c, m)}
<1>1. ASSUME NEW m \in Bad, \A j \in Bad : m <= j
      PROVE  FALSE
    <2>1. CASE m = 0
        <3> DEFINE f == [k \in 0..0 |-> c]
        <3>1. f = [k \in 0..0 |-> IF k = 0 THEN c ELSE Above(s, f[k - 1])]
            <4>1. \A k \in 0..0 : c = IF k = 0 THEN c ELSE Above(s, f[k - 1])
                OBVIOUS
            <4> QED
                BY <4>1
        <3>2. IsChain(f, s, c, 0)
            BY <3>1 DEF IsChain
        <3> HIDE DEF f
        <3> QED
            BY <2>1, <3>2
    <2>2. CASE m # 0
        <3>1. m - 1 \in Nat /\ m - 1 \notin Bad
            BY <1>1, <2>2
        <3>2. PICK f : IsChain(f, s, c, m - 1)
            BY <3>1
        <3> DEFINE g == [k \in 0..m |->
                            IF k = m THEN Above(s, f[m - 1]) ELSE f[k]]
        <3>3. ASSUME NEW k \in 0..m
              PROVE  g[k] = IF k = 0 THEN c ELSE Above(s, g[k - 1])
            <4>1. CASE k = m
                <5>1. g[k] = Above(s, f[m - 1]) /\ g[k - 1] = f[m - 1]
                    BY <2>2, <3>1, <4>1
                <5> QED
                    BY <2>2, <4>1, <5>1
            <4>2. CASE k # m
                <5>1. k \in 0..(m - 1) /\ g[k] = f[k]
                    BY <1>1, <4>2
                <5>2. f[k] = IF k = 0 THEN c ELSE Above(s, f[k - 1])
                    BY <3>2, <5>1 DEF IsChain
                <5>3. k # 0 => k - 1 \in 0..m /\ k - 1 # m /\ g[k - 1] = f[k - 1]
                    BY <5>1
                <5> QED
                    BY <5>1, <5>2, <5>3
            <4> QED
                BY <4>1, <4>2
        <3>4. g = [k \in 0..m |-> g[k]]
            OBVIOUS
        <3>5. IsChain(g, s, c, m)
            <4> HIDE DEF g
            <4> QED
                BY <3>3, <3>4 DEF IsChain
        <3> HIDE DEF g
        <3> QED
            BY <3>5
    <2> QED
        BY <2>1, <2>2
<1>2. Bad = {}
    <2> HIDE DEF Bad
    <2>1. Bad \subseteq Nat
        BY DEF Bad
    <2> QED
        BY <1>1, <2>1, NoLeast
<1> QED
    BY <1>2

\* The loop of resolve_clip goes from a clip to the clip it was split from.
LEMMA ChainSteps ==
    ASSUME NEW s, NEW c, Depth \in Nat
    PROVE  /\ Chain(s, c)[0] = c
           /\ \A k \in 1..Depth : Chain(s, c)[k] = Above(s, Chain(s, c)[k - 1])
<1> DEFINE chain == CHOOSE up : IsChain(up, s, c, Depth)
<1>1. Chain(s, c) = chain
    BY DEF Chain, Above, IsChain
<1>2. IsChain(chain, s, c, Depth)
    <2>1. \E up : IsChain(up, s, c, Depth)
        BY ChainExists
    <2> QED
        BY <2>1
<1>3. \A k \in 0..Depth :
            chain[k] = IF k = 0 THEN c ELSE Above(s, chain[k - 1])
    <2> HIDE DEF chain
    <2> QED
        BY <1>2 DEF IsChain
<1> HIDE DEF chain
<1> QED
    BY <1>1, <1>3

\* Above the first clip, the chain of a clip is that of its parent.
LEMMA ChainOfParent ==
    ASSUME NEW s, NEW c, Depth \in Nat, c # Vacant
    PROVE  \A k \in 0..(Depth - 1) :
                Chain(s, ParentOf(s, c))[k] = Chain(s, c)[k + 1]
<1> DEFINE up == Chain(s, c)
           above == Chain(s, ParentOf(s, c))
           Bad == {m \in 0..(Depth - 1) : above[m] # up[m + 1]}
<1>1. /\ up[0] = c /\ \A k \in 1..Depth : up[k] = Above(s, up[k - 1])
      /\ above[0] = ParentOf(s, c)
      /\ \A k \in 1..Depth : above[k] = Above(s, above[k - 1])
    BY ChainSteps
<1> HIDE DEF up, above
<1>2. ASSUME NEW m \in Bad, \A j \in Bad : m <= j
      PROVE  FALSE
    <2>1. m \in 0..(Depth - 1) /\ above[m] # up[m + 1] /\ m + 1 \in 1..Depth
        OBVIOUS
    <2>2. CASE m = 0
        <3>1. up[1] = Above(s, up[0])
            BY <1>1, <2>1, <2>2
        <3> QED
            BY <1>1, <2>1, <2>2, <3>1 DEF Above
    <2>3. CASE m # 0
        <3>1. m - 1 \in 0..(Depth - 1) /\ m - 1 \notin Bad /\ (m - 1) + 1 = m
            BY <1>2, <2>1, <2>3
        <3>2. above[m - 1] = up[m]
            BY <3>1
        <3>3. above[m] = Above(s, above[m - 1])
            BY <1>1, <2>1, <2>3
        <3>4. up[m + 1] = Above(s, up[m])
            <4>1. up[m + 1] = Above(s, up[(m + 1) - 1]) /\ (m + 1) - 1 = m
                BY <1>1, <2>1
            <4> QED
                BY <4>1
        <3> QED
            BY <2>1, <3>2, <3>3, <3>4
    <2> QED
        BY <2>2, <2>3
<1>3. Bad = {}
    <2>1. Bad \subseteq Nat
        OBVIOUS
    <2> HIDE DEF Bad
    <2> QED
        BY <1>2, <2>1, NoLeast
<1> QED
    BY <1>3 DEF up, above

\* A clip that has not written a field shows what the clip it was split from
\* shows: the last clip of the chain that is open for the field is the same,
\* counted from either.
LEMMA InheritsFromParent ==
    ASSUME NEW s, NEW c \in ClipId, NEW f,
           ~Cyclic(s, c), ParentOf(s, c) # Vacant,
           Unwritten(s.clips[c].regs[f])
    PROVE  Inherited(s, c, f) = Inherited(s, ParentOf(s, c), f)
<1> DEFINE up == Chain(s, c)
           above == Chain(s, ParentOf(s, c))
           Open(ch) == {k \in 0..(Depth - 1) :
                            /\ ch[k] # Vacant /\ ch[k + 1] # Vacant
                            /\ Unwritten(s.clips[ch[k]].regs[f])}
           Last(S) == CHOOSE k \in S : \A j \in S : j <= k
           From(S) == IF S = {} THEN 0 ELSE 1 + Last(S)
<1>1. Depth \in Nat /\ c # Vacant
    BY ViewAssumption, FS_CardinalityType DEF Depth
<1>2. /\ up[0] = c /\ \A k \in 1..Depth : up[k] = Above(s, up[k - 1])
      /\ above[0] = ParentOf(s, c)
      /\ \A k \in 1..Depth : above[k] = Above(s, above[k - 1])
    BY <1>1, ChainSteps
<1>3. \A k \in 0..(Depth - 1) : above[k] = up[k + 1]
    BY <1>1, ChainOfParent
<1>4. up[Depth] = Vacant
    BY DEF Cyclic
<1>5. /\ Inherited(s, c, f) = s.clips[up[From(Open(up))]].regs[f].value
      /\ Inherited(s, ParentOf(s, c), f)
            = s.clips[above[From(Open(above))]].regs[f].value
    BY DEF Inherited, InheritedAlong
<1> HIDE DEF up, above
<1>6. Depth # 0 /\ Depth # 1
    <2>1. Depth # 0
        BY <1>1, <1>2, <1>4
    <2>2. above[0] = up[1]
        BY <1>1, <1>3, <2>1
    <2> QED
        BY <1>2, <1>4, <2>1, <2>2
<1>7. 0 \in Open(up)
    <2>1. 0 \in 0..(Depth - 1) /\ above[0] = up[0 + 1]
        BY <1>1, <1>3, <1>6
    <2> QED
        BY <1>1, <1>2, <2>1
<1>8. ASSUME NEW k \in Open(above)
      PROVE  k + 1 \in Open(up) /\ k + 1 \in 0..(Depth - 1)
    <2>1. k \in 0..(Depth - 1) /\ above[k] = up[k + 1]
        BY <1>3
    <2>2. k # Depth - 1
        BY <1>1, <1>4, <2>1
    <2>3. k + 1 \in 0..(Depth - 1) /\ above[k + 1] = up[(k + 1) + 1]
        BY <1>1, <1>3, <2>1, <2>2
    <2> QED
        BY <2>1, <2>3
<1>9. ASSUME NEW k \in Open(up), k # 0
      PROVE  k - 1 \in Open(above)
    <2>1. k - 1 \in 0..(Depth - 1) /\ k \in 0..(Depth - 1) /\ (k - 1) + 1 = k
        BY <1>1, <1>9
    <2>2. above[k - 1] = up[k] /\ above[k] = up[k + 1]
        BY <1>3, <2>1
    <2> QED
        BY <2>1, <2>2
<1>10. /\ Open(up) \in SUBSET (0..Depth) /\ Open(above) \in SUBSET (0..Depth)
    BY <1>1
<1>11. \A S \in SUBSET (0..Depth) :
            S # {} => /\ Last(S) \in S /\ \A j \in S : j <= Last(S)
    <2> SUFFICES ASSUME NEW S \in SUBSET (0..Depth), S # {}
                 PROVE  /\ Last(S) \in S /\ \A j \in S : j <= Last(S)
        OBVIOUS
    <2>1. \E m \in S : \A j \in S : j <= m
        BY <1>1, HasGreatest
    <2> QED
        BY <2>1
<1> HIDE DEF Open, Last
<1>12. From(Open(up)) = 1 + From(Open(above)) /\ From(Open(above)) \in 0..(Depth - 1)
    <2> DEFINE top == Last(Open(up))
               topAbove == Last(Open(above))
    <2>1. top \in Open(up) /\ (\A j \in Open(up) : j <= top) /\ top \in Nat
        BY <1>1, <1>7, <1>10, <1>11
    <2>2. CASE Open(above) = {}
        <3>1. top = 0
            BY <1>9, <2>1, <2>2
        <3> QED
            BY <1>1, <1>6, <1>7, <2>2, <3>1
    <2>3. CASE Open(above) # {}
        <3>1. /\ topAbove \in Open(above) /\ topAbove \in Nat
              /\ \A j \in Open(above) : j <= topAbove
            BY <1>1, <1>10, <1>11, <2>3
        <3>2. topAbove + 1 \in Open(up) /\ topAbove + 1 \in 0..(Depth - 1)
            BY <1>8, <3>1
        <3>3. top >= topAbove + 1
            BY <2>1, <3>2
        <3> HIDE DEF top, topAbove
        <3>4. top - 1 \in Open(above)
            BY <1>9, <2>1, <3>1, <3>3
        <3>5. top - 1 <= topAbove
            BY <3>1, <3>4
        <3>6. top = 1 + topAbove
            BY <2>1, <3>1, <3>3, <3>5
        <3>7. Open(up) # {}
            BY <1>7
        <3>8. /\ From(Open(up)) = 1 + top
              /\ From(Open(above)) = 1 + topAbove
            BY <2>3, <3>7 DEF top, topAbove
        <3> QED
            BY <3>1, <3>2, <3>6, <3>8
    <2> QED
        BY <2>2, <2>3
<1> HIDE DEF From
<1>13. up[From(Open(up))] = above[From(Open(above))]
    <2> DEFINE n == From(Open(above))
    <2>1. n \in 0..(Depth - 1) /\ From(Open(up)) = n + 1
        BY <1>1, <1>12
    <2> HIDE DEF n
    <2>2. above[n] = up[n + 1]
        BY <1>3, <2>1
    <2> QED
        BY <2>1, <2>2 DEF n
<1> QED
    BY <1>5, <1>13

\* At any depth and whatever arrives, renaming the original renames every
\* piece that has no name of its own, and so for every field.
THEOREM PiecesFollow == Spec => []UnwrittenFollowsParent
<1>1. UnwrittenFollowsParent
    BY InheritsFromParent DEF UnwrittenFollowsParent, Clips
<1> QED
    BY <1>1, PTL

-----------------------------------------------------------------------------
(* Applying an operation again                                             *)

\* A write that a register has taken is not taken again.
LEMMA SetAgain ==
    ASSUME NEW reg, NEW W, IsTop(reg, W), NEW v, NEW tag, Written(v, tag) \in W
    PROVE  Set(reg, v, tag) = reg
<1>1. Written(v, tag).tag = tag
    BY DEF Written
<1> QED
    BY <1>1 DEF IsTop, Set

\* Nor are those of an operation that writes several.
LEMMA SetAllAgain ==
    ASSUME NEW F, NEW regs \in [F -> Register(Nat)], NEW ops, NEW o \in ops,
           \A f \in F : IsTop(regs[f], WritesTo(ops, f))
    PROVE  SetAll(regs, o.operation.writes, o.op_id) = regs
<1> DEFINE writes == o.operation.writes
<1>1. ASSUME NEW f \in F, f \in DOMAIN writes
      PROVE  Set(regs[f], writes[f], o.op_id) = regs[f]
    <2>1. Written(writes[f], o.op_id) \in WritesTo(ops, f)
        BY <1>1 DEF WritesTo
    <2> QED
        BY <2>1, SetAgain
<1>2. \A f \in F :
        (IF f \in DOMAIN writes THEN Set(regs[f], writes[f], o.op_id)
         ELSE regs[f]) = regs[f]
    BY <1>1
<1>3. DOMAIN regs = F /\ regs = [f \in F |-> regs[f]]
    OBVIOUS
<1> HIDE DEF writes
<1>4. SetAll(regs, writes, o.op_id) = [f \in F |-> regs[f]]
    BY <1>2, <1>3 DEF SetAll
<1> QED
    BY <1>3, <1>4 DEF writes

\* A liveness register takes no write twice either.
LEMMA SetAliveAgain ==
    ASSUME NEW reg, NEW ops, NEW o \in ops, IsTop(reg, AliveWrites(ops)),
           o.operation.type # "SplitClip"
    PROVE  SetAlive(reg, o.operation, o.op_id) = reg
<1>1. o.operation.type \in Reviving \cup Burying
        => Written(o.operation.type \in Reviving, o.op_id) \in AliveWrites(ops)
    BY DEF AliveWrites
<1>2. CASE o.operation.type \in {"InsertClip", "InsertTrack"}
    <2>1. (o.operation.type \in Reviving) = TRUE
        BY <1>2 DEF Reviving
    <2>2. Written(TRUE, o.op_id) \in AliveWrites(ops)
        BY <1>1, <2>1
    <2>3. Set(reg, TRUE, o.op_id) = reg
        BY <2>2, SetAgain
    <2> QED
        BY <1>2, <2>3 DEF SetAlive
<1>3. CASE o.operation.type \in {"DeleteClip", "DeleteTrack"}
    <2>1. ~(o.operation.type \in Reviving) /\ o.operation.type \in Burying
        BY <1>3 DEF Reviving, Burying
    <2>2. (o.operation.type \in Reviving) = FALSE
        BY <2>1
    <2>3. Written(FALSE, o.op_id) \in AliveWrites(ops)
        BY <1>1, <2>1, <2>2
    <2>4. Set(reg, FALSE, o.op_id) = reg
        BY <2>3, SetAgain
    <2> QED
        BY <1>3, <2>4 DEF SetAlive
<1> QED
    BY <1>2, <1>3 DEF SetAlive

\* A clip edit that has been applied changes nothing.
LEMMA ClipEditAgain ==
    ASSUME NEW s \in SessionState, NEW ops \in SUBSET Stamped, NEW o \in ops,
           o.operation \in ClipEdit,
           ClipReflects(s, ops, o.operation.clip),
           ClipStructure(s, ops, o.operation.clip)
    PROVE  ApplyClipEdit(s, o.operation, o.op_id) = Ok(s)
<1> DEFINE op == o.operation
           c  == op.clip
           k  == s.clips[c]
           edits == EditsOfClip(ops, c)
           life == edits \cup SplitsInto(ops, c)
           new == ApplyToClip(k, op, o.op_id)
<1>1. c \in ClipId /\ o \in edits /\ o \in life /\ op.type # "SplitClip"
    BY DEF ClipEdit, EditsOfClip
<1>2. Exists(s.clips, c)
    BY <1>1 DEF ClipReflects
<1>3. k \in Clip /\ s.clips \in ClipMap
    BY <1>1, <1>2, ClipsOf DEF Exists, ClipMap
<1>4. SetAlive(k.alive, op, o.op_id) = k.alive
    <2>1. IsTop(k.alive, AliveWrites(life))
        BY <1>2 DEF ClipStructure
    <2> HIDE DEF life, k, c
    <2> QED
        BY <1>1, <2>1, SetAliveAgain
<1>5. SetAll(k.regs, op.writes, o.op_id) = k.regs
    <2>1. \A f \in ClipField : IsTop(k.regs[f], WritesTo(edits, f))
        BY <1>2 DEF ClipReflects
    <2>2. k.regs \in [ClipField -> Register(Nat)]
        BY <1>3 DEF Clip
    <2> HIDE DEF edits, k, c
    <2> QED
        BY <1>1, <2>1, <2>2, SetAllAgain
<1>6. (k.detached \/ op.type \in {"MoveClip", "TrimClip"}) = k.detached
    <2>1. op.type \in {"MoveClip", "TrimClip"} => k.detached
        BY <1>1, <1>2 DEF ClipReflects
    <2>2. k.detached \in BOOLEAN
        BY <1>3 DEF Clip
    <2> HIDE DEF k
    <2> QED
        BY <2>1, <2>2
<1>7. new = k
    <2> HIDE DEF k, c, edits, life
    <2>1. new = [k EXCEPT !.alive = k.alive, !.regs = k.regs,
                          !.detached = k.detached]
        BY <1>4, <1>5, <1>6 DEF ApplyToClip
    <2> QED
        BY <1>3, <2>1 DEF Clip
<1>8. ApplyClipEdit(s, op, o.op_id) = Ok([s EXCEPT !.clips[c] = new])
    BY <1>2 DEF ApplyClipEdit
<1>9. [s EXCEPT !.clips[c] = k] = s
    <2>1. [s.clips EXCEPT ![c] = k] = s.clips
        BY <1>3 DEF ClipMap
    <2>2. [s EXCEPT !.clips[c] = k] = [s EXCEPT !.clips = s.clips]
        BY <2>1
    <2> QED
        BY <2>2 DEF SessionState
<1> HIDE DEF new, k, c
<1> QED
    BY <1>7, <1>8, <1>9

\* A track edit that has been applied changes nothing.
LEMMA TrackEditAgain ==
    ASSUME NEW s \in SessionState, NEW ops \in SUBSET Stamped, NEW o \in ops,
           o.operation \in TrackEdit,
           TrackReflects(s, ops, o.operation.track)
    PROVE  ApplyTrackEdit(s, o.operation, o.op_id) = Ok(s)
<1> DEFINE op == o.operation
           c  == op.track
           k  == s.tracks[c]
           edits == EditsOfTrack(ops, c)
<1>1. c \in TrackId /\ o \in edits /\ op.type # "SplitClip"
    BY DEF TrackEdit, EditsOfTrack
<1>2. Exists(s.tracks, c)
    BY <1>1 DEF TrackReflects
<1>3. k \in Track /\ s.tracks \in [TrackId -> Track \cup {Vacant}]
    BY <1>1, <1>2 DEF Exists, SessionState
<1>4. SetAlive(k.alive, op, o.op_id) = k.alive
    <2>1. IsTop(k.alive, AliveWrites(edits))
        BY <1>2 DEF TrackReflects
    <2> HIDE DEF edits, k, c
    <2> QED
        BY <1>1, <2>1, SetAliveAgain
<1>5. SetAll(k.regs, op.writes, o.op_id) = k.regs
    <2>1. \A f \in TrackField : IsTop(k.regs[f], WritesTo(edits, f))
        BY <1>2 DEF TrackReflects
    <2>2. k.regs \in [TrackField -> Register(Nat)]
        BY <1>3 DEF Track
    <2> HIDE DEF edits, k, c
    <2> QED
        BY <1>1, <2>1, <2>2, SetAllAgain
<1>6. ApplyTrackEdit(s, op, o.op_id) =
        Ok([s EXCEPT !.tracks[c].alive = k.alive, !.tracks[c].regs = k.regs])
    <2>1. ApplyTrackEdit(s, op, o.op_id) =
            Ok([s EXCEPT !.tracks[c].alive = SetAlive(@, op, o.op_id),
                         !.tracks[c].regs = SetAll(@, op.writes, o.op_id)])
        BY <1>2 DEF ApplyTrackEdit
    <2>2. [s EXCEPT !.tracks[c].alive = SetAlive(@, op, o.op_id),
                    !.tracks[c].regs = SetAll(@, op.writes, o.op_id)] =
          [s EXCEPT !.tracks[c].alive = SetAlive(k.alive, op, o.op_id),
                    !.tracks[c].regs = SetAll(k.regs, op.writes, o.op_id)]
        BY <1>1, <1>3 DEF SessionState, Track
    <2> QED
        BY <1>4, <1>5, <2>1, <2>2
<1>7. [s EXCEPT !.tracks[c].alive = k.alive, !.tracks[c].regs = k.regs] = s
    <2>1. [k EXCEPT !.alive = k.alive, !.regs = k.regs] = k
        <3> HIDE DEF k
        <3> QED
            BY <1>3 DEF Track
    <2>2. [s.tracks EXCEPT ![c] = [k EXCEPT !.alive = k.alive, !.regs = k.regs]]
            = s.tracks
        BY <1>3, <2>1
    <2>3. [s EXCEPT !.tracks[c].alive = k.alive, !.tracks[c].regs = k.regs] =
          [s EXCEPT !.tracks =
            [s.tracks EXCEPT ![c] = [k EXCEPT !.alive = k.alive, !.regs = k.regs]]]
        BY <1>1, <1>3 DEF SessionState
    <2> QED
        BY <2>2, <2>3 DEF SessionState
<1> QED
    BY <1>6, <1>7

\* An envelope edit that has been applied changes nothing.
LEMMA EnvelopeAgain ==
    ASSUME NEW s \in SessionState, NEW ops \in SUBSET Stamped, NEW o \in ops,
           o.operation \in EnvelopeEdit,
           \A e \in Target : IsTop(s.envelopes[e], EnvelopeWrites(ops, e)),
           \A e \in Target : EnvelopeWrites(ops, e) # {} => TargetExists(s, e)
    PROVE  ApplyEnvelope(s, o.operation, o.op_id) = Ok(s)
<1> DEFINE op == o.operation
           e  == op.target
<1>1. e \in Target
    BY DEF EnvelopeEdit
<1>2. Written(op.points, o.op_id) \in EnvelopeWrites(ops, e)
    BY DEF EnvelopeWrites
<1>3. TargetExists(s, e)
    BY <1>1, <1>2
<1>4. Set(s.envelopes[e], op.points, o.op_id) = s.envelopes[e]
    BY <1>1, <1>2, SetAgain
<1>5. ApplyEnvelope(s, op, o.op_id) =
        Ok([s EXCEPT !.envelopes[e] = Set(@, op.points, o.op_id)])
    BY <1>3 DEF ApplyEnvelope
<1>6. [s EXCEPT !.envelopes[e] = Set(@, op.points, o.op_id)] =
      [s EXCEPT !.envelopes[e] = s.envelopes[e]]
    BY <1>4
<1>7. [s EXCEPT !.envelopes[e] = s.envelopes[e]] = s
    <2>1. [s.envelopes EXCEPT ![e] = s.envelopes[e]] = s.envelopes
        BY <1>1 DEF SessionState
    <2>2. [s EXCEPT !.envelopes[e] = s.envelopes[e]] =
          [s EXCEPT !.envelopes = s.envelopes]
        BY <2>1
    <2> QED
        BY <2>2 DEF SessionState
<1> QED
    BY <1>5, <1>6, <1>7

\* An edit of the session's metadata that has been applied changes nothing.
LEMMA MetadataAgain ==
    ASSUME NEW s \in SessionState, NEW ops \in SUBSET Stamped, NEW o \in ops,
           o.operation \in MetadataEdit,
           \A f \in MetaField :
                IsTop(s.metadata[f], WritesTo(MetadataEdits(ops), f))
    PROVE  Apply(s, o.operation, o.op_id) = Ok(s)
<1>1. o \in MetadataEdits(ops) /\ o.operation.type = "UpdateSessionMetadata"
    BY DEF MetadataEdits, MetadataEdit
<1>2. s.metadata \in [MetaField -> Register(Nat)]
    BY DEF SessionState
<1>3. SetAll(s.metadata, o.operation.writes, o.op_id) = s.metadata
    BY <1>1, <1>2, SetAllAgain
<1>4. Apply(s, o.operation, o.op_id) =
        Ok([s EXCEPT !.metadata = SetAll(@, o.operation.writes, o.op_id)])
    BY <1>1 DEF Apply
<1>5. [s EXCEPT !.metadata = SetAll(@, o.operation.writes, o.op_id)] = s
    BY <1>3 DEF SessionState
<1> QED
    BY <1>4, <1>5

\* A split that has been applied changes nothing: its piece is still where the
\* split put it, and the cut is still recorded in the clip.
LEMMA SplitAgain ==
    ASSUME NEW s \in SessionState, NEW ops \in SUBSET Stamped, NEW o \in ops,
           o.operation \in SplitEdit,
           \A c \in ClipId : ClipReflects(s, ops, c) /\ ClipStructure(s, ops, c)
    PROVE  ApplySplit(s, o.operation, o.op_id) = Ok(s)
<1> DEFINE op  == o.operation
           c   == op.clip
           new == op.new_clip
           r   == ApplySplit(s, op, o.op_id)
<1>1. CASE c = new
    BY <1>1 DEF ApplySplit
<1>2. CASE c # new
    <2>1. /\ c \in ClipId /\ new \in ClipId /\ op.split_frame \in Nat
          /\ op.type = "SplitClip" /\ o.op_id \in OpTag
        BY DEF SplitEdit, Stamped, TaggedOp
    <2>2. o \in SplitsInto(ops, new) /\ Creates(op, new)
        BY <1>2, <2>1 DEF SplitsInto, Creates
    <2>3. Exists(s.clips, new)
        BY <2>1, <2>2 DEF ClipReflects
    <2>4. s.clips[new].parent = <<c, op.split_frame>>
        BY <2>1, <2>2, <2>3 DEF ClipStructure
    <2>5. <<op.split_frame, new>> \in CutsOf(ops, c)
        BY <1>2 DEF CutsOf
    <2>6. Exists(s.clips, c)
        BY <2>1, <2>5 DEF ClipStructure
    <2>7. RecordSplit(s.clips[c], op.split_frame, new) = s.clips[c]
        <3>1. IsLeast(s.clips[c].splits, CutsOf(ops, c))
            BY <2>1, <2>6 DEF ClipStructure
        <3>2. \E e \in s.clips[c].splits :
                    e[1] = op.split_frame /\ e[2] <= new
            BY <2>5, <3>1 DEF IsLeast
        <3> QED
            BY <3>2 DEF RecordSplit
    <2>8. [s.clips[new] EXCEPT !.alive = Set(@, TRUE, o.op_id)] = s.clips[new]
        <3> DEFINE k == s.clips[new]
                   life == EditsOfClip(ops, new) \cup SplitsInto(ops, new)
        <3>1. k \in Clip
            BY <2>1, <2>3 DEF SessionState, Exists
        <3>2. IsTop(k.alive, AliveWrites(life))
            BY <2>1, <2>3 DEF ClipStructure
        <3>3. Written(TRUE, o.op_id) \in AliveWrites(life)
            <4>1. o \in life
                BY <2>2
            <4>2. (op.type \in Reviving) = TRUE
                BY <2>1 DEF Reviving
            <4> QED
                BY <4>1, <4>2 DEF AliveWrites
        <3> HIDE DEF k, life
        <3>4. Set(k.alive, TRUE, o.op_id) = k.alive
            <4> DEFINE writes == AliveWrites(life)
            <4>1. IsTop(k.alive, writes) /\ Written(TRUE, o.op_id) \in writes
                BY <3>2, <3>3
            <4> HIDE DEF writes
            <4> QED
                BY <4>1 DEF IsTop, Set, Written
        <3>5. [k EXCEPT !.alive = Set(@, TRUE, o.op_id)] = k
            BY <3>1, <3>4 DEF Clip
        <3> QED
            BY <3>5 DEF k
    <2>9. /\ r.ok
          /\ \A x \in ClipId \ {c, new} : r.session.clips[x] = s.clips[x]
          /\ r.session.clips[c] = s.clips[c]
          /\ r.session.clips[new] = s.clips[new]
        BY <1>2, <2>1, <2>3, <2>4, <2>6, <2>7, <2>8, SplitOutcome
    <2>10. Apply(s, op, o.op_id) = r /\ op \in Operation
        BY ApplyDispatch DEF Operation
    <2>11. r \in [ok : BOOLEAN, session : SessionState]
        <3>1. Apply(s, op, o.op_id) \in [ok : BOOLEAN, session : SessionState]
            BY <2>1, <2>10, ApplyTyped
        <3> QED
            BY <2>10, <3>1
    <2>12. /\ r.session.tracks = s.tracks
           /\ r.session.envelopes = s.envelopes
           /\ r.session.metadata = s.metadata
        <3>1. op \notin TrackEdit \cup EnvelopeEdit \cup MetadataEdit
            BY <2>10, KindsApart
        <3>2. /\ Apply(s, op, o.op_id).session.tracks = s.tracks
              /\ Apply(s, op, o.op_id).session.envelopes = s.envelopes
              /\ Apply(s, op, o.op_id).session.metadata = s.metadata
            BY <2>1, <2>10, <3>1, ApplyElsewhere
        <3> QED
            BY <2>10, <3>2
    <2> HIDE DEF r
    <2>13. r.session \in SessionState /\ r = [ok |-> r.ok, session |-> r.session]
        BY <2>11
    <2>14. r.session.clips = s.clips
        <3>1. \A x \in ClipId : r.session.clips[x] = s.clips[x]
            BY <2>9
        <3> HIDE DEF c, new
        <3> QED
            BY <2>13, <3>1 DEF SessionState
    <2>15. r.session = s
        BY <2>12, <2>13, <2>14 DEF SessionState
    <2>16. r.ok = TRUE
        BY <2>9, <2>11
    <2> QED
        BY <2>13, <2>15, <2>16 DEF r, Ok
<1> QED
    BY <1>1, <1>2

\* Applying what has been applied changes nothing and succeeds.
LEMMA ApplyAgain ==
    ASSUME NEW s \in SessionState, NEW log \in SUBSET Stamped,
           NEW ops \in SUBSET log, NEW o \in ops,
           Reflects(s, ops, log), OneSplitPerPiece(log)
    PROVE  Apply(s, o.operation, o.op_id) = Ok(s)
<1> DEFINE op == o.operation
<1>1. op \in Operation /\ ops \in SUBSET Stamped
    BY DEF Stamped, TaggedOp
<1>2. /\ \A c \in ClipId : ClipReflects(s, ops, c) /\ ClipStructure(s, ops, c)
      /\ \A t \in TrackId : TrackReflects(s, ops, t)
      /\ \A e \in Target : IsTop(s.envelopes[e], EnvelopeWrites(ops, e))
      /\ \A f \in MetaField :
            IsTop(s.metadata[f], WritesTo(MetadataEdits(ops), f))
      /\ \A e \in Target : EnvelopeWrites(ops, e) # {} => TargetExists(s, e)
    BY DEF Reflects
<1>3. CASE op \in ClipEdit
    <2>1. op.clip \in ClipId
        BY <1>3 DEF ClipEdit
    <2>2. ApplyClipEdit(s, op, o.op_id) = Ok(s)
        BY <1>1, <1>2, <1>3, <2>1, ClipEditAgain
    <2> QED
        BY <1>1, <1>3, <2>2, ApplyDispatch
<1>4. CASE op \in SplitEdit
    <2>1. ApplySplit(s, op, o.op_id) = Ok(s)
        BY <1>1, <1>2, <1>4, SplitAgain
    <2> QED
        BY <1>1, <1>4, <2>1, ApplyDispatch
<1>5. CASE op \in TrackEdit
    <2>1. op.track \in TrackId
        BY <1>5 DEF TrackEdit
    <2>2. ApplyTrackEdit(s, op, o.op_id) = Ok(s)
        BY <1>1, <1>2, <1>5, <2>1, TrackEditAgain
    <2> QED
        BY <1>1, <1>5, <2>2, ApplyDispatch
<1>6. CASE op \in EnvelopeEdit
    <2>1. ApplyEnvelope(s, op, o.op_id) = Ok(s)
        BY <1>1, <1>2, <1>6, EnvelopeAgain
    <2> QED
        BY <1>1, <1>6, <2>1, ApplyDispatch
<1>7. CASE op \in MetadataEdit
    BY <1>1, <1>2, <1>7, MetadataAgain
<1> QED
    BY <1>1, <1>3, <1>4, <1>5, <1>6, <1>7 DEF Operation

-----------------------------------------------------------------------------
(* Replaying a log in the order of the tags                                *)

\* The operations of a list are finitely many.
LEMMA OpsFinite ==
    ASSUME NEW log \in Seq(TaggedOp)
    PROVE  IsFiniteSet(OpsIn(log))
<1> DEFINE n == Len(log)
           f == [i \in 1..n |-> log[i]]
<1>1. n \in Nat /\ DOMAIN log = 1..n
    OBVIOUS
<1>2. IsFiniteSet(1..n)
    <2> HIDE DEF n
    <2> QED
        BY <1>1, FS_Interval
<1>3. f \in Surjection(1..n, OpsIn(log))
    BY <1>1 DEF Surjection, OpsIn
<1> HIDE DEF f
<1> QED
    BY <1>2, <1>3, FS_Surjection

\* Operations with different ids have different ranks, below their number.
LEMMA RanksDiffer ==
    ASSUME NEW ops \in SUBSET Stamped, IsFiniteSet(ops),
           \A a, b \in ops : a.op_id = b.op_id => a = b
    PROVE  /\ \A o \in ops : Rank(o, ops) \in 0..(Cardinality(ops) - 1)
           /\ \A a, b \in ops : Rank(a, ops) = Rank(b, ops) => a = b
<1> DEFINE Before(o) == {x \in ops : TagLess(x.op_id, o.op_id)}
           n == Cardinality(ops)
<1>1. \A o \in ops : o.op_id \in OpTag
    BY DEF Stamped, TaggedOp
<1>2. n \in Nat
    BY FS_CardinalityType
<1>3. ASSUME NEW o \in ops
      PROVE  /\ IsFiniteSet(Before(o)) /\ Cardinality(Before(o)) \in Nat
             /\ Cardinality(Before(o)) <= n - 1
    <2>1. o \notin Before(o)
        BY <1>1, TagOrder
    <2>2. Before(o) \in SUBSET (ops \ {o})
        BY <2>1
    <2>3. IsFiniteSet(ops \ {o}) /\ Cardinality(ops \ {o}) = n - 1
        BY FS_RemoveElement
    <2> HIDE DEF Before, n
    <2>4. IsFiniteSet(Before(o)) /\ Cardinality(Before(o)) <= n - 1
        BY <2>2, <2>3, FS_Subset
    <2>5. Cardinality(Before(o)) \in Nat
        BY <2>4, FS_CardinalityType
    <2> QED
        BY <2>4, <2>5
<1>4. ASSUME NEW a \in ops, NEW b \in ops, TagLess(a.op_id, b.op_id)
      PROVE  Cardinality(Before(a)) # Cardinality(Before(b))
    <2>1. Before(a) \in SUBSET Before(b)
        BY <1>1, <1>4, TagOrder
    <2>2. a \in Before(b) /\ a \notin Before(a)
        BY <1>1, <1>4, TagOrder
    <2>3. IsFiniteSet(Before(b))
        BY <1>3
    <2> HIDE DEF Before
    <2>4. Cardinality(Before(b)) = Cardinality(Before(a)) => Before(b) = Before(a)
        BY <2>1, <2>3, FS_Subset
    <2> QED
        BY <2>2, <2>4
<1>5. ASSUME NEW a \in ops, NEW b \in ops, a # b
      PROVE  Cardinality(Before(a)) # Cardinality(Before(b))
    <2>1. a.op_id # b.op_id
        BY <1>5
    <2>2. TagLess(a.op_id, b.op_id) \/ TagLess(b.op_id, a.op_id)
        BY <1>1, <2>1, TagOrder
    <2> HIDE DEF Before
    <2> QED
        BY <1>4, <2>2
<1>6. \A o \in ops : Rank(o, ops) = Cardinality(Before(o))
    BY DEF Rank
<1> HIDE DEF Before, n
<1>7. \A o \in ops : Rank(o, ops) \in 0..(n - 1)
    BY <1>2, <1>3, <1>6
<1> QED
    BY <1>5, <1>6, <1>7 DEF n

\* Sorting a log loses nothing and invents nothing.
LEMMA RankSortedOps ==
    ASSUME NEW ops \in SUBSET Stamped, IsFiniteSet(ops),
           \A a, b \in ops : a.op_id = b.op_id => a = b
    PROVE  LET ranked == RankSorted(ops)
           IN  /\ Len(ranked) = Cardinality(ops) /\ Len(ranked) \in Nat
               /\ \A k \in 1..Len(ranked) : ranked[k] \in ops
               /\ \A o \in ops : \E k \in 1..Len(ranked) : ranked[k] = o
<1> DEFINE n == Cardinality(ops)
           f == [o \in ops |-> Rank(o, ops)]
           ranked == RankSorted(ops)
<1>1. n \in Nat
    BY FS_CardinalityType
<1>2. /\ \A o \in ops : Rank(o, ops) \in 0..(n - 1)
      /\ \A a, b \in ops : Rank(a, ops) = Rank(b, ops) => a = b
    BY RanksDiffer
<1>3. f \in Injection(ops, 0..(n - 1))
    <2>1. \A o \in ops : f[o] = Rank(o, ops)
        OBVIOUS
    <2>2. f \in [ops -> 0..(n - 1)]
        BY <1>2
    <2> HIDE DEF f, n
    <2>3. \A a, b \in ops : f[a] = f[b] => a = b
        BY <1>2, <2>1
    <2> QED
        BY <2>2, <2>3 DEF Injection, IsInjective
<1>4. IsFiniteSet(0..(n - 1)) /\ Cardinality(0..(n - 1)) = n
    <2>1. /\ IsFiniteSet(0..(n - 1))
          /\ Cardinality(0..(n - 1)) = IF 0 > n - 1 THEN 0 ELSE (n - 1) - 0 + 1
        <3> HIDE DEF n
        <3> QED
            BY <1>1, FS_Interval
    <2> HIDE DEF n
    <2> QED
        BY <1>1, <2>1
<1>5. f \in Surjection(ops, 0..(n - 1))
    <2>1. Cardinality(ops) = Cardinality(0..(n - 1))
        BY <1>4
    <2> HIDE DEF f, n
    <2> QED
        BY <1>3, <1>4, <2>1, FS_Injection
<1>6. ASSUME NEW k \in 1..n
      PROVE  \E o \in ops : Rank(o, ops) = k - 1
    <2>1. k - 1 \in 0..(n - 1)
        BY <1>1, <1>6
    <2> HIDE DEF n
    <2>2. PICK o \in ops : f[o] = k - 1
        BY <1>5, <2>1 DEF Surjection
    <2> QED
        BY <2>2
<1>7. ranked = [k \in 1..n |-> CHOOSE o \in ops : Rank(o, ops) = k - 1]
    BY DEF RankSorted
<1>8. \A k \in 1..n : ranked[k] \in ops /\ Rank(ranked[k], ops) = k - 1
    <2> HIDE DEF n, ranked
    <2> QED
        BY <1>6, <1>7
<1>9. Len(ranked) = n
    <2> HIDE DEF n
    <2> QED
        BY <1>1, <1>7
<1>10. ASSUME NEW o \in ops
       PROVE  \E k \in 1..n : ranked[k] = o
    <2>1. Rank(o, ops) \in 0..(n - 1)
        BY <1>2
    <2>2. Rank(o, ops) + 1 \in 1..n /\ (Rank(o, ops) + 1) - 1 = Rank(o, ops)
        BY <1>1, <2>1
    <2> HIDE DEF n, ranked
    <2> QED
        BY <1>2, <1>8, <2>2
<1> HIDE DEF ranked
<1> QED
    BY <1>1, <1>8, <1>9, <1>10 DEF ranked

\* The replicas of a replay: t before the list's first operation, and one
\* received after another.
IsReplay(f, t, list, n) ==
    f = [k \in 0..n |-> IF k = 0 THEN t ELSE Receive(f[k - 1], list[k])]

\* They are defined: were there a smallest number for which they are not, the
\* ones before could be extended.
LEMMA ReplayExists ==
    ASSUME NEW t, NEW list, NEW n \in Nat
    PROVE  \E f : IsReplay(f, t, list, n)
<1> DEFINE Bad == {m \in Nat : ~\E f : IsReplay(f, t, list, m)}
<1>1. ASSUME NEW m \in Bad, \A j \in Bad : m <= j
      PROVE  FALSE
    <2>1. CASE m = 0
        <3> DEFINE f == [k \in 0..0 |-> t]
        <3>1. f = [k \in 0..0 |-> IF k = 0 THEN t ELSE Receive(f[k - 1], list[k])]
            <4>1. \A k \in 0..0 :
                    t = IF k = 0 THEN t ELSE Receive(f[k - 1], list[k])
                OBVIOUS
            <4> QED
                BY <4>1
        <3>2. IsReplay(f, t, list, 0)
            BY <3>1 DEF IsReplay
        <3> HIDE DEF f
        <3> QED
            BY <2>1, <3>2
    <2>2. CASE m # 0
        <3>1. m - 1 \in Nat /\ m - 1 \notin Bad
            BY <1>1, <2>2
        <3>2. PICK f : IsReplay(f, t, list, m - 1)
            BY <3>1
        <3> DEFINE g == [k \in 0..m |-> IF k = m THEN Receive(f[m - 1], list[m])
                                        ELSE f[k]]
        <3>3. ASSUME NEW k \in 0..m
              PROVE  g[k] = IF k = 0 THEN t ELSE Receive(g[k - 1], list[k])
            <4>1. CASE k = m
                <5>1. g[k] = Receive(f[m - 1], list[m]) /\ g[k - 1] = f[m - 1]
                    BY <2>2, <3>1, <4>1
                <5> QED
                    BY <2>2, <4>1, <5>1
            <4>2. CASE k # m
                <5>1. k \in 0..(m - 1) /\ g[k] = f[k]
                    BY <1>1, <4>2
                <5>2. f[k] = IF k = 0 THEN t ELSE Receive(f[k - 1], list[k])
                    BY <3>2, <5>1 DEF IsReplay
                <5>3. k # 0 => k - 1 \in 0..m /\ k - 1 # m /\ g[k - 1] = f[k - 1]
                    BY <5>1
                <5> QED
                    BY <5>1, <5>2, <5>3
            <4> QED
                BY <4>1, <4>2
        <3>4. g = [k \in 0..m |-> g[k]]
            OBVIOUS
        <3>5. IsReplay(g, t, list, m)
            <4> HIDE DEF g
            <4> QED
                BY <3>3, <3>4 DEF IsReplay
        <3> HIDE DEF g
        <3> QED
            BY <3>5
    <2> QED
        BY <2>1, <2>2
<1>2. Bad = {}
    <2> HIDE DEF Bad
    <2>1. Bad \subseteq Nat
        BY DEF Bad
    <2> QED
        BY <1>1, <2>1, NoLeast
<1> QED
    BY <1>2

\* The same, replica by replica.
GivenInTurn(f, t, list) ==
    /\ f[0] = t
    /\ \A k \in 1..Len(list) : f[k] = Receive(f[k - 1], list[k])

\* Replaying a log receives its operations one after another.
LEMMA ReplaySteps ==
    ASSUME NEW t, NEW ops, Len(RankSorted(ops)) \in Nat
    PROVE  \E f : /\ GivenInTurn(f, t, RankSorted(ops))
                  /\ Replay(t, ops) = f[Len(RankSorted(ops))]
<1> DEFINE ranked == RankSorted(ops)
           n == Len(ranked)
           f == CHOOSE g : IsReplay(g, t, ranked, n)
<1>1. Replay(t, ops) = f[n]
    BY DEF Replay, IsReplay
<1>2. IsReplay(f, t, ranked, n)
    <2>1. \E g : IsReplay(g, t, ranked, n)
        <3> HIDE DEF ranked
        <3> QED
            BY ReplayExists
    <2> QED
        BY <2>1
<1>3. \A k \in 0..n :
            f[k] = IF k = 0 THEN t ELSE Receive(f[k - 1], ranked[k])
    <2> HIDE DEF f, n, ranked
    <2> QED
        BY <1>2 DEF IsReplay
<1>4. GivenInTurn(f, t, ranked)
    <2> HIDE DEF f, ranked
    <2> QED
        BY <1>3 DEF GivenInTurn
<1> HIDE DEF f, n, ranked
<1> QED
    BY <1>1, <1>4 DEF n, ranked

-----------------------------------------------------------------------------
(* A replica that is whole                                                 *)

\* Its log may have forgotten some of what it was given, its session has not.
Sound(t, known) ==
    /\ t \in Timeline
    /\ t.seen = IdsIn(t.operation_log)
    /\ OpsIn(t.operation_log) \subseteq known
    /\ OpsIn(t.pending) \subseteq OpsIn(t.operation_log)
    /\ DistinctIds(t.pending)
    /\ Reflects(t.session, known \ OpsIn(t.pending), known)

\* Operations that can be told apart, and no two of which share a piece.
WellIssued(ops) ==
    /\ ops \subseteq Stamped
    /\ \A a, b \in ops : a.op_id = b.op_id => a = b
    /\ OneSplitPerPiece(ops)

\* What waits misses a target.  A split that names its own clip does not wait:
\* it is taken for applied.
Waits(t) ==
    /\ \A x \in OpsIn(t.pending) : MissingTargets(t.session, x.operation) # {}
    /\ NoSelfSplit(OpsIn(t.pending))

\* An operation that applies is not buffered.
LEMMA AppliedIsNotBuffered ==
    ASSUME NEW t \in Timeline, NEW o \in TaggedOp,
           Apply(t.session, o.operation, o.op_id).ok
    PROVE  OpsIn(Accept(t, o).pending) \subseteq OpsIn(t.pending)
<1> DEFINE res == Apply(t.session, o.operation, o.op_id)
<1>1. /\ t.session \in SessionState /\ t.pending \in Seq(TaggedOp)
      /\ o.operation \in Operation /\ o.op_id \in OpTag
    BY DEF Timeline, TaggedOp
<1>2. res.session \in SessionState
    BY <1>1, ApplyTyped
<1>3. Accept(t, o).pending = Drain(res.session, t.pending).waiting
    BY DEF Accept
<1> HIDE DEF res
<1> QED
    BY <1>1, <1>2, <1>3, DrainKeeps

\* A split that names its own clip applies.
LEMMA SelfSplitApplies ==
    ASSUME NEW s, NEW op \in SplitEdit, op.new_clip = op.clip, NEW tag
    PROVE  Apply(s, op, tag).ok
<1>1. Apply(s, op, tag) = ApplySplit(s, op, tag)
    BY ApplyDispatch DEF Operation
<1>2. ApplySplit(s, op, tag) = Ok(s)
    BY DEF ApplySplit
<1> QED
    BY <1>1, <1>2 DEF Ok

\* Fewer operations are no harder to tell apart.
LEMMA FewerWellIssued ==
    ASSUME NEW ops, WellIssued(ops), NEW some \in SUBSET ops
    PROVE  WellIssued(some)
BY DEF WellIssued, OneSplitPerPiece

\* apply_remote leaves a whole replica whole, be the operation new, a
\* duplicate, or one that the log has forgotten.
LEMMA ReceiveSound ==
    ASSUME NEW t, NEW known, NEW o, Sound(t, known), WellIssued(known \cup {o})
    PROVE  LET u == Receive(t, o)
           IN  /\ Sound(u, known \cup {o})
               /\ OpsIn(u.operation_log) = OpsIn(t.operation_log) \cup {o}
               /\ Waits(t) => Waits(u)
               /\ t.lamport <= u.lamport
<1> DEFINE u == Receive(t, o)
<1>1. /\ t \in Timeline /\ t.operation_log \in Seq(TaggedOp)
      /\ t.lamport \in Nat
    BY DEF Sound, Timeline
<1>2. CASE o.op_id \in t.seen
    <2>1. u = t
        BY <1>2 DEF Receive
    <2>2. PICK x \in OpsIn(t.operation_log) : x.op_id = o.op_id
        BY <1>2 DEF Sound, IdsIn
    <2>3. x = o
        BY <2>2 DEF Sound, WellIssued
    <2>4. /\ known \cup {o} = known
          /\ OpsIn(t.operation_log) \cup {o} = OpsIn(t.operation_log)
        BY <2>2, <2>3 DEF Sound
    <2> HIDE DEF u
    <2>5. Sound(u, known \cup {o}) /\ (Waits(t) => Waits(u))
        BY <2>1, <2>4
    <2>6. OpsIn(u.operation_log) = OpsIn(t.operation_log) \cup {o}
        BY <2>1, <2>4
    <2>7. t.lamport <= u.lamport
        BY <1>1, <2>1
    <2> QED
        BY <2>5, <2>6, <2>7 DEF u
<1>3. CASE o.op_id \notin t.seen
    <2> DEFINE a == Accept(t, o)
    <2>1. u = a
        BY <1>3 DEF Receive
    <2>2. /\ o \in Stamped /\ o \in TaggedOp /\ o.op_id.peer \in Peers
          /\ o.op_id.lamport \in Nat /\ known \in SUBSET Stamped
        BY DEF WellIssued, Stamped, TaggedOp, OpTag
    <2>3. o.op_id \notin IdsIn(t.pending) /\ o \notin OpsIn(t.pending)
        BY <1>3 DEF Sound, IdsIn
    <2>4. ASSUME o \in known
          PROVE  Apply(t.session, o.operation, o.op_id).ok
        <3>1. o \in known \ OpsIn(t.pending)
            BY <2>3, <2>4
        <3>2. OneSplitPerPiece(known)
            BY DEF WellIssued, OneSplitPerPiece
        <3>3. t.session \in SessionState
            BY <1>1 DEF Timeline
        <3>4. Apply(t.session, o.operation, o.op_id) = Ok(t.session)
            BY <2>2, <3>1, <3>2, <3>3, ApplyAgain DEF Sound
        <3> QED
            BY <3>4 DEF Ok
    <2>5. /\ Reflects(a.session, (known \cup {o}) \ OpsIn(a.pending),
                      known \cup {o})
          /\ \A x \in OpsIn(a.pending) :
                    MissingTargets(a.session, x.operation) # {}
        BY <1>1, <2>2, <2>3, <2>4, TakeReflects DEF Sound
    <2>6. /\ a \in Timeline
          /\ OpsIn(a.pending) \subseteq OpsIn(t.pending) \cup {o}
          /\ DistinctIds(a.pending)
        BY <1>1, <2>2, <2>3, AcceptTyped DEF Sound
    <2>7. /\ a.operation_log = Append(t.operation_log, o)
          /\ a.seen = t.seen \cup {o.op_id}
          /\ a.lamport = Observe(t.lamport, o.op_id.lamport)
        BY DEF Accept
    <2>11. ASSUME o \in OpsIn(a.pending)
           PROVE  o.operation \in SplitEdit => o.operation.new_clip # o.operation.clip
        <3>1. ~Apply(t.session, o.operation, o.op_id).ok
            BY <1>1, <2>2, <2>3, <2>11, AppliedIsNotBuffered
        <3> QED
            BY <3>1, SelfSplitApplies
    <2> HIDE DEF a, u
    <2>12. Waits(t) => Waits(a)
        BY <2>5, <2>6, <2>11 DEF Waits, NoSelfSplit
    <2>8. /\ OpsIn(a.operation_log) = OpsIn(t.operation_log) \cup {o}
          /\ IdsIn(a.operation_log) = IdsIn(t.operation_log) \cup {o.op_id}
        BY <1>1, <2>2, <2>7, AppendOps
    <2>9. t.lamport <= a.lamport
        BY <1>1, <2>2, <2>7, ClockTyped
    <2>10. Sound(a, known \cup {o})
        BY <2>5, <2>6, <2>7, <2>8 DEF Sound
    <2> QED
        BY <2>1, <2>8, <2>9, <2>10, <2>12 DEF u
<1> QED
    BY <1>2, <1>3

\* What a replica is after it was given the operations of more.
Extended(u, t, known, more) ==
    /\ Sound(u, known \cup more)
    /\ OpsIn(u.operation_log) = OpsIn(t.operation_log) \cup more
    /\ Waits(t) => Waits(u)
    /\ t.lamport <= u.lamport

\* Merging a snapshot, or building a replica from it, leaves a replica that is
\* whole and has logged what it had and what the snapshot holds.
LEMMA ReplaySound ==
    ASSUME NEW t, NEW known, NEW ops, Sound(t, known), WellIssued(known \cup ops),
           IsFiniteSet(ops)
    PROVE  Extended(Replay(t, ops), t, known, ops)
<1> DEFINE ranked == RankSorted(ops)
           n == Len(ranked)
           Upto(k) == {ranked[j] : j \in 1..k}
<1>1. ops \in SUBSET Stamped /\ \A a, b \in ops : a.op_id = b.op_id => a = b
    BY DEF WellIssued
<1>2. /\ n \in Nat
      /\ \A k \in 1..n : ranked[k] \in ops
      /\ \A o \in ops : \E k \in 1..n : ranked[k] = o
    BY <1>1, RankSortedOps
<1> HIDE DEF ranked
<1>3. PICK f : GivenInTurn(f, t, ranked) /\ Replay(t, ops) = f[n]
    BY <1>2, ReplaySteps DEF ranked
<1> HIDE DEF n
<1> DEFINE Bad == {k \in 0..n : ~Extended(f[k], t, known, Upto(k))}
<1>4. 0 \notin Bad
    <2>1. Upto(0) = {}
        OBVIOUS
    <2>2. t.lamport <= t.lamport
        BY DEF Sound, Timeline
    <2>3. Extended(f[0], t, known, {})
        BY <1>3, <2>2 DEF Extended, GivenInTurn
    <2> HIDE DEF Upto
    <2> QED
        BY <2>1, <2>3
<1>5. ASSUME NEW m \in Bad, \A j \in Bad : m <= j
      PROVE  FALSE
    <2>1. m \in 1..n /\ m - 1 \in 0..n /\ m - 1 \notin Bad /\ m \in 0..n
        <3>1. m \in 0..n /\ m # 0
            BY <1>4
        <3>2. m - 1 \in 0..n /\ ~(m <= m - 1) /\ m \in 1..n
            BY <1>2, <3>1
        <3> HIDE DEF Bad
        <3> QED
            BY <1>5, <3>1, <3>2
    <2>2. Upto(m) = Upto(m - 1) \cup {ranked[m]}
        <3>1. \A j \in 1..m : j \in 1..(m - 1) \/ j = m
            BY <2>1
        <3>2. \A j \in 1..(m - 1) : j \in 1..m
            BY <2>1
        <3>3. m \in 1..m
            BY <2>1
        <3> QED
            BY <3>1, <3>2, <3>3
    <2>3. Upto(m) \subseteq ops
        <3>1. \A j \in 1..m : j \in 1..n
            BY <1>2, <2>1
        <3> QED
            BY <1>2, <3>1
    <2>4. f[m] = Receive(f[m - 1], ranked[m])
        BY <1>3, <2>1 DEF GivenInTurn, n
    <2> DEFINE before == Upto(m - 1)
               after == Upto(m)
               o == ranked[m]
    <2> HIDE DEF Upto, before, after, o
    <2>5. Extended(f[m - 1], t, known, before)
        BY <2>1 DEF before
    <2>6. after = before \cup {o} /\ after \subseteq ops
        BY <2>2, <2>3 DEF before, after, o
    <2>7. WellIssued((known \cup before) \cup {o})
        <3>1. (known \cup before) \cup {o} \in SUBSET (known \cup ops)
            BY <2>6
        <3> QED
            BY <3>1, FewerWellIssued
    <2> DEFINE v == f[m - 1]
               w == Receive(v, o)
    <2> HIDE DEF v, w
    <2>8. /\ Sound(w, (known \cup before) \cup {o})
          /\ OpsIn(w.operation_log) = OpsIn(v.operation_log) \cup {o}
          /\ Waits(v) => Waits(w)
          /\ v.lamport <= w.lamport
        BY <2>5, <2>7, ReceiveSound DEF Extended, v, w
    <2>9. (known \cup before) \cup {o} = known \cup after
        BY <2>6
    <2>10. t.lamport <= w.lamport
        <3>1. /\ t.lamport \in Nat /\ v.lamport \in Nat /\ w.lamport \in Nat
              /\ t.lamport <= v.lamport
            BY <2>5, <2>8 DEF Sound, Timeline, Extended, v
        <3> QED
            BY <2>8, <3>1
    <2>11. Extended(w, t, known, after)
        BY <2>5, <2>6, <2>8, <2>9, <2>10 DEF Extended, v
    <2>12. f[m] = w
        BY <2>4 DEF v, w, o
    <2>13. Extended(f[m], t, known, Upto(m))
        BY <2>11, <2>12 DEF after
    <2> QED
        BY <1>5, <2>13
<1>6. Bad = {}
    <2>1. Bad \subseteq Nat
        BY <1>2
    <2> HIDE DEF Bad
    <2> QED
        BY <1>5, <2>1, NoLeast
<1>7. Upto(n) = ops
    BY <1>2
<1>8. n \in 0..n
    BY <1>2
<1> HIDE DEF Upto
<1> QED
    BY <1>3, <1>6, <1>7, <1>8

-----------------------------------------------------------------------------
(* A replica built from a snapshot                                         *)

\* What an operation that misses a target misses.
LEMMA WhatIsMissing ==
    ASSUME NEW s, NEW op \in Operation, MissingTargets(s, op) # {}
    PROVE  \/ /\ op \in ClipEdit /\ op.type # "InsertClip"
              /\ ~Exists(s.clips, op.clip)
           \/ op \in SplitEdit /\ ~Exists(s.clips, op.clip)
           \/ /\ op \in TrackEdit /\ op.type # "InsertTrack"
              /\ ~Exists(s.tracks, op.track)
           \/ op \in EnvelopeEdit /\ ~TargetExists(s, op.target)
<1>1. CASE op \in ClipEdit
    <2>1. op.type \in {"MoveClip", "TrimClip", "UpdateClipMetadata", "DeleteClip"}
        <3>1. op.type # "InsertClip"
            BY DEF MissingTargets
        <3> QED
            BY <1>1, <3>1 DEF ClipEdit
    <2>2. MissingTargets(s, op) = {t \in {<<"clip", op.clip>>} : ~TargetExists(s, t)}
        BY <2>1 DEF MissingTargets
    <2>3. ~TargetExists(s, <<"clip", op.clip>>)
        BY <2>2
    <2> QED
        BY <1>1, <2>1, <2>3 DEF TargetExists
<1>2. CASE op \in SplitEdit
    <2>1. op.type = "SplitClip"
        BY <1>2 DEF SplitEdit
    <2>2. MissingTargets(s, op) = {t \in {<<"clip", op.clip>>} : ~TargetExists(s, t)}
        BY <2>1 DEF MissingTargets
    <2>3. ~TargetExists(s, <<"clip", op.clip>>)
        BY <2>2
    <2> QED
        BY <1>2, <2>3 DEF TargetExists
<1>3. CASE op \in TrackEdit
    <2>1. op.type \in {"UpdateTrackMetadata", "DeleteTrack"}
        <3>1. op.type # "InsertTrack"
            BY DEF MissingTargets
        <3> QED
            BY <1>3, <3>1 DEF TrackEdit
    <2>2. MissingTargets(s, op) = {t \in {<<"track", op.track>>} : ~TargetExists(s, t)}
        BY <2>1 DEF MissingTargets
    <2>3. ~TargetExists(s, <<"track", op.track>>)
        BY <2>2
    <2> QED
        BY <1>3, <2>1, <2>3 DEF TargetExists
<1>4. CASE op \in EnvelopeEdit
    <2>1. op.type = "UpdateEnvelope"
        BY <1>4 DEF EnvelopeEdit
    <2>2. MissingTargets(s, op) = {t \in {op.target} : ~TargetExists(s, t)}
        BY <2>1 DEF MissingTargets
    <2> QED
        BY <1>4, <2>2
<1>5. CASE op \in MetadataEdit
    BY <1>5 DEF MissingTargets, MetadataEdit
<1> QED
    BY <1>1, <1>2, <1>3, <1>4, <1>5 DEF Operation

\* What one replica has applied in full leaves nothing waiting in another.  Were
\* there clips that exist in the first only, one of them would have been made by
\* an operation that needs none of the others, and that would have been applied.
LEMMA NothingWaits ==
    ASSUME NEW s \in SessionState, NEW known, Reflects(s, known, known),
           WellIssued(known), NEW r, Sound(r, known), Waits(r)
    PROVE  OpsIn(r.pending) = {}
<1> DEFINE W   == OpsIn(r.pending)
           ops == known \ W
           v   == r.session
           Lost == {c \in ClipId : Exists(s.clips, c) /\ ~Exists(v.clips, c)}
<1>1. /\ W \subseteq known /\ known \in SUBSET Stamped
      /\ \A x \in W : MissingTargets(v, x.operation) # {}
      /\ NoSelfSplit(W)
    BY DEF Sound, WellIssued, Waits
<1>2. /\ \A c \in ClipId : ClipReflects(s, known, c) /\ ClipStructure(s, known, c)
      /\ \A t \in TrackId : TrackReflects(s, known, t)
      /\ \A e \in Target : EnvelopeWrites(known, e) # {} => TargetExists(s, e)
      /\ Grounded(s, known)
    BY DEF Reflects, WellIssued
<1>3. /\ \A c \in ClipId : ClipReflects(v, ops, c)
      /\ \A t \in TrackId : TrackReflects(v, ops, t)
    BY DEF Reflects, Sound
<1>4. \A o \in known : o.operation \in Operation
    BY <1>1 DEF Stamped, TaggedOp
<1> HIDE DEF v, W
<1>5. ASSUME NEW o \in W, o.operation \in SplitEdit
      PROVE  o.operation.clip \in ClipId /\ Exists(s.clips, o.operation.clip)
    <2>1. o.operation.clip \in ClipId /\ o.operation.new_clip # o.operation.clip
        BY <1>1, <1>5 DEF SplitEdit, NoSelfSplit
    <2>2. o \in {x \in known : /\ x.operation \in SplitEdit
                               /\ x.operation.clip = o.operation.clip
                               /\ x.operation.new_clip # o.operation.clip}
        BY <1>1, <1>5, <2>1
    <2>3. CutsOf(known, o.operation.clip) # {}
        BY <2>2 DEF CutsOf
    <2> QED
        BY <1>2, <2>1, <2>3 DEF ClipStructure
<1>6. Lost = {}
    <2>1. SUFFICES ASSUME Lost # {} PROVE FALSE
        OBVIOUS
    <2>2. Lost \in SUBSET {c \in ClipId : Exists(s.clips, c)}
        OBVIOUS
    <2>3. PICK c \in Lost, o \in known :
                    /\ Creates(o.operation, c)
                    /\ o.operation \in SplitEdit => o.operation.clip \notin Lost
        <3> HIDE DEF Lost
        <3> QED
            BY <1>2, <2>1, <2>2 DEF Grounded
    <2>4. c \in ClipId /\ ~Exists(v.clips, c)
        OBVIOUS
    <2>5. o \in W
        BY <1>3, <2>3, <2>4 DEF ClipReflects
    <2>6. MissingTargets(v, o.operation) # {} /\ o.operation \in Operation
        BY <1>1, <1>4, <2>5
    <2>7. CASE o.operation \in SplitEdit
        <3>1. ~Exists(v.clips, o.operation.clip)
            BY <2>6, <2>7, WhatIsMissing, KindsApart
        <3>2. o.operation.clip \in Lost
            BY <1>5, <2>5, <2>7, <3>1
        <3> QED
            BY <2>3, <2>7, <3>2
    <2>8. CASE o.operation \in ClipEdit /\ o.operation.type = "InsertClip"
        BY <2>6, <2>8, WhatIsMissing, KindsApart
    <2> QED
        BY <2>3, <2>7, <2>8 DEF Creates
<1>7. ASSUME NEW c \in ClipId, Exists(s.clips, c)
      PROVE  Exists(v.clips, c)
    BY <1>6, <1>7
<1>8. ASSUME NEW t \in TrackId, Exists(s.tracks, t)
      PROVE  Exists(v.tracks, t)
    <2>1. PICK o \in EditsOfTrack(known, t) : o.operation.type = "InsertTrack"
        BY <1>2, <1>8 DEF TrackReflects
    <2>2. o \in known /\ o.operation \in TrackEdit
        BY <2>1 DEF EditsOfTrack
    <2>3. o \notin W
        BY <1>1, <1>4, <2>1, <2>2, WhatIsMissing, KindsApart
    <2>4. o \in EditsOfTrack(ops, t)
        BY <2>1, <2>2, <2>3 DEF EditsOfTrack
    <2> QED
        BY <1>3, <2>1, <2>4 DEF TrackReflects
<1>9. ASSUME NEW o \in W
      PROVE  FALSE
    <2> DEFINE op == o.operation
    <2>1. o \in known /\ op \in Operation /\ MissingTargets(v, op) # {}
        BY <1>1, <1>4
    <2>2. CASE op \in ClipEdit
        <3>1. op.clip \in ClipId /\ ~Exists(v.clips, op.clip)
            BY <2>1, <2>2, WhatIsMissing, KindsApart DEF ClipEdit
        <3>2. o \in EditsOfClip(known, op.clip)
            BY <2>1, <2>2 DEF EditsOfClip
        <3>3. Exists(s.clips, op.clip)
            BY <1>2, <3>1, <3>2 DEF ClipReflects
        <3> QED
            BY <1>7, <3>1, <3>3
    <2>3. CASE op \in SplitEdit
        <3>1. ~Exists(v.clips, op.clip)
            BY <2>1, <2>3, WhatIsMissing, KindsApart
        <3> QED
            BY <1>5, <1>7, <2>3, <3>1
    <2>4. CASE op \in TrackEdit
        <3>1. op.track \in TrackId /\ ~Exists(v.tracks, op.track)
            BY <2>1, <2>4, WhatIsMissing, KindsApart DEF TrackEdit
        <3>2. o \in EditsOfTrack(known, op.track)
            BY <2>1, <2>4 DEF EditsOfTrack
        <3>3. Exists(s.tracks, op.track)
            BY <1>2, <3>1, <3>2 DEF TrackReflects
        <3> QED
            BY <1>8, <3>1, <3>3
    <2>5. CASE op \in EnvelopeEdit
        <3>1. op.target \in Target /\ ~TargetExists(v, op.target)
            BY <2>1, <2>5, WhatIsMissing, KindsApart DEF EnvelopeEdit
        <3>2. Written(op.points, o.op_id) \in EnvelopeWrites(known, op.target)
            BY <2>1, <2>5 DEF EnvelopeWrites
        <3>3. TargetExists(s, op.target)
            BY <1>2, <3>1, <3>2
        <3>4. TargetExists(v, op.target)
            BY <1>7, <1>8, <3>1, <3>3 DEF TargetExists, Target
        <3> QED
            BY <3>1, <3>4
    <2>6. CASE op \in MetadataEdit
        BY <2>1, <2>6, WhatIsMissing, KindsApart
    <2> QED
        BY <2>1, <2>2, <2>3, <2>4, <2>5, <2>6 DEF Operation
<1> QED
    BY <1>9 DEF W

\* What the invariants of the replication engine say of replicas that never
\* compact: they are whole, and their log is all they were given.
LEMMA ReplicasAreSound ==
    ASSUME IndInv, SessionsReflect, OneSplitPerPiece(sent)
    PROVE  /\ WellIssued(sent)
           /\ \A p \in Peers : /\ Sound(crdt[p], Log(p))
                               /\ Log(p) \subseteq sent
                               /\ IsFiniteSet(Log(p))
<1>1. WellIssued(sent)
    BY DEF WellIssued, IndInv, TypeOK, OpIdsUnique, Stamped
<1>2. ASSUME NEW p \in Peers
      PROVE  Sound(crdt[p], Log(p)) /\ Log(p) \subseteq sent /\ IsFiniteSet(Log(p))
    <2>1. crdt[p] \in Timeline /\ Log(p) \subseteq sent
        BY ReplicaFacts DEF IndInv, ClockCoversLog
    <2>2. crdt[p].operation_log \in Seq(TaggedOp)
        BY <2>1 DEF Timeline
    <2>3. IsFiniteSet(Log(p))
        BY <2>2, OpsFinite DEF Log
    <2>4. Reflects(crdt[p].session, Log(p) \ OpsIn(crdt[p].pending), Log(p))
        BY DEF SessionsReflect, Applied, Pending
    <2>5. crdt[p].seen = IdsIn(crdt[p].operation_log)
        BY DEF IndInv, LogHasNoDuplicates
    <2>6. /\ OpsIn(crdt[p].pending) \subseteq OpsIn(crdt[p].operation_log)
          /\ DistinctIds(crdt[p].pending)
        BY ReplicaFacts DEF Log, Pending
    <2>7. OpsIn(crdt[p].operation_log) = Log(p)
        BY DEF Log
    <2> QED
        BY <2>1, <2>3, <2>4, <2>5, <2>6, <2>7 DEF Sound
<1> QED
    BY <1>1, <1>2

\* A replica that has been given nothing is whole.
LEMMA NewIsSound == Sound(NewTimeline, {}) /\ Waits(NewTimeline)
                        /\ OpsIn(NewTimeline.operation_log) = {}
<1>1. /\ <<>> \in Seq(TaggedOp) /\ OpsIn(<<>>) = {} /\ IdsIn(<<>>) = {}
      /\ DistinctIds(<<>>)
    BY DEF OpsIn, IdsIn, DistinctIds
<1>2. /\ NewTimeline.operation_log = <<>> /\ NewTimeline.pending = <<>>
      /\ NewTimeline.seen = {} /\ NewTimeline.session = EmptySession
    BY DEF NewTimeline
<1>3. NewTimeline \in Timeline
    BY <1>1, EmptySessionTyped DEF NewTimeline, Timeline, ZeroClock, VectorClock
<1>4. Reflects(EmptySession, {} \ OpsIn(<<>>), {})
    <2>1. {} \ OpsIn(<<>>) = {}
        BY <1>1
    <2> QED
        BY <2>1, EmptyReflects
<1> QED
    BY <1>1, <1>2, <1>3, <1>4 DEF Sound, Waits, NoSelfSplit

\* Two whole replicas that were given the same and wait for nothing hold the
\* same session.
LEMMA SameKnownSameSession ==
    ASSUME NEW a, NEW b, NEW known, Sound(a, known), Sound(b, known),
           WellIssued(known), OpsIn(a.pending) = {}, OpsIn(b.pending) = {}
    PROVE  a.session = b.session
<1>1. a.session \in SessionState /\ b.session \in SessionState
    BY DEF Sound, Timeline
<1>2. known \ {} = known
    OBVIOUS
<1>3. Reflects(a.session, known, known) /\ Reflects(b.session, known, known)
    BY <1>2 DEF Sound
<1>4. /\ known \in SUBSET Stamped /\ known \in SUBSET known
      /\ \A x, y \in known : x.op_id = y.op_id => x = y
      /\ OneSplitPerPiece(known)
    BY DEF WellIssued
<1> QED
    BY <1>1, <1>3, <1>4, SameOpsSameSession

\* A snapshot rebuilds the session: a new peer that replays the log of one that
\* waits for nothing shows what that one shows, whatever order the first got
\* its operations in, as long as no two splits share a piece.
THEOREM SnapshotTheorem == Spec => [](OneSplitPerPiece(sent) => SnapshotFidelity)
<1>1. IndInv /\ SessionsReflect => (OneSplitPerPiece(sent) => SnapshotFidelity)
    <2> SUFFICES ASSUME IndInv, SessionsReflect, OneSplitPerPiece(sent),
                        NEW p \in Peers, Pending(p) = {}
                 PROVE  View(FromSnapshot(Log(p)).session) = View(crdt[p].session)
        BY DEF SnapshotFidelity
    <2> DEFINE r == FromSnapshot(Log(p))
               t == crdt[p]
               known == Log(p)
    <2>1. /\ Sound(t, known) /\ WellIssued(sent) /\ known \in SUBSET sent
          /\ IsFiniteSet(known) /\ OpsIn(t.pending) = {}
        BY ReplicasAreSound DEF Pending
    <2> HIDE DEF t, known
    <2>2. WellIssued(known)
        BY <2>1, FewerWellIssued
    <2>3. {} \cup known = known
        OBVIOUS
    <2>4. WellIssued({} \cup known)
        BY <2>2, <2>3
    <2>5. Extended(Replay(NewTimeline, known), NewTimeline, {}, known)
        BY <2>1, <2>4, NewIsSound, ReplaySound
    <2>6. r = Replay(NewTimeline, known)
        BY DEF FromSnapshot, known
    <2> HIDE DEF r
    <2>7. Sound(r, known) /\ Waits(r)
        BY <2>3, <2>5, <2>6, NewIsSound DEF Extended
    <2>8. t.session \in SessionState
        BY <2>1 DEF Sound, Timeline
    <2>9. known \ {} = known
        OBVIOUS
    <2>10. Reflects(t.session, known, known)
        BY <2>1, <2>9 DEF Sound
    <2>11. OpsIn(r.pending) = {}
        BY <2>2, <2>7, <2>8, <2>10, NothingWaits
    <2>12. r.session = t.session
        BY <2>1, <2>2, <2>7, <2>11, SameKnownSameSession
    <2> QED
        BY <2>12 DEF r, t
<1> QED
    BY <1>1, Invariance, SessionInvariance, PTL

\* The offline resync: peers that merge each other's snapshots and wait for
\* nothing show the same, whatever each had been given before and in whatever
\* order, as long as no two splits share a piece.
THEOREM ResyncTheorem == Spec => [](OneSplitPerPiece(sent) => ResyncAgrees)
<1>1. IndInv /\ SessionsReflect => (OneSplitPerPiece(sent) => ResyncAgrees)
    <2> SUFFICES ASSUME IndInv, SessionsReflect, OneSplitPerPiece(sent),
                        NEW p \in Peers, NEW q \in Peers
                 PROVE  Agree(Replay(crdt[p], Log(q)), Replay(crdt[q], Log(p)))
        BY DEF ResyncAgrees
    <2>1. ASSUME NEW x \in Peers, NEW y \in Peers
          PROVE  Sound(Replay(crdt[x], Log(y)), Log(x) \cup Log(y))
        <3>1. Log(x) \cup Log(y) \in SUBSET sent
            BY ReplicasAreSound
        <3>2. WellIssued(Log(x) \cup Log(y))
            BY <3>1, ReplicasAreSound, FewerWellIssued
        <3>3. Extended(Replay(crdt[x], Log(y)), crdt[x], Log(x), Log(y))
            BY <3>2, ReplicasAreSound, ReplaySound
        <3> QED
            BY <3>3 DEF Extended
    <2> DEFINE a == Replay(crdt[p], Log(q))
               b == Replay(crdt[q], Log(p))
               known == Log(p) \cup Log(q)
    <2>2. Sound(a, known)
        BY <2>1
    <2>3. Sound(b, known)
        <3>1. Log(q) \cup Log(p) = known
            OBVIOUS
        <3>2. Sound(b, Log(q) \cup Log(p))
            BY <2>1
        <3> QED
            BY <3>1, <3>2
    <2>4. WellIssued(known)
        <3>1. known \in SUBSET sent
            BY ReplicasAreSound
        <3> QED
            BY <3>1, ReplicasAreSound, FewerWellIssued
    <2> HIDE DEF a, b, known
    <2>5. ASSUME a.pending = <<>>, b.pending = <<>>
          PROVE  a.session = b.session
        <3>1. OpsIn(a.pending) = {} /\ OpsIn(b.pending) = {}
            BY <2>5 DEF OpsIn
        <3> QED
            BY <2>2, <2>3, <2>4, <3>1, SameKnownSameSession
    <2> QED
        BY <2>5 DEF Agree, a, b
<1> QED
    BY <1>1, Invariance, SessionInvariance, PTL

-----------------------------------------------------------------------------
(* Compaction                                                              *)

\* The log so far, and the next operation if it is to be kept.
KeptSo(kept, o, ids) == IF o.op_id \in ids THEN Append(kept, o) ELSE kept

\* The first n steps of the pass over a log.
IsPass(f, log, ids, n) ==
    f = [k \in 0..n |-> IF k = 0 THEN <<>> ELSE KeptSo(f[k - 1], log[k], ids)]

\* They are defined, as the steps of a replay are.
LEMMA PassExists ==
    ASSUME NEW log, NEW ids, NEW n \in Nat
    PROVE  \E f : IsPass(f, log, ids, n)
<1> DEFINE Bad == {m \in Nat : ~\E f : IsPass(f, log, ids, m)}
<1>1. ASSUME NEW m \in Bad, \A j \in Bad : m <= j
      PROVE  FALSE
    <2>1. CASE m = 0
        <3> DEFINE f == [k \in 0..0 |-> <<>>]
        <3>1. f = [k \in 0..0 |->
                        IF k = 0 THEN <<>> ELSE KeptSo(f[k - 1], log[k], ids)]
            <4>1. \A k \in 0..0 :
                    <<>> = IF k = 0 THEN <<>> ELSE KeptSo(f[k - 1], log[k], ids)
                OBVIOUS
            <4> QED
                BY <4>1
        <3>2. IsPass(f, log, ids, 0)
            BY <3>1 DEF IsPass
        <3> HIDE DEF f
        <3> QED
            BY <2>1, <3>2
    <2>2. CASE m # 0
        <3>1. m - 1 \in Nat /\ m - 1 \notin Bad
            BY <1>1, <2>2
        <3>2. PICK f : IsPass(f, log, ids, m - 1)
            BY <3>1
        <3> DEFINE g == [k \in 0..m |-> IF k = m THEN KeptSo(f[m - 1], log[m], ids)
                                        ELSE f[k]]
        <3>3. ASSUME NEW k \in 0..m
              PROVE  g[k] = IF k = 0 THEN <<>> ELSE KeptSo(g[k - 1], log[k], ids)
            <4>1. CASE k = m
                <5>1. g[k] = KeptSo(f[m - 1], log[m], ids) /\ g[k - 1] = f[m - 1]
                    BY <2>2, <3>1, <4>1
                <5> QED
                    BY <2>2, <4>1, <5>1
            <4>2. CASE k # m
                <5>1. k \in 0..(m - 1) /\ g[k] = f[k]
                    BY <1>1, <4>2
                <5>2. f[k] = IF k = 0 THEN <<>>
                             ELSE KeptSo(f[k - 1], log[k], ids)
                    BY <3>2, <5>1 DEF IsPass
                <5>3. k # 0 => k - 1 \in 0..m /\ k - 1 # m /\ g[k - 1] = f[k - 1]
                    BY <5>1
                <5> QED
                    BY <5>1, <5>2, <5>3
            <4> QED
                BY <4>1, <4>2
        <3>4. g = [k \in 0..m |-> g[k]]
            OBVIOUS
        <3>5. IsPass(g, log, ids, m)
            <4> HIDE DEF g
            <4> QED
                BY <3>3, <3>4 DEF IsPass
        <3> HIDE DEF g
        <3> QED
            BY <3>5
    <2> QED
        BY <2>1, <2>2
<1>2. Bad = {}
    <2> HIDE DEF Bad
    <2>1. Bad \subseteq Nat
        BY DEF Bad
    <2> QED
        BY <1>1, <2>1, NoLeast
<1> QED
    BY <1>2

\* Compaction keeps operations of the log and adds none.
LEMMA RetainedOps ==
    ASSUME NEW log \in Seq(TaggedOp), NEW ids
    PROVE  /\ Retained(log, ids) \in Seq(TaggedOp)
           /\ OpsIn(Retained(log, ids)) \subseteq OpsIn(log)
<1> DEFINE n == Len(log)
           f == CHOOSE g : IsPass(g, log, ids, n)
           Fit(kept) == kept \in Seq(TaggedOp) /\ OpsIn(kept) \subseteq OpsIn(log)
           Bad == {k \in 0..n : ~Fit(f[k])}
<1>1. n \in Nat /\ \A k \in 1..n : log[k] \in TaggedOp /\ log[k] \in OpsIn(log)
    BY DEF OpsIn
<1>2. Retained(log, ids) = f[n]
    BY DEF Retained, IsPass, KeptSo
<1>3. IsPass(f, log, ids, n)
    <2>1. \E g : IsPass(g, log, ids, n)
        <3> HIDE DEF n
        <3> QED
            BY <1>1, PassExists
    <2> QED
        BY <2>1
<1>4. \A k \in 0..n :
            f[k] = IF k = 0 THEN <<>> ELSE KeptSo(f[k - 1], log[k], ids)
    <2> HIDE DEF f, n
    <2> QED
        BY <1>3 DEF IsPass
<1> HIDE DEF f, n
<1>5. Fit(<<>>)
    <2>1. <<>> \in Seq(TaggedOp)
        OBVIOUS
    <2>2. OpsIn(<<>>) = {}
        BY DEF OpsIn
    <2> QED
        BY <2>1, <2>2
<1>6. ASSUME NEW kept, Fit(kept), NEW k \in 1..n
      PROVE  Fit(KeptSo(kept, log[k], ids))
    <2>1. log[k] \in TaggedOp /\ log[k] \in OpsIn(log)
        BY <1>1
    <2>2. CASE log[k].op_id \in ids
        <3>1. /\ Append(kept, log[k]) \in Seq(TaggedOp)
              /\ OpsIn(Append(kept, log[k])) = OpsIn(kept) \cup {log[k]}
            BY <1>6, <2>1, AppendOps
        <3>2. Fit(Append(kept, log[k]))
            BY <1>6, <2>1, <3>1
        <3> HIDE DEF Fit
        <3> QED
            BY <2>2, <3>2 DEF KeptSo
    <2>3. CASE log[k].op_id \notin ids
        BY <1>6, <2>3 DEF KeptSo
    <2> QED
        BY <2>2, <2>3
<1> HIDE DEF Fit
<1>7. ASSUME NEW m \in Bad, \A j \in Bad : m <= j
      PROVE  FALSE
    <2>1. m \in 0..n /\ m # 0 /\ ~Fit(f[m])
        BY <1>4, <1>5
    <2>2. m - 1 \in 0..n /\ ~(m <= m - 1) /\ m \in 1..n
        BY <1>1, <2>1
    <2>3. Fit(f[m - 1])
        BY <1>7, <2>2
    <2>4. f[m] = KeptSo(f[m - 1], log[m], ids)
        BY <1>4, <2>1
    <2> QED
        BY <1>6, <2>1, <2>2, <2>3, <2>4
<1>8. Bad = {}
    <2>1. Bad \subseteq Nat
        BY <1>1
    <2> HIDE DEF Bad
    <2> QED
        BY <1>7, <2>1, NoLeast
<1>9. n \in 0..n
    BY <1>1
<1> QED
    BY <1>2, <1>8, <1>9 DEF Fit

\* Compacting while nothing waits leaves a replica whole: what the log forgets
\* the session still holds.
LEMMA CompactSound ==
    ASSUME NEW t, NEW known, Sound(t, known), OpsIn(t.pending) = {},
           NEW kept \in Seq(TaggedOp), OpsIn(kept) \subseteq OpsIn(t.operation_log)
    PROVE  LET u == [t EXCEPT !.operation_log = kept, !.seen = IdsIn(kept)]
           IN  Sound(u, known) /\ u.lamport = t.lamport
<1> DEFINE u == [t EXCEPT !.operation_log = kept, !.seen = IdsIn(kept)]
<1>1. t \in Timeline
    BY DEF Sound
<1>2. /\ u.operation_log = kept /\ u.seen = IdsIn(kept)
      /\ u.pending = t.pending /\ u.session = t.session
      /\ u.lamport = t.lamport
    BY <1>1 DEF Timeline
<1>3. IdsIn(kept) \in SUBSET OpTag
    <2>1. \A i \in DOMAIN kept : kept[i] \in TaggedOp
        OBVIOUS
    <2> QED
        BY <2>1 DEF IdsIn, OpsIn, TaggedOp
<1>4. u \in Timeline
    BY <1>1, <1>3 DEF Timeline
<1> HIDE DEF u
<1>5. Sound(u, known)
    BY <1>2, <1>4 DEF Sound
<1> QED
    BY <1>2, <1>5 DEF u

\* Issuing an operation leaves a replica whole.
LEMMA PerformSound ==
    ASSUME NEW t, NEW known \in SUBSET Stamped, Sound(t, known), NEW o \in Stamped,
           \A x \in known : x.op_id # o.op_id
    PROVE  LET u == Perform(t, o)
           IN  Sound(u, known \cup {o}) /\ u.lamport = o.op_id.lamport
<1> DEFINE u == Perform(t, o)
<1>1. /\ t \in Timeline /\ t.operation_log \in Seq(TaggedOp) /\ o \in TaggedOp
    BY DEF Sound, Timeline, Stamped
<1>2. /\ o \notin known /\ OpsIn(t.pending) \subseteq known
      /\ o.op_id \notin IdsIn(t.pending)
    BY DEF Sound, IdsIn
<1>3. Reflects(u.session, (known \cup {o}) \ OpsIn(u.pending), known \cup {o})
    BY <1>1, <1>2, PerformReflects DEF Sound
<1>4. /\ u \in Timeline
      /\ OpsIn(u.pending) \subseteq OpsIn(t.pending) \cup {o}
      /\ DistinctIds(u.pending)
    BY <1>1, <1>2, PerformTyped DEF Sound
<1>5. /\ u.operation_log = Append(t.operation_log, o)
      /\ u.seen = t.seen \cup {o.op_id} /\ u.lamport = o.op_id.lamport
    BY DEF Perform
<1> HIDE DEF u
<1>6. /\ OpsIn(u.operation_log) = OpsIn(t.operation_log) \cup {o}
      /\ IdsIn(u.operation_log) = IdsIn(t.operation_log) \cup {o.op_id}
    BY <1>1, <1>5, AppendOps
<1>7. Sound(u, known \cup {o})
    BY <1>3, <1>4, <1>5, <1>6 DEF Sound
<1> QED
    BY <1>5, <1>7 DEF u

\* The inductive invariant of peers that merge snapshots and compact: of all a
\* peer was ever given its session holds everything and its log a part, and its
\* clock outranks all it has issued, also what its log has forgotten.
QuietInv ==
    OneSplitPerPiece(sent) =>
        /\ WellIssued(sent)
        /\ crdt \in [Peers -> Timeline]
        /\ \A p \in Peers :
            /\ \A o \in Issued(p) : o.op_id.lamport <= crdt[p].lamport
            /\ \E known \in SUBSET sent :
                    Issued(p) \subseteq known /\ Sound(crdt[p], known)

\* What changes when one peer takes in something.
LEMMA QuietUpdate ==
    ASSUME QuietInv, OneSplitPerPiece(sent), NEW p \in Peers, NEW u,
           crdt' = [crdt EXCEPT ![p] = u], sent' = sent,
           NEW known \in SUBSET sent, Issued(p) \subseteq known,
           Sound(u, known), crdt[p].lamport <= u.lamport
    PROVE  QuietInv'
<1>1. /\ WellIssued(sent) /\ crdt \in [Peers -> Timeline] /\ u \in Timeline
      /\ \A q \in Peers :
            /\ \A o \in Issued(q) : o.op_id.lamport <= crdt[q].lamport
            /\ \E k \in SUBSET sent : Issued(q) \subseteq k /\ Sound(crdt[q], k)
    BY DEF QuietInv, Sound
<1>2. /\ crdt' \in [Peers -> Timeline] /\ crdt'[p] = u
      /\ \A q \in Peers \ {p} : crdt'[q] = crdt[q]
    BY <1>1
<1>3. \A q : Issued(q)' = Issued(q)
    BY DEF Issued
<1>4. ASSUME NEW q \in Peers
      PROVE  /\ \A o \in Issued(q)' : o.op_id.lamport <= crdt'[q].lamport
             /\ \E k \in SUBSET sent' : Issued(q)' \subseteq k /\ Sound(crdt'[q], k)
    <2>1. CASE q = p
        <3>1. \A o \in Issued(p) : o.op_id.lamport <= u.lamport
            <4>1. crdt[p].lamport \in Nat /\ u.lamport \in Nat
                BY <1>1 DEF Timeline
            <4>2. \A o \in Issued(p) : o.op_id.lamport \in Nat
                BY <1>1 DEF Issued, WellIssued, Stamped, TaggedOp, OpTag
            <4> QED
                BY <1>1, <4>1, <4>2
        <3> QED
            BY <1>2, <1>3, <2>1, <3>1
    <2>2. CASE q # p
        BY <1>1, <1>2, <1>3, <2>2
    <2> QED
        BY <2>1, <2>2
<1>5. WellIssued(sent')
    BY <1>1
<1> QED
    BY <1>2, <1>4, <1>5 DEF QuietInv, Sound, WellIssued

\* Issuing an operation keeps the invariant: its id is new, since the clock
\* remembers what the log may have forgotten.
LEMMA IssueKeepsQuiet ==
    ASSUME QuietInv, OneSplitPerPiece(sent'), NEW p \in Peers,
           NEW operation \in Edits[p], Issue(p, operation)
    PROVE  QuietInv'
<1> DEFINE t == crdt[p]
           o == Stamp(t, p, operation)
           u == Perform(t, o)
<1>1. /\ sent' = sent \cup {o} /\ crdt' = [crdt EXCEPT ![p] = u]
      /\ t.lamport < MaxLamport
    BY DEF Issue, WithinBounds
<1>2. OneSplitPerPiece(sent)
    BY <1>1 DEF OneSplitPerPiece
<1>3. /\ WellIssued(sent) /\ crdt \in [Peers -> Timeline] /\ t \in Timeline
      /\ \A q \in Peers :
            /\ \A x \in Issued(q) : x.op_id.lamport <= crdt[q].lamport
            /\ \E k \in SUBSET sent : Issued(q) \subseteq k /\ Sound(crdt[q], k)
    BY <1>2 DEF QuietInv
<1>4. o \in TaggedOp /\ o.op_id = [lamport |-> t.lamport + 1, peer |-> p]
    BY <1>1, <1>3, EditIsOperation, StampTyped
<1> HIDE DEF o
<1>5. t.lamport \in Nat /\ o \in Stamped /\ o.op_id.lamport = t.lamport + 1
        /\ o.op_id.peer = p
    BY <1>3, <1>4 DEF Timeline, Stamped
<1>6. ASSUME NEW x \in sent, x.op_id = o.op_id
      PROVE  FALSE
    <2>1. x \in Issued(p)
        BY <1>5, <1>6 DEF Issued
    <2>2. x.op_id.lamport <= t.lamport
        BY <1>3, <2>1
    <2> QED
        BY <1>5, <1>6, <2>2
<1>7. WellIssued(sent')
    BY <1>1, <1>3, <1>5, <1>6 DEF WellIssued
<1>8. PICK known \in SUBSET sent : Issued(p) \subseteq known /\ Sound(t, known)
    BY <1>3
<1>9. Sound(u, known \cup {o}) /\ u.lamport = t.lamport + 1
    <2>1. known \in SUBSET Stamped /\ \A x \in known : x.op_id # o.op_id
        BY <1>3, <1>6 DEF WellIssued
    <2> HIDE DEF t
    <2> QED
        BY <1>5, <1>8, <2>1, PerformSound
<1> HIDE DEF u
<1>10. /\ crdt' \in [Peers -> Timeline] /\ crdt'[p] = u
       /\ \A q \in Peers \ {p} : crdt'[q] = crdt[q]
    <2>1. u \in Timeline
        BY <1>9 DEF Sound
    <2> QED
        BY <1>1, <1>3, <2>1
<1>11. Issued(p)' = Issued(p) \cup {o} /\ \A q \in Peers \ {p} : Issued(q)' = Issued(q)
    BY <1>1, <1>5 DEF Issued
<1>12. ASSUME NEW q \in Peers
       PROVE  /\ \A x \in Issued(q)' : x.op_id.lamport <= crdt'[q].lamport
              /\ \E k \in SUBSET sent' : Issued(q)' \subseteq k /\ Sound(crdt'[q], k)
    <2>1. CASE q = p
        <3>1. \A x \in Issued(p) \cup {o} : x.op_id.lamport <= u.lamport
            <4>1. \A x \in Issued(p) : x.op_id.lamport \in Nat
                BY <1>3 DEF Issued, WellIssued, Stamped, TaggedOp, OpTag
            <4>2. \A x \in Issued(p) : x.op_id.lamport <= t.lamport
                BY <1>3
            <4> HIDE DEF t
            <4> QED
                BY <1>5, <1>9, <4>1, <4>2
        <3>2. known \cup {o} \in SUBSET sent' /\ Issued(p)' \subseteq known \cup {o}
            BY <1>1, <1>8, <1>11
        <3> QED
            BY <1>9, <1>10, <1>11, <2>1, <3>1, <3>2
    <2>2. CASE q # p
        <3>1. crdt'[q] = crdt[q] /\ Issued(q)' = Issued(q)
            BY <1>10, <1>11, <2>2
        <3>2. sent \subseteq sent'
            BY <1>1
        <3> QED
            BY <1>3, <3>1, <3>2
    <2> QED
        BY <2>1, <2>2
<1> QED
    BY <1>7, <1>10, <1>12 DEF QuietInv

\* Every step of peers that edit, receive, merge snapshots and compact keeps
\* the invariant.
LEMMA NextKeepsQuiet == QuietInv /\ [QuietNext]_vars => QuietInv'
<1> SUFFICES ASSUME QuietInv, [QuietNext]_vars, OneSplitPerPiece(sent')
             PROVE  QuietInv'
    BY DEF QuietInv
<1>1. ASSUME NEW p \in Peers, NEW operation \in Edits[p], Issue(p, operation)
      PROVE  QuietInv'
    BY <1>1, IssueKeepsQuiet
<1>2. ASSUME OneSplitPerPiece(sent)
      PROVE  /\ WellIssued(sent) /\ crdt \in [Peers -> Timeline]
             /\ \A q \in Peers : \E k \in SUBSET sent :
                    Issued(q) \subseteq k /\ Sound(crdt[q], k)
    BY <1>2 DEF QuietInv
<1>3. ASSUME NEW p \in Peers, NEW o \in sent, ApplyRemote(p, o)
      PROVE  QuietInv'
    <2>1. sent' = sent /\ crdt' = [crdt EXCEPT ![p] = Receive(crdt[p], o)]
        BY <1>3 DEF ApplyRemote
    <2>2. OneSplitPerPiece(sent)
        BY <2>1
    <2>3. PICK known \in SUBSET sent :
                    Issued(p) \subseteq known /\ Sound(crdt[p], known)
        BY <1>2, <2>2
    <2>4. WellIssued(known \cup {o})
        <3>1. known \cup {o} \in SUBSET sent
            OBVIOUS
        <3> QED
            BY <1>2, <2>2, <3>1, FewerWellIssued
    <2>5. /\ Sound(Receive(crdt[p], o), known \cup {o})
          /\ crdt[p].lamport <= Receive(crdt[p], o).lamport
        BY <2>3, <2>4, ReceiveSound
    <2>6. known \cup {o} \in SUBSET sent /\ Issued(p) \subseteq known \cup {o}
        BY <2>3
    <2> QED
        BY <2>1, <2>2, <2>5, <2>6, QuietUpdate
<1>4. ASSUME NEW p \in Peers, NEW q \in Peers, MergeSnapshot(p, q)
      PROVE  QuietInv'
    <2>1. sent' = sent /\ crdt' = [crdt EXCEPT ![p] = Replay(crdt[p], Log(q))]
        BY <1>4 DEF MergeSnapshot
    <2>2. OneSplitPerPiece(sent)
        BY <2>1
    <2>3. PICK known \in SUBSET sent :
                    Issued(p) \subseteq known /\ Sound(crdt[p], known)
        BY <1>2, <2>2
    <2>4. Log(q) \in SUBSET sent /\ IsFiniteSet(Log(q))
        <3>1. PICK k \in SUBSET sent : Sound(crdt[q], k)
            BY <1>2, <2>2
        <3>2. Log(q) \subseteq k /\ crdt[q].operation_log \in Seq(TaggedOp)
            BY <3>1 DEF Sound, Log, Timeline
        <3> QED
            BY <3>2, OpsFinite DEF Log
    <2>5. known \cup Log(q) \in SUBSET sent /\ Issued(p) \subseteq known \cup Log(q)
        BY <2>3, <2>4
    <2>6. WellIssued(known \cup Log(q))
        BY <1>2, <2>2, <2>5, FewerWellIssued
    <2>7. Extended(Replay(crdt[p], Log(q)), crdt[p], known, Log(q))
        BY <2>3, <2>4, <2>6, ReplaySound
    <2>8. /\ Sound(Replay(crdt[p], Log(q)), known \cup Log(q))
          /\ crdt[p].lamport <= Replay(crdt[p], Log(q)).lamport
        BY <2>7 DEF Extended
    <2> QED
        BY <2>1, <2>2, <2>5, <2>8, QuietUpdate
<1>5. ASSUME NEW p \in Peers, Pending(p) = {}, Compact(p)
      PROVE  QuietInv'
    <2> DEFINE t    == crdt[p]
               kept == Compacted(t.operation_log, t.session)
               u    == [t EXCEPT !.operation_log = kept, !.seen = IdsIn(kept)]
    <2>1. sent' = sent
        BY <1>5 DEF Compact
    <2>2. OneSplitPerPiece(sent)
        BY <2>1
    <2>3. PICK known \in SUBSET sent :
                    Issued(p) \subseteq known /\ Sound(crdt[p], known)
        BY <1>2, <2>2
    <2>4. t \in Timeline /\ t.operation_log \in Seq(TaggedOp)
        BY <2>3 DEF Sound, Timeline
    <2>5. /\ kept \in Seq(TaggedOp)
          /\ OpsIn(kept) \subseteq OpsIn(t.operation_log)
        BY <2>4, RetainedOps DEF Compacted
    <2>6. crdt' = [crdt EXCEPT ![p] = u]
        <3>1. crdt' = [crdt EXCEPT ![p].operation_log = kept,
                                   ![p].seen = IdsIn(kept)]
            BY <1>5 DEF Compact
        <3> HIDE DEF kept
        <3> QED
            BY <1>2, <2>2, <2>4, <3>1 DEF Timeline
    <2> HIDE DEF kept
    <2>7. OpsIn(t.pending) = {}
        BY <1>5 DEF Pending
    <2>8. Sound(u, known) /\ u.lamport = t.lamport
        BY <2>3, <2>5, <2>7, CompactSound
    <2>9. t.lamport \in Nat
        BY <2>4 DEF Timeline
    <2> HIDE DEF u
    <2>10. t.lamport <= u.lamport
        BY <2>8, <2>9
    <2> QED
        BY <2>1, <2>2, <2>3, <2>6, <2>8, <2>10, QuietUpdate
<1>6. CASE UNCHANGED vars
    <2>1. crdt' = crdt /\ sent' = sent
        BY <1>6 DEF vars
    <2>2. \A p : Issued(p)' = Issued(p)
        BY <2>1 DEF Issued
    <2> QED
        BY <2>1, <2>2 DEF QuietInv, Sound, WellIssued
<1> QED
    BY <1>1, <1>3, <1>4, <1>5, <1>6 DEF QuietNext, ApplyLocal

\* Replicas that were given nothing satisfy it.
LEMMA InitQuiet == Init => QuietInv
<1> SUFFICES ASSUME Init PROVE QuietInv
    OBVIOUS
<1>1. sent = {} /\ crdt = [p \in Peers |-> NewTimeline]
    BY DEF Init
<1>2. Sound(NewTimeline, {}) /\ NewTimeline \in Timeline
    BY NewIsSound DEF Sound
<1>3. \A p : Issued(p) = {}
    BY <1>1 DEF Issued
<1>4. WellIssued({})
    BY DEF WellIssued, OneSplitPerPiece
<1> QED
    BY <1>1, <1>2, <1>3, <1>4 DEF QuietInv

\* It holds in every state.
LEMMA QuietInvariance == QuietSpec => []QuietInv
BY InitQuiet, NextKeepsQuiet, PTL DEF QuietSpec

\* What compact promises of the duplicate check it weakens: an operation that
\* arrives again, also one the log has forgotten, changes nothing and succeeds,
\* as long as no two splits share a piece.
THEOREM DuplicatesTheorem ==
    QuietSpec => [](OneSplitPerPiece(sent) => LateDuplicateHarmless)
<1>1. QuietInv => (OneSplitPerPiece(sent) => LateDuplicateHarmless)
    <2> SUFFICES ASSUME QuietInv, OneSplitPerPiece(sent), NEW p \in Peers,
                        NEW o \in (Log(p) \cup Issued(p)) \ Pending(p)
                 PROVE  Apply(crdt[p].session, o.operation, o.op_id)
                            = Ok(crdt[p].session)
        BY DEF LateDuplicateHarmless
    <2>1. PICK known \in SUBSET sent :
                    Issued(p) \subseteq known /\ Sound(crdt[p], known)
        BY DEF QuietInv
    <2>2. WellIssued(known)
        <3>1. WellIssued(sent)
            BY DEF QuietInv
        <3> QED
            BY <3>1, FewerWellIssued
    <2>3. o \in known \ OpsIn(crdt[p].pending)
        BY <2>1 DEF Sound, Log, Pending
    <2>4. crdt[p].session \in SessionState
        BY <2>1 DEF Sound, Timeline
    <2> QED
        BY <2>1, <2>2, <2>3, <2>4, ApplyAgain DEF Sound, WellIssued
<1> QED
    BY <1>1, QuietInvariance, PTL

=============================================================================
