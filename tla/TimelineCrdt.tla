---------------------------- MODULE TimelineCrdt ----------------------------
(***************************************************************************)
(* The replication engine of tpt-av-sync-crdt (timeline_crdt.rs): one      *)
(* TimelineCrdt per peer, and the set of operations peers have handed to   *)
(* the network.                                                            *)
(*                                                                         *)
(* Every method takes &mut self, so a call is one step.  The network may   *)
(* deliver any issued operation to any peer, in any order, any number of   *)
(* times or never: ApplyRemote takes an arbitrary element of sent and      *)
(* leaves it there.                                                        *)
(*                                                                         *)
(* The undo history that apply_local also records into is added on top of  *)
(* these steps by UndoRedo, the conflict events of apply_remote by         *)
(* ConflictEvents, snapshots and compaction by Snapshots.                  *)
(***************************************************************************)
EXTENDS Session, Sequences

CONSTANTS
    Edits,     \* Edits[p]: the operations the user of peer p may perform
    MaxOps     \* bound: how many operations are issued in a behaviour

ASSUME TimelineAssumption ==
    /\ Edits \in [Peers -> SUBSET Operation]
    /\ MaxOps \in Nat

VARIABLES
    crdt,      \* crdt[p]: the TimelineCrdt of peer p
    sent       \* every operation apply_local has returned for broadcast

vars == <<crdt, sent>>

-----------------------------------------------------------------------------
(* Types                                                                   *)

\* op_id repeats lamport_ts and peer_id; timestamp is display only.
TaggedOp ==
    [op_id : OpTag, operation : Operation, vector_clock : VectorClock]

Timeline ==
    [ session       : SessionState,
      operation_log : Seq(TaggedOp),
      seen          : SUBSET OpTag,
      vector_clock  : VectorClock,
      lamport       : Nat,
      pending       : Seq(TaggedOp) ]

NewTimeline ==
    [ session |-> EmptySession, operation_log |-> <<>>, seen |-> {},
      vector_clock |-> ZeroClock, lamport |-> 0, pending |-> <<>> ]

\* The operations of a log or of a buffer, and their ids.
OpsIn(log) == {log[i] : i \in DOMAIN log}
IdsIn(log) == {o.op_id : o \in OpsIn(log)}
DistinctIds(log) == \A i, j \in DOMAIN log : log[i].op_id = log[j].op_id => i = j

-----------------------------------------------------------------------------
(* drain_pending: passes over the buffered operations, retrying each, until*)
(* a pass applies nothing.  One step of the loop is one retry, or the      *)
(* start of the next pass, or (when a pass made no progress) nothing.      *)

DrainState ==
    [ session : SessionState, todo : Seq(TaggedOp),
      waiting : Seq(TaggedOp), progress : BOOLEAN ]

Retry(x) ==
    LET op  == Head(x.todo)
        res == Apply(x.session, op.operation, op.op_id)
    IN  [ session  |-> res.session,
          todo     |-> Tail(x.todo),
          waiting  |-> IF res.ok THEN x.waiting ELSE Append(x.waiting, op),
          progress |-> x.progress \/ res.ok ]

\* Mutant: a pass starts without forgetting what the last one left over.
NextPassKeeping(x) == [x EXCEPT !.todo = x.waiting, !.progress = FALSE]

NextPass(x) == [x EXCEPT !.todo = x.waiting, !.waiting = <<>>,
                         !.progress = FALSE]

\* Mutant: one pass and no more.
DrainOnePass(x) == IF x.todo # <<>> THEN Retry(x) ELSE x

DrainStep(x) ==
    IF x.todo # <<>> THEN Retry(x)
    ELSE IF x.progress THEN NextPass(x)
    ELSE x

\* n buffered operations need at most n passes that apply one each and a
\* last one that applies none.
DrainSteps(n) == (n + 1) * (n + 1)

DrainStart(s, pending) ==
    [session |-> s, todo |-> pending, waiting |-> <<>>, progress |-> FALSE]

\* The states of the loop, from its entry to its exit.
DrainLoop(s, pending) ==
    LET loop[k \in 0..DrainSteps(Len(pending))] ==
            IF k = 0 THEN DrainStart(s, pending) ELSE DrainStep(loop[k - 1])
    IN  loop

Drain(s, pending) == DrainLoop(s, pending)[DrainSteps(Len(pending))]

-----------------------------------------------------------------------------
(* apply_remote                                                            *)

Accept(t, o) ==
    LET res     == Apply(t.session, o.operation, o.op_id)
        buffer  == IF res.ok THEN t.pending ELSE Append(t.pending, o)
        drained == Drain(res.session, buffer)
    IN  [ session       |-> drained.session,
          operation_log |-> Append(t.operation_log, o),
          seen          |-> t.seen \cup {o.op_id},
          vector_clock  |-> Witness(Merge(t.vector_clock, o.vector_clock),
                                    o.op_id.peer, o.op_id.lamport),
          lamport       |-> Observe(t.lamport, o.op_id.lamport),
          pending       |-> drained.waiting ]

\* A duplicate is dropped before anything is looked at.
Receive(t, o) == IF o.op_id \in t.seen THEN t ELSE Accept(t, o)

-----------------------------------------------------------------------------
(* apply_local_internal: stamp the operation, apply or buffer it, log it.  *)
(* Nothing is drained here.                                                *)

Stamp(t, p, operation) ==
    [ op_id        |-> [lamport |-> Tick(t.lamport), peer |-> p],
      operation    |-> operation,
      vector_clock |-> Increment(t.vector_clock, p) ]

Perform(t, o) ==
    LET res == Apply(t.session, o.operation, o.op_id)
    IN  [ session       |-> res.session,
          operation_log |-> Append(t.operation_log, o),
          seen          |-> t.seen \cup {o.op_id},
          vector_clock  |-> o.vector_clock,
          lamport       |-> o.op_id.lamport,
          pending       |-> IF res.ok THEN t.pending
                            ELSE Append(t.pending, o) ]

-----------------------------------------------------------------------------
(* The steps                                                               *)

Init ==
    /\ crdt = [p \in Peers |-> NewTimeline]
    /\ sent = {}

\* Two bounds: MaxOps keeps TLC's instance finite, and the Lamport clock is
\* never at u64::MAX, where tick would stop advancing.
WithinBounds(p) ==
    /\ Cardinality(sent) < MaxOps
    /\ crdt[p].lamport < MaxLamport

Issue(p, operation) ==
    LET o == Stamp(crdt[p], p, operation)
    IN  /\ WithinBounds(p)
        /\ crdt' = [crdt EXCEPT ![p] = Perform(@, o)]
        /\ sent' = sent \cup {o}

ApplyLocal(p) == \E operation \in Edits[p] : Issue(p, operation)

\* A duplicate is a step that changes nothing.
ApplyRemote(p, o) ==
    /\ o \in sent
    /\ crdt' = [crdt EXCEPT ![p] = Receive(@, o)]
    /\ UNCHANGED sent

Next ==
    \E p \in Peers :
        \/ ApplyLocal(p)
        \/ \E o \in sent : ApplyRemote(p, o)

Spec == Init /\ [][Next]_vars

-----------------------------------------------------------------------------
(* Properties                                                              *)

Log(p) == OpsIn(crdt[p].operation_log)
Pending(p) == OpsIn(crdt[p].pending)

\* Every replica's clocks, log and buffer have the types of the Rust struct.
TypeOK ==
    /\ crdt \in [Peers -> Timeline]
    /\ sent \subseteq TaggedOp

\* Duplicate detection and the log agree: seen holds exactly the ids that
\* are logged, and no operation is logged twice however often it arrives.
LogHasNoDuplicates ==
    \A p \in Peers :
        /\ crdt[p].seen = IdsIn(crdt[p].operation_log)
        /\ DistinctIds(crdt[p].operation_log)

\* OperationId's promise: no two issued operations share an id, although
\* peers issue them without talking to each other.
OpIdsUnique ==
    \A a, b \in sent : a.op_id = b.op_id => a = b

\* LamportClock's promise: an operation outranks everything its issuer had
\* logged, its own or received, when it issued it.
IssuedAfterObserved ==
    \A p \in Peers :
        LET log == crdt[p].operation_log
        IN  \A i, j \in DOMAIN log :
                i < j /\ log[j].op_id.peer = p
                    => log[i].op_id.lamport < log[j].op_id.lamport

\* Nothing is lost by buffering: a buffered operation is in the log once
\* and in the buffer once, and a peer's log holds all it has ever issued.
BufferIsLogged ==
    \A p \in Peers :
        /\ Pending(p) \subseteq Log(p)
        /\ DistinctIds(crdt[p].pending)
        /\ {o \in sent : o.op_id.peer = p} \subseteq Log(p)

\* A replica knows only what was issued, and its clock has caught up with all
\* it knows: the two facts that make ids unique and later edits win.
ClockCoversLog ==
    \A p \in Peers :
        /\ Log(p) \subseteq sent
        /\ \A o \in Log(p) : o.op_id.lamport <= crdt[p].lamport

\* Once an operation has been received, all that still waits is waiting for a
\* clip or track that does not exist, even when the operation is the first of
\* a chain of splits whose later links arrived before it.
DrainLeavesOrphans ==
    [][\A p \in Peers :
        (\E o \in sent : ApplyRemote(p, o) /\ o.op_id \notin crdt[p].seen)
            => \A x \in Pending(p)' :
                    MissingTargets(crdt[p].session, x.operation)' # {}]_vars

\* What the documentation of apply_local says of every buffered operation:
\* it applies whenever its target appears.
BufferedUntilTarget ==
    \A p \in Peers : \A x \in Pending(p) :
        MissingTargets(crdt[p].session, x.operation) # {}

-----------------------------------------------------------------------------
(* What the session must hold, read off the set of applied operations.     *)

Applied(p) == Log(p) \ Pending(p)

\* The tag order's last write to field f among ops, as a register.
LastWrite(ops, f) ==
    IF \E o \in ops : f \in DOMAIN o.operation.writes
    THEN LET w == CHOOSE o \in ops :
                    /\ f \in DOMAIN o.operation.writes
                    /\ \A x \in ops : f \in DOMAIN x.operation.writes
                            => ~TagLess(o.op_id, x.op_id)
         IN  Written(w.operation.writes[f], w.op_id)
    ELSE NewInitial(0)

ClipEditsOf(p, c) ==
    {o \in Applied(p) : o.operation \in ClipEdit /\ o.operation.clip = c}
TrackEditsOf(p, t) ==
    {o \in Applied(p) : o.operation \in TrackEdit /\ o.operation.track = t}

\* Whatever the order of arrival, every register holds the write with the
\* greatest tag of all applied writes to it.
LastWriterWins ==
    \A p \in Peers :
        LET s == crdt[p].session
        IN  /\ \A c \in ClipId : Exists(s.clips, c) =>
                \A f \in ClipField :
                    s.clips[c].regs[f] = LastWrite(ClipEditsOf(p, c), f)
            /\ \A t \in TrackId : Exists(s.tracks, t) =>
                \A f \in TrackField :
                    s.tracks[t].regs[f] = LastWrite(TrackEditsOf(p, t), f)
            /\ \A f \in MetaField :
                    s.metadata[f] =
                        LastWrite({o \in Applied(p) :
                                        o.operation \in MetadataEdit}, f)

\* Two replicas that have seen the same operations and wait for none of them
\* hold the same session, hidden registers and tags included.
Convergence ==
    \A p, q \in Peers :
        crdt[p].seen = crdt[q].seen /\ Pending(p) = {} /\ Pending(q) = {}
            => crdt[p].session = crdt[q].session

-----------------------------------------------------------------------------
(* The promise of the replication layer: logs, buffers, clocks and the     *)
(* duplicate check together implement a grow-only set of operations.       *)

Body(o) == <<o.op_id, o.operation>>

OpSet == INSTANCE ReplicatedOpSet WITH
            Content   <- Edits,
            published <- {Body(o) : o \in sent},
            known     <- [p \in Peers |-> {Body(o) : o \in Log(p)}]

\* Every step publishes an operation under a new id that outranks all its
\* issuer knows, or learns a published one, or changes nothing.
ImplementsOpSet == OpSet!Spec

=============================================================================
