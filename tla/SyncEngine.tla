----------------------------- MODULE SyncEngine -----------------------------
(***************************************************************************)
(* The replication engine of tpt-av-sync-net (engine.rs) with its offline  *)
(* queue (offline.rs), acknowledgements and resends (reliability.rs) and   *)
(* the batcher beside it (batcher.rs), over a mesh of connections.         *)
(*                                                                         *)
(* The CRDT inside an engine is what ReplicatedOpSet says it is: a growing *)
(* set of operations.  The transport is seen as the engine sees it:        *)
(* connections come and go in other threads between any two steps of the   *)
(* engine, a frame on a connection that breaks may be lost, and frames of  *)
(* one connection arrive in order.  The events that an engine queues for   *)
(* the application are left out: nothing reads them back.                  *)
(***************************************************************************)
EXTENDS Naturals, Sequences, Functions

CONSTANTS
    Peers,              \* numbers: transports list their peers in order
    MaxResends,         \* EngineConfig::max_resends
    OfflineCapacity,    \* EngineConfig::offline_capacity
    Inputs,             \* Inputs[p]: the calls the application of p makes
    MaxCalls,           \* bound: how many of them all applications make
    MaxBreaks           \* bound: connections that break

ASSUME EngineAssumption ==
    /\ Peers \subseteq Nat
    /\ MaxResends \in Nat
    /\ OfflineCapacity \in Nat \ {0}
    /\ MaxCalls \in Nat
    /\ MaxBreaks \in Nat

VARIABLES
    log,        \* log[p]: the operations the TimelineCrdt of p holds
    offline,    \* offline[p]: the queue of messages that found no peer
    pending,    \* pending[p]: tracked operation |-> how often it was sent
    acked,      \* acked[p]: pairs of an operation and a peer that has it
    batch,      \* batch[p]: the operations in the batcher
    known,      \* known[p]: known_peers, as of the last poll
    conn,       \* conn[p]: the peers p's transport lists
    link,       \* link[{p, q}]: the state of the connection
    chan,       \* chan[p][q]: frames from p that q has not read
    calls,      \* edits and requests made so far
    breaks      \* connections that have broken so far

vars == <<log, offline, pending, acked, batch, known,
          conn, link, chan, calls, breaks>>

netVars == <<conn, link, breaks>>

-----------------------------------------------------------------------------
(* Operations and messages.  An operation is its id: the issuer and the    *)
(* number of the call that made it.                                        *)

Op == Peers \X Nat

Pairs == {{p, q} : p, q \in Peers}

\* One shape for all SyncMessages: the kind and the operations it is about.
MessageType ==
    {"Operation", "Batch", "Ack", "Snapshot", "RequestSnapshot"}
Message == [type : MessageType, ops : SUBSET Op]

Msg(type, ops) == [type |-> type, ops |-> ops]
Operation(o) == Msg("Operation", {o})
Snapshot(p) == Msg("Snapshot", log[p])

\* The operations among the messages of a sequence.
Tracked(msgs) ==
    UNION {m.ops : m \in {x \in Range(msgs) : x.type = "Operation"}}

-----------------------------------------------------------------------------
(* The transport                                                           *)

\* What p writes to q arrives; a "silent" connection swallows it without an
\* error and a "dead" one returns an error, until the reader notices.
Works(p, q) == q \in conn[p] /\ link[{p, q}] = "up"
Refusing(p) == {q \in conn[p] : link[{p, q}] = "dead"}

\* send_to and broadcast: out[q] are the frames for q.
Written(p, out) ==
    [q \in Peers |-> chan[p][q] \o (IF Works(p, q) THEN out[q] ELSE <<>>)]

\* What broadcast may return: Err without peers and when a peer refuses; but
\* Ok when all refuse and have left the list by the time it looks again.
BroadcastOk(p) ==
    IF conn[p] = {} THEN {FALSE}
    ELSE IF Refusing(p) = {} THEN {TRUE}
    ELSE IF Refusing(p) = conn[p] THEN {TRUE, FALSE}
    ELSE {FALSE}

ToAll(msgs) == [q \in Peers |-> msgs]

-----------------------------------------------------------------------------
(* OfflineQueue and ReliabilityManager                                     *)

\* Mutant: the capacity is not looked at.
EnqueueUnbounded(queue, m) == Append(queue, m)

\* The oldest message makes room.
Enqueue(queue, m) ==
    Append(IF Len(queue) >= OfflineCapacity THEN Tail(queue) ELSE queue, m)

Track(tracked, ops) ==
    [o \in DOMAIN tracked \cup ops |-> IF o \in ops THEN 1 ELSE tracked[o]]

Untrack(tracked, ops) == [o \in DOMAIN tracked \ ops |-> tracked[o]]

HasAck(acks, o) == \E q \in Peers : <<o, q>> \in acks

\* Mutant: an operation is sent again without being counted.
AttemptUncounted(tracked, o) == tracked

\* due_for_resend for one operation: one attempt more, or given up.
Attempt(tracked, o) ==
    IF tracked[o] > MaxResends THEN Untrack(tracked, {o})
    ELSE [tracked EXCEPT ![o] = @ + 1]

-----------------------------------------------------------------------------
(* The application's calls                                                 *)

NoPending == [o \in {} |-> 0]

Init ==
    /\ log = [p \in Peers |-> {}]
    /\ offline = [p \in Peers |-> <<>>]
    /\ pending = [p \in Peers |-> NoPending]
    /\ acked = [p \in Peers |-> {}]
    /\ batch = [p \in Peers |-> {}]
    /\ known = [p \in Peers |-> {}]
    /\ conn = [p \in Peers |-> {}]
    /\ link = [pq \in Pairs |-> "dead"]
    /\ chan = [p \in Peers |-> [q \in Peers |-> <<>>]]
    /\ calls = 0
    /\ breaks = 0

Own(p) == {o \in log[p] : o[1] = p}

Call(p, name) ==
    name \in Inputs[p] /\ calls < MaxCalls /\ calls' = calls + 1

\* The operation that the next call of p makes.
Fresh(p) == <<p, calls + 1>>

Dispatch(p, m) ==
    \E ok \in BroadcastOk(p) :
        /\ chan' = [chan EXCEPT ![p] = Written(p, ToAll(<<m>>))]
        /\ pending' = IF ok THEN [pending EXCEPT ![p] = Track(@, Tracked(<<m>>))]
                      ELSE pending
        /\ offline' = IF ok THEN offline
                      ELSE [offline EXCEPT ![p] = Enqueue(@, m)]

ApplyLocal(p) ==
    /\ Call(p, "apply_local")
    /\ log' = [log EXCEPT ![p] = @ \cup {Fresh(p)}]
    /\ Dispatch(p, Operation(Fresh(p)))
    /\ UNCHANGED <<acked, batch, known, netVars>>

RequestSnapshot(p) ==
    /\ Call(p, "request_snapshot")
    /\ Dispatch(p, Msg("RequestSnapshot", {}))
    /\ UNCHANGED <<log, acked, batch, known, netVars>>

\* An edit through crdt_mut that the application hands to a batcher.
BatchLocal(p) ==
    /\ Call(p, "batch")
    /\ log' = [log EXCEPT ![p] = @ \cup {Fresh(p)}]
    /\ batch' = [batch EXCEPT ![p] = @ \cup {Fresh(p)}]
    /\ UNCHANGED <<offline, pending, acked, known, chan, netVars>>

\* flush_if_ready: a batch that could not be sent is kept.
FlushBatch(p) ==
    /\ batch[p] # {}
    /\ \E ok \in BroadcastOk(p) :
        /\ chan' = [chan EXCEPT ![p] =
                        Written(p, ToAll(<<Msg("Batch", batch[p])>>))]
        /\ batch' = IF ok THEN [batch EXCEPT ![p] = {}] ELSE batch
    /\ UNCHANGED <<log, offline, pending, acked, known, calls, netVars>>

-----------------------------------------------------------------------------
(* process_messages, in its three parts.  Each may be all that a call has  *)
(* to do, and the transport's threads run in between, so they are steps of *)
(* their own.                                                              *)

\* Mutant: a peer that joins gets the queue but no snapshot.
GreetingNone(p, greeted, queued) == ToAll(queued)

\* The first peer that can be greeted gets the snapshot and then, like all
\* others, the queue; later ones get their snapshot after the queue.
Greeting(p, greeted, queued) ==
    [q \in Peers |->
        IF q \notin greeted THEN queued
        ELSE IF \A x \in greeted : q <= x THEN <<Snapshot(p)>> \o queued
        ELSE Append(queued, Snapshot(p))]

\* handle_peer_join for every new peer: where sending the snapshot fails the
\* queue is not flushed, and a message the flush cannot send is dropped.
DetectPeerChanges(p) ==
    LET joined  == conn[p] \ known[p]
        greeted == joined \ Refusing(p)
        queued  == IF greeted = {} THEN <<>> ELSE offline[p]
    IN  /\ chan' = [chan EXCEPT ![p] = Written(p, Greeting(p, greeted, queued))]
        /\ \E ok \in BroadcastOk(p) :
            pending' = IF ok THEN [pending EXCEPT ![p] = Track(@, Tracked(queued))]
                       ELSE pending
        /\ offline' = IF greeted = {} THEN offline
                      ELSE [offline EXCEPT ![p] = <<>>]
        /\ known' = [known EXCEPT ![p] = conn[p]]
        /\ UNCHANGED <<log, acked, batch, calls, netVars>>

\* The frames handle_message sends back; the acknowledgements of a batch
\* are one here.
Reply(p, m) ==
    CASE m.type \in {"Operation", "Batch"} -> <<Msg("Ack", m.ops)>>
      [] m.type = "RequestSnapshot" -> <<Snapshot(p)>>
      [] OTHER -> <<>>

\* on_ack: the first acknowledgement ends the tracking, later ones do not.
OnAck(p, q, m) ==
    IF m.type # "Ack" THEN UNCHANGED <<pending, acked>>
    ELSE /\ acked' = [acked EXCEPT ![p] = @ \cup {<<o, q>> : o \in m.ops}]
         /\ pending' = [pending EXCEPT ![p] =
                Untrack(@, {o \in m.ops : ~HasAck(acked[p], o)})]

HandleMessage(p, q) ==
    LET m == Head(chan[q][p])
    IN  /\ chan[q][p] # <<>>
        /\ chan' = [chan EXCEPT
                    ![q][p] = Tail(@),
                    ![p][q] = @ \o (IF Works(p, q) THEN Reply(p, m) ELSE <<>>)]
        /\ log' = IF m.type = "Ack" THEN log
                  ELSE [log EXCEPT ![p] = @ \cup m.ops]
        /\ OnAck(p, q, m)
        /\ UNCHANGED <<offline, batch, known, calls, netVars>>

\* resend_due, for one of the operations that have waited long enough.
ResendDue(p) ==
    /\ \E o \in DOMAIN pending[p] :
        /\ chan' = IF pending[p][o] > MaxResends THEN chan
                   ELSE [chan EXCEPT ![p] = Written(p, ToAll(<<Operation(o)>>))]
        /\ pending' = [pending EXCEPT ![p] = Attempt(@, o)]
    /\ UNCHANGED <<log, offline, acked, batch, known, calls, netVars>>

-----------------------------------------------------------------------------
(* Connections                                                             *)

Connect(p, q) ==
    /\ p < q /\ q \notin conn[p] /\ p \notin conn[q]
    /\ conn' = [conn EXCEPT ![p] = @ \cup {q}, ![q] = @ \cup {p}]
    /\ link' = [link EXCEPT ![{p, q}] = "up"]
    /\ UNCHANGED <<log, offline, pending, acked, batch, known,
                   chan, calls, breaks>>

\* Frames that have not reached the other side are lost.
Break(p, q) ==
    /\ p < q /\ link[{p, q}] = "up" /\ breaks < MaxBreaks
    /\ \E s \in {"silent", "dead"} : link' = [link EXCEPT ![{p, q}] = s]
    /\ \E i \in 0..Len(chan[p][q]), j \in 0..Len(chan[q][p]) :
        chan' = [chan EXCEPT ![p][q] = SubSeq(@, 1, i),
                             ![q][p] = SubSeq(@, 1, j)]
    /\ breaks' = breaks + 1
    /\ UNCHANGED <<log, offline, pending, acked, batch, known,
                   conn, calls>>

\* A silent connection is found to be dead.
Reset(p, q) ==
    /\ p < q /\ link[{p, q}] = "silent"
    /\ link' = [link EXCEPT ![{p, q}] = "dead"]
    /\ UNCHANGED <<log, offline, pending, acked, batch, known,
                   conn, chan, calls, breaks>>

\* The reader thread of p ends and takes q off the list.
Hangup(p, q) ==
    /\ q \in conn[p] /\ link[{p, q}] = "dead"
    /\ conn' = [conn EXCEPT ![p] = @ \ {q}]
    /\ UNCHANGED <<log, offline, pending, acked, batch, known,
                   link, chan, calls, breaks>>

-----------------------------------------------------------------------------
(* Specifications                                                          *)

EngineStep(p) ==
    \/ ApplyLocal(p) \/ RequestSnapshot(p) \/ BatchLocal(p) \/ FlushBatch(p)
    \/ DetectPeerChanges(p)
    \/ \E q \in Peers \ {p} : HandleMessage(p, q)
    \/ ResendDue(p)

Failure(p, q) == Break(p, q) \/ Reset(p, q) \/ Hangup(p, q)

\* A peer reconnects only after both engines have polled and noticed that it
\* had gone.
Noticed(p, q) == q \notin known[p] /\ p \notin known[q]

Next ==
    \E p \in Peers :
        \/ EngineStep(p)
        \/ \E q \in Peers : Failure(p, q)
        \/ \E q \in Peers : Noticed(p, q) /\ Connect(p, q)

\* A connection may also come back between two polls.
FlakyNext ==
    \E p \in Peers :
        \/ EngineStep(p)
        \/ \E q \in Peers : Failure(p, q) \/ Connect(p, q)

\* Applications poll for ever, and time passes: what is tracked becomes due.
\* With more than two peers handling each peer's frames weakly fairly asks
\* less than the inbox gives, which is one queue for all.
Fairness ==
    \A p \in Peers :
        /\ WF_vars(DetectPeerChanges(p))
        /\ \A q \in Peers \ {p} : WF_vars(HandleMessage(p, q))
        /\ WF_vars(ResendDue(p))

Safety == Init /\ [][Next]_vars
Spec == Safety /\ Fairness
FlakySpec == Init /\ [][FlakyNext]_vars /\ Fairness

-----------------------------------------------------------------------------
(* Properties                                                              *)

\* The variables have the types of the engine's fields.
TypeOK ==
    /\ log \in [Peers -> SUBSET Op]
    /\ offline \in [Peers -> Seq(Message)]
    /\ DOMAIN pending = Peers
    /\ acked \in [Peers -> SUBSET (Op \X Peers)]
    /\ batch \in [Peers -> SUBSET Op]
    /\ known \in [Peers -> SUBSET Peers]
    /\ conn \in [Peers -> SUBSET Peers]
    /\ link \in [Pairs -> {"up", "silent", "dead"}]
    /\ chan \in [Peers -> [Peers -> Seq(Message)]]
    /\ calls \in 0..MaxCalls /\ breaks \in 0..MaxBreaks

\* Every queue is bounded, and peers wait for acknowledgements of their own
\* operations only: what they track and batch, they have issued themselves,
\* and nothing is sent more often than the budget allows.
WithinLimits ==
    \A p \in Peers :
        /\ Len(offline[p]) <= OfflineCapacity
        /\ batch[p] \subseteq Own(p)
        /\ DOMAIN pending[p] \subseteq Own(p)
        /\ \A o \in DOMAIN pending[p] : pending[p][o] \in 1..(MaxResends + 1)
        /\ \A a \in acked[p] : a[1] \in Own(p)

\* The operations that frames bring: those acknowledged are none of them.
Carried(msgs) == UNION {m.ops : m \in {x \in Range(msgs) : x.type # "Ack"}}

InFlight(p, q) == Carried(chan[p][q])

\* Over a working connection that the engine knows of, everything the peer
\* lacks is on its way to it: no edit is lost by falling between the offline
\* queue, the snapshot and the broadcasts, whatever breaks in between.
LinkedPeersAreFed ==
    \A p, q \in Peers :
        q \in known[p] /\ Works(p, q) =>
            Own(p) \subseteq log[q] \cup InFlight(p, q) \cup batch[p]

\* Again and again a peer has everything that has been broadcast to it, as
\* long as its connection works, whatever was lost before.
EventuallyDelivered ==
    \A p, q \in Peers : p # q =>
        []<>(Works(p, q) => Own(p) \ batch[p] \subseteq log[q])

\* What is queued while no peer can be reached is sent once one can be again
\* (README.md of the crate, line 72).
QueueFlushed ==
    \A p, q \in Peers : p # q => []<>(Works(p, q) => offline[p] = <<>>)

\* Resending ends: also an operation that nobody acknowledges is given up.
TrackingEnds ==
    \A p \in Peers : \A n \in 1..MaxCalls :
        []<>(<<p, n>> \notin DOMAIN pending[p])

=============================================================================
