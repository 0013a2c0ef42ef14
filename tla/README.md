# A verification development for tpt-av-sync

tpt-av-sync is a Rust library for editing an audio/video timeline together:
every peer holds a replica of the session, edits it without waiting for anyone,
and sends its operations to the others.  This directory holds TLA+ models of the
library, the TLC configurations that check them on small instances, and proofs
checked by TLAPS.

Paths such as `crdt/timeline_crdt.rs` stand for
`src/tpt-av-sync-crdt/src/timeline_crdt.rs`.

## 1. The system

| part | state it keeps | operations | hard behaviour |
|---|---|---|---|
| clocks, ids (`utils/clock.rs`, `operation_id.rs`) | a Lamport counter, a vector clock | tick, observe; increment, witness, merge, compare | uniqueness without coordination; saturation |
| LWW registers (`crdt/merge.rs`) | value and tag | set | commutative and idempotent writes |
| timeline state (`crdt/state.rs`, `clip_crdt.rs`, `track_crdt.rs`, `envelope_crdt.rs`, `operation.rs`) | clips with split points and parents, tracks, envelopes, metadata | `Session::apply` of eleven operations; `resolve_clip`, `materialize` | splits that arrive in any order, two splits naming one child, failure after a partial change |
| replication engine (`crdt/timeline_crdt.rs`) | log, `seen`, clocks, buffer | `apply_local`, `apply_remote`, `drain_pending` | loss, duplication, reordering of operations; chains of buffered operations |
| history (`crdt/history.rs`) | undo and redo stacks | record, undo, redo, `compute_inverse` | inverses computed before remote edits, applied after |
| conflict events (`timeline_crdt.rs`, `merge.rs`) | queue of events | `observe_resolution`, `take_resolution_events` | concurrency decided from vector clocks |
| snapshots (`timeline_crdt.rs`, `compaction.rs`) | none of their own | snapshot, merge, restore, compact | restart from an older state; what compaction forgets |
| deltas (`delta.rs`) | none of their own | compute and apply a delta between two views | a session holds what its view does not show |
| sync engine (`net/engine.rs`, `reliability.rs`, `offline.rs`, `batcher.rs`) | known peers, offline queue, unacknowledged operations | local edit, poll, join, leave, ack, resend | lost and repeated messages, time-outs, bounded queues |
| transports (`net/tcp.rs`, `websocket.rs`, `webrtc.rs`, `transport.rs`) | connection registry, queued frames | connect, reader exit, channel open, send | threads racing over one registry entry |
| discovery (`net/discovery.rs`, `mdns_discovery.rs`) | peers with expiry times | announce, expire | time-out racing a late announcement |
| servers (`server/relay.rs`, `signaling.rs`, `limits.rs`) | rooms, members, stored operations, counters | join, forward, leave, admit, release | reconnection racing cleanup |
| relay store (`server/persistence.rs`) | two generations of a log file | append, rotate, load | crash between steps, truncated tail |
| playhead (`playhead/*.rs`) | master, positions, clock offset | updates, transport commands, clock sync | master hand-over, stale updates |
| presence (`presence/*.rs`) | users and their status | update, tick, leave | ageing against announced status |
| identity, wire, TLS, CLI, examples | – | – | not modelled: pure encodings, cryptography and I/O |

How they meet: the application calls the sync engine, which stamps and applies
the edit in its `TimelineCrdt` (`apply_local`) and hands the operation to a
transport; the transport of another peer, directly or through the relay, hands
it to that peer's engine, which calls `apply_remote` and acknowledges.  A joining
peer gets a snapshot, that is the operation log, and replays it.  Presence and
playhead messages travel beside the operations and do not touch the timeline.

`PROJECT.json` lists every part with its status, and under `hazards` each thing
in this code that is hard to test, at its line.

## 2. What is modelled

### Clocks, LwwRegister
Operators only.  A peer is a natural number because its order breaks ties
between equal timestamps; for the same reason no run uses symmetry.  Peer 0 is
the tag of a register nobody has written.

### Session
`Session::apply` and the entity CRDTs as operators from a session, an operation
and a tag to a result `[ok, session]`.  A failing operation may have changed the
session (`apply_split` revives the child before it looks for the parent), so
`UnknownTarget` carries a session too.  An operation's payload is a partial
function from field names to numbers; fields the code always treats alike share
a name (`name` stands for name, source and color; `gain` for gain, muted and
locked, which `InsertClip` resets).  `parent` stands for `ClipCrdt::parent` and
`origin_claim`, which the code always writes together.

### TimelineCrdt
One record per peer with the fields of the struct, and the set `sent` of
operations handed to the network.  `&mut self` makes every call one step:

| action | code |
|---|---|
| `ApplyLocal(p)` | `apply_local`: tick, increment, stamp, apply or buffer, log |
| `ApplyRemote(p, o)` | `apply_remote`: duplicate check, clocks, log, apply or buffer, and the whole of `drain_pending` |

The network is the weakest one the engine is documented to tolerate: any issued
operation may reach any peer at any time, in any order, any number of times, or
never.  A duplicate is a step that changes nothing, so a behaviour never gets
stuck once something has been sent.  `drain_pending` is a recursive function
over the steps of its loop.

### ReplicatedOpSet
The abstract specification: a grow-only set of operations, published under ids
that are new and outrank all the publisher knows, and learned piece by piece, one
operation or a snapshot's at a time.  `TimelineCrdt` implements it with `published`
= the bodies of `sent` and `known` = the bodies of each log; so does `SyncEngine`,
with what its engines have issued and logged.

### SessionView, TimelineView
`resolve_clip`, `resolve_full_range` and `materialize` as operators on a session.
The walks up the chain of parents are recursive functions of at most `Depth`
steps; a chain longer than the number of clips is the endless loop of the code
(`Cyclic`).  `View` is what `materialize` returns, with sets for its sorted
lists.  `TimelineView` states what the view must show at every replica while
`TimelineCrdt` runs.

### ConflictEvents
`TimelineCrdt` with two more variables: the queue `resolution_events` and what the
application has taken from it.  `Remote` adds to `ApplyRemote` the events of the
received operation and of every retry of `drain_pending`, in the order of the
calls; `Local` and `TakeResolutionEvents` are the other two steps.

### UndoRedo
`TimelineCrdt` with the undo and redo stacks.  `Edit` is `apply_local` with the
inverse it records, `Undo` and `Redo` issue operations without recording.
`HistoryCapacity` is 256 in the code.

### Snapshots
`FromSnapshot` and `Replay` replay a log in tag order; `Compacted` is `compact`.
`QuietSpec` compacts only with an empty buffer, `CompactSpec` at any time.

### SyncEngine
The engine of `tpt-av-sync-net`, one per peer, over a mesh of connections as
`tcp.rs` implements them.  The CRDT inside is what `ReplicatedOpSet` allows: a
growing set of operations, an operation being its issuer and number.

| variable | code |
|---|---|
| `log` | `crdt`, its operation log |
| `offline` | `offline`, the bounded queue |
| `pending`, `acked` | `reliability.pending` (attempts only), `reliability.acked_peers` |
| `batch` | the `OperationBatcher` beside the engine |
| `known` | `known_peers` |
| `conn`, `link`, `chan` | the transport's list of peers; the state of a connection; frames written and not yet read |

| action | code |
|---|---|
| `ApplyLocal`, `RequestSnapshot` | the calls of that name, with `dispatch` |
| `BatchLocal`, `FlushBatch` | an edit through `crdt_mut` handed to `add`; `flush_if_ready` |
| `DetectPeerChanges`, `HandleMessage`, `ResendDue` | the three parts of `process_messages`, each with all it sends |
| `Connect`, `Hangup` | dial, accept and `register`; the end of a reader thread |
| `Break`, `Reset` | the network: a connection stops working, silently or with errors, and loses any number of the latest frames; a silent one is found dead |

The parts of `process_messages` are steps of their own because each may find
nothing to do, so a poll with only one of them at work is a call the program
makes, and because transport threads change `conn` between them.  Time is not
modelled: anything tracked may be due.  `broadcast` returns what `tcp.rs` returns,
which is an error when one peer refuses and others got the frame, and may be
success when all have refused.  `Spec` lets a connection come back after both
engines have noticed its end, `FlakySpec` at any time.

### Delta
`compute_delta` and `apply_delta` as operators on views and sessions: the
operations for tracks, clips and envelopes in the order of the code, applied one
after the other under one tag above all others.  `UndoRedo`'s behaviours supply the
pairs of views.

### Admission, Relay
`Admission` is the `ConnectionGuard`: `Admit` is `try_admit`; a dropped lease lowers
the total first (`ReleaseTotal`) and the count of the address later, under its lock
(`ReleaseIp`).  `Relay` composes it with the tasks of `serve_connection`, one per
connection, each of which is at one place of its loop (`phase`) with one frame
(`frame`):

| action | code |
|---|---|
| `Accept`, `Close` | the accept loop; the task returns and drops its lease |
| `Join`, `Read` | the first frame of the client and later ones: proof check, room limit, registration of the sender (`Receive`, `Register`) |
| `Store` | an operation is appended, a snapshot request answered from the store |
| `Reply`, `Forward` | the answer or the frame is handed to the writers of the members |
| `Hangup`, `Leave` | the loop ends; the members of the cleanup list are removed |
| `Restart` | the server stops and starts again on the same store |

`members` maps peers to connections as the room's map does to senders, and `joined`
is the task's cleanup list.  A lock ends where a step does, so tasks interleave
wherever the code lets them.

### RelayStore
One room's files as sequences of cells, `current` and `rotated`; a frame is a length
prefix and the cells of its operation.  `append_op` is the steps `BeginAppend` (count
and limits), `RemoveRotated`, `RenameCurrent`, `WriteFrame`; `Crash` may come between
any two of them and after any cell of a write, `Reopen` starts anew with `counts`
empty.  `ReadFrom` scans as the code's loop does, torn frames and what follows them
included; it gives what is read from each cell on, `ReadFrames` from the first.  `recorded` and `torn` are history variables.

### Signaling
The signaling server over `Admission`, written like `Relay`.  It registers on `Join`
only, checks a proof at every `Join` and lists every join for cleanup.

### Presence
`local` and `remotes` of each `PresenceManager`, updates under way in order per pair
of peers, and the wall clock `now` that applications pass in (`Advance`).
`Publish`, `LeaveSession`, `ReceiveUpdate`, `HandlePeerLeave`, `NoteActivity` and `Tick` are the
methods; `Vanish` is a peer that stops without a word.

### Playhead, TransportSync
`Playhead`: each peer has a clock ahead of time by a fixed amount, a position, a
`ClockSynchronizer` and the tracks it keeps of others.  Messages are sets of what was
ever sent: they are late, lost, repeated and overtaken.  `SendRequest`, `Respond`,
`TakeResponse`, `SendPosition`, `ReceivePosition`, `SetMaster` and `FollowMaster` are
the methods.  Offsets and converted times are doubled (names ending in 2) so that
halves are integers.  `drift` is the `DriftCompensator`, which `TakeResponse` feeds with
the best offset as `process_clock_sync` does, and whose rate scales the elapsed time in
`SynchronizedPosition`; rates are whole parts per million.  `Pass` lets time pass to any
later one of the `Moments` the run looks at.
`TransportSync`: transport state and position of each peer, commands in order per
pair of peers, and `Appoint` for `set_master`.

### Connections
TCP and WebSocket connections from dial to the end of the reader.  `stage[s][e]` is
where end `e` of socket `s` is in the handshake, `wire` what is under way to it,
`entry[h][g]` the registry.  `TakeHello`, `TakeChallenge`, `TakeAnswer` are one read of the
handshake each with all it sends, `RegisterSocket` replaces an entry, `SeeEnd` is a
reader that ends and removes whatever entry its peer has.  `over` chooses the
transport and `identified` who has an identity, once per behaviour.

### WebRtc
Two peers' `WebRtcTransport`s.  A peer connection is a number; `conn[p]` is the entry
of the other peer; descriptions, candidates, the data channel and queued frames
belong to the connection they were made for, callbacks act on the entry found by
peer, each once per connection.  A send is two steps, `FindClosed` and `QueueFrame`: `send_frame` reads `open` and
pushes the frame without the registry lock, so that the channel may open or the entry be
replaced in between; `early` remembers who has sent so.  `HandleSignal` is `handle_signal` with its three kinds of envelope.  Establishing a
connection is the library's and external.

### Discovery
`known[q]` is the age of each entry of `DiscoveryCore` or `MdnsDiscovery`, `unread[q]`
what waits in the socket or in the daemon's channel.  `Advertise`, `Poll` and `Stop` are the
methods; `Report` is the mDNS daemon, external.

### MCServices
`Relay`, `RelayStore`, `Signaling`, `Presence`, `Playhead`, `TransportSync`, `Connections`,
`WebRtc` and `Discovery` in one specification whose variable `part` says which of them
runs.  They share no state: what composes is composed inside the modules (`Relay` and
`Signaling` with `Admission`); the relay's store appears in `Relay` as what
`RelayStore` keeps when no limit is reached.

## 3. The runs

All runs but `services`: peers 1 and 2, no more than `MaxOps` operations issued in a behaviour,
Lamport clock at most 10 (5 in `pieces`);
in the engine runs no more than `MaxCalls` calls of the applications and `MaxBreaks`
breaks of the connection.  The MC modules give each peer its repertoire of edits.

| run | cfg | question | operations |
|---|---|---|---|
| `contested_clip` | Conflicts.cfg | unique ids, last writer wins, vector clocks against causality, and whether reported conflicts are real, for concurrent edits of one clip | 4 |
| `pieces` | Pieces.cfg | types, duplicates, clocks, buffering, complete draining, convergence and the refinement for nested concurrent splits; do the pieces tile the clip, do un-renamed pieces follow it? | 4 |
| `undo_redo` | Undo.cfg | do undo and redo restore the view, take effect at once and converge; does a delta lead from one replica's view to another's? | 4, history of 2 |
| `snapshots` | Snapshot.cfg | replay of full and compacted logs, resync, late duplicates | 4 |
| `engine` | Engine.cfg | is a connected peer always fed, and in the end; do queue and resends stay bounded and stop? | 2 calls, 1 break |
| `services` | Services.cfg | the servers, the store, presence, playhead, transport control, discovery and connections, one of them per behaviour | below |
| `local_edit_buffered` | LocalBuffer.cfg | does a buffered operation apply whenever its target appears? (no) | 3 |
| `nested_rename` | NestedRename.cfg | does a renamed piece show its name? (no) | 4 |
| `move_piece` | MovePiece.cfg | is a moved piece still there? (no) | 4 |
| `undo_piece_delete` | UndoPiece.cfg | do replicas converge after undo of a piece's delete? (no) | 4 |
| `compaction_waiting` | CompactWaiting.cfg | may one compact while operations wait? (no) | 3 |
| `flaky_engine` | FlakyEngine.cfg | is the offline queue flushed once the peer is back? (no) | 1 call, 1 break |

Why the bounds are enough: four operations of two peers include an insert, two
conflicting edits of it and an edit that depends on one of them, which arrives
before it; a chain insert, split, split of the piece, edit of that piece, whose
delivery in reverse order needs three passes of the drain; re-insertion after a
delete; and an edit, its undo, its redo and a remote edit between them.  A history
of two entries is full after two edits.  `MaxLamport` is never reached with these
bounds; it is where the guard of `Issue` keeps the clock from saturating.

Preconditions of the passing runs, each because the code does not promise or keep
the property without it (section 5): every split names a child id of its own and
no `InsertClip` names a split's child; no gain changes and no splits are undone;
no piece is moved; a peer compacts while its buffer is empty.  `DeltaReaches` speaks of
sessions without pieces whose live clips all show, of views that lose no envelope,
and of deltas that insert no clip with a gain (`InReach`).

The engine runs have a queue of one and a budget of one resend, so both limits are
met; one break suffices to lose frames in both directions, be noticed by the two
sides in either order, and be followed by a reconnection.  What more peers, calls
and breaks could add to safety is covered by the proof for every number of them.

The bounds of `services`, and what they make happen:

| part | bounds | reached with them |
|---|---|---|
| relay | four connections of three peers, two of one peer and three from one address; 3 connections, 2 per address and 2 members admitted; one operation; one frame beyond each client's join, one restart | the cap of an address refuses (the total is reached, but refuses nobody the address admits: that case is left to the proof); a client without a proof is refused, as one that finds the room full is (the same branch); a peer reconnects before the cleanup of its first connection and after it; an operation arrives at every point of another peer's join |
| signaling | the same connections, one member per room | the same races with the other cleanup list; the room limit refuses peers that have a proof |
| store | six operations of sizes 1, 4 and 9, 2 operations or 9 cells per segment, two crashes | rotation for either limit alone, and a second one that drops operations; a frame larger than a segment; crashes in rotations and in writes, and appends after them |
| presence | times 0 to 4, idle after 1, offline after 2, input up to 2, two updates under way | every status, and updates read after they have aged |
| playhead | the moments 0, 1, 61 and 62, clocks two apart; two requests, each answered once, one update and one jump; nothing is asked or told any more at the last moment | responses and updates overtaken by time and by changes of master; a better response after a worse one, close to it in time, which is an absurd rate and ignored, or 60 and more apart, which is a rate below one per cent and scales the age of updates from then on (requests that are answered twice are left to the proof) |
| transport | three peers, one command under way per pair, two positions | a change of master between command and receipt |
| connections | two sockets dialled from both sides or both from one; TCP and WebSocket; nobody, one or both with identities; one message each | each end of either connection ends before or after the other one registers |
| WebRTC | three peer connections, one frame queued at each | a dial, its answer and a second dial from either side; a frame queued before the channel opens, and one found too early and queued after it |
| discovery | two peers, time to live 1, two announcements unread | an announcement read after its sender has stopped; a removal behind it |

More connections, peers and messages repeat these cases; for the relay's counters,
rooms and joins and for the playhead the proofs cover any number of them.  An age
past the time to live is not told from another, so discovery has no bound on time.

Deadlock is not checked where the cfg says so: bounded operations, frames and times
come to an end.

`TransportsAgree` stops at a disputed hand-over and `LoneDialConnects` speaks of one
dial and of the peers that wait for their channel before they send; `HandshakesEnd` leaves out two WebSocket peers with identities.  Section 5 says
what happens there.

Fairness: the CRDT runs assume none, their properties are safety properties.
The engine runs assume weak fairness of the three parts of `process_messages` at
each peer: applications are told to poll in a loop, and a frame that is there is
read, a tracked operation becomes due.  Nothing is assumed of the connections or
of the batcher: a connection may never come back, and a batch need not be flushed,
so `EventuallyDelivered` speaks of working connections and of what has left the
batch.

In `services` weak fairness is assumed of what runs by itself: time passes and
applications call `tick` and `poll` (`PresenceFairness`, `DiscoveryFairness`); threads and
tasks of a connection go on as long as something has arrived for them
(`ConnectionsFairness`); an application hands signals on, and callbacks of the webrtc
library run (`WebRtcFairness`).  Nobody has to dial, publish, announce or send, and a
message of presence may be lost with its sender.

## 4. The proofs

Eight modules.  What they establish holds for every value of the constants that the
named assumptions allow: any set of peers, ids and operations, any capacity, budget
and limit, any number of steps.  `PROJECT.json` lists the theorems with the property
each of them states.

`Session_proofs` is about the operators of `Session`.  `ApplyTyped`: a well-formed
session and operation give a well-formed session.  `ApplyExists`: no operation removes
an entity; one that fails makes none, and what it lacked is one of the targets it
names; `ClipEditEffect`, `SplitEffect`, `TrackEditEffect`, `EnvelopeEffect` and
`MetadataEffect` say what each kind changes and `ApplyElsewhere` what it does not.
`SetCommutes`, `SetIdempotent`: the claim in the head of `merge.rs`.

`TimelineCrdt_proofs` has two inductive invariants.

* `IndInv` is the conjunction of `TypeOK`, `LogHasNoDuplicates`, `OpIdsUnique`,
  `IssuedAfterObserved`, `BufferIsLogged` and `ClockCoversLog`.  They need each other: a new id is
  new because the clock covers the log and the log holds all its issuer ever issued;
  the duplicate check is right because `seen` is the log's ids and two different
  operations never share one.  From it follows that `TimelineCrdt` implements
  `ReplicatedOpSet` (`Refinement`).
* `SessionsReflect` says what a session is made of: `Reflects(s, ops, log)` reads it off
  the operations `ops` that have been applied.  Every register is the top, by tag, of
  the writes to it; a clip or track exists exactly when an applied operation made it,
  and what does not exist was never edited (the part that makes the rest inductive,
  since an entity starts with the write that makes it); envelopes have targets.  From
  it follow `LastWriterWins` and that replicas which have seen the same operations and wait
  for none agree on every field of everything (`EditConvergence`), whatever the edits.

`Convergence` asks for more, equal liveness, parents, split points and hidden tags, and
holds under `OneSplitPerPiece(sent)`: the id of a piece is used for one split only.
Without it it is false, as section 5 describes (`state.rs:215`): the condition is what
drawing ids at random gives, not a restriction of the order of steps.  Then `Reflects`
also says that the split points of a clip are the smallest child at each offset cut,
that a piece has the parent its split names, and that existence is `Grounded`: of every
set of clips one was made by an operation that needed none of them.

The drain loop is a recursive function.  `LoopExists` shows that a function defined by
recursion on `0..n` exists (a least-counterexample argument, since induction rules
with operator parameters cannot be instantiated here).  `LoopStays` and `DrainStays` say that
a set of loop states closed under one step contains the result, `LoopFollows` and
`DrainFollows` that a measure that falls at each step reaches its end: so `DrainEnds` shows that
the passes end with the number the loop is given, and `OnlyOrphansWait` that what then waits
misses a target.

`Layers_proofs` is about what is built on the engine.

* *Conflict events.*  `CausalInv`: a replica's vector clock covers those of all operations
  in its log, and its own operations come after all that precedes them there; hence
  `CausalityIsSeen`.  `EventsInv`: every event, queued or taken, tells of two
  logged operations that match and were concurrent, through every retry of the drain
  loop; hence `EventsAreGenuine`.  `LosersTheorem`, that a reported loser leaves no trace, adds
  that an operation of a contested kind which does not wait has been applied, and holds
  under `SplitsInOrder`: `OneSplitPerPiece`, and no split names its own clip as the piece.  The
  latter is a finding of the proof: `Session::apply` takes such a split for a success
  and changes nothing (`state.rs:206`), yet `observe_resolution` compares tags only and
  reports that it has won over a real split, whose piece stays.
* *Pieces.*  `PiecesFollow`, for any depth of splits: the chain of parents of a piece
  is that of its parent with one link in front (`ChainOfParent`), so both find the same
  writer.  Its length is bounded by the number of clips (`ViewAssumption`), and the case of a
  cycle, where the walk is cut off, is part of the proof.
* *Snapshots.*  `Sound(t, known)` is a replica whose session reflects everything it was
  ever given, `known`, while its log may have forgotten a part.  Receiving keeps it
  (`ReceiveSound`), so does a replay of any list (`ReplaySound`), which for a snapshot has every
  operation of the log once (`RankSortedOps`).  At the end nothing waits
  (`NothingWaits`): else the clips that operations still wait for would be clips that
  owe each other their existence at the replica that took the snapshot, which
  is `Grounded`.  Equal knowledge gives equal sessions: `SnapshotTheorem` and
  `ResyncTheorem`, for replicas that do not compact.  With merges and compaction at any
  moment when the buffer is empty, `QuietInv` has for each replica a `known` of which its session
  is sound; since applying again what has been applied changes nothing
  (`ApplyAgain`), `DuplicatesTheorem` follows.  All three under `OneSplitPerPiece(sent)`.

`Undo_proofs` is about undo and redo.

* *What is taken back never waits.*  `USpec` issues operations that no application offers, the
  inverses of edits; `InverseTyped` shows them to be operations (the values that a clip
  shows, at any depth of splits, are values), so that `IndInv` and `SessionsReflect` go on
  to hold and `UndoConverges` follows.  `HistoryInv`: every entry on the two stacks finds, in
  the session its peer has now, the targets of the edit and of its inverse.  An
  edit is recorded only after it was applied (`RecordedFindsTargets`), and no operation,
  received, retried or undone, takes an entity away (`NoneGone`, `AcceptLosesNone`): deleted
  clips and tracks are kept.  Hence `UndoneAtOnce`.  Its condition, `NoEditSplitsItself`, is
  another finding about self-splits (section 5); the proof needs it nowhere else.
* *What is taken back is as it was.*  `TagsInv`: no register of a replica's session is ahead
  of its Lamport clock, because `receive` moves the clock past every operation before it is
  applied, at once or out of the buffer.  So an edit, its undo and its redo, issued one
  after the other, each win over all that is there (`InTurn`), and what remains is whether
  the values are right.  `LooksAlike(s, t)` says what two sessions must share
  to be shown alike (`SameView`): not registers and tags, which undo does not restore, but
  what clips inherit along their chains, where they stand, and which tracks, envelopes and
  metadata there are.  `InsertUndone`, `EditOfSeenUndone`, `TrackEditUndone`,
  `EnvelopeUndone` and `MetadataUndone` show that the session after the undo looks like the one
  before the edit, and the one after the redo like the one after the edit; hence
  `UndoRestores` and `RedoRestores`, for the edits of `Reversible`.
* *Which edits those are.*  `Offered` has what an application can offer; `Reversible`
  leaves out what `compute_inverse` does not restore, each condition the remedy of a
  counterexample: a split (its split point stays); the insert of a clip that waiting pieces
  were cut from; the move or trim of a piece that still follows its splits (it is detached)
  and the trim of a clip with splits; a rename or move, or a delete, of a clip in the middle of a chain
  that has not written the field (what it showed is written into it, which changes what
  `resolve_clip` makes of renamed pieces below); the delete of a clip that was itself moved and has splits; and the
  delete of a clip whose gain was set.  In the run `undo` everything offered is
  reversible, so that the theorems give its two properties.  `UndoWithoutSplits` needs no
  condition on the chains: where nothing was split, `SessionsReflect` makes every clip stand
  alone (`ClipsStandAlone`).
* *Chains end.*  The theorems take the chains of parents to have an end (`NoCircles`).  `ChainsEnd`
  shows that they have: a circle would be a set of clips each of which was split from
  another of them, and of every set of clips one was made by an operation that needed none
  of them (`Grounded`, part of `Reflects`).

`SyncEngine_proofs` proves `Safety => []LinkedPeersAreFed`, `[]WithinLimits` and
`[]TypeOK`.  An operation could fall between the offline queue, the snapshot and
the broadcasts; the inductive invariant `IInv` says why it does not.  An engine
knows a peer only after a poll that greeted it with a snapshot or found its
connection dead (`DetectPeerChangesKeeps`), from then on every write to a working
connection adds to what is on its way (`SendingKeeps`), and a frame that is read
moves what it carries into the log (`HandleMessageKeeps`).  That needs two more
parts: whoever has an operation, its issuer has it (`OwnersKnow`), and a frame or a
queued message is about operations of its sender or acknowledges operations of
its receiver (`FramesOK`, `QueueOK`); without them a frame could add to what an
engine counts as its own, and an acknowledgement could end the tracking of
something never issued.

With `CallsCovered`, that no log is ahead of the calls made, it follows that the engines
implement `ReplicatedOpSet` too (`EnginesImplementOpSet`): `ApplyLocal` and `BatchLocal`
publish, `HandleMessage` learns what the frame brings, a whole snapshot at once, and all
other steps stutter.  `TimelineCrdt` and `SyncEngine` so meet in one specification: what
the former is proved to do with any order and repetition of published operations, the
latter feeds it, and no more than that.

`Connections_proofs` proves `[]EntriesAreRead` and `[]NothingSwallowed`.  `ConnInv` says how
far the two ends of a socket may be apart: who is challenged or challenges has an
identity and so has the other end (`RightPeers`); an end's Hello is what it sends first
(`HelloFirst`); over a WebSocket no answer is ever sent, so that only peers without
identities get to send messages (`PlainOverWs`); and while an end lives, what the other
has sent it has read or has before it (`NothingLost`), which is what makes a message
that arrives during a handshake impossible.

`Services_proofs` proves, for any finite set of connections, `RelaySpec =>
[]CountsAreExact`, `[]NoGhostMembers` and `[]JoinersMissNothing`.  The last
needs `RelayInv`, which says where an operation is for a peer with one connection.
A connection registers before it asks for the snapshot, so whatever is stored later
will be forwarded to it, and whatever was stored before is in the snapshot: `Covered`
says that from the moment `Store` has dealt with its request every stored operation
of others is delivered to it, in the answer it is about to get or in the hands of a
task that will forward it.  Forwarding reaches it because nobody else's cleanup can
remove its entry (`SoleRegistered`), and what a task carries is of the peer that speaks on
its connection or an answer of the server (`FramesAreClients`, `AnswersAreSnapshots`).

It has the other servers too.  `SigInv`: whoever is registered in a signaling
room is so through a connection of its own that is still to clean up after it and,
under token authorization, has proved itself; hence `ReachableThroughOwn` and, with the
relay's half, `RoomsHoldNoGhosts` for the composition (`RoomsEmpty`).  `DiskInv` adds to
`DiskBounded` at which steps an operation is being written; the bound holds
between any two steps of a rotation and after a torn write because the code looks at
the size of the file, not at what it believes it wrote.  Limits and sizes are any
numbers: a frame larger than the limit is written all the same, whole or in part,
but to a file of its own, which the next append rotates away.

`KeepsRecent` is about what a loop makes of a file.  `ReadFromIs` and `CountFromIs`
unfold that loop (again by least counterexample, `NoSmallest`), and then there are two
invariants, since a torn frame takes the frames behind it along.  `KeepInv`: a file no
frame of which was cut short is `Clean`, frame after frame; it is read and counted for
what it is (`AllRead`), a frame written behind it adds one operation (`OneMore`), so
`counts` is right where it is used, and what is moved aside is full.  `OrderInv` needs
none of that: the cells at which encodings end come in the order of the operations, so
what any scan decodes, wherever the prefixes it took for such led it, comes in that
order too (`ReadOrdered`), and a last cell is only there once all are, so it was
recorded.  Together they are `StoreKeepsRecent`.

`TransportInv`: as long as hand-overs are undisputed
commands come from one peer only (`Speaks`), and everybody, once the commands under way
to him have arrived, is where that peer is (`HeadedFor`); hence `TransportsAgree`.

`Playhead_proofs` proves, for any number of peers, clocks and messages,
`PlayheadSpec => []OffsetWithinHalfRtt` and `[]FollowersShowTheMaster`.  `PlayheadInv` adds to the
former that no message tells of the future (`MessagesArePast`, `JumpsArePast`) and that
positions sent and tracks kept, extrapolated from the moment they were captured, meet
the sender's playhead as long as it has not jumped since (`PositionsExtrapolate`,
`TracksExtrapolate`).  Of the drift compensator it knows that its rate, an average of
rates none of which was absurd, stays within one per cent (`DriftSampled`); scaling the
age of an update by it moves the position by at most a hundredth of that age
(`SkewScales`), and rounding to frames by half a frame (`RoundedToFrames`), which is the
bound `FollowersShowTheMaster` gives.  No tighter one holds: the run has followers that
are off by more than half a round trip.

Assumptions: those named in the modules (`ClockAssumption`, `SessionAssumption`,
`VacantAssumption`, `TimelineAssumption`, `ViewAssumption`, `HistoryAssumption`,
`EngineAssumption`,
`ConnectionsAssumption`, `AdmissionAssumption`, `RelayAssumption`,
`StoreAssumption`, `SignalingAssumption`, `PlayheadAssumption`,
`TransportAssumption`), and the guard that no clock saturates; for the engine, that a
reconnection is noticed (`Noticed`), without which `flaky_engine` fails.

Only model-checked:

* `SnapshotFidelity` and `ResyncAgrees` where logs have been compacted.  They are not
  true of every repertoire: compaction drops a move that a re-insert has overwritten,
  although it is what detached a piece (section 5);
* `PiecesTileTheClip`, which the edits of its run make true (pieces are not moved);
* `DeltaReaches`, which speaks of pairs of views from which an `InsertClip` leaves nothing
  out (section 5);
* what `WebRtc`, `Presence` and `Discovery` state, and all that must eventually happen,
  `EventuallyDelivered` and `TrackingEnds` among it: liveness is out of the prover's reach.

## 5. Disagreements between code and documentation

Shown by runs, and quoted with their lines in `PROJECT.json`:

* `apply_local` does not drain the buffer (`local_edit_buffered`).
* A renamed piece of a piece shows the original's name (`nested_rename`), and a
  moved piece vanishes (`move_piece`).
* After the undo of a piece's delete, replicas with the same operations differ
  (`undo_piece_delete`).
* Compaction forgets what is still buffered (`compaction_waiting`).
* A peer that is back before the next poll is not greeted, and the offline queue is
  not flushed to it (`flaky_engine`).

Met while modelling, and the reason for the preconditions in section 3; the
same models show them when the precondition is dropped:

* Two splits from different clips that name one child, and a delete of it: the
  losing split is a no-op in one order and the creator of the child in the other
  (`crdt/state.rs:215`).  Two splits that name each other's clip as child make the
  chain of parents a cycle, which `resolve_clip` walks for ever (`state.rs:330`).
* A split that names its own clip as the piece is a no-op that succeeds
  (`state.rs:206`), yet `observe_resolution` goes by the tag alone and may report that it has
  won over a split whose piece is there (met in the proof of `LosersTheorem`).
  Of a clip that is not there it is recorded with the delete of that clip as inverse
  (`history.rs:152`), though `compute_inverse` promises `None` for a no-op
  (`history.rs:88`): its undo waits in the buffer, or deletes the clip if it has arrived
  meanwhile (met in the proof of `UndoneAtOnce`).
* Two splits at one frame leave two live pieces in one place: the smaller id wins
  the split point, but the other child stays alive (`clip_crdt.rs:189`).
* Undo of a delete resets gain, mute and lock, which `InsertClip` does not carry
  (`history.rs:130`); undo of a split deletes the piece but leaves the split point,
  which still cuts off the tail (`history.rs:152`).  Undo of a rename writes the name the clip showed into the clip (`history.rs:166`): below a
  piece that had not written its name and was split again, a renamed piece, which had
  shown the name of the original (`nested_rename`), now shows its own
  (met in the proof of `UndoRestores`).
* `witness` raises an entry of the vector clock, which counts operations, to a
  Lamport timestamp, so `is_concurrent` misses some concurrent pairs (the property
  that holds is `CausalityIsSeen`); and every retry of a buffered operation reports
  its conflict again.
* A move that a re-insert has overwritten is compacted away although it is what
  detached a piece; a peer that rejoins under its own id with a snapshot that
  lacks its latest operations reuses their ids.
* The documentation of `ReliabilityManager` says that operations are tracked until
  every peer has acknowledged; `on_ack` stops at the first, as its own comment
  says.  If that first one arrives while the operation waits in the offline queue
  (a broadcast that failed for one of several peers), later ones do not end the
  tracking and it is resent until the budget is used up.  Neither loses anything
  as long as reconnections are noticed (`LinkedPeersAreFed` is proved for any
  number of peers), because the snapshot at a join carries what was lost.
* A batch is sent outside the engine and never tracked: what a breaking connection
  swallows comes back with the next snapshot only.
* A frame that a crash has cut short stays in its file, and the next append writes
  behind it: the reader takes the new frame for the rest of the torn one and stops,
  so what the segment gets from then on is not loaded, although operations are
  recorded "durably" and replayed to joining peers (`persistence.rs:3`; its reader
  expects a torn frame at the end only, line 203).  For such files `KeepsRecent` says
  that nothing comes out of them but what was written, in its order, which is proved
  for any number a reader may take data for; of completeness it speaks for others.
* Two WebSocket peers with identities never connect: each sends a challenge where it
  waits for a response, and nobody answers (`websocket.rs:184`; the
  comment at line 140 speaks of answering one).
  Nothing times out.  In `tcp.rs` the listener challenges and the dialer answers.
* A TCP read that times out in the middle of a length prefix is taken for an idle one
  and started anew (`tcp.rs:62`), which leaves the stream out of step; time-outs of the
  reader are not modelled.
* A reader that ends removes its peer's entry even where a newer connection has
  replaced it (`tcp.rs:66`, `websocket.rs:257`); the peer is unlisted while it is being
  read.  `EntriesAreRead` is the half that holds.
* WebRTC: a candidate that arrives before the offer is dropped, although the head of
  `webrtc.rs` says their order does not matter (line 14); a single dial still connects over
  the other side's candidates.  Frames queued for a channel make its open callback
  panic, `block_on` being called inside the runtime, which poisons the registry lock
  (`webrtc.rs:500`), so that `is_ready`, `send_to` and `handle_signal` panic from then on; the comment
  at line 178 says that "Sends to unready peers are queued".  A frame whose sender found the
  channel closed (line 471) and that is pushed (472) after the callback has taken the
  queue (505) stays there for ever.  Either happens to a peer that sends early, and to
  that peer only: `LoneDialConnects` is about the ones that do not.  Two peers that dial each other replace each other's entries and
  neither connects; the open callback of a replaced channel marks the new entry open.
* Relay and signaling server: the cleanup of an old connection removes a member that
  has reconnected.  At the relay its next frame registers it again; until then it
  misses what is forwarded.  `JoinersMissNothing` is stated for peers with one
  connection.
* Presence: `tick` shows a peer that has left as online again until its last activity
  has aged (`presence.rs:206`); it is shown offline for good only then.
* Playhead: a master that gives up the role still has itself as master
  (`sync.rs:134`); the estimate of the clock offset survives a change of master,
  because a response carries the requester's id only.
* Playhead: the drift compensator is fed the best offset whenever a response arrives, so
  a better sample that corrects an offset is taken for skew unless it changes it by one per
  cent or more of the time between the two.  From then on the age of an update is scaled by
  that rate, up to one per cent, with clocks that run alike too, while the comment of
  `receive_playhead_update` says that "stale updates never compound error" (`sync.rs:157`).
  `FollowersShowTheMaster` has that term.
* Relay store: a frame larger than `max_bytes_per_room` is written all the same, to a
  fresh file, so that the disk a room takes is capped by twice that limit or twice the
  largest frame, not "at roughly twice the per-room byte limit" (`persistence.rs:12`)
  where the limit is small.  Errors of the file system are ignored by `append_op` and `rotate`
  and not modelled: `KeepsRecent` and `DiskBounded` hold as long as it does what it is asked.
* Transport: commands of the old and the new master under way together may be applied
  in different orders by different peers, which then disagree until the next command.
* `compute_delta` promises operations that "produce a state equal to `new`"
  (`delta.rs:16`).  An `InsertClip` carries neither gain nor mute nor lock; envelopes
  that only the old state has are not removed, and those of entities deleted in `new`
  are not transferred; moves and trims detach pieces; and a clip hidden for want of a
  track appears when the delta inserts that track.
* Discovery: the time to live counts from the poll that reads a beacon, so a beacon
  that lay in the socket makes a stopped peer look fresh; what is read last wins, an
  older address included.

## 6. What is left

Done: the CRDT with its views, history, events, snapshots and deltas; the sync
engine; the servers and their store; presence, playhead and transport control;
discovery; the connections of all transports; and the proofs of section 4.  Worth
proving next, in this order:

1. snapshots after compaction, for repertoires in which no re-insert overwrites a move;
2. `PiecesTileTheClip`, where only unsplit clips are trimmed.

Not modelled:

* identity, wire format and TLS: cryptographic calls and encodings, pure functions
  or I/O.  The models take a signature or a token to be right or missing and a frame
  to decode to what was encoded, torn files excepted;
* the latency averages of the playhead (`latency.rs`), which nothing else reads, offset
  samples an application obtains on its own (`observe_clock_sample`), and clocks whose
  rates differ;
* errors of the file system in the relay's store, which the code ignores;
* `replay.rs`, which paces `apply_remote`, and the command line tools, examples and
  templates, which parse arguments and print.
