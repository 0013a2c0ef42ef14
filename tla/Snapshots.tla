----------------------------- MODULE Snapshots -----------------------------
(***************************************************************************)
(* Snapshots of tpt-av-sync-crdt (timeline_crdt.rs) and the compaction of  *)
(* the log they are made of (compaction.rs).  A snapshot is an operation   *)
(* log: restoring one replays it in the order of the tags, merging one     *)
(* replays it into a replica that has a state of its own.                  *)
(***************************************************************************)
EXTENDS TimelineCrdt, SessionView

\* The operations of a log in the order of their tags: as many come before one
\* as have a smaller tag.
Rank(o, ops) == Cardinality({x \in ops : TagLess(x.op_id, o.op_id)})
RankSorted(ops) ==
    [k \in 1..Cardinality(ops) |-> CHOOSE o \in ops : Rank(o, ops) = k - 1]

Replay(t, ops) ==
    LET ranked == RankSorted(ops)
        replica[k \in 0..Len(ranked)] ==
            IF k = 0 THEN t ELSE Receive(replica[k - 1], ranked[k])
    IN  replica[Len(ranked)]

FromSnapshot(ops) == Replay(NewTimeline, ops)

-----------------------------------------------------------------------------
(* compact: which operations of the log are kept.                          *)

\* Mutant: the fields of clips are left out.
RegisterTagsButClips(s) ==
    {s.clips[c].alive.tag : c \in {x \in ClipId : Exists(s.clips, x)}}
    \cup {s.tracks[t].alive.tag : t \in {x \in TrackId : Exists(s.tracks, x)}}

\* The tags of all registers of a session.
RegisterTags(s) ==
    LET clips  == {c \in ClipId : Exists(s.clips, c)}
        tracks == {t \in TrackId : Exists(s.tracks, t)}
    IN  {s.clips[c].alive.tag : c \in clips}
        \cup {s.clips[c].regs[f].tag : c \in clips, f \in ClipField}
        \cup {s.tracks[t].alive.tag : t \in tracks}
        \cup {s.tracks[t].regs[f].tag : t \in tracks, f \in TrackField}
        \cup {s.envelopes[e].tag : e \in Target}
        \cup {s.metadata[f].tag : f \in MetaField}

Splits(log) == {i \in DOMAIN log : log[i].operation.type = "SplitClip"}

\* The first insert of every clip and of every track.
Bootstraps(log) ==
    {i \in DOMAIN log :
        LET op == log[i].operation
        IN  \/ /\ op.type = "InsertClip"
               /\ \A j \in 1..(i - 1) : log[j].operation.type = "InsertClip"
                        => log[j].operation.clip # op.clip
            \/ /\ op.type = "InsertTrack"
               /\ \A j \in 1..(i - 1) : log[j].operation.type = "InsertTrack"
                        => log[j].operation.track # op.track}

\* One pass over the log that keeps its order.
Retained(log, ids) ==
    LET kept[k \in 0..Len(log)] ==
            IF k = 0 THEN <<>>
            ELSE IF log[k].op_id \in ids THEN Append(kept[k - 1], log[k])
            ELSE kept[k - 1]
    IN  kept[Len(log)]

Compacted(log, s) ==
    LET always == {log[i].op_id : i \in Splits(log) \cup Bootstraps(log)}
    IN  Retained(log, always \cup RegisterTags(s))

-----------------------------------------------------------------------------
(* The steps                                                               *)

\* merge_snapshot with the snapshot another peer takes.
MergeSnapshot(p, q) ==
    /\ crdt' = [crdt EXCEPT ![p] = Replay(@, Log(q))]
    /\ UNCHANGED sent

Compact(p) ==
    LET t    == crdt[p]
        kept == Compacted(t.operation_log, t.session)
    IN  /\ crdt' = [crdt EXCEPT ![p].operation_log = kept,
                                ![p].seen = IdsIn(kept)]
        /\ UNCHANGED sent

\* An application that compacts only while nothing waits in the buffer.
QuietNext ==
    \E p \in Peers :
        \/ ApplyLocal(p)
        \/ \E o \in sent : ApplyRemote(p, o)
        \/ \E q \in Peers : MergeSnapshot(p, q)
        \/ Pending(p) = {} /\ Compact(p)

QuietSpec == Init /\ [][QuietNext]_vars

\* One that compacts at any time, as compact allows it.
CompactNext ==
    \E p \in Peers :
        \/ ApplyLocal(p)
        \/ \E o \in sent : ApplyRemote(p, o)
        \/ Compact(p)

CompactSpec == Init /\ [][CompactNext]_vars

-----------------------------------------------------------------------------
(* Properties                                                              *)

\* A replica built from a peer's snapshot shows what that peer shows, in
\* whatever order the peer got its operations and whatever it has dropped
\* from its log since.
SnapshotFidelity ==
    \A p \in Peers :
        Pending(p) = {} =>
            View(FromSnapshot(Log(p)).session) = View(crdt[p].session)

\* The offline resync: two peers that merge each other's snapshots show the
\* same, also when one or both of them have compacted before.
Agree(a, b) ==
    a.pending = <<>> /\ b.pending = <<>> => View(a.session) = View(b.session)

ResyncAgrees ==
    \A p, q \in Peers : p < q =>
        Agree(Replay(crdt[p], Log(q)), Replay(crdt[q], Log(p)))

\* A late duplicate is harmless, also of an operation that compaction has made
\* the log forget: applying again what has been applied, be it still logged or
\* one of the peer's own, changes nothing and succeeds.
Issued(p) == {o \in sent : o.op_id.peer = p}

LateDuplicateHarmless ==
    \A p \in Peers : \A o \in (Log(p) \cup Issued(p)) \ Pending(p) :
        Apply(crdt[p].session, o.operation, o.op_id) = Ok(crdt[p].session)

=============================================================================
