------------------------------ MODULE UndoRedo ------------------------------
(***************************************************************************)
(* Undo and redo (history.rs, timeline_crdt.rs): a local edit is recorded  *)
(* with the operation that takes it back, computed from the session before *)
(* the edit.  Undo and redo issue operations of their own, under new tags, *)
(* and other peers receive them like any other.                            *)
(***************************************************************************)
EXTENDS TimelineCrdt, SessionView

CONSTANT HistoryCapacity    \* History::capacity, 256 in the code

ASSUME HistoryAssumption == HistoryCapacity \in Nat \ {0}

VARIABLE history    \* history[p]: the undo and redo stacks of peer p

uvars == <<vars, history>>

Entry == [forward : Operation, inverse : Operation]
NoHistory == [undo |-> <<>>, redo |-> <<>>]

-----------------------------------------------------------------------------
(* compute_inverse: Vacant when there is nothing to take back.             *)

\* InsertClip with what the clip shows now; it carries no gain.
InsertBack(s, c) ==
    [type |-> "InsertClip", clip |-> c,
     writes |-> [ResolveClip(s, c).fields EXCEPT !["gain"] = 0]]

\* Mutant: a move, trim or rename is taken back to the defaults.
ClipInverseToDefaults(s, op) ==
    CASE op.type = "InsertClip" ->
            [type |-> "DeleteClip", clip |-> op.clip, writes |-> NoWrites]
      [] op.type # "InsertClip" /\ ~Exists(s.clips, op.clip) -> Vacant
      [] op.type = "DeleteClip" /\ Exists(s.clips, op.clip) -> InsertBack(s, op.clip)
      [] OTHER -> [op EXCEPT !.writes = [f \in DOMAIN @ |-> 0]]

ClipInverse(s, op) ==
    LET known == Exists(s.clips, op.clip)
    IN  CASE op.type = "InsertClip" /\ ~known ->
                [type |-> "DeleteClip", clip |-> op.clip, writes |-> NoWrites]
          [] op.type # "InsertClip" /\ ~known -> Vacant
          [] known /\ op.type \in {"InsertClip", "DeleteClip"} ->
                InsertBack(s, op.clip)
          [] OTHER ->
                LET shown == ResolveClip(s, op.clip).fields
                IN  [op EXCEPT !.writes = [f \in DOMAIN @ |-> shown[f]]]

SplitInverse(s, op) ==
    IF Exists(s.clips, op.new_clip) THEN Vacant
    ELSE [type |-> "DeleteClip", clip |-> op.new_clip, writes |-> NoWrites]

TrackInverse(s, op) ==
    LET known == Exists(s.tracks, op.track)
        held  == [f \in TrackField |-> s.tracks[op.track].regs[f].value]
    IN  CASE op.type = "InsertTrack" /\ ~known ->
                [type |-> "DeleteTrack", track |-> op.track, writes |-> NoWrites]
          [] op.type # "InsertTrack" /\ ~known -> Vacant
          [] known /\ op.type \in {"InsertTrack", "DeleteTrack"} ->
                [type |-> "InsertTrack", track |-> op.track, writes |-> held]
          [] OTHER -> [op EXCEPT !.writes = [f \in DOMAIN @ |-> held[f]]]

ComputeInverse(s, op) ==
    CASE op.type = "SplitClip" -> SplitInverse(s, op)
      [] op.type \in {"InsertTrack", "UpdateTrackMetadata", "DeleteTrack"} ->
            TrackInverse(s, op)
      [] op.type = "UpdateEnvelope" ->
            [op EXCEPT !.points = s.envelopes[op.target].value]
      [] op.type = "UpdateSessionMetadata" ->
            [op EXCEPT !.writes = [f \in DOMAIN @ |-> s.metadata[f].value]]
      [] OTHER -> ClipInverse(s, op)

-----------------------------------------------------------------------------
(* The stacks                                                              *)

\* History::record: the oldest entry goes when the stack is full.
Record(h, entry) ==
    [ undo |-> Append(IF Len(h.undo) >= HistoryCapacity THEN Tail(h.undo)
                      ELSE h.undo, entry),
      redo |-> <<>> ]

Top(stack) == stack[Len(stack)]
Pop(stack) == SubSeq(stack, 1, Len(stack) - 1)

\* Mutant: an edit is recorded although it had to wait for its target.
RecordEditWaiting(h, op, inverse, ok) ==
    IF inverse = Vacant THEN h
    ELSE Record(h, [forward |-> op, inverse |-> inverse])

\* apply_local_internal records what it could both take back and apply.
RecordEdit(h, op, inverse, ok) ==
    IF inverse = Vacant \/ ~ok THEN h
    ELSE Record(h, [forward |-> op, inverse |-> inverse])

-----------------------------------------------------------------------------
(* The steps                                                               *)

UInit == Init /\ history = [p \in Peers |-> NoHistory]

Edit(p) ==
    \E op \in Edits[p] :
        LET s   == crdt[p].session
            tag == Stamp(crdt[p], p, op).op_id
        IN  /\ Issue(p, op)
            /\ history' = [history EXCEPT ![p] =
                    RecordEdit(@, op, ComputeInverse(s, op),
                               Apply(s, op, tag).ok)]

Undo(p) ==
    /\ history[p].undo # <<>>
    /\ LET entry == Top(history[p].undo)
       IN  /\ Issue(p, entry.inverse)
           /\ history' = [history EXCEPT
                            ![p].undo = Pop(@), ![p].redo = Append(@, entry)]

Redo(p) ==
    /\ history[p].redo # <<>>
    /\ LET entry == Top(history[p].redo)
       IN  /\ Issue(p, entry.forward)
           /\ history' = [history EXCEPT
                            ![p].redo = Pop(@), ![p].undo = Append(@, entry)]

URemote(p, o) == ApplyRemote(p, o) /\ UNCHANGED history

UNext ==
    \E p \in Peers :
        \/ Edit(p)
        \/ Undo(p)
        \/ Redo(p)
        \/ \E o \in sent : URemote(p, o)

USpec == UInit /\ [][UNext]_uvars

-----------------------------------------------------------------------------
(* Properties                                                              *)

\* Edits an application can offer: of what the user sees, under fresh ids.
\* The first edit of an envelope is left out: taking it back leaves an empty
\* envelope where there was none.
Offered(s, op) ==
    CASE op.type = "InsertClip" -> ~Exists(s.clips, op.clip)
      [] op.type = "InsertTrack" -> ~Exists(s.tracks, op.track)
      [] op.type \in {"UpdateTrackMetadata", "DeleteTrack"} ->
            TrackAlive(s, op.track)
      [] op.type = "UpdateEnvelope" ->
            TargetExists(s, op.target) /\ ~Unwritten(s.envelopes[op.target])
      [] op.type = "UpdateSessionMetadata" -> TRUE
      [] op.type = "SplitClip" ->
            Visible(s, op.clip) /\ ~Exists(s.clips, op.new_clip)
      [] OTHER -> Visible(s, op.clip)

Performed(t, p, op) == Perform(t, Stamp(t, p, op))
Undone(before, p, op) ==
    Performed(Performed(before, p, op), p, ComputeInverse(before.session, op))

\* Undo right after an edit restores the whole view, whatever remote edits
\* the session is made of and however they arrived.
UndoRestoresView ==
    \A p \in Peers : \A op \in Edits[p] :
        Offered(crdt[p].session, op) =>
            View(Undone(crdt[p], p, op).session) = View(crdt[p].session)

\* And redo right after that undo restores what the edit had made.
RedoRestoresView ==
    \A p \in Peers : \A op \in Edits[p] :
        Offered(crdt[p].session, op) =>
            View(Performed(Undone(crdt[p], p, op), p, op).session)
                = View(Performed(crdt[p], p, op).session)

\* Undo and redo take effect at once, long after the edit and whatever has
\* been received since: what they issue never has to wait for its target.
UndoTakesEffect ==
    [][\A p \in Peers :
        Undo(p) \/ Redo(p) => crdt'[p].pending = crdt[p].pending]_uvars

=============================================================================
