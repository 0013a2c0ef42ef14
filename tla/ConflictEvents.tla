--------------------------- MODULE ConflictEvents ---------------------------
(***************************************************************************)
(* The conflict events of tpt-av-sync-crdt: apply_remote compares each     *)
(* operation it tries to apply with the latest logged one of the same kind *)
(* on the same clip, and reports the pair when their vector clocks are     *)
(* concurrent (observe_resolution in timeline_crdt.rs, ResolutionEvent in  *)
(* merge.rs).                                                              *)
(***************************************************************************)
EXTENDS TimelineCrdt

VARIABLES
    events,    \* resolution_events[p], waiting to be taken
    shown      \* what the application of p has taken so far

cvars == <<vars, events, shown>>

-----------------------------------------------------------------------------

Contested == {"MoveClip", "DeleteClip", "SplitClip"}

ResolutionEvent ==
    [kind : Contested, clip_id : ClipId, op : OpTag, op_won : BOOLEAN]

\* The same kind of operation on the same clip.
MatchesConflictClass(a, b) ==
    a.operation.type = b.operation.type /\ a.operation.clip = b.operation.clip

\* The latest logged operation to compare with, none or one.  The last entry
\* of the log is left out: it is the operation that is being received.
Prior(log, incoming) ==
    LET older == SubSeq(log, 1, Len(log) - 1)
    IN  {i \in DOMAIN older :
            /\ MatchesConflictClass(older[i], incoming)
            /\ older[i].op_id # incoming.op_id
            /\ \A j \in DOMAIN older : j > i =>
                ~MatchesConflictClass(older[j], incoming)
                    \/ older[j].op_id = incoming.op_id}

\* Two splits contend for one split point and propose different pieces.
SamePoint(a, b) ==
    a.split_frame = b.split_frame /\ a.new_clip # b.new_clip

\* Mutant: the smaller tag is reported as the winner.
ResolveLoser(incoming, prior) ==
    IF incoming.operation.type = "SplitClip"
    THEN incoming.operation.new_clip < prior.operation.new_clip
    ELSE TagLess(incoming.op_id, prior.op_id)

\* Whether the incoming operation wins: of two pieces the smaller id, else
\* the greater tag.
Resolve(incoming, prior) ==
    IF incoming.operation.type = "SplitClip"
    THEN incoming.operation.new_clip < prior.operation.new_clip
    ELSE TagLess(prior.op_id, incoming.op_id)

\* Mutant: two operations of different peers are taken to be concurrent.
ConflictsByIssuer(incoming, prior) ==
    /\ incoming.op_id.peer # prior.op_id.peer
    /\ incoming.operation.type = "SplitClip"
            => SamePoint(incoming.operation, prior.operation)

Conflicts(incoming, prior) ==
    /\ IsConcurrent(incoming.vector_clock, prior.vector_clock)
    /\ incoming.operation.type = "SplitClip"
            => SamePoint(incoming.operation, prior.operation)

\* observe_resolution: the events it pushes, none or one.
ObserveResolution(log, incoming) ==
    IF incoming.operation.type \notin Contested THEN <<>>
    ELSE LET found == {i \in Prior(log, incoming) : Conflicts(incoming, log[i])}
         IN  IF found = {} THEN <<>>
             ELSE LET prior == log[CHOOSE i \in found : TRUE]
                  IN  <<[ kind    |-> incoming.operation.type,
                          clip_id |-> incoming.operation.clip,
                          op      |-> incoming.op_id,
                          op_won  |-> Resolve(incoming, prior) ]>>

\* The events up to each state of drain_pending's loop, which looks at every
\* operation it retries; first are those pushed before.
PushedBy(s, pending, log, first) ==
    LET n    == DrainSteps(Len(pending))
        loop == DrainLoop(s, pending)
        new  == [k \in 0..n |-> IF loop[k].todo = <<>> THEN <<>>
                                ELSE ObserveResolution(log, Head(loop[k].todo))]
        pushed[k \in 0..n] ==
            IF k = 0 THEN first ELSE pushed[k - 1] \o new[k - 1]
    IN  pushed

\* The events apply_remote pushes: for the operation it received and again
\* for every buffered operation it retries.
Observed(t, o) ==
    LET log    == Append(t.operation_log, o)
        res    == Apply(t.session, o.operation, o.op_id)
        buffer == IF res.ok THEN t.pending ELSE Append(t.pending, o)
    IN  PushedBy(res.session, buffer, log, ObserveResolution(log, o))
            [DrainSteps(Len(buffer))]

-----------------------------------------------------------------------------
(* The steps                                                               *)

CInit ==
    /\ Init
    /\ events = [p \in Peers |-> <<>>]
    /\ shown = [p \in Peers |-> <<>>]

Local(p) == ApplyLocal(p) /\ UNCHANGED <<events, shown>>

Remote(p, o) ==
    /\ ApplyRemote(p, o)
    /\ events' = [events EXCEPT ![p] =
                    IF o.op_id \in crdt[p].seen THEN @
                    ELSE @ \o Observed(crdt[p], o)]
    /\ UNCHANGED shown

TakeResolutionEvents(p) ==
    /\ events[p] # <<>>
    /\ shown' = [shown EXCEPT ![p] = @ \o events[p]]
    /\ events' = [events EXCEPT ![p] = <<>>]
    /\ UNCHANGED vars

CNext ==
    \E p \in Peers :
        \/ Local(p)
        \/ \E o \in sent : Remote(p, o)
        \/ TakeResolutionEvents(p)

CSpec == CInit /\ [][CNext]_cvars

-----------------------------------------------------------------------------
(* Properties                                                              *)

Reported(p) == shown[p] \o events[p]

\* a was known to the issuer of b when it issued b: the order vector clocks
\* stand for, read off the issuer's log.
Causal(a, b) ==
    LET log == crdt[b.op_id.peer].operation_log
    IN  \E i, j \in DOMAIN log : i < j /\ log[i] = a /\ log[j] = b

\* A vector clock never forgets: what its issuer knew comes before it.
CausalityIsSeen ==
    \A a, b \in sent :
        Causal(a, b) => HappensBefore(a.vector_clock, b.vector_clock)

\* Nobody is told of a conflict that was none: the reported operation and
\* some other one of its kind on its clip were issued in ignorance of each
\* other, and the reported outcome is the one the rule gives for that pair.
EventsAreGenuine ==
    \A p \in Peers : \A i \in DOMAIN Reported(p) :
        LET e == Reported(p)[i]
        IN  \E a, b \in Log(p) :
                /\ a.op_id = e.op
                /\ a.operation.type = e.kind /\ a.operation.clip = e.clip_id
                /\ MatchesConflictClass(a, b)
                /\ ~Causal(a, b) /\ ~Causal(b, a)
                /\ e.kind = "SplitClip" =>
                        SamePoint(a.operation, b.operation)
                /\ e.op_won <=> IF e.kind = "SplitClip"
                                THEN a.operation.new_clip < b.operation.new_clip
                                ELSE TagLess(b.op_id, a.op_id)

\* An operation that is reported to have lost has left no trace in the
\* session once it has been applied.
LosersLeaveNoTrace ==
    \A p \in Peers : \A i \in DOMAIN Reported(p) : \A o \in Applied(p) :
        LET e    == Reported(p)[i]
            clip == crdt[p].session.clips[e.clip_id]
        IN  o.op_id = e.op /\ ~e.op_won =>
                CASE e.kind = "MoveClip" -> clip.regs["track"].tag # e.op
                  [] e.kind = "DeleteClip" -> clip.alive.tag # e.op
                  [] OTHER -> <<o.operation.split_frame, o.operation.new_clip>>
                                \notin clip.splits

=============================================================================
