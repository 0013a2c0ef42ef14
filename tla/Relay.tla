------------------------------- MODULE Relay -------------------------------
(***************************************************************************)
(* The relay server (relay.rs): one task per connection that registers the *)
(* sender of every frame as a member of its room, records operations,      *)
(* answers snapshot requests from the record and forwards the rest, and    *)
(* its clients (RelayClientTransport).                                     *)
(*                                                                         *)
(* A client speaks for one peer in one room, and rooms share nothing but   *)
(* the admission counters, so there is one room.  Tasks run side by side;  *)
(* what they do under one lock is one step.  The store is what RelayStore  *)
(* makes of it, unbounded; a frame over the rate budget, a close and a     *)
(* broken socket all end the reading loop.  What a connection's writer     *)
(* task is handed reaches its client in order or not at all, so a client   *)
(* is modelled by the operations handed to its connection.                 *)
(***************************************************************************)
EXTENDS Admission

CONSTANTS
    Peers,
    PeerOf,             \* PeerOf[c]: the peer that speaks on c
    Ops,                \* operations, each sent by OwnerOf[o]
    OwnerOf,
    HasProof,           \* the connections whose client knows the secret
    TokenAuth,          \* RoomAuth::Token rather than Open
    MaxRoomMembers,     \* ServerLimits::max_room_members
    NoConn,             \* not a connection
    MaxFrames           \* bound: frames clients send after they joined

\* The peer id 0 the server answers under, and the target of a frame without
\* a target.
Server == "server"
All == "all"

ASSUME RelayAssumption ==
    /\ Server \notin Peers /\ All \notin Peers
    /\ PeerOf \in [Conns -> Peers]
    /\ OwnerOf \in [Ops -> Peers]
    /\ HasProof \subseteq Conns
    /\ TokenAuth \in BOOLEAN
    /\ MaxRoomMembers \in Nat
    /\ NoConn \notin Conns
    /\ MaxFrames \in Nat

VARIABLES
    phase,      \* phase[c]: where the connection's task is
    frame,      \* frame[c]: the frame it works on
    bound,      \* bound[c]: it has presented its join proof
    joined,     \* joined[c]: the cleanup list has the peer of c
    members,    \* members[p]: the connection registered for p, or NoConn
    stored,     \* the operations of the room in the store
    delivered,  \* delivered[c]: operations sent to the client
    frames      \* frames sent so far

relayVars == <<total, perIp, lease, phase, frame, bound, joined, members,
               stored, delivered, frames>>

roomVars == <<bound, joined, members, stored, delivered, frames>>

-----------------------------------------------------------------------------
(* Frames                                                                  *)

Frame == [kind : {"Operation", "RequestSnapshot", "Snapshot", "Other"},
          from : Peers \cup {Server},
          to : Peers \cup {All},
          ops : SUBSET Ops]

F(kind, from, to, ops) == [kind |-> kind, from |-> from, to |-> to, ops |-> ops]

\* What RelayClientTransport::connect sends first.
JoinFrame(c) == F("RequestSnapshot", PeerOf[c], All, {})

\* What the client's engine sends later: operations, acknowledgements and
\* other messages to one peer, and requests for a snapshot.
ClientFrames(c) ==
    {F("Operation", PeerOf[c], All, {o}) : o \in {x \in Ops : OwnerOf[x] = PeerOf[c]}}
        \cup {F("Other", PeerOf[c], p, {}) : p \in Peers \ {PeerOf[c]}}
        \cup {JoinFrame(c)}

\* Mutant: the cleanup list takes the entry where it is not new.
RegisterKnown(c) ==
    /\ members' = [members EXCEPT ![PeerOf[c]] = c]
    /\ joined' = [joined EXCEPT ![c] = @ \/ members[PeerOf[c]] # NoConn]

\* Mutant: only operations make their sender a member.
RegisterOperations(c) ==
    IF frame'[c].kind = "Operation"
    THEN /\ members' = [members EXCEPT ![PeerOf[c]] = c]
         /\ joined' = [joined EXCEPT ![c] = @ \/ members[PeerOf[c]] = NoConn]
    ELSE UNCHANGED <<members, joined>>

\* The peer's entry goes to this connection; the cleanup list takes it only
\* where it is new.
Register(c) ==
    /\ members' = [members EXCEPT ![PeerOf[c]] = c]
    /\ joined' = [joined EXCEPT ![c] = @ \/ members[PeerOf[c]] = NoConn]

RoomFull(c) ==
    /\ members[PeerOf[c]] = NoConn
    /\ Cardinality({p \in Peers : members[p] # NoConn}) >= MaxRoomMembers

-----------------------------------------------------------------------------
(* The server's steps                                                      *)

RelayInit ==
    /\ AdmissionInit
    /\ phase = [c \in Conns |-> "idle"]
    /\ frame = [c \in Conns |-> JoinFrame(c)]
    /\ bound = [c \in Conns |-> FALSE]
    /\ joined = [c \in Conns |-> FALSE]
    /\ members = [p \in Peers |-> NoConn]
    /\ stored = {}
    /\ delivered = [c \in Conns |-> {}]
    /\ frames = 0

\* A client connects and is admitted.
Accept(c) ==
    /\ phase[c] = "idle"
    /\ Admit(c)
    /\ phase' = [phase EXCEPT ![c] = "join"]
    /\ frame' = [frame EXCEPT ![c] = JoinFrame(c)]
    /\ bound' = [bound EXCEPT ![c] = FALSE]
    /\ delivered' = [delivered EXCEPT ![c] = {}]
    /\ UNCHANGED <<joined, members, stored, frames>>

\* The reading loop ends: the client closed, broke, was over its budget, was
\* refused by the origin check, or did not prove itself.
Hangup(c) ==
    /\ phase[c] \in {"join", "read"}
    /\ phase' = [phase EXCEPT ![c] = "leave"]
    /\ UNCHANGED <<total, perIp, lease, frame, roomVars>>

\* The next frame is read, the proof checked and the sender registered.
Receive(c, f) ==
    /\ frame' = [frame EXCEPT ![c] = f]
    /\ IF (TokenAuth /\ ~bound[c] /\ c \notin HasProof) \/ RoomFull(c)
       THEN /\ phase' = [phase EXCEPT ![c] = "leave"]
            /\ UNCHANGED <<members, joined>>
       ELSE /\ phase' = [phase EXCEPT ![c] = "store"]
            /\ Register(c)
    /\ bound' = [bound EXCEPT ![c] = TokenAuth /\ c \in HasProof]
    /\ UNCHANGED <<total, perIp, lease, stored, delivered>>

Join(c) ==
    /\ phase[c] = "join"
    /\ Receive(c, JoinFrame(c))
    /\ UNCHANGED frames

Read(c) ==
    /\ phase[c] = "read"
    /\ frames < MaxFrames
    /\ frames' = frames + 1
    /\ \E f \in ClientFrames(c) : Receive(c, f)

Goto(c, step) == phase' = [phase EXCEPT ![c] = step]

\* An operation is recorded; a snapshot request is answered from the record
\* unless that is empty.
Store(c) ==
    /\ phase[c] = "store"
    /\ \/ /\ frame[c].kind = "Operation"
          /\ stored' = stored \cup frame[c].ops
          /\ Goto(c, "forward")
          /\ UNCHANGED frame
       \/ /\ frame[c].kind = "RequestSnapshot"
          /\ stored # {}
          /\ frame' = [frame EXCEPT ![c] = F("Snapshot", Server, PeerOf[c], stored)]
          /\ Goto(c, "reply")
          /\ UNCHANGED stored
       \/ /\ \/ frame[c].kind = "RequestSnapshot" /\ stored = {}
             \/ frame[c].kind = "Other"
          /\ Goto(c, "forward")
          /\ UNCHANGED <<stored, frame>>
    /\ UNCHANGED <<total, perIp, lease, bound, joined, members, delivered,
                   frames>>

\* send to the senders registered for these peers; a client ignores what it
\* sent itself.
SentTo(peers, f) ==
    [d \in Conns |->
        IF PeerOf[d] \in peers \ {f.from} /\ members[PeerOf[d]] = d
        THEN delivered[d] \cup f.ops ELSE delivered[d]]

\* The snapshot goes to whichever connection is registered for the peer.
Reply(c) ==
    /\ phase[c] = "reply"
    /\ delivered' = SentTo({PeerOf[c]}, frame[c])
    /\ Goto(c, "read")
    /\ UNCHANGED <<total, perIp, lease, frame, bound, joined, members, stored,
                   frames>>

Recipients(f) == IF f.to = All THEN Peers \ {f.from} ELSE {f.to}

Forward(c) ==
    /\ phase[c] = "forward"
    /\ delivered' = SentTo(Recipients(frame[c]), frame[c])
    /\ Goto(c, "read")
    /\ UNCHANGED <<total, perIp, lease, frame, bound, joined, members, stored,
                   frames>>

\* The members the connection had registered are removed, whichever
\* connection they are registered for by now.
Leave(c) ==
    /\ phase[c] = "leave"
    /\ Goto(c, "close")
    /\ joined' = [joined EXCEPT ![c] = FALSE]
    /\ members' = IF joined[c] THEN [members EXCEPT ![PeerOf[c]] = NoConn]
                               ELSE members
    /\ UNCHANGED <<total, perIp, lease, frame, bound, stored, delivered,
                   frames>>

\* The task returns and its lease is dropped.
Close(c) ==
    /\ phase[c] = "close"
    /\ \/ ReleaseTotal(c) /\ UNCHANGED phase
       \/ ReleaseIp(c) /\ Goto(c, "idle")
    /\ UNCHANGED <<frame, roomVars>>

\* The server stops and is started, once, on the same store.
Restart ==
    /\ frames <= MaxFrames
    /\ frames' = MaxFrames + 1
    /\ total' = 0
    /\ perIp' = [ip \in Ips |-> 0]
    /\ lease' = [c \in Conns |-> "none"]
    /\ phase' = [c \in Conns |-> "idle"]
    /\ frame' = [c \in Conns |-> JoinFrame(c)]
    /\ bound' = [c \in Conns |-> FALSE]
    /\ joined' = [c \in Conns |-> FALSE]
    /\ members' = [p \in Peers |-> NoConn]
    /\ delivered' = [c \in Conns |-> {}]
    /\ UNCHANGED stored

RelayNext ==
    \/ \E c \in Conns :
          \/ Accept(c) \/ Hangup(c) \/ Join(c) \/ Read(c)
          \/ Store(c) \/ Reply(c) \/ Forward(c) \/ Leave(c) \/ Close(c)
    \/ Restart

RelaySpec == RelayInit /\ [][RelayNext]_relayVars

-----------------------------------------------------------------------------
(* Properties                                                              *)

RelayTypeOK ==
    /\ AdmissionTypeOK
    /\ phase \in [Conns -> {"idle", "join", "read", "store", "reply",
                            "forward", "leave", "close"}]
    /\ frame \in [Conns -> Frame]
    /\ bound \in [Conns -> BOOLEAN]
    /\ joined \in [Conns -> BOOLEAN]
    /\ members \in [Peers -> Conns \cup {NoConn}]
    /\ stored \subseteq Ops
    /\ delivered \in [Conns -> SUBSET Ops]
    /\ frames \in Nat

\* Whoever is a member is on the cleanup list of a connection that has not
\* been cleaned up, so no room keeps a member after its connections are gone.
NoGhostMembers ==
    \A p \in Peers :
        members[p] # NoConn =>
            \E c \in Conns : /\ PeerOf[c] = p
                             /\ joined[c]
                             /\ phase[c] \notin {"idle", "join", "close"}

\* The peer of c uses no second connection.
Sole(c) == \A d \in Conns : PeerOf[d] = PeerOf[c] => d = c

\* c's request for a snapshot has been dealt with.
Synchronised(c) ==
    \/ phase[c] = "read"
    \/ phase[c] \in {"store", "reply", "forward"} /\ frame[c].kind # "RequestSnapshot"
                                                  /\ frame[c].kind # "Snapshot"

OnItsWay(o) == \E d \in Conns : phase[d] = "forward" /\ o \in frame[d].ops

\* Between the record and what is forwarded a joining peer misses nothing,
\* however its join interleaves with operations that arrive: what is stored
\* it has been sent, or the task that stored it is still to forward it.
JoinersMissNothing ==
    \A c \in Conns, o \in stored :
        Sole(c) /\ Synchronised(c) /\ OwnerOf[o] # PeerOf[c]
            => o \in delivered[c] \/ OnItsWay(o)

=============================================================================
