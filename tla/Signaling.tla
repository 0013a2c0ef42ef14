----------------------------- MODULE Signaling -----------------------------
(***************************************************************************)
(* The signaling server (signaling.rs): peers join a room explicitly, and  *)
(* every other frame, an offer, an answer or a candidate of WebRTC, is     *)
(* passed on to its target or to the rest of the room.                     *)
(*                                                                         *)
(* Unlike the relay, only a Join registers its sender, the join proof is   *)
(* checked per Join and not per connection, and the cleanup list takes     *)
(* every Join, also where the peer was a member through another connection *)
(* before.  One room; a connection speaks for one peer.                    *)
(***************************************************************************)
EXTENDS Admission

CONSTANTS
    SigPeers,
    SigPeerOf,          \* SigPeerOf[c]: the peer that speaks on c
    SigHasProof,        \* the connections whose client knows the secret
    SigTokenAuth,       \* RoomAuth::Token rather than Open
    MaxSigMembers,      \* ServerLimits::max_room_members
    NoSig               \* not a connection

ASSUME SignalingAssumption ==
    /\ SigPeerOf \in [Conns -> SigPeers]
    /\ SigHasProof \subseteq Conns
    /\ SigTokenAuth \in BOOLEAN
    /\ MaxSigMembers \in Nat
    /\ NoSig \notin Conns

VARIABLES
    sigPhase,       \* where the connection's task is
    sigJoined,      \* the connections whose cleanup list has their peer
    sigMembers,     \* sigMembers[p]: the connection registered for p, or NoSig
    heard           \* the connections signals of others were passed on to

signalingVars == <<total, perIp, lease, sigPhase, sigJoined, sigMembers, heard>>

SignalingInit ==
    /\ AdmissionInit
    /\ sigPhase = [c \in Conns |-> "idle"]
    /\ sigJoined = {}
    /\ sigMembers = [p \in SigPeers |-> NoSig]
    /\ heard = {}

SigAccept(c) ==
    /\ sigPhase[c] = "idle"
    /\ Admit(c)
    /\ sigPhase' = [sigPhase EXCEPT ![c] = "read"]
    /\ heard' = heard \ {c}
    /\ UNCHANGED <<sigJoined, sigMembers>>

Present == {p \in SigPeers : sigMembers[p] # NoSig}

\* The proof is right and there is room.
JoinAccepted(c) ==
    /\ ~SigTokenAuth \/ c \in SigHasProof
    /\ SigPeerOf[c] \in Present \/ Cardinality(Present) < MaxSigMembers

\* Mutant: as in the relay, the cleanup list takes new entries only.
SigJoinNew(c) ==
    /\ sigPhase[c] = "read"
    /\ JoinAccepted(c)
    /\ sigMembers' = [sigMembers EXCEPT ![SigPeerOf[c]] = c]
    /\ sigJoined' = IF SigPeerOf[c] \in Present THEN sigJoined ELSE sigJoined \cup {c}
    /\ UNCHANGED <<total, perIp, lease, sigPhase, heard>>

\* A Join frame registers the connection, whoever was registered before.
SigJoin(c) ==
    /\ sigPhase[c] = "read"
    /\ JoinAccepted(c)
    /\ sigMembers' = [sigMembers EXCEPT ![SigPeerOf[c]] = c]
    /\ sigJoined' = sigJoined \cup {c}
    /\ UNCHANGED <<total, perIp, lease, sigPhase, heard>>

\* The reading loop ends: a Leave, a close, a frame over the rate budget, or
\* a Join that is not accepted.
SigHangup(c) ==
    /\ sigPhase[c] = "read"
    /\ sigPhase' = [sigPhase EXCEPT ![c] = "leave"]
    /\ UNCHANGED <<total, perIp, lease, sigJoined, sigMembers, heard>>

\* Any other frame goes to the connections registered for these peers, also
\* when its sender has not joined.
PassOn(peers) == heard' = heard \cup ({sigMembers[p] : p \in peers} \ {NoSig})

SigForward(c) ==
    /\ sigPhase[c] = "read"
    /\ \/ \E target \in SigPeers : PassOn({target})
       \/ PassOn(SigPeers \ {SigPeerOf[c]})
    /\ UNCHANGED <<total, perIp, lease, sigPhase, sigJoined, sigMembers>>

\* The peers of the cleanup list leave, whichever connection is registered
\* for them by now.
SigLeave(c) ==
    /\ sigPhase[c] = "leave"
    /\ sigPhase' = [sigPhase EXCEPT ![c] = "close"]
    /\ sigJoined' = sigJoined \ {c}
    /\ sigMembers' = IF c \in sigJoined
                     THEN [sigMembers EXCEPT ![SigPeerOf[c]] = NoSig]
                     ELSE sigMembers
    /\ UNCHANGED <<total, perIp, lease, heard>>

\* The task returns and its lease is dropped.
SigClose(c) ==
    /\ sigPhase[c] = "close"
    /\ \/ ReleaseTotal(c) /\ UNCHANGED sigPhase
       \/ ReleaseIp(c) /\ sigPhase' = [sigPhase EXCEPT ![c] = "idle"]
    /\ UNCHANGED <<sigJoined, sigMembers, heard>>

SignalingNext ==
    \E c \in Conns :
        \/ SigAccept(c) \/ SigJoin(c) \/ SigHangup(c) \/ SigForward(c)
        \/ SigLeave(c) \/ SigClose(c)

SignalingSpec == SignalingInit /\ [][SignalingNext]_signalingVars

-----------------------------------------------------------------------------
(* Properties                                                              *)

SignalingTypeOK ==
    /\ AdmissionTypeOK
    /\ sigPhase \in [Conns -> {"idle", "read", "leave", "close"}]
    /\ sigJoined \subseteq Conns
    /\ sigMembers \in [SigPeers -> Conns \cup {NoSig}]
    /\ heard \subseteq Conns

\* Whatever the order of joins, reconnections and cleanups, a peer that is
\* reachable is so through a connection of its own that is yet to be cleaned
\* up, so no signal goes to a connection that has left; and, under token
\* authorization, none ever goes to one that did not prove itself.
ReachableThroughOwn ==
    /\ \A p \in Present :
          /\ SigPeerOf[sigMembers[p]] = p
          /\ sigMembers[p] \in sigJoined
          /\ sigPhase[sigMembers[p]] \in {"read", "leave"}
    /\ SigTokenAuth => heard \subseteq SigHasProof

=============================================================================
