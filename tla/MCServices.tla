----------------------------- MODULE MCServices -----------------------------
(***************************************************************************)
(* The services around the timeline for TLC: the relay, its store, the     *)
(* signaling server, presence, playhead and transport control, discovery,  *)
(* and the connections under the transports.                               *)
(*                                                                         *)
(* They share no state (the relay is modelled over an ideal store, and     *)
(* each server has a ConnectionGuard of its own), so an instance runs one  *)
(* of them at a time: which, part says from the start.  The product of the *)
(* nine would show nothing more.                                           *)
(***************************************************************************)
EXTENDS Relay, RelayStore, Signaling, Presence, Playhead, TransportSync,
        Connections, WebRtc, Discovery, TLC

CONSTANTS a1, a2, b, c, s1, s2, A, B, C, ip1, ip2

\* Peer A has two connections to a server, the second opened before the first
\* is gone; the third connection from ip1 finds the address full.
MCIpOf == a1 :> ip1 @@ a2 :> ip1 @@ b :> ip2 @@ c :> ip1
MCPeerOf == a1 :> A @@ a2 :> A @@ b :> B @@ c :> C
MCOwnerOf == 1 :> A

\* Two small operations are as many as a segment takes, two large ones more
\* than it has room for, and there is one for which an empty segment has none.
MCOpSize == 1 :> 1 @@ 2 :> 4 @@ 3 :> 1 @@ 4 :> 9 @@ 5 :> 4 @@ 6 :> 1

\* The master's clock is ahead of the follower's.
MCAhead == A :> 2 @@ B :> 0

\* Two peers that dial each other, and one that dials again.
MCRoutes ==
    LET dials(p, q) == [e \in Ends |-> IF e = "dialer" THEN p ELSE q]
    IN {s1 :> dials(A, B) @@ s2 :> dials(B, A), s1 :> dials(A, B) @@ s2 :> dials(A, B)}

VARIABLE part

relayOnly == <<phase, frame, roomVars>>
sigOnly == <<sigPhase, sigJoined, sigMembers, heard>>

vars == <<admissionVars, relayOnly, sigOnly, storeVars, presenceVars,
          playheadVars, transportVars, connVars, webrtcVars, discoveryVars, part>>

Init ==
    /\ part \in {"relay", "store", "signaling", "presence", "playhead",
                 "transport", "connections", "webrtc", "discovery"}
    /\ RelayInit
    /\ StoreInit
    /\ SignalingInit
    /\ PresenceInit
    /\ PlayheadInit
    /\ TransportInit
    /\ ConnectionsInit
    /\ part # "connections" =>
           over = "tcp" /\ identified = {} /\ route = [s \in Sockets |-> route[s1]]
    /\ WebRtcInit
    /\ DiscoveryInit
    /\ part # "discovery" => means = "beacon"

RelayStep ==
    /\ part = "relay"
    /\ RelayNext
    /\ UNCHANGED <<sigOnly, storeVars, presenceVars, playheadVars,
                   transportVars, connVars, webrtcVars, discoveryVars, part>>

SignalingStep ==
    /\ part = "signaling"
    /\ SignalingNext
    /\ UNCHANGED <<relayOnly, storeVars, presenceVars, playheadVars,
                   transportVars, connVars, webrtcVars, discoveryVars, part>>

StoreStep ==
    /\ part = "store"
    /\ StoreNext
    /\ UNCHANGED <<relayVars, sigOnly, presenceVars, playheadVars,
                   transportVars, connVars, webrtcVars, discoveryVars, part>>

PresenceRuns(action) ==
    /\ part = "presence"
    /\ action
    /\ UNCHANGED <<relayVars, sigOnly, storeVars, playheadVars,
                   transportVars, connVars, webrtcVars, discoveryVars, part>>

PlayheadStep ==
    /\ part = "playhead"
    /\ PlayheadNext
    /\ UNCHANGED <<relayVars, sigOnly, storeVars, presenceVars,
                   transportVars, connVars, webrtcVars, discoveryVars, part>>

\* Nothing is claimed of a session whose hand-overs are disputed, so it is
\* not followed any further.
TransportStep ==
    /\ part = "transport"
    /\ ~disputed
    /\ TransportNext
    /\ UNCHANGED <<relayVars, sigOnly, storeVars, presenceVars, playheadVars,
                   connVars, webrtcVars, discoveryVars, part>>

ConnectionsRun(action) ==
    /\ part = "connections"
    /\ action
    /\ UNCHANGED <<relayVars, sigOnly, storeVars, presenceVars, playheadVars,
                   transportVars, webrtcVars, discoveryVars, part>>

WebRtcRuns(action) ==
    /\ part = "webrtc"
    /\ action
    /\ UNCHANGED <<relayVars, sigOnly, storeVars, presenceVars, playheadVars,
                   transportVars, connVars, discoveryVars, part>>

DiscoveryRuns(action) ==
    /\ part = "discovery"
    /\ action
    /\ UNCHANGED <<relayVars, sigOnly, storeVars, presenceVars, playheadVars,
                   transportVars, connVars, webrtcVars, part>>

Next ==
    \/ RelayStep
    \/ SignalingStep
    \/ StoreStep
    \/ PresenceRuns(PresenceNext)
    \/ PlayheadStep
    \/ TransportStep
    \/ ConnectionsRun(ConnectionsNext)
    \/ WebRtcRuns(WebRtcNext)
    \/ DiscoveryRuns(DiscoveryNext)

\* PresenceFairness, ConnectionsFairness, WebRtcFairness and
\* DiscoveryFairness, each for the instances of its part.
Fairness ==
    /\ WF_vars(PresenceRuns(Advance))
    /\ \A q \in Users : WF_vars(PresenceRuns(Tick(q)))
    /\ \A s \in Sockets :
          /\ WF_vars(ConnectionsRun(AcceptIncoming(s)))
          /\ \A e \in Ends : WF_vars(ConnectionsRun(Progress(s, e)))
    /\ \A p \in Nodes :
          /\ WF_vars(WebRtcRuns(HandleSignal(p)))
          /\ WF_vars(WebRtcRuns(Callbacks(p)))
    /\ WF_vars(DiscoveryRuns(Elapse))
    /\ \A q \in Stations : WF_vars(DiscoveryRuns(Poll(q)))

Spec == Init /\ [][Next]_vars /\ Fairness

\* The rooms of both servers: whoever can be reached in a room is so through
\* a connection that is still to be cleaned up, however reconnections and
\* cleanups overlap, so that rooms empty when their connections are gone.
RoomsHoldNoGhosts == NoGhostMembers /\ ReachableThroughOwn

\* Who falls silent is in the end known to be gone, to presence as to
\* discovery, by the observer's own clock alone: through updates and
\* announcements that are lost, repeated or read long after they were sent.
SilentPeersFade == SilentEventuallyOffline /\ StoppedEventuallyForgotten

=============================================================================
