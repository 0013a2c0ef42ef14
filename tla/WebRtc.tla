------------------------------- MODULE WebRtc -------------------------------
(***************************************************************************)
(* The WebRTC transport of two peers (webrtc.rs): offers, answers and      *)
(* candidates that the application carries between them, and what becomes  *)
(* of the peer connections and frames meanwhile.                           *)
(*                                                                         *)
(* Envelopes arrive once, in any order.  An application hands them to      *)
(* handle_signal one at a time, while it may dial and send in between, and *)
(* from another thread while a send is under way (the transport is Clone). *)
(* The webrtc library is external: a channel opens between two peer        *)
(* connections that have each other's descriptions, once either has a      *)
(* candidate of the other.  Of the callbacks some name the peer and act on *)
(* whatever entry it has by then.                                          *)
(***************************************************************************)
EXTENDS Naturals, FiniteSets

CONSTANTS
    Nodes,              \* the two peers
    MaxPcs,             \* bound: peer connections that are created
    MaxQueued           \* bound: frames queued at one peer

ASSUME WebRtcAssumption ==
    /\ Cardinality(Nodes) = 2
    /\ MaxPcs \in Nat /\ MaxQueued \in Nat

VARIABLES
    pcs,        \* pcs[p]: the peer connections p has created
    conn,       \* conn[p]: p's entry for the other peer, by its pc, or NoPc
    remote,     \* remote[n]: the pc whose description pc n was given, or NoPc
    offerer,    \* the pcs that dialled
    pending,    \* pending[n]: pending_candidates of the entry of pc n
    added,      \* added[n]: the pcs whose candidates pc n was given
    channel,    \* the pcs whose entry has a data channel
    open,       \* the pcs whose entry is marked open
    announced,  \* the pcs whose on_data_channel has been called
    opened,     \* the pcs whose data channel's on_open has been called
    queued,     \* queued[n]: how many pending_writes the entry of pc n has
    sending,    \* sending[p]: the pc whose entry a sender of p found closed, or NoPc
    early,      \* history: the peers that sent before their channel was open
    poisoned,   \* the peers whose registry lock is poisoned
    envelopes   \* signals on their way

webrtcVars == <<pcs, conn, remote, offerer, pending, added, channel, open,
                announced, opened, queued, sending, early, poisoned, envelopes>>

\* What the callbacks and senders change, and calls of the application do not.
laterVars == <<open, announced, opened, queued, sending, early, poisoned>>

NoPc == 0
Pcs == 1..MaxPcs

Counterpart(p) == CHOOSE q \in Nodes : q # p

\* of is the pc that speaks.
Envelope == [kind : {"Offer", "Answer", "IceCandidate"}, to : Nodes, of : Pcs]

Emitted(p, kind, n) == [kind |-> kind, to |-> Counterpart(p), of |-> n]

WebRtcInit ==
    /\ pcs = [p \in Nodes |-> {}]
    /\ conn = [p \in Nodes |-> NoPc]
    /\ remote = [n \in Pcs |-> NoPc]
    /\ offerer = {}
    /\ pending = [n \in Pcs |-> {}]
    /\ added = [n \in Pcs |-> {}]
    /\ channel = {}
    /\ open = {}
    /\ announced = {}
    /\ opened = {}
    /\ queued = [n \in Pcs |-> 0]
    /\ sending = [p \in Nodes |-> NoPc]
    /\ early = {}
    /\ poisoned = {}
    /\ envelopes = {}

-----------------------------------------------------------------------------
(* Calls of the application                                                *)

NewPc == 1 + Cardinality(UNION {pcs[p] : p \in Nodes})

\* create_peer_connection: the new entry replaces the one there was.
CreatePeerConnection(p) ==
    /\ NewPc \in Pcs
    /\ pcs' = [pcs EXCEPT ![p] = @ \cup {NewPc}]
    /\ conn' = [conn EXCEPT ![p] = NewPc]

\* dial; candidates are gathered from the local description on.
DialPeer(p) ==
    /\ p \notin poisoned
    /\ CreatePeerConnection(p)
    /\ offerer' = offerer \cup {NewPc}
    /\ channel' = channel \cup {NewPc}
    /\ envelopes' = envelopes \cup
           {Emitted(p, "Offer", NewPc), Emitted(p, "IceCandidate", NewPc)}
    /\ UNCHANGED <<remote, pending, added, laterVars>>

\* Mutant: what was buffered is forgotten.
FlushNothing(n) ==
    /\ UNCHANGED added
    /\ pending' = [pending EXCEPT ![n] = {}]

\* flush_candidates.
FlushCandidates(n) ==
    /\ added' = [added EXCEPT ![n] = @ \cup pending[n]]
    /\ pending' = [pending EXCEPT ![n] = {}]

\* answer_offer, always on a new peer connection.
HandleOffer(p, m) ==
    /\ m.kind = "Offer"
    /\ CreatePeerConnection(p)
    /\ remote' = [remote EXCEPT ![NewPc] = m.of]
    /\ FlushCandidates(NewPc)
    /\ envelopes' = (envelopes \ {m}) \cup
           {Emitted(p, "Answer", NewPc), Emitted(p, "IceCandidate", NewPc)}
    /\ UNCHANGED <<offerer, channel, laterVars>>

\* An answer goes to the current entry, which takes one while it waits for
\* it and is an error otherwise.
HandleAnswer(p, m) ==
    /\ m.kind = "Answer"
    /\ IF conn[p] \in offerer /\ remote[conn[p]] = NoPc
       THEN remote' = [remote EXCEPT ![conn[p]] = m.of] /\ FlushCandidates(conn[p])
       ELSE UNCHANGED <<remote, pending, added>>
    /\ envelopes' = envelopes \ {m}
    /\ UNCHANGED <<pcs, conn, offerer, channel, laterVars>>

\* A candidate is added, or buffered until the description is known; without
\* an entry the candidate is gone (PeerNotFound).
HandleCandidate(p, m) ==
    /\ m.kind = "IceCandidate"
    /\ \/ conn[p] = NoPc /\ UNCHANGED <<pending, added>>
       \/ /\ conn[p] # NoPc /\ remote[conn[p]] = NoPc
          /\ pending' = [pending EXCEPT ![conn[p]] = @ \cup {m.of}]
          /\ UNCHANGED added
       \/ /\ conn[p] # NoPc /\ remote[conn[p]] # NoPc
          /\ added' = [added EXCEPT ![conn[p]] = @ \cup {m.of}]
          /\ UNCHANGED pending
    /\ envelopes' = envelopes \ {m}
    /\ UNCHANGED <<pcs, conn, remote, offerer, channel, laterVars>>

HandleSignal(p) ==
    /\ p \notin poisoned
    /\ \E m \in envelopes :
          /\ m.to = p
          /\ HandleOffer(p, m) \/ HandleAnswer(p, m) \/ HandleCandidate(p, m)

\* send_to takes the peer's entry, and send_frame finds it not open.  (One
\* that is open leaves no trace at the sender.)
FindClosed(p) ==
    /\ p \notin poisoned
    /\ sending[p] = NoPc
    /\ conn[p] # NoPc /\ conn[p] \notin open
    /\ queued[conn[p]] < MaxQueued
    /\ sending' = [sending EXCEPT ![p] = conn[p]]
    /\ early' = early \cup {p}
    /\ UNCHANGED <<pcs, conn, remote, offerer, pending, added, channel, open,
                   announced, opened, queued, poisoned, envelopes>>

\* Only then does send_frame queue the frame, at the entry it was given and
\* without the registry lock, whatever became of either meanwhile.
QueueFrame(p) ==
    /\ sending[p] # NoPc
    /\ queued' = [queued EXCEPT ![sending[p]] = @ + 1]
    /\ sending' = [sending EXCEPT ![p] = NoPc]
    /\ UNCHANGED <<pcs, conn, remote, offerer, pending, added, channel, open,
                   announced, opened, early, poisoned, envelopes>>

-----------------------------------------------------------------------------
(* Callbacks of the library                                                *)

\* Pcs n and k are connected (external).
ConnectedTo(n, k) ==
    /\ k # NoPc /\ remote[n] = k /\ remote[k] = n
    /\ k \in added[n] \/ n \in added[k]

\* on_data_channel of pc n, which answered: whatever entry the peer has now
\* gets the channel.
OnDataChannel(p, n) ==
    /\ p \notin poisoned
    /\ n \in pcs[p] \ (offerer \cup announced) /\ ConnectedTo(n, remote[n])
    /\ announced' = announced \cup {n}
    /\ channel' = channel \cup {conn[p]}
    /\ UNCHANGED <<pcs, conn, remote, offerer, pending, added, open, opened,
                   queued, sending, early, poisoned, envelopes>>

\* on_channel_open of pc n: whatever entry the peer has now is marked open
\* and its queue taken; a frame queued between the two is one queued before.
\* Sending a queued frame blocks on the runtime the callback runs in, which
\* panics with the registry locked.
OnChannelOpen(p, n) ==
    /\ p \notin poisoned
    /\ n \in (pcs[p] \cap (offerer \cup announced)) \ opened
    /\ ConnectedTo(n, remote[n])
    /\ opened' = opened \cup {n}
    /\ open' = open \cup {conn[p]}
    /\ queued' = [queued EXCEPT ![conn[p]] = 0]
    /\ poisoned' = IF queued[conn[p]] # 0 THEN poisoned \cup {p} ELSE poisoned
    /\ UNCHANGED <<pcs, conn, remote, offerer, pending, added, channel,
                   announced, sending, early, envelopes>>

Callbacks(p) == \E n \in Pcs : OnDataChannel(p, n) \/ OnChannelOpen(p, n)

WebRtcNext ==
    \E p \in Nodes :
        \/ DialPeer(p) \/ HandleSignal(p) \/ Callbacks(p)
        \/ FindClosed(p) \/ QueueFrame(p)

\* Envelopes are carried to their peer in some order, and the library makes
\* its callbacks; nobody has to dial or send.
WebRtcFairness ==
    \A p \in Nodes :
        /\ WF_webrtcVars(HandleSignal(p))
        /\ WF_webrtcVars(Callbacks(p))

WebRtcSpec == WebRtcInit /\ [][WebRtcNext]_webrtcVars /\ WebRtcFairness

-----------------------------------------------------------------------------
(* Properties                                                              *)

WebRtcTypeOK ==
    /\ pcs \in [Nodes -> SUBSET Pcs]
    /\ conn \in [Nodes -> Pcs \cup {NoPc}]
    /\ remote \in [Pcs -> Pcs \cup {NoPc}]
    /\ offerer \subseteq Pcs /\ channel \subseteq Pcs /\ open \subseteq Pcs
    /\ announced \subseteq Pcs /\ opened \subseteq Pcs
    /\ pending \in [Pcs -> SUBSET Pcs]
    /\ added \in [Pcs -> SUBSET Pcs]
    /\ queued \in [Pcs -> Nat]
    /\ sending \in [Nodes -> Pcs \cup {NoPc}]
    /\ early \subseteq Nodes /\ poisoned \subseteq Nodes
    /\ envelopes \subseteq Envelope

\* In whatever order the envelopes of a dial are delivered, a candidate
\* before its description and even before the offer included, a peer that
\* sends nothing before its channel is open ends up ready for the other, with
\* a channel to send on and a registry that can be used, as long as only one
\* of the two dials, once.  A frame that is sent earlier is queued, and then
\* poisons the registry or stays where it is; but at the peer that sent it
\* only: the other one is ready all the same.
LoneDialConnects ==
    <>[](Cardinality(offerer) = 1 =>
            \A p \in Nodes \ early : conn[p] \in open \cap channel /\ p \notin poisoned)

=============================================================================
