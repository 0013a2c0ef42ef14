----------------------------- MODULE Connections -----------------------------
(***************************************************************************)
(* The connections under the TCP and WebSocket transports (tcp.rs,         *)
(* websocket.rs): the handshake each end of a socket goes through, the     *)
(* registry of peers it ends in, and the reader that keeps the entry.      *)
(*                                                                         *)
(* The ends of a socket run side by side; frames arrive in order until the *)
(* socket breaks or an end closes it.  A TCP listener shakes hands with    *)
(* one dialer at a time, a WebSocket server with all of them.  All peers   *)
(* speak the same protocol version and all signatures are right: what      *)
(* differs is who has an identity.  Whoever has one demands one.           *)
(***************************************************************************)
EXTENDS Naturals, Sequences, FiniteSets

CONSTANTS
    Hosts,
    Sockets,
    Routes,             \* who dials whom: the functions route may be
    Identities,         \* the sets of peers that may have an identity
    NoSocket,           \* not a socket
    MaxSent             \* bound: messages one end sends over a socket

ASSUME ConnectionsAssumption ==
    /\ Routes \subseteq [Sockets -> [{"dialer", "listener"} -> Hosts]]
    /\ \A r \in Routes, s \in Sockets : r[s]["dialer"] # r[s]["listener"]
    /\ Identities \subseteq SUBSET Hosts
    /\ NoSocket \notin Sockets
    /\ MaxSent \in Nat

VARIABLES
    over,       \* which transport: "tcp" or "ws"
    identified, \* the peers that have an identity
    route,      \* route[s][e]: the peer at end e of s
    stage,      \* stage[s][e]: where end e of s is
    wire,       \* wire[s][e]: frames on their way to end e
    entry,      \* entry[h][g]: the socket in h's registry for g, or NoSocket
    sent,       \* sent[s][e]: messages end e has sent
    got         \* got[s][e]: messages end e has handed to its engine

connVars == <<over, identified, route, stage, wire, entry, sent, got>>

Ends == {"dialer", "listener"}
Other(e) == IF e = "dialer" THEN "listener" ELSE "dialer"
HostAt(s, e) == route[s][e]
Remote(s, e) == HostAt(s, Other(e))

\* Waiting for: the other's Hello, a Challenge, the answer to a Challenge.
Waiting == {"hello", "challenge", "response"}

ConnectionsInit ==
    /\ over \in {"tcp", "ws"}
    /\ identified \in Identities
    /\ route \in Routes
    /\ stage = [s \in Sockets |-> [e \in Ends |-> "idle"]]
    /\ wire = [s \in Sockets |-> [e \in Ends |-> <<>>]]
    /\ entry = [h \in Hosts |-> [g \in Hosts |-> NoSocket]]
    /\ sent = [s \in Sockets |-> [e \in Ends |-> 0]]
    /\ got = [s \in Sockets |-> [e \in Ends |-> 0]]

-----------------------------------------------------------------------------
(* The handshake                                                           *)

Becomes(s, e, next) == stage' = [stage EXCEPT ![s][e] = next]
Send(s, e, f) == wire' = [wire EXCEPT ![s][Other(e)] = Append(@, f)]

\* Mutant: a read takes everything that has arrived.
ConsumeAll(s, e) == wire' = [wire EXCEPT ![s][e] = <<>>]

Consume(s, e) == wire' = [wire EXCEPT ![s][e] = Tail(@)]
Answer(s, e, f) ==
    wire' = [wire EXCEPT ![s][e] = Tail(@), ![s][Other(e)] = Append(@, f)]

\* The end stops reading, and the socket is dropped.
Fail(s, e) == Becomes(s, e, "ended") /\ wire' = [wire EXCEPT ![s][e] = <<>>]

\* register: the entry replaces whatever connection the peer had.
RegisterSocket(s, e) ==
    /\ Becomes(s, e, "reading")
    /\ entry' = [entry EXCEPT ![HostAt(s, e)][Remote(s, e)] = s]

\* connect: the dialer writes its Hello.
Dial(s) ==
    /\ stage[s]["dialer"] = "idle"
    /\ Becomes(s, "dialer", "hello")
    /\ Send(s, "dialer", "hello")
    /\ UNCHANGED <<over, identified, route, entry, sent, got>>

\* accept_incoming: the listener writes its own.
AcceptIncoming(s) ==
    /\ stage[s]["dialer"] # "idle" /\ stage[s]["listener"] = "idle"
    /\ over = "tcp" =>
          \A t \in Sockets : HostAt(t, "listener") = HostAt(s, "listener") =>
              stage[t]["listener"] \notin Waiting
    /\ Becomes(s, "listener", "hello")
    /\ Send(s, "listener", "hello")
    /\ UNCHANGED <<over, identified, route, entry, sent, got>>

\* verify_remote_hello.
Acceptable(h, g) == h \in identified => g \in identified

Arrived(s, e) == wire[s][e] # <<>>

\* Who challenges a remote that presented an identity: over TCP the dialer,
\* over WebSockets both.
Challenges(e) == over = "ws" \/ e = "dialer"

TakeHello(s, e) ==
    /\ stage[s][e] = "hello"
    /\ Arrived(s, e) /\ Head(wire[s][e]) = "hello"
    /\ \/ /\ ~Acceptable(HostAt(s, e), Remote(s, e))
          /\ Fail(s, e)
          /\ UNCHANGED entry
       \/ /\ Acceptable(HostAt(s, e), Remote(s, e))
          /\ Remote(s, e) \in identified
          /\ IF Challenges(e) THEN Becomes(s, e, "response") /\ Answer(s, e, "challenge")
                              ELSE Becomes(s, e, "challenge") /\ Consume(s, e)
          /\ UNCHANGED entry
       \/ /\ Acceptable(HostAt(s, e), Remote(s, e))
          /\ Remote(s, e) \notin identified
          /\ Consume(s, e)
          /\ RegisterSocket(s, e)
    /\ UNCHANGED <<over, identified, route, sent, got>>

\* answer_challenge, then register.
TakeChallenge(s, e) ==
    /\ stage[s][e] = "challenge"
    /\ Arrived(s, e) /\ Head(wire[s][e]) = "challenge"
    /\ IF HostAt(s, e) \in identified
       THEN Answer(s, e, "response") /\ RegisterSocket(s, e)
       ELSE Fail(s, e) /\ UNCHANGED entry
    /\ UNCHANGED <<over, identified, route, sent, got>>

\* The signature is right.
TakeAnswer(s, e) ==
    /\ stage[s][e] = "response"
    /\ Arrived(s, e) /\ Head(wire[s][e]) = "response"
    /\ Consume(s, e)
    /\ RegisterSocket(s, e)
    /\ UNCHANGED <<over, identified, route, sent, got>>

\* A frame the end does not wait for: an error over TCP, and skipped over a
\* WebSocket, a Challenge included.
TakeUnexpected(s, e) ==
    /\ stage[s][e] \in Waiting
    /\ Arrived(s, e) /\ Head(wire[s][e]) # stage[s][e]
    /\ IF over = "tcp" THEN Fail(s, e) ELSE Consume(s, e) /\ UNCHANGED stage
    /\ UNCHANGED <<over, identified, route, entry, sent, got>>

\* A read over TCP takes 30 seconds at most.
HandshakeTimeout(s, e) ==
    /\ over = "tcp"
    /\ stage[s][e] \in Waiting
    /\ Fail(s, e)
    /\ UNCHANGED <<over, identified, route, entry, sent, got>>

-----------------------------------------------------------------------------
(* The connection                                                          *)

\* send_frame: through the socket in the registry, whether or not the other
\* end still reads.
SendMessage(h, g) ==
    \E s \in Sockets, e \in Ends :
        /\ entry[h][g] = s /\ HostAt(s, e) = h
        /\ sent[s][e] < MaxSent
        /\ sent' = [sent EXCEPT ![s][e] = @ + 1]
        /\ IF stage[s][Other(e)] = "ended" THEN UNCHANGED wire ELSE Send(s, e, "message")
        /\ UNCHANGED <<over, identified, route, stage, entry, got>>

\* The reader hands a message to the engine and skips any other frame.
ReadMessage(s, e) ==
    /\ stage[s][e] = "reading"
    /\ Arrived(s, e)
    /\ Consume(s, e)
    /\ got' = [got EXCEPT ![s][e] = IF Head(wire[s][e]) = "message" THEN @ + 1 ELSE @]
    /\ UNCHANGED <<over, identified, route, stage, entry, sent>>

\* Mutant: the entry of a connection that has ended is kept.
KeepEntry(s, e) == UNCHANGED entry

\* The reader removes the peer's entry, whichever connection it is by now.
RemoveEntry(s, e) ==
    entry' = [entry EXCEPT ![HostAt(s, e)][Remote(s, e)] = NoSocket]

\* Mutant: only an established connection is found to have ended.
SeeEndReading(s, e) ==
    /\ stage[s][e] = "reading"
    /\ wire[s][e] = <<>>
    /\ stage[s][Other(e)] = "ended"
    /\ Fail(s, e)
    /\ RemoveEntry(s, e)
    /\ UNCHANGED <<over, identified, route, sent, got>>

\* The other end is gone: the handshake fails, or the reader stops.
SeeEnd(s, e) ==
    /\ stage[s][e] \in Waiting \cup {"reading"}
    /\ wire[s][e] = <<>>
    /\ stage[s][Other(e)] = "ended"
    /\ Fail(s, e)
    /\ IF stage[s][e] = "reading" THEN RemoveEntry(s, e) ELSE UNCHANGED entry
    /\ UNCHANGED <<over, identified, route, sent, got>>

\* The socket breaks, or the transport is dropped, and end e sees it first.
Break(s, e) ==
    /\ stage[s][e] \in Waiting \cup {"reading"}
    /\ Fail(s, e)
    /\ IF stage[s][e] = "reading" THEN RemoveEntry(s, e) ELSE UNCHANGED entry
    /\ UNCHANGED <<over, identified, route, sent, got>>

ConnectionsNext ==
    \E s \in Sockets :
        \/ Dial(s) \/ AcceptIncoming(s)
        \/ \E e \in Ends :
              \/ TakeHello(s, e) \/ TakeChallenge(s, e) \/ TakeAnswer(s, e)
              \/ TakeUnexpected(s, e) \/ HandshakeTimeout(s, e)
              \/ ReadMessage(s, e) \/ SeeEnd(s, e) \/ Break(s, e)
              \/ SendMessage(HostAt(s, e), Remote(s, e))

\* Threads and tasks run; nothing has to break, and no timeout has to fire.
Progress(s, e) ==
    \/ TakeHello(s, e) \/ TakeChallenge(s, e) \/ TakeAnswer(s, e)
    \/ TakeUnexpected(s, e) \/ SeeEnd(s, e) \/ ReadMessage(s, e)

ConnectionsFairness ==
    \A s \in Sockets :
        /\ WF_connVars(AcceptIncoming(s))
        /\ \A e \in Ends : WF_connVars(Progress(s, e))

ConnectionsSpec ==
    ConnectionsInit /\ [][ConnectionsNext]_connVars /\ ConnectionsFairness

-----------------------------------------------------------------------------
(* Properties                                                              *)

ConnectionsTypeOK ==
    /\ over \in {"tcp", "ws"}
    /\ identified \subseteq Hosts
    /\ route \in Routes
    /\ stage \in [Sockets -> [Ends -> {"idle", "reading", "ended"} \cup Waiting]]
    /\ wire \in [Sockets -> [Ends -> Seq({"hello", "challenge", "response", "message"})]]
    /\ entry \in [Hosts -> [Hosts -> Sockets \cup {NoSocket}]]
    /\ sent \in [Sockets -> [Ends -> Nat]]
    /\ got \in [Sockets -> [Ends -> Nat]]

\* However connections between two peers replace each other and end, a peer
\* that is listed has a connection that is being read, so that its end will
\* be seen and the entry removed, and that went through the handshake with
\* the right peer.
EntriesAreRead ==
    \A h, g \in Hosts :
        entry[h][g] # NoSocket =>
            \E e \in Ends :
                /\ HostAt(entry[h][g], e) = h /\ Remote(entry[h][g], e) = g
                /\ stage[entry[h][g]][e] = "reading"
                /\ h \in identified <=> g \in identified

Count(f, frames) == Cardinality({i \in 1..Len(frames) : frames[i] = f})

\* A message sent as soon as connect has returned is not taken for part of
\* the handshake that the other end is still in: as long as both ends live,
\* every message has been handed to the engine or is under way.
NothingSwallowed ==
    \A s \in Sockets, e \in Ends :
        stage[s][Other(e)] # "ended" =>
            sent[s][e] = got[s][Other(e)] + Count("message", wire[s][Other(e)])

\* Two peers with identities wait for each other for ever over a WebSocket:
\* both challenge, and nobody answers a challenge.
Deadlocked(s) == over = "ws" /\ {HostAt(s, e) : e \in Ends} \subseteq identified

\* Every other handshake ends, in a connection or in an error, without a
\* timeout: an end makes at most one, so that none goes on says they all end.
HandshakesEnd ==
    <>[](\A s \in Sockets, e \in Ends :
            ~Deadlocked(s) => stage[s][e] \notin Waiting)

=============================================================================
