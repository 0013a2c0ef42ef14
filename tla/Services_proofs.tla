--------------------------- MODULE Services_proofs ---------------------------
(***************************************************************************)
(* What the servers promise, for any number of connections, peers,         *)
(* operations and frames, any sizes of operations and any limits.          *)
(*                                                                         *)
(* The relay: admission counts are exact, rooms hold no ghosts, and a peer *)
(* that joins misses nothing.  The signaling server: who is reachable is   *)
(* so through a connection that is still cleaned up.  The relay's store,   *)
(* through crashes at any point: a room takes no more disk than configured *)
(* and what is loaded is the newest of what was written, in its order.     *)
(* Together: neither server's rooms hold ghosts, and the transports agree. *)
(***************************************************************************)
EXTENDS MCServices, FiniteSetTheorems, WellFoundedInduction, TLAPS

-----------------------------------------------------------------------------
(* The relay: admission                                                    *)

\* The connections of an address that hold its capacity.
HoldingIp(ip) == {e \in Holding({"held", "half"}) : IpOf[e] = ip}

LEMMA HoldersFinite ==
    /\ IsFiniteSet(Holding({"held"}))
    /\ \A ip \in Ips : IsFiniteSet(HoldingIp(ip))
<1>1. Holding({"held"}) \subseteq Conns /\ \A ip \in Ips : HoldingIp(ip) \subseteq Conns
    BY DEF Holding, HoldingIp
<1> QED
    BY <1>1, FS_Subset, AdmissionAssumption

\* CountsAreExact, with a name for the set it counts.
LEMMA CountsUnfolded ==
    CountsAreExact <=>
        /\ total = Cardinality(Holding({"held"}))
        /\ total <= MaxConnections
        /\ \A ip \in Ips : perIp[ip] = Cardinality(HoldingIp(ip)) /\ perIp[ip] <= MaxPerIp
    BY DEF CountsAreExact, HoldingIp

LEMMA AdmitKeepsCounts ==
    ASSUME AdmissionTypeOK, CountsAreExact, NEW e \in Conns, Admit(e)
    PROVE  AdmissionTypeOK' /\ CountsAreExact'
<1> USE DEF AdmissionTypeOK
<1>1. IpOf[e] \in Ips
    BY AdmissionAssumption DEF Ips
<1>2. AdmissionTypeOK'
    BY <1>1 DEF Admit
<1>3. /\ lease[e] = "none" /\ lease'[e] = "held"
      /\ \A d \in Conns : d # e => lease'[d] = lease[d]
    BY DEF Admit
<1>4. Holding({"held"})' = Holding({"held"}) \cup {e} /\ e \notin Holding({"held"})
    BY <1>3 DEF Holding
<1>5. Cardinality(Holding({"held"})') = Cardinality(Holding({"held"})) + 1
    BY <1>4, HoldersFinite, FS_AddElement
<1>6. total' = total + 1 /\ total' <= MaxConnections
    BY AdmissionAssumption DEF Admit, HasCapacity
<1>7. ASSUME NEW ip \in Ips
      PROVE  perIp'[ip] = Cardinality(HoldingIp(ip)') /\ perIp'[ip] <= MaxPerIp
  <2>1. CASE ip = IpOf[e]
    <3>1. HoldingIp(ip)' = HoldingIp(ip) \cup {e} /\ e \notin HoldingIp(ip)
        BY <1>3, <2>1 DEF Holding, HoldingIp
    <3>2. Cardinality(HoldingIp(ip)') = Cardinality(HoldingIp(ip)) + 1
        BY <3>1, HoldersFinite, FS_AddElement
    <3>3. perIp'[ip] = perIp[ip] + 1 /\ perIp'[ip] <= MaxPerIp
        BY <2>1, <1>1, AdmissionAssumption DEF Admit, HasCapacity
    <3> QED
        BY <3>2, <3>3, CountsUnfolded
  <2>2. CASE ip # IpOf[e]
    <3>1. HoldingIp(ip)' = HoldingIp(ip)
        BY <1>3, <2>2 DEF Holding, HoldingIp
    <3>2. perIp'[ip] = perIp[ip]
        BY <2>2, <1>1 DEF Admit
    <3> QED
        BY <3>1, <3>2, CountsUnfolded
  <2> QED
      BY <2>1, <2>2
<1>8. total = Cardinality(Holding({"held"}))
    BY CountsUnfolded
<1> QED
    BY <1>2, <1>5, <1>6, <1>7, <1>8 DEF CountsAreExact, HoldingIp

LEMMA ReleaseTotalKeepsCounts ==
    ASSUME AdmissionTypeOK, CountsAreExact, NEW e \in Conns, ReleaseTotal(e)
    PROVE  AdmissionTypeOK' /\ CountsAreExact'
<1> USE DEF AdmissionTypeOK
<1>1. /\ lease[e] = "held" /\ lease'[e] = "half"
      /\ \A d \in Conns : d # e => lease'[d] = lease[d]
    BY DEF ReleaseTotal
<1>2. /\ Holding({"held"})' = Holding({"held"}) \ {e} /\ e \in Holding({"held"})
    BY <1>1 DEF Holding
<1>3. /\ Cardinality(Holding({"held"})') = Cardinality(Holding({"held"})) - 1
      /\ Cardinality(Holding({"held"})') \in Nat
    BY <1>2, HoldersFinite, FS_RemoveElement, FS_CardinalityType
<1>4. /\ total = Cardinality(Holding({"held"})) /\ total <= MaxConnections
      /\ total' = total - 1
    BY CountsUnfolded DEF ReleaseTotal
<1>5. total' \in Nat /\ total' <= MaxConnections
    BY <1>3, <1>4, AdmissionAssumption
<1>6. AdmissionTypeOK'
    BY <1>5 DEF ReleaseTotal
<1>7. \A ip \in Ips : HoldingIp(ip)' = HoldingIp(ip)
    BY <1>1 DEF Holding, HoldingIp
<1>8. perIp' = perIp
    BY DEF ReleaseTotal
<1>9. \A ip \in Ips : perIp'[ip] = Cardinality(HoldingIp(ip)') /\ perIp'[ip] <= MaxPerIp
    BY <1>7, <1>8, CountsUnfolded
<1> QED
    BY <1>3, <1>4, <1>5, <1>6, <1>9 DEF CountsAreExact, HoldingIp

LEMMA ReleaseIpKeepsCounts ==
    ASSUME AdmissionTypeOK, CountsAreExact, NEW e \in Conns, ReleaseIp(e)
    PROVE  AdmissionTypeOK' /\ CountsAreExact'
<1> USE DEF AdmissionTypeOK
<1>1. IpOf[e] \in Ips
    BY AdmissionAssumption DEF Ips
<1>2. /\ lease[e] = "half" /\ lease'[e] = "none"
      /\ \A d \in Conns : d # e => lease'[d] = lease[d]
    BY DEF ReleaseIp
<1>3. Holding({"held"})' = Holding({"held"}) /\ total' = total
    BY <1>2 DEF Holding, ReleaseIp
<1>4. ASSUME NEW ip \in Ips
      PROVE  perIp'[ip] = Cardinality(HoldingIp(ip)') /\ perIp'[ip] <= MaxPerIp
  <2>1. CASE ip = IpOf[e]
    <3>1. HoldingIp(ip)' = HoldingIp(ip) \ {e} /\ e \in HoldingIp(ip)
        BY <1>2, <2>1 DEF Holding, HoldingIp
    <3>2. /\ Cardinality(HoldingIp(ip)') = Cardinality(HoldingIp(ip)) - 1
          /\ Cardinality(HoldingIp(ip)') \in Nat
        BY <3>1, HoldersFinite, FS_RemoveElement, FS_CardinalityType
    <3>3. /\ perIp[ip] = Cardinality(HoldingIp(ip)) /\ perIp[ip] <= MaxPerIp
          /\ perIp[ip] \in Nat
        BY CountsUnfolded
    <3>4. perIp'[ip] = IF perIp[ip] = 0 THEN 0 ELSE perIp[ip] - 1
        BY <2>1, <1>1 DEF ReleaseIp
    <3> QED
        BY <3>2, <3>3, <3>4, AdmissionAssumption
  <2>2. CASE ip # IpOf[e]
    <3>1. HoldingIp(ip)' = HoldingIp(ip)
        BY <1>2, <2>2 DEF Holding, HoldingIp
    <3>2. perIp'[ip] = perIp[ip]
        BY <2>2, <1>1 DEF ReleaseIp
    <3> QED
        BY <3>1, <3>2, CountsUnfolded
  <2> QED
      BY <2>1, <2>2
<1>5. perIp' \in [Ips -> Nat]
    BY <1>1 DEF ReleaseIp
<1>6. AdmissionTypeOK'
    BY <1>3, <1>5 DEF ReleaseIp
<1> QED
    BY <1>3, <1>4, <1>6, CountsUnfolded DEF CountsAreExact, HoldingIp

-----------------------------------------------------------------------------
(* The relay: frames and types                                             *)

LEMMA JoinFrameTyped ==
    ASSUME NEW e \in Conns
    PROVE  JoinFrame(e) \in Frame /\ PeerOf[e] \in Peers
    BY RelayAssumption DEF JoinFrame, F, Frame, All, Server

\* A client speaks in the name of its own peer; what carries operations is an
\* Operation frame for all, and the operations are its own.
FromClient(e, f) ==
    /\ f \in Frame
    /\ f.kind \in {"Operation", "RequestSnapshot", "Other"}
    /\ f.from = PeerOf[e]
    /\ f.ops # {} => f.to = All
    /\ \A o \in f.ops : OwnerOf[o] = PeerOf[e]

LEMMA ClientFramesTyped ==
    ASSUME NEW e \in Conns, NEW f \in ClientFrames(e)
    PROVE  FromClient(e, f)
<1>1. PeerOf[e] \in Peers
    BY RelayAssumption
<1>2. CASE \E o \in Ops : OwnerOf[o] = PeerOf[e] /\ f = F("Operation", PeerOf[e], All, {o})
    BY <1>1, <1>2 DEF F, Frame, FromClient
<1>3. CASE \E p \in Peers : f = F("Other", PeerOf[e], p, {})
    BY <1>1, <1>3 DEF F, Frame, FromClient
<1>4. CASE f = JoinFrame(e)
    BY <1>1, <1>4 DEF F, Frame, FromClient, JoinFrame
<1> QED
    BY <1>2, <1>3, <1>4 DEF ClientFrames

\* Steps of the task of c alone: Receive is reached from Join and from Read.
LEMMA RelaySteps ==
    ASSUME [RelayNext]_relayVars
    PROVE  \/ UNCHANGED relayVars
           \/ Restart
           \/ \E e \in Conns :
                 \/ Accept(e) \/ Hangup(e) \/ Store(e) \/ Reply(e) \/ Forward(e)
                 \/ Leave(e) \/ Close(e)
                 \/ \E f \in ClientFrames(e) :
                       /\ Receive(e, f)
                       /\ phase[e] = "join" => f = JoinFrame(e)
                       /\ phase[e] \in {"join", "read"}
                       /\ frames' = frames \/ frames' = frames + 1
<1>1. ASSUME NEW e \in Conns, Join(e)
      PROVE  \E f \in ClientFrames(e) :
                 /\ Receive(e, f)
                 /\ phase[e] = "join" => f = JoinFrame(e)
                 /\ phase[e] \in {"join", "read"}
                 /\ frames' = frames \/ frames' = frames + 1
    BY <1>1 DEF Join, ClientFrames
<1>2. ASSUME NEW e \in Conns, Read(e)
      PROVE  \E f \in ClientFrames(e) :
                 /\ Receive(e, f)
                 /\ phase[e] = "join" => f = JoinFrame(e)
                 /\ phase[e] \in {"join", "read"}
                 /\ frames' = frames \/ frames' = frames + 1
    BY <1>2 DEF Read
<1> QED
    BY <1>1, <1>2 DEF RelayNext

Phases == {"idle", "join", "read", "store", "reply", "forward", "leave", "close"}

LEMMA RelayTyped ==
    ASSUME RelayTypeOK, CountsAreExact, [RelayNext]_relayVars
    PROVE  RelayTypeOK' /\ CountsAreExact'
<1> USE DEF RelayTypeOK
<1>1. CASE UNCHANGED relayVars
    BY <1>1 DEF relayVars, AdmissionTypeOK, CountsAreExact, Holding
<1>2. ASSUME UNCHANGED admissionVars
      PROVE  AdmissionTypeOK' /\ CountsAreExact'
    BY <1>2 DEF admissionVars, AdmissionTypeOK, CountsAreExact, Holding
<1>3. CASE Restart
  <2>1. AdmissionTypeOK'
      BY <1>3 DEF Restart, AdmissionTypeOK
  <2>2. CountsAreExact'
    <3>1. Holding({"held"})' = {} /\ \A ip \in Ips : HoldingIp(ip)' = {}
        BY <1>3 DEF Restart, Holding, HoldingIp
    <3>2. Cardinality({}) = 0
        BY FS_EmptySet
    <3>3. total' = 0 /\ \A ip \in Ips : perIp'[ip] = 0
        BY <1>3 DEF Restart
    <3>4. total' = Cardinality(Holding({"held"})')
        BY <3>1, <3>2, <3>3, Zenon
    <3>5. \A ip \in Ips : perIp'[ip] = Cardinality(HoldingIp(ip)')
        BY <3>1, <3>2, <3>3, Zenon
    <3>6. 0 <= MaxConnections /\ 0 <= MaxPerIp
        BY AdmissionAssumption
    <3>7. total' <= MaxConnections /\ \A ip \in Ips : perIp'[ip] <= MaxPerIp
        BY <3>3, <3>6
    <3> QED
        BY <3>4, <3>5, <3>7 DEF CountsAreExact, HoldingIp
  <2>3. frame' \in [Conns -> Frame] /\ frames' \in Nat
      BY <1>3, JoinFrameTyped, RelayAssumption DEF Restart
  <2> QED
      BY <2>1, <2>2, <2>3, <1>3 DEF Restart
<1>4. ASSUME NEW e \in Conns, Accept(e) PROVE RelayTypeOK' /\ CountsAreExact'
  <2>1. AdmissionTypeOK' /\ CountsAreExact'
      BY <1>4, AdmitKeepsCounts DEF Accept
  <2> QED
      BY <2>1, <1>4, JoinFrameTyped DEF Accept
<1>5. ASSUME NEW e \in Conns, Hangup(e) PROVE RelayTypeOK' /\ CountsAreExact'
    BY <1>2, <1>5 DEF Hangup, admissionVars, roomVars
<1>6. ASSUME NEW e \in Conns, Store(e) PROVE RelayTypeOK' /\ CountsAreExact'
  <2>1. AdmissionTypeOK' /\ CountsAreExact'
      BY <1>2, <1>6 DEF Store, admissionVars
  <2>2. UNCHANGED <<bound, joined, members, delivered, frames>>
      BY <1>6 DEF Store
  <2>3. frame[e] \in Frame /\ frame[e].ops \subseteq Ops
      BY DEF Frame
  <2>4. F("Snapshot", Server, PeerOf[e], stored) \in Frame
      BY RelayAssumption DEF F, Frame
  <2>5. frame' \in [Conns -> Frame] /\ stored' \subseteq Ops
      BY <1>6, <2>3, <2>4 DEF Store
  <2>6. phase' \in [Conns -> Phases]
      BY <1>6 DEF Store, Goto, Phases
  <2> QED
      BY <2>1, <2>2, <2>5, <2>6 DEF Phases
<1>7. ASSUME NEW e \in Conns, Reply(e) \/ Forward(e)
      PROVE  RelayTypeOK' /\ CountsAreExact'
  <2>1. AdmissionTypeOK' /\ CountsAreExact'
      BY <1>2, <1>7 DEF Reply, Forward, admissionVars
  <2>2. frame[e].ops \subseteq Ops
      BY DEF Frame
  <2>3. ASSUME NEW peers PROVE SentTo(peers, frame[e]) \in [Conns -> SUBSET Ops]
      BY <2>2 DEF SentTo
  <2> QED
      BY <2>1, <2>3, <1>7 DEF Reply, Forward, Goto
<1>8. ASSUME NEW e \in Conns, Leave(e) PROVE RelayTypeOK' /\ CountsAreExact'
  <2>1. AdmissionTypeOK' /\ CountsAreExact'
      BY <1>2, <1>8 DEF Leave, admissionVars
  <2> QED
      BY <2>1, <1>8, JoinFrameTyped DEF Leave, Goto
<1>9. ASSUME NEW e \in Conns, Close(e) PROVE RelayTypeOK' /\ CountsAreExact'
  <2>1. AdmissionTypeOK' /\ CountsAreExact'
      BY <1>9, ReleaseTotalKeepsCounts, ReleaseIpKeepsCounts DEF Close
  <2> QED
      BY <2>1, <1>9 DEF Close, Goto, roomVars
<1>10. ASSUME NEW e \in Conns, NEW f \in ClientFrames(e), Receive(e, f),
              frames' = frames \/ frames' = frames + 1
       PROVE  RelayTypeOK' /\ CountsAreExact'
  <2>1. AdmissionTypeOK' /\ CountsAreExact'
      BY <1>2, <1>10 DEF Receive, admissionVars
  <2>2. f \in Frame /\ PeerOf[e] \in Peers
      BY ClientFramesTyped, JoinFrameTyped DEF FromClient
  <2>3. /\ frame' \in [Conns -> Frame] /\ bound' \in [Conns -> BOOLEAN]
        /\ frames' \in Nat /\ stored' \subseteq Ops
        /\ delivered' \in [Conns -> SUBSET Ops]
      BY <2>2, <1>10, RelayAssumption DEF Receive
  <2>4. phase' \in [Conns -> Phases]
      BY <1>10 DEF Receive, Phases
  <2>5. members' \in [Peers -> Conns \cup {NoConn}] /\ joined' \in [Conns -> BOOLEAN]
    <3>1. CASE Register(e)
      <4>1. /\ members \in [Peers -> Conns \cup {NoConn}] /\ joined \in [Conns -> BOOLEAN]
            /\ members' = [members EXCEPT ![PeerOf[e]] = e]
            /\ joined' = [joined EXCEPT ![e] = @ \/ members[PeerOf[e]] = NoConn]
          BY <3>1 DEF Register
      <4>2. members' \in [Peers -> Conns \cup {NoConn}]
          BY <2>2, <4>1
      <4>3. joined' \in [Conns -> BOOLEAN]
          BY <4>1
      <4> QED
          BY <4>2, <4>3
    <3>2. CASE UNCHANGED <<members, joined>>
        BY <3>2
    <3>3. Register(e) \/ UNCHANGED <<members, joined>>
        BY <1>10 DEF Receive
    <3> QED
        BY <3>1, <3>2, <3>3
  <2> QED
      BY <2>1, <2>3, <2>4, <2>5 DEF Phases
<1> QED
    BY RelaySteps, <1>1, <1>3, <1>4, <1>5, <1>6, <1>7, <1>8, <1>9, <1>10

-----------------------------------------------------------------------------
(* The relay: members                                                      *)

\* The witness of a member changes only when its own task cleans up, and then
\* the member goes too.
LEMMA NoGhostsStep ==
    ASSUME RelayTypeOK, NoGhostMembers, [RelayNext]_relayVars
    PROVE  NoGhostMembers'
<1> USE DEF RelayTypeOK
<1>1. CASE UNCHANGED relayVars
    BY <1>1 DEF relayVars, NoGhostMembers
<1>2. CASE Restart
    BY <1>2 DEF Restart, NoGhostMembers
<1>3. ASSUME NEW e \in Conns, UNCHANGED <<members, joined>>,
             \A d \in Conns : phase'[d] = phase[d] \/ phase'[d] \notin {"idle", "join", "close"}
                                                  \/ phase[d] \in {"idle", "join", "close"}
      PROVE  NoGhostMembers'
    BY <1>3 DEF NoGhostMembers
<1>4. ASSUME NEW e \in Conns, Accept(e) \/ Hangup(e) \/ Store(e) \/ Reply(e)
                                 \/ Forward(e) \/ Close(e)
      PROVE  NoGhostMembers'
  <2>1. UNCHANGED <<members, joined>>
      BY <1>4 DEF Accept, Hangup, Store, Reply, Forward, Close, roomVars
  <2>2. \A d \in Conns : \/ phase'[d] = phase[d]
                         \/ phase'[d] \notin {"idle", "join", "close"}
                         \/ phase[d] \in {"idle", "join", "close"}
      BY <1>4 DEF Accept, Hangup, Store, Reply, Forward, Close, Goto
  <2> QED
      BY <2>1, <2>2, <1>3
<1>5. ASSUME NEW e \in Conns, Leave(e) PROVE NoGhostMembers'
  <2>1. /\ \A d \in Conns : d # e => joined'[d] = joined[d] /\ phase'[d] = phase[d]
        /\ members' = IF joined[e] THEN [members EXCEPT ![PeerOf[e]] = NoConn]
                                   ELSE members
      BY <1>5 DEF Leave, Goto
  <2>2. ASSUME NEW p \in Peers, members'[p] # NoConn
        PROVE  \E d \in Conns : /\ PeerOf[d] = p /\ joined'[d]
                                /\ phase'[d] \notin {"idle", "join", "close"}
    <3>1. members[p] # NoConn /\ (joined[e] => p # PeerOf[e])
        BY <2>1, <2>2, JoinFrameTyped
    <3>2. PICK d \in Conns : /\ PeerOf[d] = p /\ joined[d]
                             /\ phase[d] \notin {"idle", "join", "close"}
        BY <3>1 DEF NoGhostMembers
    <3>3. d # e
        BY <3>1, <3>2
    <3> QED
        BY <2>1, <3>2, <3>3
  <2> QED
      BY <2>2 DEF NoGhostMembers
<1>6. ASSUME NEW e \in Conns, NEW f \in ClientFrames(e), Receive(e, f),
             phase[e] \in {"join", "read"}
      PROVE  NoGhostMembers'
  <2>1. PeerOf[e] \in Peers
      BY JoinFrameTyped
  <2>2. CASE UNCHANGED <<members, joined>>
    <3>1. \A d \in Conns : phase'[d] = phase[d] \/ phase'[d] \in {"leave", "store"}
        BY <1>6 DEF Receive
    <3> QED
        BY <2>2, <3>1, <1>3
  <2>3. CASE Register(e) /\ phase' = [phase EXCEPT ![e] = "store"]
    <3>1. /\ \A d \in Conns : joined[d] => joined'[d]
          /\ \A d \in Conns : phase'[d] = phase[d] \/ phase'[d] = "store"
          /\ \A p \in Peers : p # PeerOf[e] => members'[p] = members[p]
          /\ phase'[e] = "store"
          /\ members[PeerOf[e]] = NoConn => joined'[e]
        BY <2>1, <2>3 DEF Register
    <3>2. ASSUME NEW p \in Peers, members[p] # NoConn
          PROVE  \E d \in Conns : /\ PeerOf[d] = p /\ joined'[d]
                                  /\ phase'[d] \notin {"idle", "join", "close"}
      <4>1. PICK d \in Conns : /\ PeerOf[d] = p /\ joined[d]
                               /\ phase[d] \notin {"idle", "join", "close"}
          BY <3>2 DEF NoGhostMembers
      <4> QED
          BY <4>1, <3>1
    <3> QED
        BY <3>1, <3>2 DEF NoGhostMembers
  <2> QED
      BY <2>2, <2>3, <1>6 DEF Receive
<1> QED
    BY RelaySteps, <1>1, <1>2, <1>4, <1>5, <1>6

-----------------------------------------------------------------------------
(* The relay: joining                                                      *)

\* What the task of c works on once it has registered the sender: a frame of
\* the client's, or the answer to a request.
FramesAreClients ==
    \A e \in Conns :
        phase[e] \in {"store", "forward"} => FromClient(e, frame[e])

AnswersAreSnapshots ==
    \A e \in Conns :
        phase[e] = "reply" => frame[e].kind = "Snapshot" /\ frame[e].from = Server

\* A peer with a single connection is registered for it while it is served.
SoleRegistered ==
    \A e \in Conns :
        Sole(e) /\ phase[e] \in {"store", "reply", "forward", "read"}
            => members[PeerOf[e]] = e

\* c has asked for a snapshot and the record has been read for it.
Served(e) ==
    \/ phase[e] \in {"read", "reply", "forward"}
    \/ phase[e] = "store" /\ frame[e].kind # "RequestSnapshot"

\* What is stored has reached c, is about to be forwarded, or is in the answer
\* that waits for c.
Covered ==
    \A e \in Conns, o \in stored :
        Sole(e) /\ Served(e) /\ OwnerOf[o] # PeerOf[e]
            => \/ o \in delivered[e] \/ OnItsWay(o)
               \/ phase[e] = "reply" /\ o \in frame[e].ops

RelayInv ==
    /\ RelayTypeOK /\ CountsAreExact /\ NoGhostMembers
    /\ FramesAreClients /\ AnswersAreSnapshots /\ SoleRegistered /\ Covered

LEMMA CoveredSuffices ==
    RelayTypeOK /\ AnswersAreSnapshots /\ Covered => JoinersMissNothing
<1> SUFFICES ASSUME RelayTypeOK, AnswersAreSnapshots, Covered,
                    NEW e \in Conns, NEW o \in stored,
                    Sole(e), Synchronised(e), OwnerOf[o] # PeerOf[e]
             PROVE  o \in delivered[e] \/ OnItsWay(o)
    BY DEF JoinersMissNothing
<1>1. Served(e) /\ phase[e] # "reply"
    BY DEF Served, Synchronised, AnswersAreSnapshots
<1> QED
    BY <1>1 DEF Covered

LEMMA FramesStep ==
    ASSUME RelayTypeOK, FramesAreClients, AnswersAreSnapshots, [RelayNext]_relayVars
    PROVE  FramesAreClients' /\ AnswersAreSnapshots'
<1> USE DEF RelayTypeOK
<1>1. CASE UNCHANGED relayVars
    BY <1>1 DEF relayVars, FramesAreClients, AnswersAreSnapshots, FromClient
<1>2. CASE Restart
    BY <1>2 DEF Restart, FramesAreClients, AnswersAreSnapshots
<1>3. ASSUME NEW e \in Conns, Accept(e) \/ Hangup(e) \/ Reply(e) \/ Forward(e)
                                 \/ Leave(e) \/ Close(e)
      PROVE  FramesAreClients' /\ AnswersAreSnapshots'
  <2>1. /\ \A d \in Conns \ {e} : phase'[d] = phase[d] /\ frame'[d] = frame[d]
        /\ phase'[e] \notin {"store", "forward", "reply"}
      BY <1>3 DEF Accept, Hangup, Reply, Forward, Leave, Close, Goto
  <2> QED
      BY <2>1 DEF FramesAreClients, AnswersAreSnapshots, FromClient
<1>4. ASSUME NEW e \in Conns, Store(e)
      PROVE  FramesAreClients' /\ AnswersAreSnapshots'
  <2>1. \A d \in Conns \ {e} : phase'[d] = phase[d] /\ frame'[d] = frame[d]
      BY <1>4 DEF Store, Goto
  <2>2. FromClient(e, frame[e]) /\ phase[e] = "store"
      BY <1>4 DEF Store, FramesAreClients
  <2>3. \/ phase'[e] = "forward" /\ frame'[e] = frame[e]
        \/ phase'[e] = "reply" /\ frame'[e] = F("Snapshot", Server, PeerOf[e], stored)
      BY <1>4 DEF Store, Goto
  <2>4. FramesAreClients'
      BY <2>1, <2>2, <2>3 DEF FramesAreClients, FromClient
  <2>5. AnswersAreSnapshots'
      BY <2>1, <2>3 DEF AnswersAreSnapshots, F
  <2> QED
      BY <2>4, <2>5
<1>5. ASSUME NEW e \in Conns, NEW f \in ClientFrames(e), Receive(e, f)
      PROVE  FramesAreClients' /\ AnswersAreSnapshots'
  <2>1. /\ \A d \in Conns \ {e} : phase'[d] = phase[d] /\ frame'[d] = frame[d]
        /\ frame'[e] = f /\ phase'[e] \in {"leave", "store"}
      BY <1>5 DEF Receive
  <2>2. FromClient(e, f)
      BY ClientFramesTyped
  <2>3. FramesAreClients'
      BY <2>1, <2>2 DEF FramesAreClients, FromClient
  <2> QED
      BY <2>1, <2>3 DEF AnswersAreSnapshots
<1> QED
    BY RelaySteps, <1>1, <1>2, <1>3, <1>4, <1>5

LEMMA SoleStep ==
    ASSUME RelayTypeOK, SoleRegistered, [RelayNext]_relayVars
    PROVE  SoleRegistered'
<1> USE DEF RelayTypeOK
<1>1. CASE UNCHANGED relayVars
    BY <1>1 DEF relayVars, SoleRegistered, Sole
<1>2. CASE Restart
    BY <1>2 DEF Restart, SoleRegistered
<1>3. ASSUME NEW e \in Conns, Accept(e) \/ Hangup(e) \/ Store(e) \/ Reply(e)
                                 \/ Forward(e) \/ Close(e)
      PROVE  SoleRegistered'
  <2>1. members' = members
      BY <1>3 DEF Accept, Hangup, Store, Reply, Forward, Close, roomVars
  <2>2. \A d \in Conns : phase'[d] \in {"store", "reply", "forward", "read"}
                            => phase[d] \in {"store", "reply", "forward", "read"}
      BY <1>3 DEF Accept, Hangup, Store, Reply, Forward, Close, Goto
  <2> QED
      BY <2>1, <2>2 DEF SoleRegistered, Sole
<1>4. ASSUME NEW e \in Conns, Leave(e) PROVE SoleRegistered'
  <2>1. /\ \A d \in Conns \ {e} : phase'[d] = phase[d]
        /\ phase'[e] = "close"
        /\ \A p \in Peers : p # PeerOf[e] => members'[p] = members[p]
      BY <1>4 DEF Leave, Goto
  <2>2. ASSUME NEW d \in Conns, Sole(d),
               phase'[d] \in {"store", "reply", "forward", "read"}
        PROVE  members'[PeerOf[d]] = d
    <3>1. d # e /\ PeerOf[d] # PeerOf[e] /\ PeerOf[d] \in Peers
        BY <2>1, <2>2, JoinFrameTyped DEF Sole
    <3> QED
        BY <3>1, <2>1, <2>2 DEF SoleRegistered
  <2> QED
      BY <2>2 DEF SoleRegistered, Sole
<1>5. ASSUME NEW e \in Conns, NEW f \in ClientFrames(e), Receive(e, f)
      PROVE  SoleRegistered'
  <2>1. /\ \A d \in Conns \ {e} : phase'[d] = phase[d]
        /\ phase'[e] = "leave" \/ (phase'[e] = "store" /\ members'[PeerOf[e]] = e)
        /\ \A p \in Peers : p # PeerOf[e] => members'[p] = members[p]
      BY <1>5, JoinFrameTyped DEF Receive, Register
  <2>2. ASSUME NEW d \in Conns, Sole(d),
               phase'[d] \in {"store", "reply", "forward", "read"}
        PROVE  members'[PeerOf[d]] = d
    <3>1. CASE d = e
        BY <3>1, <2>1, <2>2
    <3>2. CASE d # e
      <4>1. PeerOf[d] # PeerOf[e] /\ PeerOf[d] \in Peers
          BY <3>2, <2>2, JoinFrameTyped DEF Sole
      <4> QED
          BY <4>1, <3>2, <2>1, <2>2 DEF SoleRegistered
    <3> QED
        BY <3>1, <3>2
  <2> QED
      BY <2>2 DEF SoleRegistered, Sole
<1> QED
    BY RelaySteps, <1>1, <1>2, <1>3, <1>4, <1>5

\* Forwarding reaches every sole connection that is served, but its own.
LEMMA ForwardReaches ==
    ASSUME RelayTypeOK, FramesAreClients, SoleRegistered,
           NEW d \in Conns, Forward(d), NEW e \in Conns, Sole(e),
           phase[e] \in {"store", "reply", "forward", "read"},
           NEW o \in frame[d].ops, OwnerOf[o] # PeerOf[e]
    PROVE  o \in delivered'[e]
<1> USE DEF RelayTypeOK
<1>1. FromClient(d, frame[d])
    BY DEF Forward, FramesAreClients
<1>2. frame[d].to = All /\ frame[d].from = PeerOf[d] /\ OwnerOf[o] = PeerOf[d]
    BY <1>1 DEF FromClient
<1>3. members[PeerOf[e]] = e /\ PeerOf[e] \in Peers
    BY JoinFrameTyped DEF SoleRegistered
<1>4. PeerOf[e] \in Recipients(frame[d]) \ {frame[d].from}
    BY <1>2, <1>3 DEF Recipients
<1>5. delivered'[e] = SentTo(Recipients(frame[d]), frame[d])[e]
    BY DEF Forward
<1> QED
    BY <1>3, <1>4, <1>5 DEF SentTo

LEMMA NothingTakenBack ==
    ASSUME RelayTypeOK, NEW d \in Conns, Reply(d) \/ Forward(d), NEW e \in Conns
    PROVE  delivered[e] \subseteq delivered'[e]
<1>1. ASSUME NEW peers, NEW f PROVE delivered[e] \subseteq SentTo(peers, f)[e]
    BY DEF SentTo
<1> QED
    BY <1>1 DEF Reply, Forward

LEMMA CoveredStep ==
    ASSUME RelayTypeOK, FramesAreClients, AnswersAreSnapshots, SoleRegistered,
           Covered, [RelayNext]_relayVars
    PROVE  Covered'
<1> USE DEF RelayTypeOK
<1>1. CASE UNCHANGED relayVars
    BY <1>1 DEF relayVars, Covered, Sole, Served, OnItsWay
<1>2. CASE Restart
    BY <1>2 DEF Restart, Covered, Served
<1>3. ASSUME NEW d \in Conns, Accept(d) \/ Hangup(d) \/ Leave(d) \/ Close(d)
      PROVE  Covered'
  <2>1. /\ stored' = stored
        /\ \A e \in Conns \ {d} : /\ phase'[e] = phase[e] /\ frame'[e] = frame[e]
                                   /\ delivered'[e] = delivered[e]
        /\ phase'[d] \notin {"store", "read", "reply", "forward"}
        /\ phase[d] # "forward"
      BY <1>3 DEF Accept, Hangup, Leave, Close, Goto, roomVars, ReleaseTotal, ReleaseIp
  <2>2. \A o : OnItsWay(o) => OnItsWay(o)'
      BY <2>1 DEF OnItsWay
  <2> QED
      BY <2>1, <2>2 DEF Covered, Served, Sole
<1>4. ASSUME NEW d \in Conns, Store(d) PROVE Covered'
  <2>1. /\ delivered' = delivered /\ phase[d] = "store"
        /\ \A e \in Conns \ {d} : phase'[e] = phase[e] /\ frame'[e] = frame[e]
      BY <1>4 DEF Store, Goto
  <2>2. \A o : OnItsWay(o) => OnItsWay(o)'
      BY <2>1 DEF OnItsWay
  <2>3. CASE frame[d].kind = "Operation"
    <3>1. /\ stored' = stored \cup frame[d].ops
          /\ phase'[d] = "forward" /\ frame' = frame
        BY <1>4, <2>3 DEF Store, Goto
    <3>2. \A o \in frame[d].ops : OnItsWay(o)'
        BY <3>1 DEF OnItsWay
    <3>3. \A e \in Conns : Served(e)' => Served(e)
        BY <2>1, <2>3, <3>1 DEF Served
    <3>4. \A e \in Conns : phase[e] = "reply" => phase'[e] = "reply"
        BY <2>1
    <3> QED
        BY <2>1, <2>2, <3>1, <3>2, <3>3, <3>4 DEF Covered, Sole
  <2>4. CASE frame[d].kind = "RequestSnapshot" /\ stored # {}
    <3>1. /\ stored' = stored /\ phase'[d] = "reply"
          /\ frame'[d] = F("Snapshot", Server, PeerOf[d], stored)
        BY <1>4, <2>4 DEF Store, Goto
    <3>2. frame'[d].ops = stored
        BY <3>1 DEF F
    <3>3. \A e \in Conns \ {d} : Served(e)' => Served(e)
        BY <2>1 DEF Served
    <3> QED
        BY <2>1, <2>2, <3>1, <3>2, <3>3 DEF Covered, Sole
  <2>5. CASE frame[d].kind = "RequestSnapshot" /\ stored = {}
    <3>1. stored' = {}
        BY <1>4, <2>5 DEF Store
    <3> QED
        BY <3>1 DEF Covered
  <2>6. CASE frame[d].kind = "Other"
    <3>1. stored' = stored /\ phase'[d] = "forward" /\ frame' = frame
        BY <1>4, <2>6 DEF Store, Goto
    <3>2. \A e \in Conns : Served(e)' => Served(e)
        BY <2>1, <2>6, <3>1 DEF Served
    <3>3. \A e \in Conns : phase[e] = "reply" => phase'[e] = "reply"
        BY <2>1
    <3> QED
        BY <2>1, <2>2, <3>1, <3>2, <3>3 DEF Covered, Sole
  <2> QED
      BY <2>3, <2>4, <2>5, <2>6, <1>4 DEF Store
<1>5. ASSUME NEW d \in Conns, Reply(d) PROVE Covered'
  <2>1. /\ stored' = stored /\ frame' = frame
        /\ phase[d] = "reply" /\ phase'[d] = "read"
        /\ \A e \in Conns \ {d} : phase'[e] = phase[e]
      BY <1>5 DEF Reply, Goto
  <2>2. \A o : OnItsWay(o) => OnItsWay(o)'
      BY <2>1 DEF OnItsWay
  <2>3. \A e \in Conns : Served(e)' => Served(e)
      BY <2>1 DEF Served
  <2>4. \A e \in Conns : delivered[e] \subseteq delivered'[e]
      BY <1>5, NothingTakenBack
  <2>5. Sole(d) => frame[d].ops \subseteq delivered'[d]
    <3>1. SUFFICES ASSUME Sole(d) PROVE frame[d].ops \subseteq delivered'[d]
        OBVIOUS
    <3>2. members[PeerOf[d]] = d /\ PeerOf[d] \in Peers
        BY <2>1, <3>1, JoinFrameTyped DEF SoleRegistered
    <3>3. PeerOf[d] \in {PeerOf[d]} \ {frame[d].from}
        BY <2>1, <3>2, RelayAssumption DEF AnswersAreSnapshots
    <3>4. delivered'[d] = SentTo({PeerOf[d]}, frame[d])[d]
        BY <1>5 DEF Reply
    <3> QED
        BY <3>2, <3>3, <3>4 DEF SentTo
  <2>6. ASSUME NEW e \in Conns, NEW o \in stored, Sole(e), Served(e)',
               OwnerOf[o] # PeerOf[e]
        PROVE  \/ o \in delivered'[e] \/ OnItsWay(o)'
               \/ phase'[e] = "reply" /\ o \in frame'[e].ops
    <3>1. \/ o \in delivered[e] \/ OnItsWay(o)
          \/ phase[e] = "reply" /\ o \in frame[e].ops
        BY <2>3, <2>6 DEF Covered
    <3> QED
        BY <3>1, <2>1, <2>2, <2>4, <2>5, <2>6
  <2> QED
      BY <2>1, <2>6 DEF Covered, Sole
<1>6. ASSUME NEW d \in Conns, Forward(d) PROVE Covered'
  <2>1. /\ stored' = stored /\ frame' = frame
        /\ phase[d] = "forward" /\ phase'[d] = "read"
        /\ \A e \in Conns \ {d} : phase'[e] = phase[e]
      BY <1>6 DEF Forward, Goto
  <2>2. \A o : OnItsWay(o) => OnItsWay(o)' \/ o \in frame[d].ops
      BY <2>1 DEF OnItsWay
  <2>3. \A e \in Conns : Served(e)' => Served(e)
      BY <2>1 DEF Served
  <2>4. \A e \in Conns : delivered[e] \subseteq delivered'[e]
      BY <1>6, NothingTakenBack
  <2>5. ASSUME NEW e \in Conns, NEW o \in stored, Sole(e), Served(e)',
               OwnerOf[o] # PeerOf[e]
        PROVE  \/ o \in delivered'[e] \/ OnItsWay(o)'
               \/ phase'[e] = "reply" /\ o \in frame'[e].ops
    <3>1. \/ o \in delivered[e] \/ OnItsWay(o)
          \/ phase[e] = "reply" /\ o \in frame[e].ops
        BY <2>3, <2>5 DEF Covered
    <3>2. phase[e] \in {"store", "reply", "forward", "read"}
        BY <2>3, <2>5 DEF Served
    <3>3. o \in frame[d].ops => o \in delivered'[e]
        BY <1>6, <2>5, <3>2, ForwardReaches
    <3>4. phase[e] = "reply" => phase'[e] = "reply"
        BY <2>1
    <3> QED
        BY <3>1, <3>3, <3>4, <2>1, <2>2, <2>4
  <2> QED
      BY <2>1, <2>5 DEF Covered, Sole
<1>7. ASSUME NEW d \in Conns, NEW f \in ClientFrames(d), Receive(d, f),
             phase[d] = "join" => f = JoinFrame(d), phase[d] \in {"join", "read"}
      PROVE  Covered'
  <2>1. /\ stored' = stored /\ delivered' = delivered
        /\ frame'[d] = f /\ phase'[d] \in {"leave", "store"}
        /\ \A e \in Conns \ {d} : phase'[e] = phase[e] /\ frame'[e] = frame[e]
      BY <1>7 DEF Receive
  <2>2. \A o : OnItsWay(o) => OnItsWay(o)'
      BY <2>1, <1>7 DEF OnItsWay
  <2>3. JoinFrame(d).kind = "RequestSnapshot"
      BY DEF JoinFrame, F
  <2>4. \A e \in Conns : Served(e)' => Served(e)
      BY <2>1, <2>3, <1>7 DEF Served
  <2>5. \A e \in Conns : phase[e] = "reply" => phase'[e] = "reply" /\ frame'[e] = frame[e]
      BY <2>1, <1>7
  <2> QED
      BY <2>1, <2>2, <2>4, <2>5 DEF Covered, Sole
<1> QED
    BY RelaySteps, <1>1, <1>2, <1>3, <1>4, <1>5, <1>6, <1>7

-----------------------------------------------------------------------------
(* The relay: the theorems                                                 *)

LEMMA RelayStarts == RelayInit => RelayInv
<1> SUFFICES ASSUME RelayInit PROVE RelayInv
    OBVIOUS
<1>1. RelayTypeOK
    BY JoinFrameTyped, RelayAssumption DEF RelayInit, AdmissionInit, RelayTypeOK, AdmissionTypeOK
<1>2. CountsAreExact
  <2>1. Holding({"held"}) = {} /\ \A ip \in Ips : HoldingIp(ip) = {}
      BY DEF RelayInit, AdmissionInit, Holding, HoldingIp
  <2>2. Cardinality({}) = 0 /\ 0 <= MaxConnections /\ 0 <= MaxPerIp
      BY FS_EmptySet, AdmissionAssumption
  <2>3. total = 0 /\ \A ip \in Ips : perIp[ip] = 0
      BY DEF RelayInit, AdmissionInit
  <2>4. /\ total = Cardinality(Holding({"held"}))
        /\ \A ip \in Ips : perIp[ip] = Cardinality(HoldingIp(ip))
      BY <2>1, <2>2, <2>3, Zenon
  <2> QED
      BY <2>2, <2>3, <2>4 DEF CountsAreExact, HoldingIp
<1>3. /\ NoGhostMembers /\ FramesAreClients /\ AnswersAreSnapshots
      /\ SoleRegistered /\ Covered
    BY DEF RelayInit, NoGhostMembers, FramesAreClients, AnswersAreSnapshots,
           SoleRegistered, Covered
<1> QED
    BY <1>1, <1>2, <1>3 DEF RelayInv

LEMMA RelayInvHolds == RelaySpec => []RelayInv
<1>1. RelayInv /\ [RelayNext]_relayVars => RelayInv'
    BY RelayTyped, NoGhostsStep, FramesStep, SoleStep, CoveredStep DEF RelayInv
<1> QED
    BY RelayStarts, <1>1, PTL DEF RelaySpec

\* The fields of the relay's rooms and counters keep their types.
THEOREM RelayTypes == RelaySpec => []RelayTypeOK
    BY RelayInvHolds, PTL DEF RelayInv

\* The counters of ConnectionGuard are the numbers of leases that hold them,
\* and stay within the limits.
THEOREM CountsExact == RelaySpec => []CountsAreExact
    BY RelayInvHolds, PTL DEF RelayInv

\* Whoever is a member of a room will be cleaned up (serve_connection), through
\* any reconnections and restarts.
THEOREM NoGhosts == RelaySpec => []NoGhostMembers
    BY RelayInvHolds, PTL DEF RelayInv

\* Between stored operations and forwarded ones a peer that joins misses none.
THEOREM NothingMissed == RelaySpec => []JoinersMissNothing
<1>1. RelayInv => JoinersMissNothing
    BY CoveredSuffices DEF RelayInv
<1> QED
    BY RelayInvHolds, <1>1, PTL

-----------------------------------------------------------------------------
(* The signaling server                                                    *)

\* Rooms and cleanup lists.  Under token authorization whoever is on a
\* cleanup list has proved itself, which is why what it is sent is.
SigInv ==
    /\ sigPhase \in [Conns -> {"idle", "read", "leave", "close"}]
    /\ sigJoined \subseteq {d \in Conns : sigPhase[d] \in {"read", "leave"}}
    /\ sigMembers \in [SigPeers -> Conns \cup {NoSig}]
    /\ \A p \in Present : SigPeerOf[sigMembers[p]] = p /\ sigMembers[p] \in sigJoined
    /\ heard \subseteq Conns
    /\ SigTokenAuth => sigJoined \cup heard \subseteq SigHasProof

LEMMA SigStarts == SignalingInit => SigInv
    BY DEF SignalingInit, SigInv, Present

\* No signal goes to a connection that is not on a cleanup list.
LEMMA PassedOnToJoined ==
    ASSUME SigInv, NEW peers \in SUBSET SigPeers
    PROVE  {sigMembers[p] : p \in peers} \ {NoSig} \subseteq sigJoined
    BY DEF SigInv, Present

LEMMA SigStep ==
    ASSUME SigInv, SignalingNext
    PROVE  SigInv'
<1> PICK d \in Conns : \/ SigAccept(d) \/ SigJoin(d) \/ SigHangup(d) \/ SigForward(d)
                       \/ SigLeave(d) \/ SigClose(d)
    BY DEF SignalingNext
<1>t. SigPeerOf[d] \in SigPeers /\ NoSig \notin Conns
    BY SignalingAssumption
<1>1. CASE SigAccept(d)
    BY <1>1 DEF SigAccept, SigInv, Present
<1>2. CASE SigJoin(d)
  <2>1. /\ sigMembers' = [sigMembers EXCEPT ![SigPeerOf[d]] = d]
        /\ sigJoined' = sigJoined \cup {d}
        /\ sigPhase[d] = "read" /\ sigPhase' = sigPhase /\ heard' = heard
        /\ SigTokenAuth => d \in SigHasProof
      BY <1>2 DEF SigJoin, JoinAccepted
  <2>2. \A p \in Present' : SigPeerOf[sigMembers'[p]] = p /\ sigMembers'[p] \in sigJoined'
    <3> SUFFICES ASSUME NEW p \in SigPeers, sigMembers'[p] # NoSig
                 PROVE  SigPeerOf[sigMembers'[p]] = p /\ sigMembers'[p] \in sigJoined'
        BY DEF Present
    <3>1. CASE p = SigPeerOf[d]
        BY <3>1, <2>1, <1>t DEF SigInv
    <3>2. CASE p # SigPeerOf[d]
        BY <3>2, <2>1, <1>t DEF SigInv, Present
    <3> QED
        BY <3>1, <3>2
  <2> QED
      BY <2>1, <2>2, <1>t DEF SigInv
<1>3. CASE SigHangup(d)
    BY <1>3 DEF SigHangup, SigInv, Present
<1>4. CASE SigForward(d)
  <2>1. PICK peers \in SUBSET SigPeers : PassOn(peers)
      BY <1>4 DEF SigForward
  <2>2. heard' \subseteq heard \cup sigJoined
      BY <2>1, PassedOnToJoined DEF PassOn
  <2> QED
      BY <1>4, <2>2 DEF SigForward, SigInv, Present
<1>5. CASE SigLeave(d)
  <2>1. /\ sigPhase' = [sigPhase EXCEPT ![d] = "close"]
        /\ sigJoined' = sigJoined \ {d} /\ heard' = heard
      BY <1>5 DEF SigLeave
  <2>2. \A p \in SigPeers : sigMembers'[p] # NoSig => sigMembers'[p] = sigMembers[p]
                                                    /\ sigMembers[p] # d
    <3>1. CASE d \in sigJoined
        BY <3>1, <1>5, <1>t DEF SigLeave, SigInv, Present
    <3>2. CASE d \notin sigJoined
        BY <3>2, <1>5 DEF SigLeave, SigInv, Present
    <3> QED
        BY <3>1, <3>2
  <2>3. sigMembers' \in [SigPeers -> Conns \cup {NoSig}]
      BY <1>5, <1>t DEF SigLeave, SigInv
  <2>4. \A p \in Present' : SigPeerOf[sigMembers'[p]] = p /\ sigMembers'[p] \in sigJoined'
      BY <2>1, <2>2 DEF SigInv, Present
  <2> QED
      BY <2>1, <2>3, <2>4 DEF SigInv
<1>6. CASE SigClose(d)
  <2>1. /\ sigPhase[d] = "close" /\ UNCHANGED <<sigJoined, sigMembers, heard>>
        /\ sigPhase' = sigPhase \/ sigPhase' = [sigPhase EXCEPT ![d] = "idle"]
      BY <1>6 DEF SigClose
  <2> QED
      BY <2>1 DEF SigInv, Present
<1> QED
    BY <1>1, <1>2, <1>3, <1>4, <1>5, <1>6

LEMMA SigStutters ==
    ASSUME SigInv, UNCHANGED sigOnly
    PROVE  SigInv'
    BY DEF SigInv, Present, sigOnly

LEMMA SigInvSuffices == SigInv => ReachableThroughOwn
    BY DEF SigInv, ReachableThroughOwn, Present

\* Of every peer that is in the room of the signaling server, the registered
\* connection is its own and is still to be cleaned up (serve_connection and
\* the cleanup after its loop); and signals pass only to those who proved
\* that they may read them.
THEOREM SignalsReachTheJoined == SignalingSpec => []ReachableThroughOwn
<1>1. SigInv /\ [SignalingNext]_signalingVars => SigInv'
    BY SigStep, SigStutters DEF signalingVars, sigOnly
<1> QED
    BY SigStarts, <1>1, SigInvSuffices, PTL DEF SignalingSpec

-----------------------------------------------------------------------------
(* The store                                                               *)

LEMMA FrameTyped ==
    ASSUME NEW o \in LogOps
    PROVE  /\ FrameOf(o) \in Seq(Cell)
           /\ Len(FrameOf(o)) = OpSize[o] + 1
<1>1. OpSize[o] \in Nat \ {0}
    BY StoreAssumption
<1> DEFINE prefix == <<[op |-> 0, n |-> OpSize[o]]>>
           encoded == [i \in 1..OpSize[o] |-> [op |-> o, n |-> i]]
<1>2. prefix \in Seq(Cell) /\ Len(prefix) = 1
    BY <1>1 DEF Cell
<1>3. encoded \in Seq(Cell) /\ Len(encoded) = OpSize[o]
  <2>1. \A i \in 1..OpSize[o] : [op |-> o, n |-> i] \in Cell
      BY <1>1 DEF Cell
  <2> QED
      BY <2>1, <1>1
<1>4. FrameOf(o) = prefix \o encoded
    BY DEF FrameOf
<1> HIDE DEF prefix, encoded
<1>5. \A f, g \in Seq(Cell) : f \o g \in Seq(Cell) /\ Len(f \o g) = Len(f) + Len(g)
    OBVIOUS
<1>6. FrameOf(o) \in Seq(Cell) /\ Len(FrameOf(o)) = Len(prefix) + Len(encoded)
    BY <1>2, <1>3, <1>4, <1>5, Zenon
<1> QED
    BY <1>1, <1>2, <1>3, <1>6

\* What DiskBounded says of a file.
FileBounded(file) == Len(file) <= MaxCellsPerRoom \/ IsOversizeFrame(file)

\* What a step may rely on: an operation is being written wherever there is
\* one to write, and what begins to be written fits or has the file to itself.
DiskInv ==
    /\ current \in Seq(Cell)
    /\ rotated \in Seq(Cell)
    /\ step \in {"idle", "remove", "rename", "write", "down"}
    /\ step \in {"remove", "rename", "write"} => writing \in LogOps
    /\ DiskBounded

\* What is claimed of both files is claimed of each.
LEMMA BoundedEach ==
    DiskBounded <=>
        /\ FileBounded(current) /\ FileBounded(rotated)
        /\ step = "write" =>
              \/ current = <<>>
              \/ Len(current) + Len(FrameOf(writing)) <= MaxCellsPerRoom
    BY DEF DiskBounded, FileBounded

\* A file that does not exist is within every limit.
LEMMA NothingFits ==
    <<>> \in Seq(Cell) /\ Len(<<>>) = 0 /\ FileBounded(<<>>)
<1>1. <<>> \in Seq(Cell) /\ Len(<<>>) = 0 /\ Len(<<>>) <= MaxCellsPerRoom
    BY StoreAssumption
<1> QED
    BY <1>1 DEF FileBounded

\* A frame, whole or cut short, leaves the file within its limit, or is all
\* there is in it and larger than that by itself.
LEMMA WrittenFits ==
    ASSUME DiskInv, step = "write", NEW n \in 0..Len(FrameOf(writing)), Written(n)
    PROVE  current' \in Seq(Cell) /\ FileBounded(current')
<1>0. writing \in LogOps
    BY DEF DiskInv
<1>1. /\ FrameOf(writing) \in Seq(Cell) /\ Len(FrameOf(writing)) \in Nat
      /\ current \in Seq(Cell) /\ MaxCellsPerRoom \in Nat
      /\ current' = current \o SubSeq(FrameOf(writing), 1, n)
    BY <1>0, FrameTyped, StoreAssumption DEF DiskInv, Written
<1>2. \A file, frame_ \in Seq(Cell) : \A k \in 0..Len(frame_) :
          /\ file \o SubSeq(frame_, 1, k) \in Seq(Cell)
          /\ Len(file \o SubSeq(frame_, 1, k)) <= Len(file) + Len(frame_)
          /\ file = <<>> => /\ file \o SubSeq(frame_, 1, k) = SubSeq(frame_, 1, k)
                           /\ Len(file \o SubSeq(frame_, 1, k)) = k
    OBVIOUS
<1>3. /\ current' \in Seq(Cell) /\ Len(current') \in Nat
      /\ Len(current') <= Len(current) + Len(FrameOf(writing))
      /\ current = <<>> => /\ current' = SubSeq(FrameOf(writing), 1, n)
                          /\ Len(current') = n
    BY <1>1, <1>2
<1>4. \/ current = <<>>
      \/ Len(current) + Len(FrameOf(writing)) <= MaxCellsPerRoom
    BY BoundedEach DEF DiskInv
<1>5. CASE Len(current) + Len(FrameOf(writing)) <= MaxCellsPerRoom
  <2>1. Len(current) \in Nat
      BY <1>1
  <2>2. Len(current') <= MaxCellsPerRoom
      BY <1>1, <1>3, <1>5, <2>1
  <2> QED
      BY <1>3, <2>2 DEF FileBounded
<1>6. CASE current = <<>> /\ Len(FrameOf(writing)) <= MaxCellsPerRoom
  <2>1. Len(current') <= MaxCellsPerRoom
      BY <1>1, <1>3, <1>6
  <2> QED
      BY <1>3, <2>1 DEF FileBounded
<1>7. CASE current = <<>> /\ Len(FrameOf(writing)) > MaxCellsPerRoom
  <2>1. current' = SubSeq(FrameOf(writing), 1, Len(current'))
      BY <1>3, <1>7
  <2> QED
      BY <1>0, <1>3, <1>7, <2>1 DEF FileBounded, IsOversizeFrame
<1> QED
    BY <1>1, <1>4, <1>5, <1>6, <1>7

\* Every step keeps the files within their limit.
LEMMA DiskStep ==
    ASSUME DiskInv, StoreNext
    PROVE  DiskInv'
<1>m. MaxCellsPerRoom \in Nat
    BY StoreAssumption
<1>b. FileBounded(current) /\ FileBounded(rotated)
    BY BoundedEach DEF DiskInv
<1>1. ASSUME NEW o \in LogOps, BeginAppend(o) PROVE DiskInv'
  <2>1. /\ step' = IF RotateDue(o) THEN "remove" ELSE "write"
        /\ writing' = o /\ current' = current /\ rotated' = rotated
      BY <1>1 DEF BeginAppend
  <2>2. step' = "write" => Len(current') + Len(FrameOf(writing')) <= MaxCellsPerRoom
    <3>1. Len(current) \in Nat /\ Len(FrameOf(o)) \in Nat
        BY FrameTyped DEF DiskInv
    <3> QED
        BY <2>1, <3>1, <1>m DEF RotateDue
  <2>3. DiskBounded'
      BY <1>b, <2>1, <2>2 DEF DiskBounded, FileBounded, IsOversizeFrame
  <2> QED
      BY <2>1, <2>3 DEF DiskInv
<1>2. CASE RemoveRotated
  <2>1. /\ step' = "rename" /\ writing' = writing /\ writing \in LogOps
        /\ current' = current /\ rotated' = <<>>
      BY <1>2 DEF RemoveRotated, DiskInv
  <2>2. DiskBounded'
      BY <1>b, <2>1, NothingFits DEF DiskBounded, FileBounded, IsOversizeFrame
  <2> QED
      BY <2>1, <2>2, NothingFits DEF DiskInv
<1>3. CASE RenameCurrent
  <2>1. /\ step' = "write" /\ writing' = writing /\ writing \in LogOps
        /\ current' = <<>> /\ rotated' = current
      BY <1>3 DEF RenameCurrent, DiskInv
  <2>2. DiskBounded'
      BY <1>b, <2>1, NothingFits DEF DiskBounded, FileBounded, IsOversizeFrame
  <2> QED
      BY <2>1, <2>2, NothingFits DEF DiskInv
<1>4. CASE WriteFrame
  <2>1. writing \in LogOps /\ step = "write" /\ Written(Len(FrameOf(writing)))
      BY <1>4 DEF WriteFrame, DiskInv
  <2>2. Len(FrameOf(writing)) \in 0..Len(FrameOf(writing))
      BY <2>1, FrameTyped
  <2>3. current' \in Seq(Cell) /\ FileBounded(current')
      BY <2>1, <2>2, WrittenFits
  <2>4. step' = "idle" /\ writing' = writing /\ rotated' = rotated
      BY <1>4 DEF WriteFrame
  <2>5. DiskBounded'
      BY <1>b, <2>3, <2>4 DEF DiskBounded, FileBounded, IsOversizeFrame
  <2> QED
      BY <2>3, <2>4, <2>5 DEF DiskInv
<1>5. CASE Crash
  <2>1. current' \in Seq(Cell) /\ FileBounded(current')
    <3>1. CASE step = "write"
      <4>1. PICK n \in 0..Len(FrameOf(writing)) : CrashAfter(n)
          BY <1>5, <3>1 DEF Crash
      <4>2. Written(n)
          BY <4>1, <3>1 DEF CrashAfter
      <4> QED
          BY <3>1, <4>2, WrittenFits
    <3>2. CASE step # "write"
      <4>1. current' = current
          BY <1>5, <3>2 DEF Crash, CrashAfter
      <4> QED
          BY <1>b, <4>1 DEF DiskInv
    <3> QED
        BY <3>1, <3>2
  <2>2. step' = "down" /\ rotated' = rotated
      BY <1>5 DEF Crash, CrashAfter
  <2>3. DiskBounded'
      BY <1>b, <2>1, <2>2 DEF DiskBounded, FileBounded, IsOversizeFrame
  <2> QED
      BY <2>1, <2>2, <2>3 DEF DiskInv
<1>6. CASE Reopen
  <2>1. /\ step' = "idle" /\ writing' = writing
        /\ current' = current /\ rotated' = rotated
      BY <1>6 DEF Reopen
  <2>2. DiskBounded'
      BY <1>b, <2>1 DEF DiskBounded, FileBounded, IsOversizeFrame
  <2> QED
      BY <2>1, <2>2 DEF DiskInv
<1> QED
    BY <1>1, <1>2, <1>3, <1>4, <1>5, <1>6 DEF StoreNext

LEMMA DiskStutters ==
    ASSUME DiskInv, UNCHANGED storeVars
    PROVE  DiskInv'
    BY DEF DiskInv, DiskBounded, IsOversizeFrame, storeVars

LEMMA DiskStarts == StoreInit => DiskInv
    BY NothingFits DEF StoreInit, DiskInv, DiskBounded, FileBounded

\* Whatever is appended, and wherever the server stops and is started again,
\* neither generation of the log (SessionStore::append_op, rotate) outgrows
\* max_bytes_per_room, unless it is a single frame that does so by itself.
THEOREM DiskIsBounded == StoreSpec => []DiskBounded
<1>1. DiskInv /\ [StoreNext]_storeVars => DiskInv'
    BY DiskStep, DiskStutters
<1>2. DiskInv => DiskBounded
    BY DEF DiskInv
<1> QED
    BY DiskStarts, <1>1, <1>2, PTL DEF StoreSpec

-----------------------------------------------------------------------------
(* The store: what its readers compute                                     *)

\* What is appended to what.
IsJoin(h, S, f, g) ==
    /\ h \in Seq(S) /\ Len(h) = Len(f) + Len(g) /\ Len(f) \in Nat /\ Len(g) \in Nat
    /\ \A i \in 1..Len(f) : h[i] = f[i]
    /\ \A i \in 1..Len(g) : h[Len(f) + i] = g[i]

LEMMA Appended ==
    ASSUME NEW S, NEW f \in Seq(S), NEW g \in Seq(S)
    PROVE  IsJoin(f \o g, S, f, g)
<1>1. /\ f \o g \in Seq(S) /\ Len(f \o g) = Len(f) + Len(g)
      /\ Len(f) \in Nat /\ Len(g) \in Nat
      /\ \A i \in 1..Len(f) + Len(g) :
                (f \o g)[i] = IF i <= Len(f) THEN f[i] ELSE g[i - Len(f)]
    OBVIOUS
<1> DEFINE h == f \o g
<1> HIDE DEF h
<1>2. ASSUME NEW i \in 1..Len(f)
      PROVE  h[i] = f[i]
    BY <1>1 DEF h
<1>3. ASSUME NEW i \in 1..Len(g)
      PROVE  h[Len(f) + i] = g[i]
    <2>1. /\ Len(f) + i \in 1..Len(f) + Len(g) /\ ~(Len(f) + i <= Len(f))
          /\ Len(f) + i - Len(f) = i
        BY <1>1
    <2> QED
        BY <1>1, <2>1 DEF h
<1> QED
    BY <1>1, <1>2, <1>3 DEF h, IsJoin

\* Sequences with the same elements at the same places are the same.
LEMMA SameCells ==
    ASSUME NEW S, NEW f \in Seq(S), NEW g \in Seq(S), Len(f) = Len(g),
           \A i \in 1..Len(f) : g[i] = f[i]
    PROVE  g = f
OBVIOUS

\* A set of numbers without a smallest element is empty.
LEMMA NoSmallest ==
    ASSUME NEW Bad \in SUBSET Nat, \A m \in Bad : \E j \in Bad : j < m
    PROVE  Bad = {}
<1> DEFINE Less == OpToRel(<, Nat)
<1>1. IsWellFoundedOn(Less, Nat)
    BY NatLessThanWellFounded
<1> SUFFICES ASSUME Bad # {} PROVE FALSE
    OBVIOUS
<1>2. PICK m \in Bad : \A j \in Bad : ~(<<j, m>> \in Less)
    <2> HIDE DEF Less
    <2> QED
        BY <1>1, WFMin
<1>3. PICK j \in Bad : j < m
    OBVIOUS
<1>4. <<j, m>> \in Less
    BY <1>3 DEF OpToRel
<1> QED
    BY <1>2, <1>4

\* A function on 1..(n + 1) whose value at k in W is made of the value further
\* on exists: were there a last part of it that does not, the part after that
\* could be extended.
Onward(n, S, W, next, made) ==
    \A k \in 1..n + 1 : k \in W => /\ next[k] \in (k + 1)..(n + 1)
                                   /\ made[k] \in [S -> S]
Scans(f, n, S, base, W, next, made) ==
    /\ f \in [1..n + 1 -> S]
    /\ \A k \in 1..n + 1 : f[k] = IF k \in W THEN made[k][f[next[k]]] ELSE base

LEMMA ScanExists ==
    ASSUME NEW n \in Nat, NEW S, NEW base \in S, NEW W, NEW next, NEW made,
           Onward(n, S, W, next, made)
    PROVE  \E f : Scans(f, n, S, base, W, next, made)
<1> DEFINE IsScan(f, m) ==
               /\ f \in [m..n + 1 -> S]
               /\ \A k \in m..n + 1 :
                        f[k] = IF k \in W THEN made[k][f[next[k]]] ELSE base
           Bad == {d \in 0..n : ~\E f : IsScan(f, n + 1 - d)}
<1>1. ASSUME NEW d \in Bad
      PROVE  \E j \in Bad : j < d
    <2>1. d \in 0..n /\ ~\E f : IsScan(f, n + 1 - d)
        OBVIOUS
    <2>2. CASE d = 0
        <3> DEFINE f == [k \in (n + 1)..(n + 1) |-> base]
        <3>1. n + 1 \notin W
            BY DEF Onward
        <3>2. f \in [(n + 1)..(n + 1) -> S]
            OBVIOUS
        <3>3. \A k \in (n + 1)..(n + 1) :
                f[k] = IF k \in W THEN made[k][f[next[k]]] ELSE base
            BY <3>1
        <3>4. IsScan(f, n + 1 - d)
            <4>1. n + 1 - d = n + 1
                BY <2>2
            <4> HIDE DEF f
            <4> QED
                BY <3>2, <3>3, <4>1
        <3> HIDE DEF f, IsScan
        <3> QED
            BY <2>1, <3>4
    <2>3. ASSUME d # 0, d - 1 \notin Bad
          PROVE  FALSE
        <3> DEFINE m == n + 1 - d
        <3>1. m \in 1..n /\ d - 1 \in 0..n /\ n + 1 - (d - 1) = m + 1
            BY <2>1, <2>3
        <3>2. PICK f : IsScan(f, m + 1)
            BY <2>3, <3>1
        <3> DEFINE v == IF m \in W THEN made[m][f[next[m]]] ELSE base
                   g == [k \in m..n + 1 |-> IF k = m THEN v ELSE f[k]]
        <3> HIDE DEF m
        <3>3. v \in S
            BY <3>1, <3>2 DEF Onward
        <3>4. g \in [m..n + 1 -> S]
            BY <3>1, <3>2, <3>3
        <3>5. ASSUME NEW k \in m..n + 1
              PROVE  g[k] = IF k \in W THEN made[k][g[next[k]]] ELSE base
            <4>1. k \in W => next[k] \in (m + 1)..(n + 1) /\ next[k] # m
                BY <3>1 DEF Onward
            <4>2. k \in W => g[next[k]] = f[next[k]]
                BY <3>1, <4>1
            <4>3. CASE k = m
                BY <4>2, <4>3
            <4>4. CASE k # m
                <5>1. k \in (m + 1)..(n + 1)
                    BY <3>1, <4>4
                <5>2. f[k] = IF k \in W THEN made[k][f[next[k]]] ELSE base
                    BY <3>2, <5>1
                <5>3. g[k] = f[k]
                    BY <4>4
                <5> QED
                    BY <4>2, <5>2, <5>3
            <4> QED
                BY <4>3, <4>4
        <3> HIDE DEF g, v
        <3>6. IsScan(g, m)
            BY <3>4, <3>5
        <3> HIDE DEF IsScan
        <3> QED
            BY <2>1, <3>6 DEF m
    <2>4. d # 0 => d - 1 < d
        BY <2>1
    <2> HIDE DEF Bad
    <2> QED
        BY <2>2, <2>3, <2>4
<1>2. n \notin Bad
    <2>1. Bad \subseteq Nat
        OBVIOUS
    <2> HIDE DEF Bad
    <2>2. Bad = {}
        BY <1>1, <2>1, NoSmallest
    <2> QED
        BY <2>2
<1>3. PICK f : IsScan(f, 1)
    <2>1. n + 1 - n = 1 /\ n \in 0..n
        OBVIOUS
    <2> HIDE DEF IsScan
    <2> QED
        BY <1>2, <2>1
<1> QED
    BY <1>3 DEF Scans

\* What the scans skip is a number of cells.
LEMMA LengthTyped ==
    ASSUME NEW file \in Seq(Cell), NEW k \in 1..Len(file)
    PROVE  LengthAt(file, k) \in Nat /\ FrameEnd(file, k) \in Nat
                                     /\ k <= FrameEnd(file, k)
<1>1. file[k] \in Cell /\ GarbageLength \in Nat
    BY StoreAssumption
<1>2. LengthAt(file, k) \in Nat
    BY <1>1 DEF LengthAt, Cell
<1> QED
    BY <1>2 DEF FrameEnd

\* What cells decode to is an operation, at most one.
LEMMA DecodeTyped ==
    ASSUME NEW cells \in Seq(Cell)
    PROVE  /\ Decode(cells) \in Seq(LogOps)
           /\ Decode(cells) # <<>> =>
                \E o \in LogOps : Decode(cells) = <<o>> /\ cells = Tail(FrameOf(o))
<1> DEFINE o == cells[1].op
<1>1. <<>> \in Seq(LogOps) /\ \A x \in LogOps : <<x>> \in Seq(LogOps)
    OBVIOUS
<1>2. CASE cells # <<>> /\ o # 0 /\ cells = Tail(FrameOf(o))
    <2>1. cells[1] \in Cell
        BY <1>2
    <2>2. o \in LogOps
        BY <1>2, <2>1 DEF Cell
    <2>3. Decode(cells) = <<o>>
        BY <1>2 DEF Decode
    <2> QED
        BY <1>1, <1>2, <2>2, <2>3
<1>3. CASE ~(cells # <<>> /\ o # 0 /\ cells = Tail(FrameOf(o)))
    BY <1>1, <1>3 DEF Decode
<1> QED
    BY <1>2, <1>3

\* The cells of a frame in a file.
FrameCells(file, k) == SubSeq(file, k + 1, FrameEnd(file, k))

LEMMA FrameCellsTyped ==
    ASSUME NEW file \in Seq(Cell), NEW k \in 1..Len(file), IsWhole(file, k)
    PROVE  /\ FrameCells(file, k) \in Seq(Cell)
           /\ Len(FrameCells(file, k)) = FrameEnd(file, k) - k
           /\ \A i \in 1..(FrameEnd(file, k) - k) :
                    FrameCells(file, k)[i] = file[k + i]
<1> DEFINE e == FrameEnd(file, k)
<1>1. e \in Nat /\ k <= e /\ e <= Len(file)
    BY LengthTyped DEF IsWhole
<1> HIDE DEF e
<1>2. \A x \in Seq(Cell) : \A i \in 1..Len(x) : \A j \in i..Len(x) :
            /\ SubSeq(x, i + 1, j) \in Seq(Cell)
            /\ Len(SubSeq(x, i + 1, j)) = j - i
            /\ \A d \in 1..(j - i) : SubSeq(x, i + 1, j)[d] = x[i + d]
    OBVIOUS
<1>3. e \in k..Len(file)
    BY <1>1
<1>4. /\ SubSeq(file, k + 1, e) \in Seq(Cell)
      /\ Len(SubSeq(file, k + 1, e)) = e - k
      /\ \A d \in 1..(e - k) : SubSeq(file, k + 1, e)[d] = file[k + d]
    BY <1>2, <1>3
<1> QED
    BY <1>4 DEF FrameCells, e

\* read_frames from any cell on: the frame there, decoded, and what follows it.
LEMMA ReadFromIs ==
    ASSUME NEW file \in Seq(Cell)
    PROVE  /\ ReadFrom(file) \in [1..Len(file) + 1 -> Seq(LogOps)]
           /\ \A k \in 1..Len(file) + 1 :
                /\ IsWhole(file, k) => ReadFrom(file)[k] =
                        Decode(FrameCells(file, k)) \o ReadFrom(file)[FrameEnd(file, k) + 1]
                /\ ~IsWhole(file, k) => ReadFrom(file)[k] = <<>>
<1> DEFINE n == Len(file)
           S == Seq(LogOps)
           W == {k \in 1..n + 1 : IsWhole(file, k)}
           next == [k \in 1..n + 1 |-> FrameEnd(file, k) + 1]
           made == [k \in 1..n + 1 |-> [x \in S |-> Decode(FrameCells(file, k)) \o x]]
           Body(f) == [k \in 1..n + 1 |-> IF IsWhole(file, k)
                            THEN Decode(FrameCells(file, k)) \o f[FrameEnd(file, k) + 1]
                            ELSE <<>>]
<1>1. ASSUME NEW k \in W
      PROVE  /\ k \in 1..n /\ FrameEnd(file, k) \in k..n
             /\ FrameEnd(file, k) + 1 \in (k + 1)..(n + 1)
             /\ Decode(FrameCells(file, k)) \in S
    <2>1. k \in 1..n
        BY DEF IsWhole
    <2>2. FrameEnd(file, k) \in Nat /\ k <= FrameEnd(file, k) /\ FrameEnd(file, k) <= n
        BY <2>1, LengthTyped DEF IsWhole
    <2>3. FrameCells(file, k) \in Seq(Cell)
        BY <2>1, FrameCellsTyped
    <2> QED
        BY <2>1, <2>2, <2>3, DecodeTyped
<1>2. n \in Nat /\ <<>> \in S /\ \A x, y \in S : x \o y \in S
    OBVIOUS
<1>3. Onward(n, S, W, next, made)
    <2> HIDE DEF S
    <2> QED
        BY <1>1, <1>2 DEF Onward
<1>4. PICK f : /\ f \in [1..n + 1 -> S]
               /\ \A k \in 1..n + 1 :
                        f[k] = IF k \in W THEN made[k][f[next[k]]] ELSE <<>>
    <2> HIDE DEF n, S, W, next, made
    <2>1. \E f : Scans(f, n, S, <<>>, W, next, made)
        BY <1>2, <1>3, ScanExists
    <2> QED
        BY <2>1 DEF Scans
<1>5. f = Body(f)
    <2>1. ASSUME NEW k \in 1..n + 1
          PROVE  (IF k \in W THEN made[k][f[next[k]]] ELSE <<>>)
                    = IF IsWhole(file, k)
                      THEN Decode(FrameCells(file, k)) \o f[FrameEnd(file, k) + 1]
                      ELSE <<>>
        <3>1. CASE IsWhole(file, k)
            <4>1. k \in W /\ next[k] = FrameEnd(file, k) + 1
                BY <3>1
            <4>2. f[next[k]] \in S
                <5>1. next[k] \in 1..n + 1
                    BY <1>1, <4>1
                <5>2. f \in [1..n + 1 -> S]
                    BY <1>4
                <5> HIDE DEF next, S, n
                <5> QED
                    BY <5>1, <5>2
            <4> HIDE DEF S
            <4>3. made[k][f[next[k]]] = Decode(FrameCells(file, k)) \o f[next[k]]
                BY <4>2
            <4> QED
                BY <3>1, <4>1, <4>3
        <3>2. CASE ~IsWhole(file, k)
            BY <3>2
        <3> QED
            BY <3>1, <3>2
    <2>2. f = [k \in 1..n + 1 |-> f[k]]
        BY <1>4
    <2>3. \A k \in 1..n + 1 : f[k] = IF k \in W THEN made[k][f[next[k]]] ELSE <<>>
        BY <1>4
    <2> HIDE DEF W, made, next, n, S
    <2> QED
        BY <2>1, <2>2, <2>3
<1> DEFINE r == ReadFrom(file)
<1>6. r = CHOOSE g : g = Body(g)
    BY DEF ReadFrom, FrameCells
<1> HIDE DEF r
<1>7. r = Body(r)
    <2> HIDE DEF Body
    <2> QED
        BY <1>5, <1>6
<1>8. r \in [1..n + 1 -> S]
    <2> DEFINE Bad == {d \in 0..n : r[n + 1 - d] \notin S}
    <2>1. ASSUME NEW d \in Bad
          PROVE  \E j \in Bad : j < d
        <3> DEFINE k == n + 1 - d
        <3>1. d \in 0..n /\ k \in 1..n + 1 /\ r[k] \notin S
            OBVIOUS
        <3> HIDE DEF k
        <3>2. r[k] = IF IsWhole(file, k)
                     THEN Decode(FrameCells(file, k)) \o r[FrameEnd(file, k) + 1]
                     ELSE <<>>
            BY <1>7, <3>1
        <3>3. IsWhole(file, k)
            BY <1>2, <3>1, <3>2
        <3>4. k \in W
            BY <3>1, <3>3
        <3>5. r[FrameEnd(file, k) + 1] \notin S
            BY <1>1, <1>2, <3>1, <3>2, <3>3, <3>4
        <3>6. FrameEnd(file, k) \in k..n
            BY <1>1, <3>4
        <3> DEFINE j == n - FrameEnd(file, k)
        <3>7. /\ j \in 0..n /\ j < d /\ FrameEnd(file, k) + 1 = n + 1 - j
            BY <3>1, <3>6 DEF k
        <3> HIDE DEF j
        <3>8. j \in Bad
            BY <3>5, <3>7
        <3> QED
            BY <3>7, <3>8
    <2>2. Bad \subseteq Nat
        OBVIOUS
    <2>3. Bad = {}
        <3> HIDE DEF Bad
        <3> QED
            BY <2>1, <2>2, NoSmallest
    <2>4. ASSUME NEW k \in 1..n + 1
          PROVE  r[k] \in S
        <3>1. n + 1 - k \in 0..n /\ n + 1 - (n + 1 - k) = k
            OBVIOUS
        <3> QED
            BY <2>3, <3>1
    <2>5. r = [k \in 1..n + 1 |-> r[k]]
        BY <1>7
    <2> HIDE DEF n, S, Body
    <2> QED
        BY <2>4, <2>5
<1> QED
    BY <1>7, <1>8 DEF r

\* count_frames likewise.
LEMMA CountFromIs ==
    ASSUME NEW file \in Seq(Cell)
    PROVE  \A k \in 1..Len(file) + 1 :
                /\ IsWhole(file, k) =>
                        CountFrom(file)[k] = 1 + CountFrom(file)[FrameEnd(file, k) + 1]
                /\ ~IsWhole(file, k) => CountFrom(file)[k] = 0
<1> DEFINE n == Len(file)
           W == {k \in 1..n + 1 : IsWhole(file, k)}
           next == [k \in 1..n + 1 |-> FrameEnd(file, k) + 1]
           made == [k \in 1..n + 1 |-> [x \in Nat |-> 1 + x]]
           Body(f) == [k \in 1..n + 1 |-> IF IsWhole(file, k)
                            THEN 1 + f[FrameEnd(file, k) + 1] ELSE 0]
<1>1. ASSUME NEW k \in W
      PROVE  FrameEnd(file, k) + 1 \in (k + 1)..(n + 1)
    <2>1. k \in 1..n
        BY DEF IsWhole
    <2>2. FrameEnd(file, k) \in Nat /\ k <= FrameEnd(file, k) /\ FrameEnd(file, k) <= n
        BY <2>1, LengthTyped DEF IsWhole
    <2> QED
        BY <2>1, <2>2
<1>2. n \in Nat /\ 0 \in Nat
    OBVIOUS
<1>3. Onward(n, Nat, W, next, made)
    BY <1>1, <1>2 DEF Onward
<1>4. PICK f : /\ f \in [1..n + 1 -> Nat]
               /\ \A k \in 1..n + 1 :
                        f[k] = IF k \in W THEN made[k][f[next[k]]] ELSE 0
    <2> HIDE DEF n, W, next, made
    <2>1. \E f : Scans(f, n, Nat, 0, W, next, made)
        BY <1>2, <1>3, ScanExists
    <2> QED
        BY <2>1 DEF Scans
<1>5. f = Body(f)
    <2>1. ASSUME NEW k \in 1..n + 1
          PROVE  f[k] = IF IsWhole(file, k) THEN 1 + f[FrameEnd(file, k) + 1] ELSE 0
        <3>1. CASE IsWhole(file, k)
            <4>1. k \in W /\ next[k] = FrameEnd(file, k) + 1
                BY <3>1
            <4>2. f[next[k]] \in Nat
                BY <1>1, <1>4, <4>1
            <4>3. made[k][f[next[k]]] = 1 + f[next[k]]
                BY <4>2
            <4>4. f[k] = made[k][f[next[k]]]
                BY <1>4, <4>1
            <4> HIDE DEF made, next, W
            <4> QED
                BY <3>1, <4>1, <4>3, <4>4
        <3>2. CASE ~IsWhole(file, k)
            BY <1>4, <3>2
        <3> QED
            BY <3>1, <3>2
    <2>2. f = [k \in 1..n + 1 |-> f[k]]
        BY <1>4
    <2> HIDE DEF n
    <2> QED
        BY <2>1, <2>2
<1> DEFINE r == CountFrom(file)
<1>6. r = CHOOSE g : g = Body(g)
    BY DEF CountFrom
<1> HIDE DEF r
<1>7. r = Body(r)
    <2> HIDE DEF Body
    <2> QED
        BY <1>5, <1>6
<1> QED
    BY <1>7 DEF r

\* The cells of a frame.
LEMMA FrameIs ==
    ASSUME NEW o \in LogOps
    PROVE  /\ OpSize[o] \in Nat \ {0} /\ Len(FrameOf(o)) = OpSize[o] + 1
           /\ FrameOf(o)[1] = [op |-> 0, n |-> OpSize[o]]
           /\ \A i \in 1..OpSize[o] : FrameOf(o)[i + 1] = [op |-> o, n |-> i]
           /\ Tail(FrameOf(o)) = [i \in 1..OpSize[o] |-> [op |-> o, n |-> i]]
<1> DEFINE prefix == <<[op |-> 0, n |-> OpSize[o]]>>
           encoded == [i \in 1..OpSize[o] |-> [op |-> o, n |-> i]]
<1>1. OpSize[o] \in Nat \ {0}
    BY StoreAssumption
<1>2. prefix \in Seq(Cell) /\ Len(prefix) = 1 /\ prefix[1] = [op |-> 0, n |-> OpSize[o]]
    BY <1>1 DEF Cell
<1>3. encoded \in Seq(Cell) /\ Len(encoded) = OpSize[o]
    <2>1. \A i \in 1..OpSize[o] : [op |-> o, n |-> i] \in Cell
        BY <1>1 DEF Cell
    <2> QED
        BY <2>1, <1>1
<1>4. FrameOf(o) = prefix \o encoded
    BY DEF FrameOf
<1>5. \A i \in 1..OpSize[o] : encoded[i] = [op |-> o, n |-> i]
    OBVIOUS
<1> HIDE DEF prefix, encoded
<1>6. \A f, g \in Seq(Cell) : Len(f) = 1 =>
            /\ Len(f \o g) = 1 + Len(g) /\ (f \o g)[1] = f[1]
            /\ \A i \in 1..Len(g) : (f \o g)[i + 1] = g[i]
            /\ Tail(f \o g) = g
    <2> SUFFICES ASSUME NEW f \in Seq(Cell), NEW g \in Seq(Cell), Len(f) = 1
                 PROVE  /\ Len(f \o g) = 1 + Len(g) /\ (f \o g)[1] = f[1]
                        /\ \A i \in 1..Len(g) : (f \o g)[i + 1] = g[i]
                        /\ Tail(f \o g) = g
        OBVIOUS
    <2> DEFINE h == f \o g
    <2>1. /\ h \in Seq(Cell) /\ Len(h) = 1 + Len(g) /\ h[1] = f[1]
          /\ \A i \in 1..Len(g) : h[i + 1] = g[i]
        <3>1. IsJoin(h, Cell, f, g)
            BY Appended, Zenon
        <3> HIDE DEF h
        <3> QED
            BY <3>1 DEF IsJoin
    <2> HIDE DEF h
    <2>2. /\ Tail(h) \in Seq(Cell) /\ Len(Tail(h)) = Len(g)
          /\ \A i \in 1..Len(g) : Tail(h)[i] = h[i + 1]
        BY <2>1
    <2>3. Tail(h) = g
        BY <2>1, <2>2
    <2> QED
        BY <2>1, <2>3 DEF h
<1>7. /\ Len(FrameOf(o)) = 1 + Len(encoded) /\ FrameOf(o)[1] = prefix[1]
      /\ \A i \in 1..Len(encoded) : FrameOf(o)[i + 1] = encoded[i]
      /\ Tail(FrameOf(o)) = encoded
    <2>1. /\ Len(prefix \o encoded) = 1 + Len(encoded)
          /\ (prefix \o encoded)[1] = prefix[1]
          /\ \A i \in 1..Len(encoded) : (prefix \o encoded)[i + 1] = encoded[i]
          /\ Tail(prefix \o encoded) = encoded
        BY <1>2, <1>3, <1>6, Zenon
    <2> QED
        BY <1>4, <2>1, Zenon
<1>8. /\ Len(FrameOf(o)) = OpSize[o] + 1
      /\ \A i \in 1..OpSize[o] : FrameOf(o)[i + 1] = [op |-> o, n |-> i]
    BY <1>1, <1>3, <1>5, <1>7
<1>9. Tail(FrameOf(o)) = [i \in 1..OpSize[o] |-> [op |-> o, n |-> i]]
    BY <1>7 DEF encoded
<1> QED
    BY <1>1, <1>2, <1>7, <1>8, <1>9

-----------------------------------------------------------------------------
(* The store: files of whole frames                                        *)

\* The frames of these operations, one after the other, and nothing else: the
\* i-th begins at at[i].
Spans(file, ops, at) ==
    /\ at \in [1..Len(ops) + 1 -> 1..Len(file) + 1]
    /\ at[1] = 1 /\ at[Len(ops) + 1] = Len(file) + 1
    /\ \A i \in 1..Len(ops) :
        /\ at[i + 1] = at[i] + Len(FrameOf(ops[i]))
        /\ \A k \in 1..Len(FrameOf(ops[i])) : file[at[i] + k - 1] = FrameOf(ops[i])[k]
Holds(file, ops) == \E at : Spans(file, ops, at)

\* Each of them is read for what it is.
LEMMA FrameRead ==
    ASSUME NEW file \in Seq(Cell), NEW ops \in Seq(LogOps), NEW at,
           Spans(file, ops, at), NEW i \in 1..Len(ops)
    PROVE  /\ at[i] \in 1..Len(file) /\ IsWhole(file, at[i])
           /\ FrameEnd(file, at[i]) + 1 = at[i + 1]
           /\ Decode(FrameCells(file, at[i])) = <<ops[i]>>
<1> DEFINE o == ops[i]
           k == at[i]
<1>1. /\ o \in LogOps /\ i + 1 \in 1..Len(ops) + 1 /\ i \in 1..Len(ops) + 1
      /\ k \in 1..Len(file) + 1 /\ at[i + 1] \in 1..Len(file) + 1
    <2>1. o \in LogOps /\ i + 1 \in 1..Len(ops) + 1 /\ i \in 1..Len(ops) + 1
        OBVIOUS
    <2>2. at \in [1..Len(ops) + 1 -> 1..Len(file) + 1]
        BY DEF Spans
    <2> QED
        BY <2>1, <2>2
<1>2. /\ at[i + 1] = k + Len(FrameOf(o))
      /\ \A j \in 1..Len(FrameOf(o)) : file[k + j - 1] = FrameOf(o)[j]
    BY DEF Spans
<1> HIDE DEF o, k
<1>3. /\ OpSize[o] \in Nat \ {0} /\ Len(FrameOf(o)) = OpSize[o] + 1
      /\ FrameOf(o)[1] = [op |-> 0, n |-> OpSize[o]]
      /\ \A j \in 1..OpSize[o] : FrameOf(o)[j + 1] = [op |-> o, n |-> j]
      /\ Tail(FrameOf(o)) = [j \in 1..OpSize[o] |-> [op |-> o, n |-> j]]
    BY <1>1, FrameIs
<1>4. /\ file[k] = [op |-> 0, n |-> OpSize[o]]
      /\ \A j \in 1..OpSize[o] : file[k + j] = [op |-> o, n |-> j]
    <2>1. 1 \in 1..Len(FrameOf(o)) /\ k + 1 - 1 = k
        BY <1>1, <1>3
    <2>2. ASSUME NEW j \in 1..OpSize[o]
          PROVE  file[k + j] = [op |-> o, n |-> j]
        <3>1. j + 1 \in 1..Len(FrameOf(o)) /\ k + (j + 1) - 1 = k + j
            BY <1>1, <1>3
        <3> QED
            BY <1>2, <1>3, <3>1
    <2> QED
        BY <1>2, <1>3, <2>1, <2>2
<1>5. FrameEnd(file, k) = k + OpSize[o]
    BY <1>4 DEF FrameEnd, LengthAt
<1>6. /\ k \in 1..Len(file) /\ IsWhole(file, k) /\ FrameEnd(file, k) + 1 = at[i + 1]
    <2> DEFINE m == OpSize[o]
               e == at[i + 1]
    <2>1. m \in Nat \ {0} /\ Len(FrameOf(o)) = m + 1
        BY <1>3
    <2> HIDE DEF m
    <2>2. e = k + (m + 1) /\ FrameEnd(file, k) = k + m
        BY <1>2, <1>5, <2>1 DEF m
    <2>3. k \in 1..Len(file) + 1 /\ e \in 1..Len(file) + 1 /\ Len(file) \in Nat
        BY <1>1
    <2> HIDE DEF e
    <2>4. k \in 1..Len(file) /\ k + m <= Len(file) /\ k + m + 1 = e
        BY <2>1, <2>2, <2>3
    <2> QED
        BY <2>2, <2>4 DEF IsWhole, e
<1> DEFINE cells == FrameCells(file, k)
<1>7. /\ cells \in Seq(Cell) /\ Len(cells) = OpSize[o]
      /\ \A j \in 1..OpSize[o] : cells[j] = file[k + j]
    <2>1. FrameEnd(file, k) - k = OpSize[o]
        BY <1>3, <1>5, <1>6
    <2> QED
        BY <1>6, <2>1, FrameCellsTyped
<1> HIDE DEF cells
<1>s. \A j \in 1..OpSize[o] : cells[j] = [op |-> o, n |-> j]
    BY <1>4, <1>7
<1>8. cells = Tail(FrameOf(o))
    <2>1. cells = [j \in 1..OpSize[o] |-> cells[j]]
        BY <1>7
    <2>2. cells = [j \in 1..OpSize[o] |-> [op |-> o, n |-> j]]
        BY <1>s, <2>1
    <2> QED
        BY <1>3, <2>2
<1>9. cells # <<>> /\ cells[1].op = o /\ o # 0
    <2>1. cells[1] = [op |-> o, n |-> 1]
        <3>1. 1 \in 1..OpSize[o]
            BY <1>3
        <3> QED
            BY <1>s, <3>1
    <2> QED
        BY <1>1, <1>3, <1>7, <2>1, StoreAssumption
<1>10. Decode(cells) = <<o>>
    BY <1>8, <1>9 DEF Decode
<1> QED
    BY <1>6, <1>10 DEF cells, o, k

\* A file of whole frames is read and counted for what it is.
LEMMA AllRead ==
    ASSUME NEW file \in Seq(Cell), NEW ops \in Seq(LogOps), Holds(file, ops)
    PROVE  ReadFrames(file) = ops /\ CountFrames(file) = Len(ops)
<1> DEFINE n == Len(ops)
           rest(i) == SubSeq(ops, i, n)
           read == ReadFrom(file)
           counted == CountFrom(file)
<1>1. PICK at : Spans(file, ops, at)
    BY DEF Holds
<1>2. /\ at \in [1..n + 1 -> 1..Len(file) + 1]
      /\ at[1] = 1 /\ at[n + 1] = Len(file) + 1 /\ n \in Nat /\ Len(file) \in Nat
    BY <1>1 DEF Spans
<1>3. \A i \in 1..n + 1 :
        /\ rest(i) \in Seq(LogOps) /\ Len(rest(i)) = n + 1 - i
        /\ i = n + 1 => rest(i) = <<>>
        /\ i = 1 => rest(i) = ops
        /\ i \in 1..n => rest(i) = <<ops[i]>> \o rest(i + 1)
    <2> SUFFICES ASSUME NEW i \in 1..n + 1
                 PROVE  /\ rest(i) \in Seq(LogOps) /\ Len(rest(i)) = n + 1 - i
                        /\ i = n + 1 => rest(i) = <<>>
                        /\ i = 1 => rest(i) = ops
                        /\ i \in 1..n => rest(i) = <<ops[i]>> \o rest(i + 1)
        OBVIOUS
    <2>1. /\ rest(i) \in Seq(LogOps) /\ Len(rest(i)) = n + 1 - i
          /\ \A j \in 1..(n + 1 - i) : rest(i)[j] = ops[i + j - 1]
        OBVIOUS
    <2>2. i = n + 1 => rest(i) = <<>>
        BY <2>1
    <2>3. i = 1 => rest(i) = ops
        OBVIOUS
    <2>4. ASSUME i \in 1..n
          PROVE  rest(i) = <<ops[i]>> \o rest(i + 1)
        <3> DEFINE s == rest(i + 1)
                   t == <<ops[i]>> \o s
        <3>1. /\ s \in Seq(LogOps) /\ Len(s) = n - i
              /\ \A j \in 1..(n - i) : s[j] = ops[i + j]
            BY <2>4
        <3>2. ops[i] \in LogOps
            BY <2>4
        <3> HIDE DEF s
        <3> DEFINE first == <<ops[i]>>
        <3>c. first \in Seq(LogOps) /\ Len(first) = 1 /\ first[1] = ops[i]
            BY <3>2
        <3> HIDE DEF first
        <3>b. t = first \o s
            BY DEF first
        <3> HIDE DEF t
        <3>e. IsJoin(t, LogOps, first, s)
            BY <3>1, <3>b, <3>c, Appended, Zenon
        <3>a. /\ t \in Seq(LogOps) /\ Len(t) = 1 + Len(s)
              /\ \A d \in 1..1 : t[d] = first[d]
              /\ \A d \in 1..Len(s) : t[1 + d] = s[d]
            BY <3>c, <3>e DEF IsJoin
        <3>3. t \in Seq(LogOps) /\ Len(t) = n + 1 - i
            BY <2>4, <3>1, <3>a, <3>b
        <3>4. ASSUME NEW j \in 1..(n + 1 - i)
              PROVE  t[j] = ops[i + j - 1]
            <4>2. CASE j = 1
                <5>1. i + j - 1 = i /\ 1 \in 1..1
                    BY <4>2
                <5> QED
                    BY <3>a, <3>b, <3>c, <4>2, <5>1
            <4>3. CASE j # 1
                <5>1. /\ j - 1 \in 1..(n - i) /\ i + (j - 1) = i + j - 1
                      /\ 1 + (j - 1) = j
                    BY <2>4, <4>3
                <5> QED
                    BY <3>1, <3>a, <3>b, <5>1
            <4> QED
                BY <4>2, <4>3
        <3> DEFINE u == rest(i)
        <3>5. u \in Seq(LogOps) /\ Len(u) = Len(t) /\ \A j \in 1..Len(u) : u[j] = t[j]
            BY <2>1, <3>3, <3>4
        <3> HIDE DEF u
        <3>6. u = t
            BY <3>3, <3>5
        <3> QED
            BY <3>6 DEF t, u, s
    <2> QED
        BY <2>1, <2>2, <2>3, <2>4
<1> DEFINE Right(i) == read[at[i]] = rest(i) /\ counted[at[i]] = n + 1 - i
           Bad == {d \in 0..n : ~Right(n + 1 - d)}
<1> HIDE DEF rest
<1>4. ASSUME NEW i \in 1..n, Right(i + 1)
      PROVE  Right(i)
    <2>1. /\ at[i] \in 1..Len(file) /\ IsWhole(file, at[i])
          /\ FrameEnd(file, at[i]) + 1 = at[i + 1]
          /\ Decode(FrameCells(file, at[i])) = <<ops[i]>>
        BY <1>1, FrameRead
    <2>2. at[i] \in 1..Len(file) + 1
        BY <2>1
    <2>3. read[at[i]] = <<ops[i]>> \o read[at[i + 1]]
        BY <2>1, <2>2, ReadFromIs
    <2>4. counted[at[i]] = 1 + counted[at[i + 1]]
        BY <2>1, <2>2, CountFromIs
    <2>5. rest(i) = <<ops[i]>> \o rest(i + 1)
        BY <1>3
    <2>6. counted[at[i + 1]] = n + 1 - (i + 1)
        BY <1>4
    <2>7. counted[at[i]] = n + 1 - i
        BY <1>2, <2>4, <2>6
    <2>8. read[at[i]] = rest(i)
        BY <1>4, <2>3, <2>5
    <2> QED
        BY <2>7, <2>8
<1>5. Right(n + 1)
    <2>1. n + 1 \in 1..n + 1 /\ at[n + 1] = Len(file) + 1
        BY <1>2
    <2>2. Len(file) + 1 \in 1..Len(file) + 1 /\ ~IsWhole(file, Len(file) + 1)
        BY <1>2 DEF IsWhole
    <2>3. read[Len(file) + 1] = <<>>
        BY <2>2, ReadFromIs
    <2>4. counted[Len(file) + 1] = 0
        BY <2>2, CountFromIs
    <2>5. rest(n + 1) = <<>>
        BY <1>3, <2>1
    <2>6. n + 1 - (n + 1) = 0
        BY <1>2
    <2> QED
        BY <2>1, <2>3, <2>4, <2>5, <2>6
<1> HIDE DEF Right
<1>6. Bad = {}
    <2>1. ASSUME NEW d \in Bad
          PROVE  \E j \in Bad : j < d
        <3>1. d \in 0..n /\ ~Right(n + 1 - d)
            OBVIOUS
        <3>2. d # 0
            <4>1. n + 1 - 0 = n + 1
                BY <1>2
            <4> QED
                BY <1>5, <3>1, <4>1
        <3>3. n + 1 - d \in 1..n /\ (n + 1 - d) + 1 = n + 1 - (d - 1)
            BY <1>2, <3>1, <3>2
        <3>4. ~Right(n + 1 - (d - 1))
            BY <1>4, <3>1, <3>3
        <3>5. d - 1 \in 0..n /\ d - 1 < d
            BY <3>1, <3>2
        <3> QED
            BY <3>4, <3>5
    <2>2. Bad \subseteq Nat
        OBVIOUS
    <2> HIDE DEF Bad
    <2> QED
        BY <2>1, <2>2, NoSmallest
<1>7. Right(1)
    <2>1. n \in 0..n /\ n + 1 - n = 1
        BY <1>2
    <2> QED
        BY <1>6, <2>1
<1>8. rest(1) = ops
    <2>1. 1 \in 1..n + 1
        BY <1>2
    <2> QED
        BY <1>3, <2>1
<1>9. n + 1 - 1 = n
    BY <1>2
<1> QED
    BY <1>2, <1>7, <1>8, <1>9 DEF Right, ReadFrames, CountFrames

\* It holds what is read from it and nothing else.
Clean(file) == Holds(file, ReadFrames(file))

\* What is read are operations, and they are those a clean file counts.
LEMMA ReadTyped ==
    ASSUME NEW file \in Seq(Cell)
    PROVE  /\ ReadFrames(file) \in Seq(LogOps)
           /\ Clean(file) => CountFrames(file) = Len(ReadFrames(file))
<1>1. 1 \in 1..Len(file) + 1
    OBVIOUS
<1>2. ReadFrames(file) \in Seq(LogOps)
    <2> DEFINE read == ReadFrom(file)
    <2>1. read \in [1..Len(file) + 1 -> Seq(LogOps)]
        BY ReadFromIs
    <2> HIDE DEF read
    <2>2. read[1] \in Seq(LogOps)
        BY <1>1, <2>1
    <2> QED
        BY <2>2 DEF ReadFrames, read
<1>3. Clean(file) => CountFrames(file) = Len(ReadFrames(file))
    BY <1>2, AllRead, Zenon DEF Clean
<1> QED
    BY <1>2, <1>3

\* A file that does not exist.
LEMMA NothingHeld ==
    /\ <<>> \in Seq(Cell) /\ Clean(<<>>)
    /\ ReadFrames(<<>>) = <<>> /\ CountFrames(<<>>) = 0
<1> DEFINE at == [i \in 1..1 |-> 1]
<1>1. /\ <<>> \in Seq(Cell) /\ <<>> \in Seq(LogOps) /\ Len(<<>>) = 0
    OBVIOUS
<1>2. Spans(<<>>, <<>>, at)
    BY DEF Spans
<1>3. Holds(<<>>, <<>>)
    BY <1>2, Zenon DEF Holds
<1>4. ReadFrames(<<>>) = <<>> /\ CountFrames(<<>>) = Len(<<>>)
    BY <1>1, <1>3, AllRead, Zenon
<1> QED
    BY <1>1, <1>3, <1>4 DEF Clean

\* WriteFrame adds one operation to what is read from a clean file.
LEMMA OneMore ==
    ASSUME NEW file \in Seq(Cell), Clean(file), NEW o \in LogOps
    PROVE  /\ Clean(file \o FrameOf(o))
           /\ ReadFrames(file \o FrameOf(o)) = Append(ReadFrames(file), o)
<1> DEFINE ops == ReadFrames(file)
           n == Len(ops)
           frame_ == FrameOf(o)
           more == file \o frame_
           ops_ == Append(ops, o)
<1>1. ops \in Seq(LogOps)
    BY ReadTyped
<1>2. PICK at : Spans(file, ops, at)
    BY DEF Clean, Holds
<1>3. frame_ \in Seq(Cell) /\ Len(frame_) \in Nat \ {0}
    <2>1. frame_ \in Seq(Cell)
        BY FrameTyped
    <2>2. OpSize[o] \in Nat \ {0} /\ Len(frame_) = OpSize[o] + 1
        BY FrameIs
    <2> QED
        BY <2>1, <2>2
<1>4. IsJoin(more, Cell, file, frame_)
    BY <1>3, Appended, Zenon
<1> DEFINE at_ == [i \in 1..n + 2 |-> IF i <= n + 1 THEN at[i] ELSE Len(more) + 1]
<1> HIDE DEF ops, frame_, more
<1>5. /\ ops_ \in Seq(LogOps) /\ Len(ops_) = n + 1 /\ n \in Nat /\ ops_[n + 1] = o
      /\ \A i \in 1..n : ops_[i] = ops[i]
    BY <1>1
<1>6. /\ more \in Seq(Cell) /\ Len(more) = Len(file) + Len(frame_) /\ Len(file) \in Nat
      /\ \A i \in 1..Len(file) : more[i] = file[i]
      /\ \A i \in 1..Len(frame_) : more[Len(file) + i] = frame_[i]
    BY <1>4 DEF IsJoin
<1>7. /\ at \in [1..n + 1 -> 1..Len(file) + 1]
      /\ at[1] = 1 /\ at[n + 1] = Len(file) + 1
      /\ \A i \in 1..n :
            /\ at[i + 1] = at[i] + Len(FrameOf(ops[i]))
            /\ \A k \in 1..Len(FrameOf(ops[i])) :
                    file[at[i] + k - 1] = FrameOf(ops[i])[k]
    BY <1>2 DEF Spans
<1> HIDE DEF ops_
<1>8. /\ at_ \in [1..n + 2 -> 1..Len(more) + 1]
      /\ at_[1] = 1 /\ at_[n + 2] = Len(more) + 1
      /\ \A i \in 1..n + 1 : at_[i] = at[i]
    <2>1. \A i \in 1..n + 1 : at[i] \in 1..Len(more) + 1
        BY <1>3, <1>6, <1>7
    <2>2. Len(more) + 1 \in 1..Len(more) + 1 /\ ~(n + 2 <= n + 1) /\ n + 2 \in 1..n + 2
        BY <1>3, <1>5, <1>6
    <2>3. \A i \in 1..n + 2 : i <= n + 1 \/ i = n + 2
        BY <1>5
    <2>4. 1 \in 1..n + 1 /\ \A i \in 1..n + 1 : i \in 1..n + 2 /\ i <= n + 1
        BY <1>5
    <2> QED
        BY <1>7, <2>1, <2>2, <2>3, <2>4
<1> HIDE DEF at_
<1>9. ASSUME NEW i \in 1..n + 1
      PROVE  /\ at_[i + 1] = at_[i] + Len(FrameOf(ops_[i]))
             /\ \A k \in 1..Len(FrameOf(ops_[i])) :
                    more[at_[i] + k - 1] = FrameOf(ops_[i])[k]
    <2>1. CASE i = n + 1
        <3>1. ops_[i] = o /\ at_[i] = Len(file) + 1 /\ at_[i + 1] = Len(more) + 1
            <4>1. n + 1 \in 1..n + 1 /\ i + 1 = n + 2
                BY <1>5, <2>1
            <4> QED
                BY <1>5, <1>7, <1>8, <2>1, <4>1
        <3>2. FrameOf(ops_[i]) = frame_
            BY <3>1 DEF frame_
        <3>3. at_[i + 1] = at_[i] + Len(frame_)
            BY <1>3, <1>6, <3>1
        <3>4. ASSUME NEW k \in 1..Len(frame_)
              PROVE  more[at_[i] + k - 1] = frame_[k]
            <4>1. at_[i] + k - 1 = Len(file) + k
                BY <1>3, <1>6, <3>1
            <4> QED
                BY <1>6, <4>1
        <3> QED
            BY <3>2, <3>3, <3>4
    <2>2. CASE i # n + 1
        <3>1. i \in 1..n /\ i \in 1..n + 1 /\ i + 1 \in 1..n + 1
            BY <1>5, <2>2
        <3>2. ops_[i] = ops[i] /\ at_[i] = at[i] /\ at_[i + 1] = at[i + 1]
            BY <1>5, <1>8, <3>1
        <3>3. at[i] \in 1..Len(file) + 1 /\ at[i + 1] \in 1..Len(file) + 1
            BY <1>7, <3>1
        <3>4. ops[i] \in LogOps
            BY <1>1, <3>1
        <3>5. Len(FrameOf(ops[i])) \in Nat
            BY <3>4, FrameTyped
        <3>6. ASSUME NEW k \in 1..Len(FrameOf(ops[i]))
              PROVE  more[at[i] + k - 1] = FrameOf(ops[i])[k]
            <4>1. at[i] + k - 1 \in 1..Len(file)
                <5>1. at[i + 1] = at[i] + Len(FrameOf(ops[i]))
                    BY <1>7, <3>1
                <5>2. Len(file) \in Nat
                    BY <1>6
                <5>3. \A from, to, size, last \in Nat :
                        /\ from >= 1 /\ to <= last + 1 /\ to = from + size
                        => \A m \in 1..size : from + m - 1 \in 1..last
                    OBVIOUS
                <5>4. at[i] \in Nat /\ at[i] >= 1 /\ at[i + 1] \in Nat /\ at[i + 1] <= Len(file) + 1
                    BY <3>3, <5>2
                <5> QED
                    BY <3>5, <5>1, <5>2, <5>3, <5>4, Zenon
            <4> QED
                BY <1>6, <1>7, <3>1, <4>1
        <3> QED
            BY <1>7, <3>1, <3>2, <3>6
    <2> QED
        BY <2>1, <2>2
<1>10. Spans(more, ops_, at_)
    <2>1. Len(ops_) + 1 = n + 2
        BY <1>5
    <2> QED
        BY <1>5, <1>8, <1>9, <2>1 DEF Spans
<1>11. Holds(more, ops_)
    BY <1>10, Zenon DEF Holds
<1>12. ReadFrames(more) = ops_
    BY <1>5, <1>6, <1>11, AllRead, Zenon
<1> QED
    BY <1>11, <1>12 DEF Clean, more, ops_, ops, frame_

\* One sequence is the end of another.
Suffix(end, all) ==
    /\ Len(end) <= Len(all)
    /\ \A i \in 1..Len(end) : all[Len(all) - Len(end) + i] = end[i]

LEMMA SuffixGrows ==
    ASSUME NEW end \in Seq(LogOps), NEW all \in Seq(LogOps), NEW o \in LogOps,
           Suffix(end, all)
    PROVE  Suffix(Append(end, o), Append(all, o))
<1> DEFINE end_ == Append(end, o)
           all_ == Append(all, o)
<1>1. /\ Len(end_) = Len(end) + 1 /\ Len(all_) = Len(all) + 1
      /\ Len(end) \in Nat /\ Len(all) \in Nat
      /\ end_[Len(end) + 1] = o /\ all_[Len(all) + 1] = o
      /\ \A i \in 1..Len(end) : end_[i] = end[i]
      /\ \A i \in 1..Len(all) : all_[i] = all[i]
    OBVIOUS
<1> HIDE DEF end_, all_
<1>2. Len(end) <= Len(all)
    BY DEF Suffix
<1>3. ASSUME NEW i \in 1..Len(end_)
      PROVE  all_[Len(all_) - Len(end_) + i] = end_[i]
    <2>1. Len(all_) - Len(end_) + i = Len(all) - Len(end) + i
        BY <1>1
    <2>2. CASE i = Len(end) + 1
        <3>1. Len(all) - Len(end) + i = Len(all) + 1
            BY <1>1, <2>2
        <3> QED
            BY <1>1, <2>1, <2>2, <3>1
    <2>3. CASE i # Len(end) + 1
        <3>1. i \in 1..Len(end) /\ Len(all) - Len(end) + i \in 1..Len(all)
            BY <1>1, <1>2, <2>3
        <3>2. all[Len(all) - Len(end) + i] = end[i]
            BY <3>1 DEF Suffix
        <3> QED
            BY <1>1, <2>1, <3>1, <3>2
    <2> QED
        BY <2>2, <2>3
<1>4. Len(end_) <= Len(all_)
    BY <1>1, <1>2
<1>5. Suffix(end_, all_)
    BY <1>3, <1>4 DEF Suffix
<1> QED
    BY <1>5 DEF end_, all_

\* Appending to what comes last is appending to the whole.
LEMMA AppendLast ==
    ASSUME NEW f \in Seq(LogOps), NEW g \in Seq(LogOps), NEW o \in LogOps
    PROVE  f \o Append(g, o) = Append(f \o g, o)
<1> DEFINE g_ == Append(g, o)
           h == f \o g
           h_ == f \o g_
           w == Append(h, o)
<1>1. /\ g_ \in Seq(LogOps) /\ Len(g_) = Len(g) + 1 /\ g_[Len(g) + 1] = o
      /\ \A i \in 1..Len(g) : g_[i] = g[i]
    OBVIOUS
<1>2. IsJoin(h, LogOps, f, g)
    BY Appended, Zenon
<1> HIDE DEF g_
<1>3. IsJoin(h_, LogOps, f, g_)
    BY <1>1, Appended, Zenon
<1> HIDE DEF h, h_
<1>4. /\ w \in Seq(LogOps) /\ Len(w) = Len(h) + 1 /\ w[Len(h) + 1] = o
      /\ \A i \in 1..Len(h) : w[i] = h[i]
    BY <1>2 DEF IsJoin
<1> HIDE DEF w
<1>5. /\ Len(h) = Len(f) + Len(g) /\ Len(f) \in Nat /\ Len(g) \in Nat
      /\ h_ \in Seq(LogOps) /\ Len(h_) = Len(f) + (Len(g) + 1)
    BY <1>1, <1>2, <1>3 DEF IsJoin
<1>6. ASSUME NEW i \in 1..Len(w)
      PROVE  h_[i] = w[i]
    <2>1. CASE i <= Len(f)
        <3>1. i \in 1..Len(f) /\ i \in 1..Len(h)
            BY <1>5, <2>1
        <3> QED
            BY <1>2, <1>3, <1>4, <3>1 DEF IsJoin
    <2>2. CASE i > Len(f) /\ i <= Len(h)
        <3> DEFINE j == i - Len(f)
        <3>1. j \in 1..Len(g) /\ j \in 1..Len(g_) /\ Len(f) + j = i /\ i \in 1..Len(h)
            BY <1>1, <1>5, <2>2
        <3> HIDE DEF j
        <3> QED
            BY <1>1, <1>2, <1>3, <1>4, <3>1 DEF IsJoin
    <2>3. CASE i = Len(h) + 1
        <3>1. Len(g) + 1 \in 1..Len(g_) /\ Len(f) + (Len(g) + 1) = i
            BY <1>1, <1>5, <2>3
        <3> QED
            BY <1>1, <1>3, <1>4, <2>3, <3>1 DEF IsJoin
    <2> QED
        BY <1>4, <1>5, <2>1, <2>2, <2>3
<1>7. h_ = w
    <2>1. /\ w \in Seq(LogOps) /\ h_ \in Seq(LogOps) /\ Len(w) = Len(h_)
          /\ \A i \in 1..Len(w) : h_[i] = w[i]
        BY <1>4, <1>5, <1>6
    <2> QED
        BY <2>1, SameCells, Zenon
<1> QED
    BY <1>7 DEF h, h_, w, g_

-----------------------------------------------------------------------------
(* The store: what the files hold                                          *)

\* The current file alone is as much as a segment takes.
CurrentFull ==
    \/ Len(ReadFrames(current)) >= MaxOpsPerRoom
    \/ Len(current) + Len(FrameOf(writing)) > MaxCellsPerRoom

\* What a step may rely on besides DiskInv.
StoreTyped ==
    /\ recorded \in Seq(LogOps)
    /\ writing \in LogOps \cup {0}
    /\ torn \subseteq {"current", "rotated"}
    /\ step = "down" => count = Uncounted
    /\ step = "rename" => rotated = <<>> /\ "rotated" \notin torn

\* The current file, unless a frame in it was cut short, holds the newest
\* operations, counts[room] is their number whenever it is used (and one more
\* while an operation is being written), and it is full when it is moved aside.
CurrentKept ==
    "current" \notin torn =>
        /\ Clean(current)
        /\ Suffix(ReadFrames(current), recorded)
        /\ step = "idle" /\ count # Uncounted => count = Len(ReadFrames(current))
        /\ step = "write" => count = Len(ReadFrames(current)) + 1
        /\ step \in {"remove", "rename"} => CurrentFull

\* So do the two files together, unless either has such a frame, and those
\* operations are all there were or fill a segment.
AllKept ==
    torn = {} =>
        /\ Clean(rotated)
        /\ Suffix(LoadOps, recorded)
        /\ Len(LoadOps) = Len(recorded) \/ FillsSegment

KeepInv == DiskInv /\ StoreTyped /\ CurrentKept /\ AllKept

\* What a crash leaves: the frame not begun, written whole, or cut short.
LEMMA CrashOutcomes ==
    ASSUME DiskInv, Crash
    PROVE  /\ step' = "down" /\ count' = Uncounted
           /\ rotated' = rotated /\ writing' = writing
           /\ \/ current' = current /\ recorded' = recorded /\ torn' = torn
              \/ /\ step = "write" /\ Written(Len(FrameOf(writing)))
                 /\ torn' = torn
              \/ /\ step = "write" /\ recorded' = recorded
                 /\ torn' = torn \cup {"current"}
                 /\ \E n \in 1..OpSize[writing] :
                        current' = current \o SubSeq(FrameOf(writing), 1, n)
<1>1. CASE step # "write"
    BY <1>1 DEF Crash, CrashAfter
<1>2. CASE step = "write"
    <2>1. PICK n \in 0..Len(FrameOf(writing)) : CrashAfter(n)
        BY <1>2 DEF Crash
    <2>2. /\ step' = "down" /\ count' = Uncounted /\ Written(n)
          /\ rotated' = rotated /\ writing' = writing
          /\ torn' = IF n # 0 /\ n < Len(FrameOf(writing)) THEN torn \cup {"current"}
                                                           ELSE torn
        BY <1>2, <2>1 DEF CrashAfter
    <2>3. /\ writing \in LogOps /\ current \in Seq(Cell)
          /\ FrameOf(writing) \in Seq(Cell)
          /\ Len(FrameOf(writing)) = OpSize[writing] + 1 /\ OpSize[writing] \in Nat \ {0}
        <3>1. writing \in LogOps /\ current \in Seq(Cell)
            BY <1>2 DEF DiskInv
        <3>2. FrameOf(writing) \in Seq(Cell)
            BY <3>1, FrameTyped
        <3>3. Len(FrameOf(writing)) = OpSize[writing] + 1 /\ OpSize[writing] \in Nat \ {0}
            BY <3>1, FrameIs
        <3> QED
            BY <3>1, <3>2, <3>3
    <2>4. CASE n = 0
        <3>1. current' = current \o SubSeq(FrameOf(writing), 1, 0)
            BY <2>2, <2>4 DEF Written
        <3>2. current \o SubSeq(FrameOf(writing), 1, 0) = current
            <4>1. SubSeq(FrameOf(writing), 1, 0) = <<>>
                BY <2>3
            <4>2. current \o <<>> = current
                BY <2>3
            <4> QED
                BY <4>1, <4>2
        <3>3. recorded' = recorded
            BY <2>2, <2>3, <2>4 DEF Written
        <3> QED
            BY <2>2, <2>4, <3>1, <3>2, <3>3
    <2>5. CASE n = Len(FrameOf(writing))
        <3>1. torn' = torn
            BY <2>2, <2>5
        <3> QED
            BY <1>2, <2>2, <2>5, <3>1
    <2>6. CASE n # 0 /\ n # Len(FrameOf(writing))
        <3>1. n \in 1..OpSize[writing] /\ n < Len(FrameOf(writing))
            BY <2>3, <2>6
        <3>2. recorded' = recorded /\ current' = current \o SubSeq(FrameOf(writing), 1, n)
            BY <2>2, <2>6 DEF Written
        <3> QED
            BY <1>2, <2>2, <2>6, <3>1, <3>2
    <2> QED
        BY <2>4, <2>5, <2>6
<1> QED
    BY <1>1, <1>2

\* A frame written whole.
LEMMA WrittenWhole ==
    ASSUME DiskInv, StoreTyped, step = "write", Written(Len(FrameOf(writing)))
    PROVE  /\ current' = current \o FrameOf(writing)
           /\ recorded' = Append(recorded, writing) /\ recorded' \in Seq(LogOps)
           /\ Clean(current) => Clean(current')
           /\ Clean(current) => ReadFrames(current') = Append(ReadFrames(current), writing)
<1>1. writing \in LogOps /\ current \in Seq(Cell) /\ recorded \in Seq(LogOps)
    BY DEF DiskInv, StoreTyped
<1>2. FrameOf(writing) \in Seq(Cell)
    BY <1>1, FrameTyped
<1>3. SubSeq(FrameOf(writing), 1, Len(FrameOf(writing))) = FrameOf(writing)
    BY <1>2
<1>4. current' = current \o FrameOf(writing) /\ recorded' = Append(recorded, writing)
    BY <1>3 DEF Written
<1>5. Append(recorded, writing) \in Seq(LogOps)
    BY <1>1
<1>6. ASSUME Clean(current)
      PROVE  /\ Clean(current')
             /\ ReadFrames(current') = Append(ReadFrames(current), writing)
    BY <1>1, <1>4, <1>6, OneMore
<1> QED
    BY <1>4, <1>5, <1>6

\* The steps keep the types.
LEMMA StoreTypedStep ==
    ASSUME DiskInv, StoreTyped, StoreNext
    PROVE  StoreTyped'
<1>1. ASSUME NEW o \in LogOps, BeginAppend(o) PROVE StoreTyped'
    <2>1. step' \in {"remove", "write"}
        BY <1>1 DEF BeginAppend
    <2> QED
        BY <1>1, <2>1 DEF BeginAppend, StoreTyped
<1>2. CASE RemoveRotated
    BY <1>2 DEF RemoveRotated, StoreTyped
<1>3. CASE RenameCurrent
    BY <1>3 DEF RenameCurrent, StoreTyped
<1>4. CASE WriteFrame
    <2>1. step = "write" /\ Written(Len(FrameOf(writing)))
        BY <1>4 DEF WriteFrame
    <2>2. recorded' \in Seq(LogOps)
        BY <2>1, WrittenWhole
    <2> QED
        BY <1>4, <2>2 DEF WriteFrame, StoreTyped
<1>5. CASE Crash
    <2>1. recorded' \in Seq(LogOps) /\ torn' \subseteq {"current", "rotated"}
        BY <1>5, CrashOutcomes, WrittenWhole DEF StoreTyped
    <2> QED
        BY <1>5, <2>1, CrashOutcomes DEF StoreTyped
<1>6. CASE Reopen
    BY <1>6 DEF Reopen, StoreTyped
<1> QED
    BY <1>1, <1>2, <1>3, <1>4, <1>5, <1>6 DEF StoreNext

\* The steps keep what is claimed of the current file.
LEMMA CurrentKeptStep ==
    ASSUME KeepInv, StoreNext
    PROVE  CurrentKept'
<1> SUFFICES ASSUME "current" \notin torn'
             PROVE  /\ Clean(current')
                    /\ Suffix(ReadFrames(current'), recorded')
                    /\ step' = "idle" /\ count' # Uncounted =>
                            count' = Len(ReadFrames(current'))
                    /\ step' = "write" => count' = Len(ReadFrames(current')) + 1
                    /\ step' \in {"remove", "rename"} => CurrentFull'
    BY DEF CurrentKept
<1> USE DEF KeepInv
<1>0. /\ current \in Seq(Cell) /\ recorded \in Seq(LogOps)
      /\ ReadFrames(current) \in Seq(LogOps) /\ Len(ReadFrames(current)) \in Nat
      /\ Clean(current) => CountFrames(current) = Len(ReadFrames(current))
    <2>1. current \in Seq(Cell) /\ recorded \in Seq(LogOps)
        BY DEF DiskInv, StoreTyped
    <2>2. ReadFrames(current) \in Seq(LogOps)
        BY <2>1, ReadTyped
    <2>3. Clean(current) => CountFrames(current) = Len(ReadFrames(current))
        BY <2>1, ReadTyped
    <2> QED
        BY <2>1, <2>2, <2>3
<1>w. ASSUME "current" \notin torn, step = "write", Written(Len(FrameOf(writing)))
      PROVE  /\ Clean(current') /\ Suffix(ReadFrames(current'), recorded')
             /\ count = Len(ReadFrames(current'))
    <2>1. /\ Clean(current) /\ Suffix(ReadFrames(current), recorded)
          /\ count = Len(ReadFrames(current)) + 1
        BY <1>w DEF CurrentKept
    <2>2. /\ Clean(current') /\ recorded' = Append(recorded, writing)
          /\ ReadFrames(current') = Append(ReadFrames(current), writing)
        BY <1>w, <2>1, WrittenWhole
    <2>3. writing \in LogOps
        BY <1>w DEF DiskInv
    <2>4. Suffix(Append(ReadFrames(current), writing), Append(recorded, writing))
        BY <1>0, <2>1, <2>3, SuffixGrows
    <2>5. Len(Append(ReadFrames(current), writing)) = Len(ReadFrames(current)) + 1
        BY <1>0
    <2> QED
        BY <2>1, <2>2, <2>4, <2>5
<1>1. ASSUME NEW o \in LogOps, BeginAppend(o)
      PROVE  /\ Clean(current') /\ Suffix(ReadFrames(current'), recorded')
             /\ step' # "idle"
             /\ step' = "write" => count' = Len(ReadFrames(current')) + 1
             /\ step' \in {"remove", "rename"} => CurrentFull'
    <2>1. /\ step = "idle" /\ writing' = o /\ current' = current
          /\ recorded' = recorded /\ "current" \notin torn
          /\ step' = IF RotateDue(o) THEN "remove" ELSE "write"
          /\ count' = IF RotateDue(o) THEN 0 ELSE Counted + 1
        BY <1>1 DEF BeginAppend
    <2>2. /\ Clean(current) /\ Suffix(ReadFrames(current), recorded)
          /\ count # Uncounted => count = Len(ReadFrames(current))
        BY <2>1 DEF CurrentKept
    <2>3. Counted = Len(ReadFrames(current))
        BY <1>0, <2>2 DEF Counted
    <2>4. RotateDue(o) => CurrentFull'
        BY <2>1, <2>3 DEF RotateDue, CurrentFull
    <2> QED
        BY <2>1, <2>2, <2>3, <2>4
<1>2. ASSUME RemoveRotated
      PROVE  /\ Clean(current') /\ Suffix(ReadFrames(current'), recorded')
             /\ step' = "rename" /\ CurrentFull'
    <2>1. /\ step = "remove" /\ step' = "rename" /\ writing' = writing
          /\ current' = current /\ recorded' = recorded /\ "current" \notin torn
        BY <1>2 DEF RemoveRotated
    <2>2. Clean(current) /\ Suffix(ReadFrames(current), recorded) /\ CurrentFull
        BY <2>1 DEF CurrentKept
    <2> QED
        BY <2>1, <2>2 DEF CurrentFull
<1>3. ASSUME RenameCurrent
      PROVE  /\ Clean(current') /\ Suffix(ReadFrames(current'), recorded')
             /\ step' = "write" /\ count' = Len(ReadFrames(current')) + 1
    <2>1. current' = <<>> /\ recorded' = recorded /\ step' = "write" /\ count' = 1
        BY <1>3 DEF RenameCurrent
    <2>2. Clean(current') /\ ReadFrames(current') = <<>>
        BY <2>1, NothingHeld
    <2>3. Suffix(<<>>, recorded) /\ Len(<<>>) + 1 = 1
        BY <1>0 DEF Suffix
    <2> QED
        BY <2>1, <2>2, <2>3
<1>4. ASSUME WriteFrame
      PROVE  /\ Clean(current') /\ Suffix(ReadFrames(current'), recorded')
             /\ step' = "idle" /\ count' = Len(ReadFrames(current'))
    <2>1. /\ step = "write" /\ Written(Len(FrameOf(writing))) /\ "current" \notin torn
          /\ step' = "idle" /\ count' = count
        BY <1>4 DEF WriteFrame
    <2> QED
        BY <1>w, <2>1
<1>5. ASSUME Crash
      PROVE  /\ Clean(current') /\ Suffix(ReadFrames(current'), recorded')
             /\ step' = "down"
    <2>1. CASE current' = current /\ recorded' = recorded /\ torn' = torn
        BY <1>5, <2>1, CrashOutcomes DEF CurrentKept
    <2>2. CASE step = "write" /\ Written(Len(FrameOf(writing))) /\ torn' = torn
        BY <1>5, <1>w, <2>2, CrashOutcomes
    <2> QED
        BY <1>5, <2>1, <2>2, CrashOutcomes
<1>6. ASSUME Reopen
      PROVE  /\ Clean(current') /\ Suffix(ReadFrames(current'), recorded')
             /\ step' = "idle" /\ count' = Uncounted
    BY <1>6 DEF Reopen, CurrentKept, StoreTyped
<1> QED
    BY <1>1, <1>2, <1>3, <1>4, <1>5, <1>6 DEF StoreNext

\* Both readings, one after the other.
LEMMA LoadTyped ==
    ASSUME DiskInv
    PROVE  /\ ReadFrames(rotated) \in Seq(LogOps) /\ ReadFrames(current) \in Seq(LogOps)
           /\ LoadOps \in Seq(LogOps) /\ Len(LoadOps) \in Nat
<1>1. ReadFrames(rotated) \in Seq(LogOps) /\ ReadFrames(current) \in Seq(LogOps)
    BY ReadTyped DEF DiskInv
<1>2. \A f, g \in Seq(LogOps) : f \o g \in Seq(LogOps) /\ Len(f \o g) \in Nat
    OBVIOUS
<1> QED
    BY <1>1, <1>2 DEF LoadOps

\* The steps keep what is claimed of both files.
LEMMA AllKeptStep ==
    ASSUME KeepInv, StoreNext
    PROVE  AllKept'
<1> SUFFICES ASSUME torn' = {}
             PROVE  /\ Clean(rotated') /\ Suffix(LoadOps', recorded')
                    /\ Len(LoadOps') = Len(recorded') \/ FillsSegment'
    BY DEF AllKept
<1> USE DEF KeepInv
<1> DEFINE old == ReadFrames(rotated)
           new == ReadFrames(current)
<1>0. /\ current \in Seq(Cell) /\ rotated \in Seq(Cell) /\ recorded \in Seq(LogOps)
      /\ old \in Seq(LogOps) /\ new \in Seq(LogOps) /\ LoadOps \in Seq(LogOps)
      /\ LoadOps = old \o new
    BY LoadTyped DEF DiskInv, StoreTyped, LoadOps
<1>e. <<>> \o new = new /\ new \o <<>> = new
    <2> HIDE DEF new
    <2> QED
        BY <1>0
<1> HIDE DEF old, new
<1>v. /\ \A o \in LogOps : o <= writing => o <= writing'
      /\ writing \in LogOps => writing <= writing'
    <2>1. /\ writing \in Int /\ \A o \in LogOps : o \in Int
          /\ writing' = writing \/ (writing' \in LogOps /\ writing' > writing)
        BY StoreAssumption DEF StoreTyped, StoreNext, BeginAppend, RemoveRotated,
            RenameCurrent, WriteFrame, Crash, CrashAfter, Reopen
    <2> QED
        BY <2>1
<1>u. ASSUME torn = {}, current' = current, rotated' = rotated, recorded' = recorded
      PROVE  /\ Clean(rotated') /\ Suffix(LoadOps', recorded')
             /\ Len(LoadOps') = Len(recorded') \/ FillsSegment'
    <2>1. LoadOps' = LoadOps
        BY <1>u DEF LoadOps
    <2>2. FillsSegment => FillsSegment'
        BY <1>u, <1>v, <2>1 DEF FillsSegment
    <2> QED
        BY <1>u, <2>1, <2>2 DEF AllKept
<1>w. ASSUME torn = {}, step = "write", Written(Len(FrameOf(writing))), rotated' = rotated
      PROVE  /\ Clean(rotated') /\ Suffix(LoadOps', recorded')
             /\ Len(LoadOps') = Len(recorded') \/ FillsSegment'
    <2>1. Clean(current) /\ writing \in LogOps
        BY <1>w DEF CurrentKept, DiskInv
    <2>2. /\ current' = current \o FrameOf(writing)
          /\ recorded' = Append(recorded, writing)
          /\ ReadFrames(current') = Append(new, writing)
        BY <1>w, <2>1, WrittenWhole DEF new
    <2>3. LoadOps' = Append(LoadOps, writing)
        <3>1. LoadOps' = old \o Append(new, writing)
            BY <1>w, <2>2 DEF LoadOps, old
        <3>2. old \o Append(new, writing) = Append(old \o new, writing)
            BY <1>0, <2>1, AppendLast
        <3> QED
            BY <1>0, <3>1, <3>2
    <2>4. /\ Clean(rotated) /\ Suffix(LoadOps, recorded)
          /\ Len(LoadOps) = Len(recorded) \/ FillsSegment
        BY <1>w DEF AllKept
    <2>5. Suffix(LoadOps', recorded')
        BY <1>0, <2>1, <2>2, <2>3, <2>4, SuffixGrows
    <2>6. /\ Len(LoadOps') = Len(LoadOps) + 1 /\ Len(recorded') = Len(recorded) + 1
          /\ Len(LoadOps) \in Nat
        BY <1>0, <2>1, <2>2, <2>3
    <2>7. Len(current') \in Nat /\ Len(current) \in Nat /\ Len(current) <= Len(current')
        <3>1. FrameOf(writing) \in Seq(Cell)
            BY <2>1, FrameTyped
        <3>2. \A f, g \in Seq(Cell) : /\ Len(f \o g) \in Nat /\ Len(f) \in Nat
                                      /\ Len(f) <= Len(f \o g)
            OBVIOUS
        <3> QED
            BY <1>0, <2>2, <3>1, <3>2
    <2>8. FillsSegment => FillsSegment'
        <3>1. CASE Len(LoadOps) >= MaxOpsPerRoom
            BY <2>6, <3>1, StoreAssumption DEF FillsSegment
        <3>2. ASSUME NEW o \in LogOps, o <= writing,
                     Len(rotated) + Len(current) + Len(FrameOf(o)) > MaxCellsPerRoom
              PROVE  FillsSegment'
            <4>1. Len(FrameOf(o)) \in Nat /\ Len(rotated) \in Nat /\ MaxCellsPerRoom \in Nat
                <5>1. FrameOf(o) \in Seq(Cell)
                    BY FrameTyped
                <5> QED
                    BY <1>0, <5>1, StoreAssumption
            <4>2. Len(rotated) + Len(current') + Len(FrameOf(o)) > MaxCellsPerRoom
                BY <2>7, <3>2, <4>1
            <4>3. Len(rotated') + Len(current') + Len(FrameOf(o)) > MaxCellsPerRoom
                BY <1>w, <4>2
            <4> QED
                BY <1>v, <3>2, <4>3 DEF FillsSegment
        <3> QED
            BY <3>1, <3>2 DEF FillsSegment
    <2> QED
        BY <1>w, <2>4, <2>5, <2>6, <2>8
<1>1. ASSUME NEW o \in LogOps, BeginAppend(o)
      PROVE  /\ torn = {} /\ current' = current /\ rotated' = rotated
             /\ recorded' = recorded
    BY <1>1 DEF BeginAppend
<1>2. ASSUME RemoveRotated
      PROVE  /\ Clean(rotated') /\ Suffix(LoadOps', recorded')
             /\ Len(LoadOps') = Len(recorded') \/ FillsSegment'
    <2>1. /\ step = "remove" /\ rotated' = <<>> /\ current' = current
          /\ recorded' = recorded /\ "current" \notin torn
        BY <1>2 DEF RemoveRotated
    <2>2. Suffix(new, recorded) /\ CurrentFull /\ writing \in LogOps
        BY <2>1 DEF CurrentKept, DiskInv, new
    <2>3. Clean(rotated') /\ LoadOps' = new
        <3>1. ReadFrames(rotated') = <<>> /\ Clean(rotated')
            BY <2>1, NothingHeld
        <3>2. LoadOps' = <<>> \o new
            BY <2>1, <3>1 DEF LoadOps, new
        <3> QED
            BY <1>e, <3>1, <3>2
    <2>4. FillsSegment'
        <3>1. CASE Len(new) >= MaxOpsPerRoom
            BY <2>3, <3>1 DEF FillsSegment
        <3>2. CASE Len(current) + Len(FrameOf(writing)) > MaxCellsPerRoom
            <4>1. Len(<<>>) + Len(current) = Len(current)
                BY <1>0
            <4>2. Len(rotated') + Len(current') + Len(FrameOf(writing)) > MaxCellsPerRoom
                BY <2>1, <3>2, <4>1
            <4> QED
                BY <1>v, <2>2, <4>2 DEF FillsSegment
        <3> QED
            BY <2>2, <3>1, <3>2 DEF CurrentFull, new
    <2> QED
        BY <2>1, <2>2, <2>3, <2>4
<1>3. ASSUME RenameCurrent
      PROVE  /\ Clean(rotated') /\ Suffix(LoadOps', recorded')
             /\ Len(LoadOps') = Len(recorded') \/ FillsSegment'
    <2>1. /\ step = "rename" /\ rotated' = current /\ current' = <<>>
          /\ recorded' = recorded
          /\ torn' = IF "current" \in torn THEN {"rotated"} ELSE {}
        BY <1>3 DEF RenameCurrent
    <2>2. "current" \notin torn
        BY <2>1
    <2>3. rotated = <<>> /\ torn = {}
        BY <2>1, <2>2 DEF StoreTyped
    <2>4. Clean(current) /\ new = ReadFrames(rotated')
        BY <2>1, <2>2 DEF CurrentKept, new
    <2>5. LoadOps = new
        <3>1. old = <<>>
            BY <2>3, NothingHeld DEF old
        <3> QED
            BY <1>0, <1>e, <3>1
    <2>6. LoadOps' = LoadOps
        <3>1. ReadFrames(current') = <<>>
            BY <2>1, NothingHeld
        <3>2. LoadOps' = new \o <<>>
            BY <2>4, <3>1 DEF LoadOps
        <3> QED
            BY <1>e, <2>5, <3>2
    <2>7. FillsSegment => FillsSegment'
        <3>1. Len(rotated') + Len(current') = Len(rotated) + Len(current)
            <4>1. Len(current) + Len(<<>>) = Len(<<>>) + Len(current)
                BY <1>0
            <4> QED
                BY <2>1, <2>3, <4>1
        <3> QED
            BY <1>v, <2>6, <3>1 DEF FillsSegment
    <2> QED
        BY <2>1, <2>3, <2>4, <2>6, <2>7 DEF AllKept
<1>4. ASSUME WriteFrame
      PROVE  /\ torn = {} /\ step = "write" /\ Written(Len(FrameOf(writing)))
             /\ rotated' = rotated
    BY <1>4 DEF WriteFrame
<1>5. ASSUME Crash
      PROVE  /\ Clean(rotated') /\ Suffix(LoadOps', recorded')
             /\ Len(LoadOps') = Len(recorded') \/ FillsSegment'
    <2>1. rotated' = rotated
        BY <1>5, CrashOutcomes
    <2>2. CASE current' = current /\ recorded' = recorded /\ torn' = torn
        BY <1>u, <2>1, <2>2
    <2>3. CASE step = "write" /\ Written(Len(FrameOf(writing))) /\ torn' = torn
        BY <1>w, <2>1, <2>3
    <2> QED
        BY <1>5, <2>2, <2>3, CrashOutcomes
<1>6. ASSUME Reopen
      PROVE  /\ torn = {} /\ current' = current /\ rotated' = rotated
             /\ recorded' = recorded
    BY <1>6 DEF Reopen
<1> QED
    BY <1>1, <1>2, <1>3, <1>4, <1>5, <1>6, <1>u, <1>w DEF StoreNext

\* At first there are no files.
LEMMA KeepStarts == StoreInit => KeepInv
<1> SUFFICES ASSUME StoreInit PROVE KeepInv
    OBVIOUS
<1>1. /\ current = <<>> /\ rotated = <<>> /\ recorded = <<>> /\ step = "idle"
      /\ count = Uncounted /\ torn = {} /\ writing = 0
    BY DEF StoreInit
<1>2. /\ Clean(<<>>) /\ ReadFrames(<<>>) = <<>> /\ <<>> \in Seq(LogOps)
      /\ Suffix(<<>>, <<>>) /\ <<>> \o <<>> = <<>>
    BY NothingHeld DEF Suffix
<1>3. LoadOps = <<>>
    BY <1>1, <1>2 DEF LoadOps
<1>4. StoreTyped
    BY <1>1, <1>2 DEF StoreTyped
<1>5. CurrentKept
    BY <1>1, <1>2 DEF CurrentKept
<1>6. AllKept
    BY <1>1, <1>2, <1>3 DEF AllKept
<1> QED
    BY <1>4, <1>5, <1>6, DiskStarts DEF KeepInv

\* Every step keeps all of it.
LEMMA KeepStep ==
    ASSUME KeepInv, StoreNext
    PROVE  KeepInv'
<1>1. DiskInv /\ StoreTyped
    BY DEF KeepInv
<1>2. DiskInv' /\ StoreTyped'
    BY <1>1, DiskStep, StoreTypedStep
<1>3. CurrentKept'
    BY CurrentKeptStep
<1>4. AllKept'
    BY AllKeptStep
<1> QED
    BY <1>2, <1>3, <1>4 DEF KeepInv

\* So does a step of something else.
LEMMA KeepStutters ==
    ASSUME KeepInv, UNCHANGED storeVars
    PROVE  KeepInv'
<1>1. /\ current' = current /\ rotated' = rotated /\ count' = count /\ step' = step
      /\ writing' = writing /\ recorded' = recorded /\ torn' = torn
    BY DEF storeVars
<1>2. DiskInv'
    BY DiskStutters DEF KeepInv
<1>3. LoadOps' = LoadOps
    BY <1>1 DEF LoadOps
<1>4. FillsSegment' = FillsSegment /\ CurrentFull' = CurrentFull
    BY <1>1, <1>3 DEF FillsSegment, CurrentFull
<1>5. StoreTyped'
    BY <1>1 DEF KeepInv, StoreTyped
<1>6. CurrentKept'
    BY <1>1, <1>4 DEF KeepInv, CurrentKept
<1>7. AllKept'
    BY <1>1, <1>3, <1>4 DEF KeepInv, AllKept
<1> QED
    BY <1>2, <1>5, <1>6, <1>7 DEF KeepInv

\* A sequence with the length of one it is the end of is that one.
LEMMA SuffixIs ==
    ASSUME NEW end \in Seq(LogOps), NEW all \in Seq(LogOps), Suffix(end, all)
    PROVE  /\ end = SubSeq(all, Len(all) - Len(end) + 1, Len(all))
           /\ Len(end) = Len(all) => end = all
<1> DEFINE m == Len(all) - Len(end)
           cut == SubSeq(all, m + 1, Len(all))
<1>1. m \in 0..Len(all) /\ Len(all) \in Nat /\ Len(end) = Len(all) - m
    BY DEF Suffix
<1> HIDE DEF m
<1>2. \A i \in 1..Len(end) : all[m + i] = end[i]
    BY DEF Suffix, m
<1>3. /\ cut \in Seq(LogOps) /\ Len(cut) = Len(all) - m
      /\ \A i \in 1..Len(all) - m : cut[i] = all[m + i]
    BY <1>1
<1> HIDE DEF cut
<1>4. end = cut
    <2>1. Len(cut) = Len(end) /\ \A i \in 1..Len(cut) : end[i] = cut[i]
        BY <1>1, <1>2, <1>3
    <2> QED
        BY <1>3, <2>1, SameCells, Zenon
<1>5. Len(end) = Len(all) => end = all
    <2> SUFFICES ASSUME Len(end) = Len(all) PROVE end = all
        OBVIOUS
    <2>1. m = 0
        BY <1>1
    <2>2. \A i \in 1..Len(all) : end[i] = all[i]
        <3> TAKE i \in 1..Len(all)
        <3>1. m + i = i
            BY <1>1, <2>1
        <3> QED
            BY <1>2, <3>1
    <2> QED
        BY <2>2, SameCells, Zenon
<1> QED
    BY <1>4, <1>5 DEF cut, m

-----------------------------------------------------------------------------
(* The store: in which order                                               *)

\* Operations one after the other as they were offered.
Increasing(ops) == \A i, j \in 1..Len(ops) : i < j => ops[i] < ops[j]

\* The i-th cell is where the encoding of o ends.
EndsAt(file, o, i) == file[i] = [op |-> o, n |-> OpSize[o]]

\* Encodings end in that order, and those that do were recorded.
EndsInOrder(file) ==
    \A i, j \in 1..Len(file), o, p \in LogOps :
        EndsAt(file, o, i) /\ EndsAt(file, p, j) /\ i < j => o < p
EndsRecorded(file, ops) ==
    \A i \in 1..Len(file), o \in LogOps :
        EndsAt(file, o, i) => \E k \in 1..Len(ops) : ops[k] = o

\* Whatever a file holds, what is read at a cell is decoded from cells behind
\* it.
ReadInOrder(file, k, ops) ==
    /\ Increasing(ops)
    /\ \A i \in 1..Len(ops) : \E q \in k..Len(file) : EndsAt(file, ops[i], q)

LEMMA ReadOrdered ==
    ASSUME NEW file \in Seq(Cell), EndsInOrder(file)
    PROVE  ReadInOrder(file, 1, ReadFrames(file))
<1> DEFINE n == Len(file)
           read == ReadFrom(file)
           Right(k) == ReadInOrder(file, k, read[k])
           Bad == {d \in 0..n : ~Right(n + 1 - d)}
<1>0. n \in Nat
    OBVIOUS
<1>1. /\ read \in [1..n + 1 -> Seq(LogOps)]
      /\ \A k \in 1..n + 1 :
            /\ IsWhole(file, k) => read[k] =
                    Decode(FrameCells(file, k)) \o read[FrameEnd(file, k) + 1]
            /\ ~IsWhole(file, k) => read[k] = <<>>
    BY ReadFromIs
<1> HIDE DEF read
<1>2. ASSUME NEW k \in 1..n + 1,
             IsWhole(file, k) => /\ FrameEnd(file, k) + 1 \in 1..n + 1
                                 /\ Right(FrameEnd(file, k) + 1)
      PROVE  Right(k)
    <2>1. CASE ~IsWhole(file, k)
        <3>1. read[k] = <<>>
            BY <1>1, <2>1
        <3> QED
            BY <3>1 DEF ReadInOrder, Increasing
    <2>2. CASE IsWhole(file, k)
        <3> DEFINE e == FrameEnd(file, k)
                   cells == FrameCells(file, k)
                   rest == read[e + 1]
        <3>1. k \in 1..n /\ e \in Nat /\ k <= e /\ e <= n
            <4>1. k \in 1..n
                BY <2>2 DEF IsWhole
            <4> QED
                BY <2>2, <4>1, LengthTyped DEF IsWhole
        <3>2. /\ cells \in Seq(Cell) /\ Len(cells) = e - k
              /\ \A i \in 1..(e - k) : cells[i] = file[k + i]
            BY <2>2, <3>1, FrameCellsTyped
        <3>3. /\ Decode(cells) \in Seq(LogOps)
              /\ Decode(cells) # <<>> =>
                    \E o \in LogOps : Decode(cells) = <<o>> /\ cells = Tail(FrameOf(o))
            BY <3>2, DecodeTyped
        <3>4. e + 1 \in 1..n + 1 /\ Right(e + 1) /\ rest \in Seq(LogOps)
            BY <1>1, <1>2, <2>2
        <3>5. read[k] = Decode(cells) \o rest
            BY <1>1, <2>2
        <3> HIDE DEF e, cells, rest
        <3>r. ReadInOrder(file, e + 1, rest)
            BY <3>4 DEF rest
        <3>6. CASE Decode(cells) = <<>>
            <4>1. read[k] = rest
                BY <3>4, <3>5, <3>6
            <4>2. \A q \in (e + 1)..n : q \in k..n
                BY <1>0, <3>1
            <4> QED
                BY <3>r, <4>1, <4>2 DEF ReadInOrder
        <3>7. CASE Decode(cells) # <<>>
            <4>1. PICK o \in LogOps : Decode(cells) = <<o>> /\ cells = Tail(FrameOf(o))
                BY <3>3, <3>7
            <4>2. /\ OpSize[o] \in Nat \ {0}
                  /\ cells = [i \in 1..OpSize[o] |-> [op |-> o, n |-> i]]
                BY <4>1, FrameIs
            <4>3. OpSize[o] = e - k
                <5>1. Len([i \in 1..OpSize[o] |-> [op |-> o, n |-> i]]) = OpSize[o]
                    BY <4>2
                <5> QED
                    BY <3>2, <4>2, <5>1
            <4>4. EndsAt(file, o, e)
                <5>1. OpSize[o] \in 1..(e - k) /\ k + OpSize[o] = e
                    BY <3>1, <4>2, <4>3
                <5>2. cells[OpSize[o]] = [op |-> o, n |-> OpSize[o]]
                    BY <4>2
                <5> QED
                    BY <3>2, <5>1, <5>2 DEF EndsAt
            <4> DEFINE first == <<o>>
                       all == first \o rest
            <4>5. first \in Seq(LogOps) /\ Len(first) = 1 /\ first[1] = o
                OBVIOUS
            <4> HIDE DEF first
            <4>6. IsJoin(all, LogOps, first, rest)
                BY <3>4, <4>5, Appended, Zenon
            <4>7. read[k] = all
                BY <3>5, <4>1 DEF first
            <4> HIDE DEF all
            <4>8. /\ Len(all) = 1 + Len(rest) /\ Len(rest) \in Nat /\ all[1] = o
                  /\ \A i \in 1..Len(rest) : all[1 + i] = rest[i]
                BY <4>5, <4>6 DEF IsJoin
            <4>9. ASSUME NEW i \in 1..Len(all), i # 1
                  PROVE  /\ i - 1 \in 1..Len(rest) /\ all[i] = rest[i - 1]
                         /\ rest[i - 1] \in LogOps
                         /\ \E q \in (e + 1)..n : EndsAt(file, all[i], q)
                <5>1. i - 1 \in 1..Len(rest) /\ 1 + (i - 1) = i
                    BY <4>8, <4>9
                <5>2. all[i] = rest[i - 1]
                    BY <4>8, <5>1
                <5>3. rest[i - 1] \in LogOps
                    BY <3>4, <5>1
                <5>4. \E q \in (e + 1)..n : EndsAt(file, rest[i - 1], q)
                    BY <3>r, <5>1 DEF ReadInOrder
                <5> QED
                    BY <5>1, <5>2, <5>3, <5>4
            <4>10. ASSUME NEW i \in 1..Len(all)
                   PROVE  \E q \in k..n : EndsAt(file, all[i], q)
                <5>1. CASE i = 1
                    <6>1. e \in k..n
                        BY <1>0, <3>1
                    <6> QED
                        BY <4>4, <4>8, <5>1, <6>1
                <5>2. CASE i # 1
                    <6>1. PICK q \in (e + 1)..n : EndsAt(file, all[i], q)
                        BY <4>9, <5>2
                    <6>2. q \in k..n
                        BY <1>0, <3>1
                    <6> QED
                        BY <6>1, <6>2
                <5> QED
                    BY <5>1, <5>2
            <4>11. ASSUME NEW i \in 1..Len(all), NEW j \in 1..Len(all), i < j
                   PROVE  all[i] < all[j]
                <5>1. j # 1
                    BY <4>8, <4>11
                <5>2. CASE i = 1
                    <6>1. PICK q \in (e + 1)..n : EndsAt(file, all[j], q)
                        BY <4>9, <5>1
                    <6>2. q \in 1..n /\ e \in 1..n /\ e < q
                        BY <1>0, <3>1
                    <6>3. all[j] \in LogOps
                        BY <4>9, <5>1
                    <6>4. o < all[j]
                        BY <4>4, <6>1, <6>2, <6>3 DEF EndsInOrder
                    <6> QED
                        BY <4>8, <5>2, <6>4
                <5>3. CASE i # 1
                    <6>1. /\ i - 1 \in 1..Len(rest) /\ all[i] = rest[i - 1]
                          /\ j - 1 \in 1..Len(rest) /\ all[j] = rest[j - 1]
                        BY <4>9, <5>1, <5>3
                    <6>2. i - 1 < j - 1
                        BY <4>8, <4>11
                    <6>3. Increasing(rest)
                        BY <3>r DEF ReadInOrder
                    <6> QED
                        BY <6>1, <6>2, <6>3 DEF Increasing
                <5> QED
                    BY <5>2, <5>3
            <4>12. ReadInOrder(file, k, all)
                BY <4>10, <4>11 DEF ReadInOrder, Increasing
            <4> QED
                BY <4>7, <4>12
        <3> QED
            BY <3>6, <3>7
    <2> QED
        BY <2>1, <2>2
<1> HIDE DEF Right
<1>3. Bad = {}
    <2>1. ASSUME NEW d \in Bad
          PROVE  \E j \in Bad : j < d
        <3> DEFINE k == n + 1 - d
                   e == FrameEnd(file, k)
        <3>1. d \in 0..n /\ k \in 1..n + 1 /\ ~Right(k)
            OBVIOUS
        <3> HIDE DEF k
        <3>2. IsWhole(file, k) /\ ~(e + 1 \in 1..n + 1 /\ Right(e + 1))
            BY <1>2, <3>1
        <3>3. k \in 1..n /\ e \in Nat /\ k <= e /\ e <= n
            <4>1. k \in 1..n
                BY <3>1, <3>2 DEF IsWhole
            <4> QED
                BY <3>2, <4>1, LengthTyped DEF IsWhole
        <3> HIDE DEF e
        <3>4. ~Right(e + 1)
            BY <1>0, <3>2, <3>3
        <3> DEFINE j == n - e
        <3>5. j \in 0..n /\ j < d /\ n + 1 - j = e + 1
            BY <1>0, <3>1, <3>3 DEF k
        <3> HIDE DEF j
        <3>6. j \in Bad
            BY <3>4, <3>5
        <3> QED
            BY <3>5, <3>6
    <2>2. Bad \subseteq Nat
        OBVIOUS
    <2> HIDE DEF Bad
    <2> QED
        BY <2>1, <2>2, NoSmallest
<1>4. Right(1)
    <2>1. n \in 0..n /\ n + 1 - n = 1
        BY <1>0
    <2> QED
        BY <1>3, <2>1
<1> QED
    BY <1>4 DEF Right, read, ReadFrames

\* What ends in one file was offered before what ends in the other.
EndsBefore(file, later) ==
    \A i \in 1..Len(file), j \in 1..Len(later), o, p \in LogOps :
        EndsAt(file, o, i) /\ EndsAt(later, p, j) => o < p

\* The files hold, and were recorded to hold, operations in the order they were
\* offered in; one that is being written is later than all of them.
OrderInv ==
    /\ Increasing(recorded)
    /\ \A i \in 1..Len(recorded) :
            /\ recorded[i] <= writing
            /\ step \in {"remove", "rename", "write"} => recorded[i] < writing
    /\ EndsInOrder(rotated) /\ EndsInOrder(current) /\ EndsBefore(rotated, current)
    /\ EndsRecorded(rotated, recorded) /\ EndsRecorded(current, recorded)

\* Of a frame of which n cells are written, only the last one ends an encoding,
\* its own.
EndsWith(more, file, w, n) ==
    \A i \in 1..Len(more), p \in LogOps : EndsAt(more, p, i) =>
        \/ i \in 1..Len(file) /\ EndsAt(file, p, i)
        \/ i = Len(more) /\ p = w /\ n = OpSize[w] + 1

LEMMA WrittenEnds ==
    ASSUME NEW file \in Seq(Cell), NEW w \in LogOps, NEW n \in 1..OpSize[w] + 1
    PROVE  EndsWith(file \o SubSeq(FrameOf(w), 1, n), file, w, n)
<1> DEFINE more == file \o SubSeq(FrameOf(w), 1, n)
<1> SUFFICES ASSUME NEW i \in 1..Len(more), NEW p \in LogOps, EndsAt(more, p, i)
             PROVE  \/ i \in 1..Len(file) /\ EndsAt(file, p, i)
                    \/ i = Len(more) /\ p = w /\ n = OpSize[w] + 1
    BY DEF EndsWith
<1> DEFINE frame_ == FrameOf(w)
           begun == SubSeq(frame_, 1, n)
<1>1. /\ frame_ \in Seq(Cell) /\ OpSize[w] \in Nat \ {0} /\ Len(frame_) = OpSize[w] + 1
      /\ frame_[1].op = 0
      /\ \A d \in 1..OpSize[w] : frame_[d + 1] = [op |-> w, n |-> d]
    <2>1. frame_ \in Seq(Cell)
        BY FrameTyped
    <2>2. /\ OpSize[w] \in Nat \ {0} /\ Len(frame_) = OpSize[w] + 1
          /\ frame_[1] = [op |-> 0, n |-> OpSize[w]]
          /\ \A d \in 1..OpSize[w] : frame_[d + 1] = [op |-> w, n |-> d]
        BY FrameIs
    <2> QED
        BY <2>1, <2>2
<1> HIDE DEF frame_
<1>2. /\ begun \in Seq(Cell) /\ Len(begun) = n
      /\ \A d \in 1..n : begun[d] = frame_[d]
    BY <1>1
<1>3. more = file \o begun
    BY DEF begun, frame_, more
<1> HIDE DEF begun, more
<1>4. IsJoin(more, Cell, file, begun)
    BY <1>2, <1>3, Appended, Zenon
<1>5. /\ more \in Seq(Cell) /\ Len(more) = Len(file) + n /\ Len(file) \in Nat
      /\ \A d \in 1..Len(file) : more[d] = file[d]
      /\ \A d \in 1..n : more[Len(file) + d] = frame_[d]
    BY <1>2, <1>4 DEF IsJoin
<1>6. CASE i \in 1..Len(file)
    BY <1>5, <1>6 DEF EndsAt
<1>7. CASE i \notin 1..Len(file)
    <2> DEFINE d == i - Len(file)
    <2>1. d \in 1..n /\ Len(file) + d = i
        BY <1>1, <1>5, <1>7
    <2> HIDE DEF d
    <2>2. frame_[d] = [op |-> p, n |-> OpSize[p]]
        BY <1>5, <2>1 DEF EndsAt
    <2>3. d # 1
        BY <1>1, <2>2, StoreAssumption
    <2>i. n \in Nat /\ n <= OpSize[w] + 1
        BY <1>1
    <2>4. d - 1 \in 1..OpSize[w] /\ (d - 1) + 1 = d
        BY <1>1, <2>1, <2>3, <2>i
    <2>5. [op |-> p, n |-> OpSize[p]] = [op |-> w, n |-> d - 1]
        BY <1>1, <2>2, <2>4
    <2>6. p = w /\ d - 1 = OpSize[w]
        BY <2>5
    <2>7. i = Len(more) /\ n = OpSize[w] + 1
        BY <1>1, <1>5, <2>1, <2>4, <2>6, <2>i
    <2> QED
        BY <1>5, <2>6, <2>7
<1> QED
    BY <1>6, <1>7

\* What was recorded stays recorded.
LEMMA RecordedStays ==
    ASSUME NEW file, NEW ops \in Seq(LogOps), NEW o \in LogOps, EndsRecorded(file, ops)
    PROVE  EndsRecorded(file, Append(ops, o))
<1>1. /\ Len(Append(ops, o)) = Len(ops) + 1 /\ Len(ops) \in Nat
      /\ \A k \in 1..Len(ops) : Append(ops, o)[k] = ops[k]
    OBVIOUS
<1>2. \A k \in 1..Len(ops) : k \in 1..Len(Append(ops, o))
    BY <1>1
<1> QED
    BY <1>1, <1>2 DEF EndsRecorded

\* Every step keeps the order.
LEMMA OrderStep ==
    ASSUME DiskInv, StoreTyped, OrderInv, StoreNext
    PROVE  OrderInv'
<1>0. /\ current \in Seq(Cell) /\ rotated \in Seq(Cell) /\ recorded \in Seq(LogOps)
      /\ LogOps \subseteq Nat /\ writing \in LogOps \cup {0}
      /\ \A i \in 1..Len(recorded) : recorded[i] \in LogOps
    <2>1. /\ current \in Seq(Cell) /\ rotated \in Seq(Cell) /\ recorded \in Seq(LogOps)
          /\ LogOps \subseteq Nat /\ writing \in LogOps \cup {0}
        BY StoreAssumption DEF DiskInv, StoreTyped
    <2>2. \A i \in 1..Len(recorded) : recorded[i] \in LogOps
        BY <2>1
    <2> QED
        BY <2>1, <2>2
<1>n. /\ EndsInOrder(<<>>) /\ EndsRecorded(<<>>, recorded)
      /\ EndsBefore(<<>>, current) /\ EndsBefore(current, <<>>)
    BY DEF EndsInOrder, EndsRecorded, EndsBefore
<1>w. ASSUME step = "write", Written(Len(FrameOf(writing))), rotated' = rotated,
             writing' = writing, step' \in {"idle", "down"}
      PROVE  OrderInv'
    <2> DEFINE len == Len(current')
    <2>1. /\ writing \in LogOps /\ OpSize[writing] \in Nat \ {0}
          /\ Len(FrameOf(writing)) = OpSize[writing] + 1
        <3>1. writing \in LogOps
            BY <1>w DEF DiskInv
        <3> QED
            BY <3>1, FrameIs
    <2>2. /\ recorded' = Append(recorded, writing)
          /\ current' = current \o SubSeq(FrameOf(writing), 1, OpSize[writing] + 1)
        BY <1>w, <2>1 DEF Written
    <2>3. /\ Len(recorded') = Len(recorded) + 1 /\ Len(recorded) \in Nat
          /\ recorded'[Len(recorded) + 1] = writing
          /\ \A i \in 1..Len(recorded) : recorded'[i] = recorded[i]
        BY <1>0, <2>1, <2>2
    <2>4. ASSUME NEW i \in 1..len, NEW p \in LogOps, EndsAt(current', p, i)
          PROVE  \/ i \in 1..Len(current) /\ EndsAt(current, p, i)
                 \/ i = len /\ p = writing
        <3>1. OpSize[writing] + 1 \in 1..OpSize[writing] + 1
            BY <2>1
        <3>2. EndsWith(current \o SubSeq(FrameOf(writing), 1, OpSize[writing] + 1),
                       current, writing, OpSize[writing] + 1)
            BY <1>0, <2>1, <3>1, WrittenEnds, Zenon
        <3> QED
            BY <2>2, <2>4, <3>2 DEF EndsWith
    <2>5. ASSUME NEW i \in 1..Len(current), NEW p \in LogOps, EndsAt(current, p, i)
          PROVE  p < writing
        BY <1>w, <2>5 DEF OrderInv, EndsRecorded
    <2>6. ASSUME NEW i \in 1..Len(rotated), NEW p \in LogOps, EndsAt(rotated, p, i)
          PROVE  p < writing
        BY <1>w, <2>6 DEF OrderInv, EndsRecorded
    <2>7. Increasing(recorded')
        <3> SUFFICES ASSUME NEW i \in 1..Len(recorded'), NEW j \in 1..Len(recorded'), i < j
                     PROVE  recorded'[i] < recorded'[j]
            BY DEF Increasing
        <3>1. i \in 1..Len(recorded)
            BY <2>3
        <3>2. CASE j = Len(recorded) + 1
            <4>1. recorded[i] < writing
                BY <1>w, <3>1 DEF OrderInv
            <4> QED
                BY <2>3, <3>1, <3>2, <4>1
        <3>3. CASE j # Len(recorded) + 1
            <4>1. j \in 1..Len(recorded)
                BY <2>3, <3>3
            <4> QED
                BY <2>3, <3>1, <4>1 DEF OrderInv, Increasing
        <3> QED
            BY <3>2, <3>3
    <2>8. \A i \in 1..Len(recorded') : recorded'[i] <= writing'
        <3> TAKE i \in 1..Len(recorded')
        <3>1. CASE i = Len(recorded) + 1
            BY <1>0, <1>w, <2>1, <2>3, <3>1
        <3>2. CASE i # Len(recorded) + 1
            <4>1. i \in 1..Len(recorded)
                BY <2>3, <3>2
            <4> QED
                BY <1>w, <2>3, <4>1 DEF OrderInv
        <3> QED
            BY <3>1, <3>2
    <2>9. EndsInOrder(current')
        <3> SUFFICES ASSUME NEW i \in 1..len, NEW j \in 1..len,
                            NEW o \in LogOps, NEW p \in LogOps,
                            EndsAt(current', o, i), EndsAt(current', p, j), i < j
                     PROVE  o < p
            BY DEF EndsInOrder
        <3>1. i # len
            OBVIOUS
        <3>2. i \in 1..Len(current) /\ EndsAt(current, o, i)
            BY <2>4, <3>1
        <3>3. CASE j = len /\ p = writing
            BY <2>5, <3>2, <3>3
        <3>4. CASE j \in 1..Len(current) /\ EndsAt(current, p, j)
            BY <3>2, <3>4 DEF OrderInv, EndsInOrder
        <3> QED
            BY <2>4, <3>3, <3>4
    <2>10. EndsBefore(rotated', current')
        <3> SUFFICES ASSUME NEW i \in 1..Len(rotated), NEW j \in 1..len,
                            NEW o \in LogOps, NEW p \in LogOps,
                            EndsAt(rotated, o, i), EndsAt(current', p, j)
                     PROVE  o < p
            BY <1>w DEF EndsBefore
        <3>1. CASE j = len /\ p = writing
            BY <2>6, <3>1
        <3>2. CASE j \in 1..Len(current) /\ EndsAt(current, p, j)
            BY <3>2 DEF OrderInv, EndsBefore
        <3> QED
            BY <2>4, <3>1, <3>2
    <2>11. EndsRecorded(current', recorded')
        <3> SUFFICES ASSUME NEW i \in 1..len, NEW p \in LogOps, EndsAt(current', p, i)
                     PROVE  \E k \in 1..Len(recorded') : recorded'[k] = p
            BY DEF EndsRecorded
        <3>1. CASE p = writing
            <4>1. Len(recorded) + 1 \in 1..Len(recorded')
                BY <2>3
            <4> QED
                BY <2>3, <3>1, <4>1
        <3>2. CASE i \in 1..Len(current) /\ EndsAt(current, p, i)
            <4>1. EndsRecorded(current, recorded')
                BY <1>0, <2>1, <2>2, RecordedStays DEF OrderInv
            <4> QED
                BY <3>2, <4>1 DEF EndsRecorded
        <3> QED
            BY <2>4, <3>1, <3>2
    <2>12. EndsRecorded(rotated', recorded')
        BY <1>0, <1>w, <2>1, <2>2, RecordedStays DEF OrderInv
    <2> QED
        BY <1>w, <2>7, <2>8, <2>9, <2>10, <2>11, <2>12 DEF OrderInv
<1>1. ASSUME NEW o \in LogOps, BeginAppend(o) PROVE OrderInv'
    <2>1. /\ current' = current /\ rotated' = rotated /\ recorded' = recorded
          /\ writing' = o /\ o > writing
        BY <1>1 DEF BeginAppend
    <2>2. \A i \in 1..Len(recorded) : recorded[i] < o
        <3> TAKE i \in 1..Len(recorded)
        <3>1. recorded[i] <= writing
            BY DEF OrderInv
        <3>2. recorded[i] \in LogOps
            BY <1>0
        <3>3. \A x \in LogOps \cup {0} : x \in Nat
            BY <1>0
        <3>4. recorded[i] \in Nat /\ writing \in Nat /\ o \in Nat
            BY <1>0, <3>2, <3>3, Zenon
        <3> QED
            BY <2>1, <3>1, <3>4
    <2>3. \A i \in 1..Len(recorded) : recorded[i] <= o
        <3> TAKE i \in 1..Len(recorded)
        <3>1. recorded[i] \in LogOps
            BY <1>0
        <3>2. recorded[i] \in Nat /\ o \in Nat
            BY <1>0, <3>1
        <3> QED
            BY <2>2, <3>2
    <2> QED
        BY <2>1, <2>2, <2>3 DEF OrderInv
<1>2. CASE RemoveRotated
    <2>1. /\ rotated' = <<>> /\ current' = current /\ recorded' = recorded
          /\ writing' = writing /\ step = "remove"
        BY <1>2 DEF RemoveRotated
    <2> QED
        BY <1>n, <2>1 DEF OrderInv
<1>3. CASE RenameCurrent
    <2>1. /\ rotated' = current /\ current' = <<>> /\ recorded' = recorded
          /\ writing' = writing /\ step = "rename"
        BY <1>3 DEF RenameCurrent
    <2> QED
        BY <1>n, <2>1 DEF OrderInv
<1>4. CASE WriteFrame
    BY <1>4, <1>w DEF WriteFrame
<1>5. CASE Crash
    <2>1. step' = "down" /\ rotated' = rotated /\ writing' = writing
        BY <1>5, CrashOutcomes
    <2>2. CASE current' = current /\ recorded' = recorded
        BY <2>1, <2>2 DEF OrderInv
    <2>3. CASE step = "write" /\ Written(Len(FrameOf(writing)))
        BY <1>w, <2>1, <2>3
    <2>4. ASSUME step = "write", recorded' = recorded, NEW n \in 1..OpSize[writing],
                 current' = current \o SubSeq(FrameOf(writing), 1, n)
          PROVE  OrderInv'
        <3>1. writing \in LogOps /\ OpSize[writing] \in Nat
            <4>1. writing \in LogOps
                BY <2>4 DEF DiskInv
            <4> QED
                BY <4>1, StoreAssumption
        <3>2. ASSUME NEW i \in 1..Len(current'), NEW p \in LogOps, EndsAt(current', p, i)
              PROVE  i \in 1..Len(current) /\ EndsAt(current, p, i)
            <4>1. n \in 1..OpSize[writing] + 1 /\ n # OpSize[writing] + 1
                BY <3>1
            <4>2. EndsWith(current \o SubSeq(FrameOf(writing), 1, n), current, writing, n)
                BY <1>0, <3>1, <4>1, WrittenEnds, Zenon
            <4> QED
                BY <2>4, <3>2, <4>1, <4>2 DEF EndsWith
        <3>3. EndsInOrder(current')
            BY <3>2 DEF OrderInv, EndsInOrder
        <3>4. EndsBefore(rotated', current')
            BY <2>1, <3>2 DEF OrderInv, EndsBefore
        <3>5. EndsRecorded(current', recorded')
            BY <2>4, <3>2 DEF OrderInv, EndsRecorded
        <3> QED
            BY <2>1, <2>4, <3>3, <3>4, <3>5 DEF OrderInv
    <2> QED
        BY <1>5, <2>2, <2>3, <2>4, CrashOutcomes
<1>6. CASE Reopen
    BY <1>6 DEF Reopen, OrderInv
<1> QED
    BY <1>1, <1>2, <1>3, <1>4, <1>5, <1>6 DEF StoreNext

\* It holds of no files.
LEMMA OrderStarts == StoreInit => OrderInv
<1> SUFFICES ASSUME StoreInit PROVE OrderInv
    OBVIOUS
<1>1. current = <<>> /\ rotated = <<>> /\ recorded = <<>> /\ Len(<<>>) = 0
    BY DEF StoreInit
<1> QED
    BY <1>1 DEF OrderInv, Increasing, EndsInOrder, EndsBefore, EndsRecorded

\* And no other step disturbs it.
LEMMA OrderStutters ==
    ASSUME OrderInv, UNCHANGED storeVars
    PROVE  OrderInv'
    BY DEF OrderInv, storeVars

\* What is read from files like that is in the order it was recorded in.
LEMMA LoadedInOrder ==
    ASSUME DiskInv, StoreTyped, OrderInv
    PROVE  \A i, j \in DOMAIN LoadOps : i <= j =>
                \E k, l \in DOMAIN recorded :
                    /\ k <= l /\ (i < j => k < l)
                    /\ recorded[k] = LoadOps[i] /\ recorded[l] = LoadOps[j]
<1> DEFINE old == ReadFrames(rotated)
           new == ReadFrames(current)
           load == old \o new
           Loaded(i, o) ==
               \/ i \in 1..Len(old) /\ o = old[i]
               \/ i - Len(old) \in 1..Len(new) /\ o = new[i - Len(old)]
<1>1. /\ old \in Seq(LogOps) /\ new \in Seq(LogOps) /\ LoadOps = load
      /\ rotated \in Seq(Cell) /\ current \in Seq(Cell) /\ recorded \in Seq(LogOps)
    BY LoadTyped DEF LoadOps, DiskInv, StoreTyped
<1>2. ReadInOrder(rotated, 1, old) /\ ReadInOrder(current, 1, new)
    BY <1>1, ReadOrdered DEF OrderInv
<1> HIDE DEF old, new
<1>3. IsJoin(load, LogOps, old, new)
    BY <1>1, Appended, Zenon
<1> HIDE DEF load
<1>4. /\ DOMAIN LoadOps = 1..Len(old) + Len(new)
      /\ Len(old) \in Nat /\ Len(new) \in Nat
    BY <1>1, <1>3 DEF IsJoin
<1>5. ASSUME NEW i \in DOMAIN LoadOps
      PROVE  LoadOps[i] \in LogOps /\ Loaded(i, LoadOps[i])
    <2>1. CASE i <= Len(old)
        <3>1. i \in 1..Len(old)
            BY <1>4, <2>1
        <3>2. LoadOps[i] = old[i]
            BY <1>1, <1>3, <3>1 DEF IsJoin
        <3>3. old[i] \in LogOps
            BY <1>1, <3>1
        <3> QED
            BY <3>1, <3>2, <3>3
    <2>2. CASE i > Len(old)
        <3> DEFINE d == i - Len(old)
        <3>1. d \in 1..Len(new) /\ Len(old) + d = i
            BY <1>4, <2>2
        <3> HIDE DEF d
        <3>2. LoadOps[i] = new[d]
            BY <1>1, <1>3, <3>1 DEF IsJoin
        <3>3. new[d] \in LogOps
            BY <1>1, <3>1
        <3> QED
            BY <3>1, <3>2, <3>3 DEF d
    <2> QED
        BY <1>4, <2>1, <2>2
<1>6. ASSUME NEW i, NEW o \in LogOps, Loaded(i, o)
      PROVE  \E k \in 1..Len(recorded) : recorded[k] = o
    <2>1. CASE i \in 1..Len(old) /\ o = old[i]
        <3>1. PICK q \in 1..Len(rotated) : EndsAt(rotated, o, q)
            BY <1>2, <2>1 DEF ReadInOrder
        <3> QED
            BY <3>1 DEF OrderInv, EndsRecorded
    <2>2. CASE i - Len(old) \in 1..Len(new) /\ o = new[i - Len(old)]
        <3>1. PICK q \in 1..Len(current) : EndsAt(current, o, q)
            BY <1>2, <2>2 DEF ReadInOrder
        <3> QED
            BY <3>1 DEF OrderInv, EndsRecorded
    <2> QED
        BY <1>6, <2>1, <2>2
<1>7. ASSUME NEW i \in DOMAIN LoadOps, NEW j \in DOMAIN LoadOps, i < j,
             NEW o \in LogOps, NEW p \in LogOps, Loaded(i, o), Loaded(j, p)
      PROVE  o < p
    <2>1. CASE i \in 1..Len(old) /\ o = old[i] /\ j \in 1..Len(old) /\ p = old[j]
        BY <1>2, <1>7, <2>1 DEF ReadInOrder, Increasing
    <2>2. CASE /\ i \in 1..Len(old) /\ o = old[i]
               /\ j - Len(old) \in 1..Len(new) /\ p = new[j - Len(old)]
        <3>1. PICK q \in 1..Len(rotated) : EndsAt(rotated, o, q)
            BY <1>2, <2>2 DEF ReadInOrder
        <3>2. PICK r \in 1..Len(current) : EndsAt(current, p, r)
            BY <1>2, <2>2 DEF ReadInOrder
        <3> QED
            BY <3>1, <3>2 DEF OrderInv, EndsBefore
    <2>3. CASE /\ i - Len(old) \in 1..Len(new) /\ o = new[i - Len(old)]
               /\ j - Len(old) \in 1..Len(new) /\ p = new[j - Len(old)]
        <3>1. i - Len(old) < j - Len(old)
            BY <1>4, <1>7
        <3> QED
            BY <1>2, <2>3, <3>1 DEF ReadInOrder, Increasing
    <2>4. ~(i - Len(old) \in 1..Len(new) /\ j \in 1..Len(old))
        BY <1>4, <1>7
    <2> QED
        BY <1>7, <2>1, <2>2, <2>3, <2>4
<1> HIDE DEF Loaded
<1>8. /\ DOMAIN recorded = 1..Len(recorded) /\ LogOps \subseteq Nat
      /\ \A k \in 1..Len(recorded) : recorded[k] \in LogOps
    BY <1>1, StoreAssumption
<1> SUFFICES ASSUME NEW i \in DOMAIN LoadOps, NEW j \in DOMAIN LoadOps, i <= j
             PROVE  \E k, l \in DOMAIN recorded :
                        /\ k <= l /\ (i < j => k < l)
                        /\ recorded[k] = LoadOps[i] /\ recorded[l] = LoadOps[j]
    OBVIOUS
<1>9. PICK k \in 1..Len(recorded) : recorded[k] = LoadOps[i]
    BY <1>5, <1>6
<1>10. PICK l \in 1..Len(recorded) : recorded[l] = LoadOps[j]
    BY <1>5, <1>6
<1>11. CASE i = j
    <2>1. k <= k /\ ~(i < j)
        BY <1>4, <1>11
    <2> QED
        BY <1>8, <1>9, <1>11, <2>1
<1>12. CASE i < j
    <2>1. recorded[k] < recorded[l]
        BY <1>5, <1>7, <1>9, <1>10, <1>12
    <2>2. recorded[k] \in Nat /\ recorded[l] \in Nat
        BY <1>8
    <2>3. k # l /\ ~(l < k)
        <3>1. l < k => recorded[l] < recorded[k]
            BY DEF OrderInv, Increasing
        <3> QED
            BY <2>1, <2>2, <3>1
    <2>4. k < l /\ k <= l
        BY <2>3
    <2> QED
        BY <1>8, <1>9, <1>10, <2>4
<1>13. i = j \/ i < j
    BY <1>4
<1> QED
    BY <1>11, <1>12, <1>13

\* Together they are what the property says.
LEMMA KeepSuffices ==
    ASSUME KeepInv, OrderInv
    PROVE  KeepsRecent
<1>1. LoadOps \in Seq(LogOps) /\ recorded \in Seq(LogOps)
    BY LoadTyped DEF KeepInv, StoreTyped
<1>2. ASSUME torn = {}
      PROVE  /\ Len(LoadOps) <= Len(recorded) /\ LoadOps = Newest(Len(LoadOps))
             /\ LoadOps = recorded \/ FillsSegment
    <2>1. Suffix(LoadOps, recorded) /\ (Len(LoadOps) = Len(recorded) \/ FillsSegment)
        BY <1>2 DEF KeepInv, AllKept
    <2>2. /\ LoadOps = SubSeq(recorded, Len(recorded) - Len(LoadOps) + 1, Len(recorded))
          /\ Len(LoadOps) = Len(recorded) => LoadOps = recorded
        BY <1>1, <2>1, SuffixIs
    <2>3. Len(LoadOps) <= Len(recorded)
        BY <2>1 DEF Suffix
    <2> QED
        BY <2>1, <2>2, <2>3 DEF Newest
<1> QED
    BY <1>2, LoadedInOrder DEF KeepInv, KeepsRecent

\* Whatever is appended, and wherever the server stops and is started again,
\* what a joining peer is sent (SessionStore::load_ops) are operations whose
\* frames were written whole, in their order.  Unless a frame was cut short in
\* a file that is still kept, they are the newest ones without a gap, and all
\* of them or as many as fill a segment.
THEOREM StoreKeepsRecent == StoreSpec => []KeepsRecent
<1>1. StoreInit => KeepInv /\ OrderInv
    BY KeepStarts, OrderStarts
<1>2. KeepInv /\ OrderInv /\ [StoreNext]_storeVars => KeepInv' /\ OrderInv'
    <2>1. KeepInv /\ OrderInv /\ StoreNext => KeepInv' /\ OrderInv'
        <3>1. KeepInv => DiskInv /\ StoreTyped
            BY DEF KeepInv
        <3> QED
            BY <3>1, KeepStep, OrderStep
    <2> QED
        BY <2>1, KeepStutters, OrderStutters
<1>3. KeepInv /\ OrderInv => KeepsRecent
    BY KeepSuffices
<1> QED
    BY <1>1, <1>2, <1>3, PTL DEF StoreSpec

-----------------------------------------------------------------------------
(* Both servers, and the store, in one specification                       *)

\* The signaling server admits and releases connections as the relay does.
LEMMA SignalingKeepsCounts ==
    ASSUME AdmissionTypeOK, CountsAreExact, SignalingNext
    PROVE  AdmissionTypeOK' /\ CountsAreExact'
<1> PICK d \in Conns : \/ SigAccept(d) \/ SigJoin(d) \/ SigHangup(d) \/ SigForward(d)
                       \/ SigLeave(d) \/ SigClose(d)
    BY DEF SignalingNext
<1>1. CASE Admit(d)
    BY <1>1, AdmitKeepsCounts
<1>2. CASE ReleaseTotal(d)
    BY <1>2, ReleaseTotalKeepsCounts
<1>3. CASE ReleaseIp(d)
    BY <1>3, ReleaseIpKeepsCounts
<1>4. CASE UNCHANGED admissionVars
    BY <1>4 DEF AdmissionTypeOK, CountsAreExact, Holding, admissionVars
<1>5. Admit(d) \/ ReleaseTotal(d) \/ ReleaseIp(d) \/ UNCHANGED admissionVars
    BY DEF SigAccept, SigJoin, SigHangup, SigForward, SigLeave, SigClose, admissionVars
<1> QED
    BY <1>1, <1>2, <1>3, <1>4, <1>5

ServicesInv ==
    /\ RelayTypeOK
    /\ CountsAreExact
    /\ NoGhostMembers
    /\ SigInv
    /\ DiskInv

\* What an instance that runs something else leaves alone.
LEMMA RelayStutters ==
    ASSUME RelayTypeOK, NoGhostMembers, UNCHANGED relayOnly, AdmissionTypeOK'
    PROVE  RelayTypeOK' /\ NoGhostMembers'
    BY DEF RelayTypeOK, NoGhostMembers, relayOnly, roomVars

LEMMA CountsStutter ==
    ASSUME AdmissionTypeOK, CountsAreExact, UNCHANGED admissionVars
    PROVE  AdmissionTypeOK' /\ CountsAreExact'
    BY DEF AdmissionTypeOK, CountsAreExact, Holding, admissionVars

LEMMA ServicesStart == Init => ServicesInv
<1>1. RelayInit => RelayTypeOK /\ CountsAreExact /\ NoGhostMembers
    BY RelayStarts DEF RelayInv
<1> QED
    BY <1>1, SigStarts, DiskStarts DEF Init, ServicesInv

LEMMA ServicesStep ==
    ASSUME ServicesInv, [Next]_vars
    PROVE  ServicesInv'
<1> USE DEF ServicesInv
<1>t. AdmissionTypeOK
    BY DEF RelayTypeOK
<1>1. CASE RelayStep
  <2>1. RelayNext /\ UNCHANGED <<sigOnly, storeVars>>
      BY <1>1 DEF RelayStep
  <2> QED
      BY <2>1, RelayTyped, NoGhostsStep, SigStutters, DiskStutters
<1>2. CASE SignalingStep
  <2>1. SignalingNext /\ UNCHANGED <<relayOnly, storeVars>>
      BY <1>2 DEF SignalingStep
  <2> QED
      BY <2>1, <1>t, SignalingKeepsCounts, RelayStutters, SigStep, DiskStutters
<1>3. CASE StoreStep
  <2>1. StoreNext /\ UNCHANGED <<admissionVars, relayOnly, sigOnly>>
      BY <1>3 DEF StoreStep, relayVars, relayOnly, admissionVars, roomVars
  <2> QED
      BY <2>1, <1>t, CountsStutter, RelayStutters, SigStutters, DiskStep
<1>4. CASE UNCHANGED <<admissionVars, relayOnly, sigOnly, storeVars>>
    BY <1>4, <1>t, CountsStutter, RelayStutters, SigStutters, DiskStutters
<1>5. \/ RelayStep \/ SignalingStep \/ StoreStep
      \/ UNCHANGED <<admissionVars, relayOnly, sigOnly, storeVars>>
  <2> USE DEF relayVars, relayOnly, admissionVars, roomVars
  <2>1. ASSUME PresenceRuns(PresenceNext)
        PROVE  UNCHANGED <<admissionVars, relayOnly, sigOnly, storeVars>>
      BY <2>1 DEF PresenceRuns
  <2>2. ASSUME PlayheadStep
        PROVE  UNCHANGED <<admissionVars, relayOnly, sigOnly, storeVars>>
      BY <2>2 DEF PlayheadStep
  <2>3. ASSUME TransportStep
        PROVE  UNCHANGED <<admissionVars, relayOnly, sigOnly, storeVars>>
      BY <2>3 DEF TransportStep
  <2>4. ASSUME ConnectionsRun(ConnectionsNext)
        PROVE  UNCHANGED <<admissionVars, relayOnly, sigOnly, storeVars>>
      BY <2>4 DEF ConnectionsRun
  <2>5. ASSUME WebRtcRuns(WebRtcNext)
        PROVE  UNCHANGED <<admissionVars, relayOnly, sigOnly, storeVars>>
      BY <2>5 DEF WebRtcRuns
  <2>6. ASSUME DiscoveryRuns(DiscoveryNext)
        PROVE  UNCHANGED <<admissionVars, relayOnly, sigOnly, storeVars>>
      BY <2>6 DEF DiscoveryRuns
  <2>7. ASSUME UNCHANGED vars
        PROVE  UNCHANGED <<admissionVars, relayOnly, sigOnly, storeVars>>
      BY <2>7 DEF vars
  <2> QED
      BY <2>1, <2>2, <2>3, <2>4, <2>5, <2>6, <2>7 DEF Next
<1> QED
    BY <1>1, <1>2, <1>3, <1>4, <1>5

\* Neither in the relay's rooms nor in those of the signaling server is there
\* ever a member whose connections are all cleaned up; so rooms empty when
\* their connections are gone (Rooms::leave of relay.rs and signaling.rs).
THEOREM RoomsEmpty == Spec => []RoomsHoldNoGhosts
<1>1. ServicesInv => RoomsHoldNoGhosts
    BY SigInvSuffices DEF ServicesInv, RoomsHoldNoGhosts
<1>2. ServicesInv /\ [Next]_vars => ServicesInv'
    BY ServicesStep
<1> QED
    BY ServicesStart, <1>1, <1>2, PTL DEF Spec

-----------------------------------------------------------------------------
(* Shared transport control                                                *)

OnlyLocates(queue, from) ==
    \A j \in DOMAIN queue : j >= from => queue[j].kind = "Locate"

\* Who is in state st at place pl, with these commands to come, will be in
\* state goal at place spot: the last command says where, and the last one
\* that is not a locate says in which state.
HeadedFor(queue, st, pl, goal, spot) ==
    /\ IF queue = <<>> THEN pl = spot ELSE queue[Len(queue)].position = spot
    /\ OnlyLocates(queue, 1) => st = goal
    /\ \A i \in DOMAIN queue :
          queue[i].kind # "Locate" /\ OnlyLocates(queue, i + 1)
              => StateOf(queue[i].kind) = goal

LEMMA NothingToCome ==
    ASSUME NEW st, NEW pl, NEW goal, NEW spot
    PROVE  HeadedFor(<<>>, st, pl, goal, spot) <=> st = goal /\ pl = spot
<1>1. DOMAIN <<>> = {}
    BY SMT
<1> QED
    BY <1>1 DEF HeadedFor, OnlyLocates

\* The one who commands does at once what the others will do in the end.
LEMMA OneMoreToCome ==
    ASSUME NEW queue \in Seq(Command), NEW st, NEW pl, NEW goal, NEW spot,
           HeadedFor(queue, st, pl, goal, spot),
           NEW command \in Command
    PROVE  HeadedFor(Append(queue, command), st, pl,
                   IF command.kind = "Locate" THEN goal ELSE StateOf(command.kind),
                   command.position)
<1> DEFINE longer == Append(queue, command)
           n == Len(queue)
<1>1. /\ n \in Nat /\ Len(longer) = n + 1 /\ DOMAIN longer = 1..(n + 1) /\ DOMAIN queue = 1..n
      /\ longer[n + 1] = command /\ \A i \in 1..n : longer[i] = queue[i]
      /\ longer # <<>>
    OBVIOUS
<1> HIDE DEF longer, n
<1>2. CASE command.kind = "Locate"
  <2>1. \A i \in 1..(n + 1) : OnlyLocates(longer, i) => OnlyLocates(queue, i)
      BY <1>1 DEF OnlyLocates
  <2>2. OnlyLocates(longer, 1) => st = goal
      BY <2>1, <1>1 DEF HeadedFor
  <2>3. ASSUME NEW i \in DOMAIN longer, longer[i].kind # "Locate", OnlyLocates(longer, i + 1)
        PROVE  StateOf(longer[i].kind) = goal
    <3>1. i \in 1..n /\ longer[i] = queue[i] /\ i + 1 \in 1..(n + 1)
        BY <2>3, <1>1, <1>2
    <3>2. OnlyLocates(queue, i + 1) /\ queue[i].kind # "Locate" /\ i \in DOMAIN queue
        BY <3>1, <2>1, <2>3, <1>1
    <3> QED
        BY <3>1, <3>2 DEF HeadedFor
  <2>4. longer[Len(longer)].position = command.position
      BY <1>1
  <2>5. HeadedFor(longer, st, pl, goal, command.position)
      BY <1>1, <2>2, <2>3, <2>4 DEF HeadedFor
  <2> QED
      BY <2>5, <1>2 DEF longer
<1>3. CASE command.kind # "Locate"
  <2>1. ~OnlyLocates(longer, 1)
      BY <1>1, <1>3 DEF OnlyLocates
  <2>2. ASSUME NEW i \in DOMAIN longer, OnlyLocates(longer, i + 1)
        PROVE  longer[i] = command
    <3>1. CASE i = n + 1
        BY <3>1, <1>1
    <3>2. CASE i # n + 1
        BY <3>2, <2>2, <1>1, <1>3 DEF OnlyLocates
    <3> QED
        BY <3>1, <3>2
  <2>3. longer[Len(longer)].position = command.position
      BY <1>1
  <2>4. HeadedFor(longer, st, pl, StateOf(command.kind), command.position)
      BY <1>1, <2>1, <2>2, <2>3 DEF HeadedFor
  <2> QED
      BY <2>4, <1>3 DEF longer
<1> QED
    BY <1>2, <1>3

\* A command that is obeyed need not come again.
LEMMA OneLessToCome ==
    ASSUME NEW queue \in Seq(Command), queue # <<>>,
           NEW st, NEW pl, NEW goal, NEW spot,
           HeadedFor(queue, st, pl, goal, spot)
    PROVE  HeadedFor(Tail(queue), NextState(st, Head(queue).kind),
                   Head(queue).position, goal, spot)
<1> DEFINE rest == Tail(queue)
           n == Len(queue)
<1>1. /\ n \in Nat \ {0} /\ Len(rest) = n - 1 /\ DOMAIN rest = 1..(n - 1) /\ DOMAIN queue = 1..n
      /\ \A i \in 1..(n - 1) : rest[i] = queue[i + 1]
      /\ Head(queue) = queue[1]
      /\ rest = <<>> <=> n = 1
  <2>1. rest \in Seq(Command) /\ Len(rest) = n - 1 /\ n \in Nat \ {0}
      OBVIOUS
  <2>2. \A s_ \in Seq(Command) : s_ = <<>> <=> Len(s_) = 0
      OBVIOUS
  <2>3. \A i \in 1..(n - 1) : rest[i] = queue[i + 1]
      OBVIOUS
  <2>4. rest = <<>> <=> n = 1
    <3> HIDE DEF rest, n
    <3>1. rest = <<>> <=> Len(rest) = 0
        BY <2>1, <2>2
    <3> QED
        BY <2>1, <3>1
  <2> QED
      BY <2>1, <2>3, <2>4
<1> HIDE DEF rest, n
<1>2. \A i \in Nat \ {0} : OnlyLocates(rest, i) => OnlyLocates(queue, i + 1)
  <2> SUFFICES ASSUME NEW i \in Nat \ {0}, OnlyLocates(rest, i),
                      NEW j \in 1..n, j >= i + 1
               PROVE  queue[j].kind = "Locate"
      BY <1>1 DEF OnlyLocates
  <2>1. j - 1 \in 1..(n - 1) /\ j - 1 >= i /\ (j - 1) + 1 = j
      BY <1>1
  <2> QED
      BY <2>1, <1>1 DEF OnlyLocates
<1>3. IF rest = <<>> THEN Head(queue).position = spot ELSE rest[Len(rest)].position = spot
  <2>1. queue[n].position = spot
      BY DEF HeadedFor, n
  <2>2. CASE n = 1
      BY <2>1, <2>2, <1>1
  <2>3. CASE n # 1
    <3>1. n - 1 \in 1..(n - 1) /\ (n - 1) + 1 = n
        BY <2>3, <1>1
    <3> QED
        BY <3>1, <2>1, <2>3, <1>1
  <2> QED
      BY <2>2, <2>3
<1>4. OnlyLocates(rest, 1) => NextState(st, Head(queue).kind) = goal
  <2> SUFFICES ASSUME OnlyLocates(rest, 1)
               PROVE  NextState(st, Head(queue).kind) = goal
      OBVIOUS
  <2>1. OnlyLocates(queue, 1 + 1) /\ 1 \in DOMAIN queue
      BY <1>1, <1>2
  <2>2. CASE queue[1].kind = "Locate"
    <3>1. OnlyLocates(queue, 1)
        BY <2>1, <2>2, <1>1 DEF OnlyLocates
    <3> QED
        BY <3>1, <2>2, <1>1 DEF HeadedFor, NextState
  <2>3. CASE queue[1].kind # "Locate"
      BY <2>1, <2>3, <1>1 DEF HeadedFor, NextState
  <2> QED
      BY <2>2, <2>3
<1>5. ASSUME NEW i \in DOMAIN rest, rest[i].kind # "Locate", OnlyLocates(rest, i + 1)
      PROVE  StateOf(rest[i].kind) = goal
  <2>1. i + 1 \in DOMAIN queue /\ rest[i] = queue[i + 1] /\ i + 1 \in Nat \ {0}
      BY <1>1
  <2>2. OnlyLocates(queue, (i + 1) + 1)
      BY <2>1, <1>2, <1>5
  <2> QED
      BY <2>1, <2>2, <1>5 DEF HeadedFor
<1>6. HeadedFor(rest, NextState(st, Head(queue).kind), Head(queue).position, goal, spot)
    BY <1>3, <1>4, <1>5 DEF HeadedFor
<1> QED
    BY <1>6 DEF rest

\* s is the only one whose commands are under way, and nobody else commands;
\* the others are on their way to where it is.
Speaks(s) ==
    /\ \A p, q \in Decks : p # s \/ q = s => commands[p][q] = <<>>
    /\ \A p \in Decks : inCharge[p] => p = s
    /\ \A q \in Decks : HeadedFor(commands[s][q], state[q], place[q], state[s], place[s])

TransportInv ==
    /\ TransportTypeOK
    /\ ~disputed /\ Decks # {} => \E s \in Decks : Speaks(s)

LEMMA TransportStarts == TransportInit => TransportInv
<1> SUFFICES ASSUME TransportInit PROVE TransportInv
    OBVIOUS
<1>1. <<>> \in Seq(Command) /\ 0 \in Places
    BY TransportAssumption
<1>2. TransportTypeOK
    BY <1>1 DEF TransportInit, TransportTypeOK
<1>3. \A s \in Decks : Speaks(s)
    BY NothingToCome DEF TransportInit, Speaks
<1> QED
    BY <1>2, <1>3 DEF TransportInv

LEMMA TransportSteps ==
    ASSUME TransportNext
    PROVE  \E p \in Decks :
              \/ \E kind \in Kinds, to \in Places : GiveCommand(p, kind, to)
              \/ \E q \in Decks : OnRemoteControl(p, q)
              \/ \E is \in BOOLEAN : Appoint(p, is)
    BY DEF TransportNext

LEMMA StatesTyped ==
    ASSUME NEW kind \in Kinds, NEW old \in {"Stopped", "Playing", "Recording"}
    PROVE  /\ StateOf(kind) \in {"Stopped", "Playing", "Recording"}
           /\ NextState(old, kind) \in {"Stopped", "Playing", "Recording"}
    BY DEF Kinds, StateOf, NextState

LEMMA GivingKeeps ==
    ASSUME TransportInv, NEW p \in Decks, NEW kind \in Kinds, NEW to \in Places,
           GiveCommand(p, kind, to)
    PROVE  TransportInv'
<1> DEFINE command == [kind |-> kind, position |-> to]
           goal == IF kind = "Locate" THEN state[p] ELSE StateOf(kind)
<1>1. command \in Command /\ command.kind = kind /\ command.position = to
    BY DEF Command
<1>2. /\ TransportTypeOK
      /\ inCharge[p] /\ inCharge' = inCharge /\ obeys' = obeys /\ disputed' = disputed
      /\ state' = [state EXCEPT ![p] = goal]
      /\ place' = [place EXCEPT ![p] = to]
      /\ commands' = [commands EXCEPT ![p] =
                         [q \in Decks |-> IF q = p THEN <<>>
                              ELSE Append(commands[p][q], command)]]
    BY DEF GiveCommand, TransportInv
<1>3. goal \in {"Stopped", "Playing", "Recording"}
    BY StatesTyped, <1>2 DEF TransportTypeOK
<1>4. \A q \in Decks : commands[p][q] \in Seq(Command)
    BY <1>2 DEF TransportTypeOK
<1> HIDE DEF command, goal
<1>5. \A q \in Decks : Append(commands[p][q], command) \in Seq(Command)
    BY <1>1, <1>4
<1>6. TransportTypeOK'
  <2> DEFINE Queue == Seq(Command)
  <2>0. <<>> \in Queue
      OBVIOUS
  <2>1. /\ commands \in [Decks -> [Decks -> Queue]]
        /\ \A q \in Decks : Append(commands[p][q], command) \in Queue
      BY <1>2, <1>5 DEF TransportTypeOK
  <2> HIDE DEF Queue
  <2>2. [q \in Decks |-> IF q = p THEN <<>> ELSE Append(commands[p][q], command)]
            \in [Decks -> Queue]
      BY <2>0, <2>1
  <2>3. commands' \in [Decks -> [Decks -> Queue]]
      BY <2>1, <2>2, <1>2
  <2>4. commands' \in [Decks -> [Decks -> Seq(Command)]]
      BY <2>3 DEF Queue
  <2>5. state' \in [Decks -> {"Stopped", "Playing", "Recording"}] /\ place' \in [Decks -> Places]
      BY <1>2, <1>3 DEF TransportTypeOK
  <2> QED
      BY <1>2, <2>4, <2>5 DEF TransportTypeOK
<1>7. ASSUME NEW s \in Decks, Speaks(s)
      PROVE  Speaks(s)'
  <2>1. s = p
      BY <1>7, <1>2 DEF Speaks
  <2>2. /\ \A q \in Decks \ {p} : commands'[p][q] = Append(commands[p][q], command)
        /\ commands'[p][p] = <<>>
        /\ \A r \in Decks \ {p} : commands'[r] = commands[r]
        /\ state'[p] = goal /\ place'[p] = to
        /\ \A q \in Decks \ {p} : state'[q] = state[q] /\ place'[q] = place[q]
      BY <1>2 DEF TransportTypeOK
  <2>3. ASSUME NEW q \in Decks
        PROVE  HeadedFor(commands'[p][q], state'[q], place'[q], state'[p], place'[p])
    <3>1. CASE q = p
        BY <3>1, <2>2, NothingToCome
    <3>2. CASE q # p
      <4>1. HeadedFor(commands[p][q], state[q], place[q], state[p], place[p])
          BY <1>7, <2>1 DEF Speaks
      <4>2. HeadedFor(Append(commands[p][q], command), state[q], place[q],
                    IF command.kind = "Locate" THEN state[p] ELSE StateOf(command.kind),
                    command.position)
          BY <4>1, <1>1, <1>4, OneMoreToCome
      <4>3. goal = IF command.kind = "Locate" THEN state[p] ELSE StateOf(command.kind)
          BY <1>1 DEF goal
      <4> QED
          BY <3>2, <4>2, <4>3, <1>1, <2>2
    <3> QED
        BY <3>1, <3>2
  <2>4. \A r, q \in Decks : r # p \/ q = p => commands'[r][q] = <<>>
      BY <2>1, <2>2, <1>7 DEF Speaks
  <2>5. \A r \in Decks : inCharge'[r] => r = p
      BY <2>1, <1>2, <1>7 DEF Speaks
  <2> QED
      BY <2>1, <2>3, <2>4, <2>5 DEF Speaks
<1> QED
    BY <1>2, <1>6, <1>7 DEF TransportInv

LEMMA ObeyingKeeps ==
    ASSUME TransportInv, NEW q \in Decks, NEW p \in Decks, OnRemoteControl(q, p)
    PROVE  TransportInv'
<1> DEFINE queue == commands[p][q]
           command == Head(queue)
<1>1. /\ TransportTypeOK /\ queue \in Seq(Command) /\ queue # <<>>
      /\ commands' = [commands EXCEPT ![p][q] = Tail(queue)]
      /\ inCharge' = inCharge /\ disputed' = disputed
    BY DEF OnRemoteControl, TransportInv, TransportTypeOK
<1>2. command \in Command /\ Tail(queue) \in Seq(Command)
    BY <1>1
<1>3. /\ inCharge[q] => UNCHANGED <<state, place, obeys>>
      /\ ~inCharge[q] => /\ obeys' = [obeys EXCEPT ![q] = p]
                         /\ place' = [place EXCEPT ![q] = command.position]
                         /\ state' = [state EXCEPT ![q] = NextState(state[q], command.kind)]
    BY DEF OnRemoteControl
<1> HIDE DEF queue, command
<1>4. TransportTypeOK'
  <2> DEFINE Queue == Seq(Command)
  <2>1. commands \in [Decks -> [Decks -> Queue]] /\ Tail(queue) \in Queue
      BY <1>1, <1>2 DEF TransportTypeOK
  <2> HIDE DEF Queue
  <2>2. commands' \in [Decks -> [Decks -> Queue]]
      BY <2>1, <1>1
  <2>3. commands' \in [Decks -> [Decks -> Seq(Command)]]
      BY <2>2 DEF Queue
  <2>4. command.kind \in Kinds /\ command.position \in Places
      BY <1>2 DEF Command
  <2>5. NextState(state[q], command.kind) \in {"Stopped", "Playing", "Recording"}
      BY <2>4, <1>1, StatesTyped DEF TransportTypeOK
  <2>6. /\ state' \in [Decks -> {"Stopped", "Playing", "Recording"}]
        /\ place' \in [Decks -> Places]
    <3>1. CASE inCharge[q]
        BY <3>1, <1>1, <1>3 DEF TransportTypeOK
    <3>2. CASE ~inCharge[q]
        BY <3>2, <1>1, <1>3, <2>4, <2>5 DEF TransportTypeOK
    <3> QED
        BY <3>1, <3>2
  <2>7. obeys' \in [Decks -> Decks \cup {NoDeck}]
    <3>1. obeys \in [Decks -> Decks \cup {NoDeck}]
        BY <1>1 DEF TransportTypeOK
    <3>2. obeys' = obeys \/ obeys' = [obeys EXCEPT ![q] = p]
        BY <1>3
    <3> QED
        BY <3>1, <3>2
  <2> QED
      BY <1>1, <2>3, <2>6, <2>7 DEF TransportTypeOK
<1>5. ASSUME NEW s \in Decks, Speaks(s)
      PROVE  Speaks(s)'
  <2>1. s = p /\ q # p /\ ~inCharge[q]
      BY <1>5, <1>1 DEF Speaks, queue
  <2>2. /\ commands'[p][q] = Tail(queue)
        /\ \A r \in Decks \ {q} : commands'[p][r] = commands[p][r]
        /\ \A r \in Decks \ {p} : commands'[r] = commands[r]
      BY <1>1 DEF TransportTypeOK
  <2>3. /\ state'[q] = NextState(state[q], command.kind) /\ place'[q] = command.position
        /\ \A r \in Decks \ {q} : state'[r] = state[r] /\ place'[r] = place[r]
      BY <1>1, <1>3, <2>1 DEF TransportTypeOK
  <2>4. ASSUME NEW r \in Decks
        PROVE  HeadedFor(commands'[p][r], state'[r], place'[r], state'[p], place'[p])
    <3>1. HeadedFor(commands[p][r], state[r], place[r], state[p], place[p])
        BY <1>5, <2>1 DEF Speaks
    <3>2. state'[p] = state[p] /\ place'[p] = place[p]
        BY <2>1, <2>3
    <3>3. CASE r # q
        BY <3>1, <3>2, <3>3, <2>2, <2>3
    <3>4. CASE r = q
      <4>1. HeadedFor(queue, state[q], place[q], state[p], place[p])
          BY <3>1, <3>4 DEF queue
      <4>2. HeadedFor(Tail(queue), NextState(state[q], Head(queue).kind),
                    Head(queue).position, state[p], place[p])
          BY <4>1, <1>1, OneLessToCome
      <4> QED
          BY <3>2, <3>4, <4>2, <2>2, <2>3 DEF command
    <3> QED
        BY <3>3, <3>4
  <2>5. \A r, t \in Decks : r # p \/ t = p => commands'[r][t] = <<>>
      BY <2>1, <2>2, <1>5 DEF Speaks
  <2>6. \A r \in Decks : inCharge'[r] => r = p
      BY <2>1, <1>1, <1>5 DEF Speaks
  <2> QED
      BY <2>1, <2>4, <2>5, <2>6 DEF Speaks
<1> QED
    BY <1>1, <1>4, <1>5 DEF TransportInv

\* Where nothing is under way all are where the last speaker left them, so
\* whoever is appointed then may speak next.
LEMMA AgreedWhenQuiet ==
    ASSUME NEW s \in Decks, Speaks(s), ~UnderWay
    PROVE  \A q \in Decks : state[q] = state[s] /\ place[q] = place[s]
    BY NothingToCome DEF Speaks, UnderWay

LEMMA AppointingKeeps ==
    ASSUME TransportInv, NEW p \in Decks, NEW is \in BOOLEAN, Appoint(p, is)
    PROVE  TransportInv'
<1>1. /\ TransportTypeOK
      /\ inCharge' = [inCharge EXCEPT ![p] = is]
      /\ disputed' = (disputed \/ (is /\ (UnderWay \/ \E q \in Decks \ {p} : inCharge[q])))
      /\ state' = state /\ place' = place /\ commands' = commands /\ obeys' = obeys
    BY DEF Appoint, TransportInv
<1>2. TransportTypeOK'
    BY <1>1 DEF TransportTypeOK
<1>3. ASSUME ~disputed'
      PROVE  \E s \in Decks : Speaks(s)'
  <2>1. ~disputed
      BY <1>1, <1>3
  <2>2. PICK s \in Decks : Speaks(s)
      BY <2>1 DEF TransportInv
  <2>3. CASE is
    <3>1. ~UnderWay /\ \A q \in Decks \ {p} : ~inCharge[q]
        BY <1>1, <1>3, <2>3
    <3>2. \A r, q \in Decks : commands[r][q] = <<>>
        BY <3>1 DEF UnderWay
    <3>3. \A q \in Decks : state[q] = state[p] /\ place[q] = place[p]
        BY <2>2, <3>1, AgreedWhenQuiet
    <3>4. \A q \in Decks : HeadedFor(commands[p][q], state[q], place[q], state[p], place[p])
        BY <3>2, <3>3, NothingToCome
    <3>5. \A r \in Decks : inCharge'[r] => r = p
        BY <3>1, <1>1 DEF TransportTypeOK
    <3>6. Speaks(p)'
        BY <3>2, <3>4, <3>5, <1>1 DEF Speaks
    <3> QED
        BY <3>6
  <2>4. CASE ~is
    <3>1. \A r \in Decks : inCharge'[r] => inCharge[r]
        BY <2>4, <1>1 DEF TransportTypeOK
    <3>2. Speaks(s)'
        BY <3>1, <2>2, <1>1 DEF Speaks
    <3> QED
        BY <3>2
  <2> QED
      BY <2>3, <2>4
<1> QED
    BY <1>2, <1>3 DEF TransportInv

LEMMA TransportInvHolds == TransportSpec => []TransportInv
<1>1. ASSUME TransportInv, UNCHANGED transportVars
      PROVE  TransportInv'
    BY <1>1 DEF TransportInv, TransportTypeOK, Speaks, transportVars
<1>2. ASSUME TransportInv, TransportNext
      PROVE  TransportInv'
    BY <1>2, TransportSteps, GivingKeeps, ObeyingKeeps, AppointingKeeps
<1>3. TransportInv /\ [TransportNext]_transportVars => TransportInv'
    BY <1>1, <1>2
<1> QED
    BY TransportStarts, <1>3, PTL DEF TransportSpec

\* As long as set_master hands over only while no command is under way and
\* nobody else is in charge, every transport is where the last commands put
\* it (TransportControl::play, stop, locate, record and on_remote_control) as
\* soon as they have all arrived.
THEOREM TransportsTheorem == TransportSpec => []TransportsAgree
<1>1. ASSUME TransportInv, ~disputed, ~UnderWay, NEW p \in Decks, NEW q \in Decks
      PROVE  state[p] = state[q] /\ place[p] = place[q]
  <2>1. PICK s \in Decks : Speaks(s)
      BY <1>1 DEF TransportInv
  <2> QED
      BY <2>1, <1>1, AgreedWhenQuiet
<1>2. TransportInv => TransportsAgree
    BY <1>1 DEF TransportsAgree
<1> QED
    BY TransportInvHolds, <1>2, PTL

=============================================================================
