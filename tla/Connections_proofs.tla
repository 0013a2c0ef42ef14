-------------------------- MODULE Connections_proofs --------------------------
(***************************************************************************)
(* Proofs about the connections under the TCP and WebSocket transports:    *)
(* for any hosts, sockets, identities and orders of the two ends' steps,   *)
(* an entry in a registry is a connection that is being read, and no       *)
(* message is swallowed by a handshake.                                    *)
(*                                                                         *)
(* The inductive invariant, EndOK for both ends of every socket, says what *)
(* is on its way to an end that is still in the handshake: the other's     *)
(* Hello comes first, an answer only where both peers have identities,     *)
(* and over a WebSocket, where frames that are not expected are skipped,   *)
(* messages only where neither has, so that the end is done after a Hello. *)
(***************************************************************************)
EXTENDS Connections, FiniteSetTheorems, TLAPS

-----------------------------------------------------------------------------
(* Frames under way                                                        *)

Frame == {"hello", "challenge", "response", "message"}
In(f, frames) == \E i \in 1..Len(frames) : frames[i] = f

\* The places of f in a sequence are finitely many, so that they can be
\* counted.
LEMMA CountTyped ==
    ASSUME NEW f, NEW frames \in Seq(Frame)
    PROVE  /\ IsFiniteSet({i \in 1..Len(frames) : frames[i] = f})
           /\ Count(f, frames) \in Nat
<1>1. IsFiniteSet(1..Len(frames))
    BY FS_Interval
<1>2. IsFiniteSet({i \in 1..Len(frames) : frames[i] = f})
    BY <1>1, FS_Subset
<1> QED
    BY <1>2, FS_CardinalityType DEF Count

\* Nothing is in an empty sequence.
LEMMA CountEmpty == \A f : Count(f, <<>>) = 0
<1> TAKE f
<1>1. {i \in 1..Len(<<>>) : <<>>[i] = f} = {}
    OBVIOUS
<1> QED
    BY <1>1, FS_EmptySet DEF Count

\* A frame sent is one more of its kind.
LEMMA SentFrame ==
    ASSUME NEW frames \in Seq(Frame), NEW x \in Frame
    PROVE  /\ Append(frames, x) \in Seq(Frame) /\ Append(frames, x) # <<>>
           /\ frames # <<>> => Head(Append(frames, x)) = Head(frames)
           /\ frames = <<>> => Head(Append(frames, x)) = x
           /\ \A f : In(f, Append(frames, x)) <=> In(f, frames) \/ f = x
           /\ \A f : Count(f, Append(frames, x)) =
                        IF f = x THEN Count(f, frames) + 1 ELSE Count(f, frames)
<1> DEFINE n == Len(frames)
           new == Append(frames, x)
<1>1. /\ new \in Seq(Frame) /\ Len(new) = n + 1 /\ n \in Nat
      /\ new[n + 1] = x /\ \A i \in 1..n : new[i] = frames[i]
      /\ new # <<>>
    OBVIOUS
<1>2. /\ frames # <<>> => Head(new) = Head(frames)
      /\ frames = <<>> => Head(new) = x
    BY <1>1
<1> HIDE DEF new
<1>3. \A f : In(f, new) <=> In(f, frames) \/ f = x
    <2> TAKE f
    <2>1. 1..(n + 1) = (1..n) \cup {n + 1}
        BY <1>1
    <2> HIDE DEF n
    <2> QED
        BY <1>1, <2>1 DEF In, n
<1>4. \A f : Count(f, new) =
                IF f = x THEN Count(f, frames) + 1 ELSE Count(f, frames)
    <2> TAKE f
    <2> DEFINE old == {i \in 1..n : frames[i] = f}
               now == {i \in 1..Len(new) : new[i] = f}
    <2>1. IsFiniteSet(old) /\ Count(f, frames) = Cardinality(old)
        BY CountTyped DEF Count
    <2>2. n + 1 \notin old
        BY <1>1
    <2>3. now = IF f = x THEN old \cup {n + 1} ELSE old
        BY <1>1
    <2>4. Count(f, new) = Cardinality(now)
        BY DEF Count
    <2> HIDE DEF old, now
    <2> QED
        BY <2>1, <2>2, <2>3, <2>4, FS_AddElement
<1> QED
    BY <1>1, <1>2, <1>3, <1>4 DEF new

\* A frame read is one less of its kind.
LEMMA ReadFrame ==
    ASSUME NEW frames \in Seq(Frame), frames # <<>>
    PROVE  /\ Tail(frames) \in Seq(Frame) /\ Head(frames) \in Frame
           /\ In(Head(frames), frames)
           /\ \A f : In(f, Tail(frames)) => In(f, frames)
           /\ \A f : Count(f, frames) =
                        IF f = Head(frames) THEN Count(f, Tail(frames)) + 1
                        ELSE Count(f, Tail(frames))
<1> DEFINE n == Len(frames)
           rest == Tail(frames)
<1>1. /\ n \in Nat /\ n > 0 /\ rest \in Seq(Frame) /\ Len(rest) = n - 1
      /\ Head(frames) = frames[1] /\ Head(frames) \in Frame
      /\ \A i \in 1..(n - 1) : rest[i] = frames[i + 1]
    OBVIOUS
<1> HIDE DEF rest
<1>2. In(Head(frames), frames)
    BY <1>1 DEF In
<1>3. \A f : In(f, rest) => In(f, frames)
    <2> SUFFICES ASSUME NEW f, NEW i \in 1..(n - 1), rest[i] = f
                 PROVE  In(f, frames)
        BY <1>1 DEF In
    <2>1. i + 1 \in 1..n /\ frames[i + 1] = f
        BY <1>1
    <2> QED
        BY <2>1 DEF In
<1>4. \A f : Count(f, frames) =
                IF f = Head(frames) THEN Count(f, rest) + 1 ELSE Count(f, rest)
    <2> TAKE f
    <2> DEFINE all  == {i \in 1..n : frames[i] = f}
               late == all \ {1}
               left == {i \in 1..(n - 1) : rest[i] = f}
               next == [i \in left |-> i + 1]
    <2>1. IsFiniteSet(left) /\ Count(f, rest) = Cardinality(left)
        BY <1>1, CountTyped DEF Count
    <2>2. IsFiniteSet(all) /\ Count(f, frames) = Cardinality(all)
        BY CountTyped DEF Count
    <2>3. next \in Bijection(left, late)
        <3>1. next \in [left -> late]
            BY <1>1
        <3>2. \A i, j \in left : next[i] = next[j] => i = j
            BY <1>1
        <3>3. \A k \in late : \E i \in left : next[i] = k
            <4> TAKE k \in late
            <4>1. k - 1 \in left
                BY <1>1
            <4>2. next[k - 1] = k
                BY <1>1, <4>1
            <4> QED
                BY <4>1, <4>2
        <3> HIDE DEF next, left, late
        <3> QED
            BY <3>1, <3>2, <3>3 DEF Bijection, Injection, Surjection, IsInjective
    <2>4. ExistsBijection(left, late)
        BY <2>3 DEF ExistsBijection
    <2>5. Cardinality(late) = Cardinality(left)
        BY <2>1, <2>4, FS_Bijection
    <2>6. 1 \in all <=> f = Head(frames)
        BY <1>1
    <2>7. /\ Cardinality(late) =
                IF 1 \in all THEN Cardinality(all) - 1 ELSE Cardinality(all)
          /\ Cardinality(all) \in Nat
        <3> HIDE DEF all
        <3> QED
            BY <2>2, FS_RemoveElement, FS_CardinalityType
    <2> HIDE DEF all, late, left
    <2> QED
        BY <2>1, <2>2, <2>5, <2>6, <2>7
<1> QED
    BY <1>1, <1>2, <1>3, <1>4 DEF rest

-----------------------------------------------------------------------------
(* The invariant                                                           *)

Signed(g) == g \in identified

\* Whom the handshake has brought together: only peers that present an
\* identity are challenged or challenge, an answer is sent only where both
\* have one, and who is connected has one if and only if the other has.
RightPeers(s, e) ==
    /\ stage[s][e] \in {"challenge", "response"} => Signed(Remote(s, e))
    /\ In("response", wire[s][e]) => Signed(HostAt(s, e)) /\ Signed(Remote(s, e))
    /\ stage[s][e] = "reading" => (Signed(HostAt(s, e)) <=> Signed(Remote(s, e)))

\* The first an end sends is its Hello.
HelloFirst(s, e) ==
    /\ stage[s][Other(e)] = "idle" => wire[s][e] = <<>>
    /\ stage[s][e] \in {"idle", "hello"} /\ stage[s][Other(e)] # "idle"
            => wire[s][e] # <<>> /\ Head(wire[s][e]) = "hello"

\* Over a WebSocket both ends challenge and neither answers, so that only peers
\* without identities ever get to send a message.
PlainOverWs(s, e) ==
    over = "ws" =>
        /\ stage[s][e] # "challenge" /\ ~In("response", wire[s][e])
        /\ stage[s][e] = "reading" \/ In("message", wire[s][e])
                => ~Signed(HostAt(s, e)) /\ ~Signed(Remote(s, e))

\* What the other end has sent is here or on its way.
NothingLost(s, e) ==
    stage[s][e] # "ended" =>
        sent[s][Other(e)] = got[s][e] + Count("message", wire[s][e])

EndOK(s, e) ==
    RightPeers(s, e) /\ HelloFirst(s, e) /\ PlainOverWs(s, e) /\ NothingLost(s, e)

ConnInv ==
    /\ ConnectionsTypeOK
    /\ \A s \in Sockets, e \in Ends : EndOK(s, e)
    /\ EntriesAreRead

\* A socket has two ends, at two hosts.
LEMMA TwoEnds ==
    ASSUME route \in Routes, NEW s \in Sockets, NEW e \in Ends
    PROVE  /\ Other(e) \in Ends /\ Other(e) # e /\ Other(Other(e)) = e
           /\ \A x \in Ends : x = e \/ x = Other(e)
           /\ HostAt(s, e) \in Hosts /\ Remote(s, e) \in Hosts
           /\ HostAt(s, e) # Remote(s, e)
           /\ HostAt(s, Other(e)) = Remote(s, e)
           /\ Remote(s, Other(e)) = HostAt(s, e)
<1>1. /\ route \in [Sockets -> [Ends -> Hosts]]
      /\ route[s]["dialer"] # route[s]["listener"]
    BY ConnectionsAssumption DEF Ends
<1>2. \/ e = "dialer" /\ Other(e) = "listener"
      \/ e = "listener" /\ Other(e) = "dialer"
    BY DEF Ends, Other
<1> QED
    BY <1>1, <1>2 DEF Ends, Other, HostAt, Remote

\* At the start no end has done anything.
LEMMA InitConnInv == ConnectionsInit => ConnInv
<1> SUFFICES ASSUME ConnectionsInit
             PROVE  ConnInv
    OBVIOUS
<1>1. <<>> \in Seq(Frame) /\ Frame = {"hello", "challenge", "response", "message"}
    BY DEF Frame
<1>2. ConnectionsTypeOK
    BY <1>1, ConnectionsAssumption DEF ConnectionsInit, ConnectionsTypeOK
<1>3. ASSUME NEW s \in Sockets, NEW e \in Ends
      PROVE  EndOK(s, e)
    <2>1. Other(e) \in Ends
        BY DEF Ends, Other
    <2>2. /\ stage[s][e] = "idle" /\ stage[s][Other(e)] = "idle"
          /\ wire[s][e] = <<>> /\ sent[s][Other(e)] = 0 /\ got[s][e] = 0
        BY <2>1 DEF ConnectionsInit
    <2>3. \A f : ~In(f, <<>>)
        BY DEF In
    <2> QED
        BY <2>2, <2>3, CountEmpty
           DEF EndOK, RightPeers, HelloFirst, PlainOverWs, NothingLost
<1>4. EntriesAreRead
    BY DEF ConnectionsInit, EntriesAreRead
<1> QED
    BY <1>2, <1>3, <1>4 DEF ConnInv

\* What a step at one socket leaves of the others.
OnlyAt(s) ==
    /\ UNCHANGED <<over, identified, route>>
    /\ \A t \in Sockets \ {s} :
        /\ stage'[t] = stage[t] /\ wire'[t] = wire[t]
        /\ sent'[t] = sent[t] /\ got'[t] = got[t]

\* An end of another socket is as it was.
LEMMA OthersKept ==
    ASSUME ConnInv, NEW s \in Sockets, OnlyAt(s),
           NEW t \in Sockets \ {s}, NEW e \in Ends
    PROVE  EndOK(t, e)'
<1>1. EndOK(t, e)
    BY DEF ConnInv
<1> QED
    BY <1>1 DEF EndOK, RightPeers, HelloFirst, PlainOverWs, NothingLost,
                OnlyAt, HostAt, Remote, Signed

\* The entries after a step at end e of s: those of connections that are read
\* elsewhere are kept.
LEMMA EntriesKept ==
    ASSUME ConnInv, NEW s \in Sockets, NEW e \in Ends, OnlyAt(s),
           stage'[s][Other(e)] = stage[s][Other(e)],
           \/ /\ entry' = entry
              /\ stage[s][e] = "reading" => stage'[s][e] = "reading"
           \/ RegisterSocket(s, e) /\ (Signed(HostAt(s, e)) <=> Signed(Remote(s, e)))
           \/ RemoveEntry(s, e)
    PROVE  EntriesAreRead'
<1> SUFFICES ASSUME NEW h \in Hosts, NEW g \in Hosts, entry'[h][g] # NoSocket
             PROVE  \E x \in Ends :
                        /\ (HostAt(entry[h][g], x) = h)'
                        /\ (Remote(entry[h][g], x) = g)'
                        /\ stage'[entry'[h][g]][x] = "reading"
                        /\ h \in identified' <=> g \in identified'
    BY DEF EntriesAreRead
<1>0. /\ entry \in [Hosts -> [Hosts -> Sockets \cup {NoSocket}]]
      /\ stage \in [Sockets -> [Ends -> {"idle", "reading", "ended"} \cup Waiting]]
      /\ route \in Routes /\ route' = route /\ identified' = identified
    BY DEF ConnInv, ConnectionsTypeOK, OnlyAt
<1>1. \A t, x : HostAt(t, x)' = HostAt(t, x) /\ Remote(t, x)' = Remote(t, x)
    BY <1>0 DEF HostAt, Remote
<1>2. /\ HostAt(s, e) \in Hosts /\ Remote(s, e) \in Hosts
      /\ Other(e) \in Ends /\ \A x \in Ends : x = e \/ x = Other(e)
      /\ HostAt(s, Other(e)) # HostAt(s, e)
    BY <1>0, TwoEnds
<1>3. ASSUME entry'[h][g] = entry[h][g],
             ~(h = HostAt(s, e) /\ g = Remote(s, e)) \/ stage'[s][e] = "reading"
                \/ stage[s][e] # "reading"
      PROVE  \E x \in Ends :
                /\ HostAt(entry'[h][g], x) = h /\ Remote(entry'[h][g], x) = g
                /\ stage'[entry'[h][g]][x] = "reading"
                /\ h \in identified <=> g \in identified
    <2> DEFINE t == entry[h][g]
    <2>1. t # NoSocket /\ t \in Sockets
        BY <1>0, <1>3
    <2>2. PICK x \in Ends :
            /\ HostAt(t, x) = h /\ Remote(t, x) = g
            /\ stage[t][x] = "reading" /\ (h \in identified <=> g \in identified)
        BY <2>1 DEF ConnInv, EntriesAreRead
    <2>3. stage'[t][x] = "reading"
        <3>1. CASE t # s
            BY <2>1, <2>2, <3>1 DEF OnlyAt
        <3>2. CASE t = s /\ x = Other(e)
            BY <2>2, <3>2
        <3>3. CASE t = s /\ x = e
            BY <1>3, <2>2, <3>3
        <3> QED
            BY <1>2, <3>1, <3>2, <3>3
    <2> QED
        BY <1>3, <2>2, <2>3
<1>4. CASE /\ entry' = entry
           /\ stage[s][e] = "reading" => stage'[s][e] = "reading"
    BY <1>1, <1>3, <1>4, <1>0
<1>5. CASE RegisterSocket(s, e) /\ (Signed(HostAt(s, e)) <=> Signed(Remote(s, e)))
    <2>1. /\ stage'[s][e] = "reading"
          /\ entry' = [entry EXCEPT ![HostAt(s, e)][Remote(s, e)] = s]
        BY <1>0, <1>5 DEF RegisterSocket, Becomes
    <2>2. CASE h = HostAt(s, e) /\ g = Remote(s, e)
        <3>1. entry'[h][g] = s
            BY <1>0, <2>1, <2>2
        <3> QED
            BY <1>0, <1>1, <1>5, <2>1, <2>2, <3>1 DEF Signed
    <2>3. CASE ~(h = HostAt(s, e) /\ g = Remote(s, e))
        <3>1. entry'[h][g] = entry[h][g]
            BY <1>0, <2>1, <2>3
        <3> QED
            BY <1>0, <1>1, <1>3, <2>3, <3>1
    <2> QED
        BY <2>2, <2>3
<1>6. CASE RemoveEntry(s, e)
    <2>1. entry' = [entry EXCEPT ![HostAt(s, e)][Remote(s, e)] = NoSocket]
        BY <1>6 DEF RemoveEntry
    <2>2. ~(h = HostAt(s, e) /\ g = Remote(s, e)) /\ entry'[h][g] = entry[h][g]
        BY <1>0, <1>2, <2>1
    <2> QED
        BY <1>0, <1>1, <1>3, <2>2
<1> QED
    BY <1>4, <1>5, <1>6

-----------------------------------------------------------------------------
(* The steps                                                               *)

\* What the types say of one end.
LEMMA EndTyped ==
    ASSUME ConnectionsTypeOK, NEW s \in Sockets, NEW e \in Ends
    PROVE  /\ stage[s][e] \in {"idle", "reading", "ended"} \cup Waiting
           /\ wire[s][e] \in Seq(Frame)
           /\ sent[s][e] \in Nat /\ got[s][e] \in Nat
BY DEF ConnectionsTypeOK, Frame

\* The end that reads a frame: it is in the handshake no longer, or goes on to
\* the part of it that its peer's identity calls for.
LEMMA ReadStep ==
    ASSUME ConnInv, NEW s \in Sockets, NEW e \in Ends, OnlyAt(s),
           wire[s][e] # <<>>, wire'[s][e] = Tail(wire[s][e]),
           stage[s][e] # "ended",
           stage'[s][Other(e)] = stage[s][Other(e)],
           sent'[s][Other(e)] = sent[s][Other(e)],
           got'[s][e] = IF Head(wire[s][e]) = "message" THEN got[s][e] + 1
                                                        ELSE got[s][e],
           stage'[s][e] \notin {"idle", "hello", "ended"},
           stage'[s][e] \in {"challenge", "response"} => Signed(Remote(s, e)),
           stage'[s][e] = "reading" =>
                (Signed(HostAt(s, e)) <=> Signed(Remote(s, e))),
           over = "ws" => stage'[s][e] # "challenge",
           over = "ws" /\ stage'[s][e] = "reading" => ~Signed(Remote(s, e))
    PROVE  EndOK(s, e)'
<1>1. EndOK(s, e)
    BY DEF ConnInv
<1>2. /\ wire[s][e] \in Seq(Frame) /\ got[s][e] \in Nat
      /\ sent[s][Other(e)] \in Nat
    BY TwoEnds, EndTyped DEF ConnInv, ConnectionsTypeOK
<1> DEFINE frames == wire[s][e]
           rest   == Tail(frames)
<1>3. /\ \A f : In(f, rest) => In(f, frames)
      /\ Count("message", frames) =
            IF Head(frames) = "message" THEN Count("message", rest) + 1
                                        ELSE Count("message", rest)
      /\ rest \in Seq(Frame)
    BY <1>2, ReadFrame
<1>4. Count("message", rest) \in Nat /\ Count("message", frames) \in Nat
    BY <1>2, <1>3, CountTyped
<1>5. /\ HostAt(s, e)' = HostAt(s, e) /\ Remote(s, e)' = Remote(s, e)
      /\ identified' = identified /\ over' = over
    BY DEF OnlyAt, HostAt, Remote
<1>6. sent'[s][Other(e)] = got'[s][e] + Count("message", rest)
    BY <1>1, <1>2, <1>3, <1>4 DEF EndOK, NothingLost
<1> HIDE DEF rest
<1>7. wire'[s][e] = rest
    BY DEF rest
<1>8. RightPeers(s, e)'
    BY <1>1, <1>3, <1>5, <1>7 DEF EndOK, RightPeers, Signed
<1>9. HelloFirst(s, e)'
    BY <1>1 DEF EndOK, HelloFirst
<1>10. PlainOverWs(s, e)'
    BY <1>1, <1>3, <1>5, <1>7 DEF EndOK, PlainOverWs, Signed
<1>11. NothingLost(s, e)'
    BY <1>6, <1>7 DEF NothingLost
<1> QED
    BY <1>8, <1>9, <1>10, <1>11 DEF EndOK

\* The end that is left alone, or sent a frame, by a step of the other.
LEMMA SendStep ==
    ASSUME ConnInv, NEW s \in Sockets, NEW e \in Ends, OnlyAt(s),
           stage'[s][e] = stage[s][e], stage'[s][Other(e)] # "idle",
           got'[s][e] = got[s][e],
           \/ /\ wire'[s][e] = wire[s][e]
              /\ sent'[s][Other(e)] = sent[s][Other(e)] \/ stage[s][e] = "ended"
              /\ stage[s][Other(e)] # "idle"
           \/ \E f \in Frame :
                /\ wire'[s][e] = Append(wire[s][e], f)
                /\ sent'[s][Other(e)] = IF f = "message" THEN sent[s][Other(e)] + 1
                                                         ELSE sent[s][Other(e)]
                /\ f # "hello" => stage[s][Other(e)] # "idle"
                /\ f = "response" =>
                        over # "ws" /\ Signed(HostAt(s, e)) /\ Signed(Remote(s, e))
                /\ f = "message" /\ over = "ws" =>
                        ~Signed(HostAt(s, e)) /\ ~Signed(Remote(s, e))
    PROVE  EndOK(s, e)'
<1>1. EndOK(s, e)
    BY DEF ConnInv
<1>2. /\ wire[s][e] \in Seq(Frame) /\ got[s][e] \in Nat
      /\ sent[s][Other(e)] \in Nat
    BY TwoEnds, EndTyped DEF ConnInv, ConnectionsTypeOK
<1>3. /\ HostAt(s, e)' = HostAt(s, e) /\ Remote(s, e)' = Remote(s, e)
      /\ identified' = identified /\ over' = over
    BY DEF OnlyAt, HostAt, Remote
<1>4. CASE /\ wire'[s][e] = wire[s][e]
           /\ sent'[s][Other(e)] = sent[s][Other(e)] \/ stage[s][e] = "ended"
           /\ stage[s][Other(e)] # "idle"
    BY <1>1, <1>3, <1>4
       DEF EndOK, RightPeers, HelloFirst, PlainOverWs, NothingLost, Signed
<1>5. ASSUME NEW f \in Frame,
             wire'[s][e] = Append(wire[s][e], f),
             sent'[s][Other(e)] = IF f = "message" THEN sent[s][Other(e)] + 1
                                                   ELSE sent[s][Other(e)],
             f # "hello" => stage[s][Other(e)] # "idle",
             f = "response" =>
                    over # "ws" /\ Signed(HostAt(s, e)) /\ Signed(Remote(s, e)),
             f = "message" /\ over = "ws" =>
                    ~Signed(HostAt(s, e)) /\ ~Signed(Remote(s, e))
      PROVE  EndOK(s, e)'
    <2> DEFINE frames == wire[s][e]
               more   == Append(frames, f)
    <2>1. /\ \A x : In(x, more) <=> In(x, frames) \/ x = f
          /\ Count("message", more) =
                IF f = "message" THEN Count("message", frames) + 1
                                 ELSE Count("message", frames)
          /\ more # <<>>
          /\ frames # <<>> => Head(more) = Head(frames)
          /\ frames = <<>> => Head(more) = f
        <3>1. \A x : Count(x, more) = IF x = f THEN Count(x, frames) + 1
                                              ELSE Count(x, frames)
            BY <1>2, SentFrame
        <3> QED
            BY <1>2, <3>1, SentFrame
    <2>2. Count("message", frames) \in Nat
        BY <1>2, CountTyped
    <2>3. stage[s][e] # "ended" =>
            sent'[s][Other(e)] = got'[s][e] + Count("message", more)
        <3> DEFINE there == Count("message", frames)
        <3> HIDE DEF more, there
        <3>1. stage[s][e] # "ended" => sent[s][Other(e)] = got[s][e] + there
            BY <1>1 DEF EndOK, NothingLost, there
        <3>2. Count("message", more) = IF f = "message" THEN there + 1 ELSE there
            BY <2>1 DEF there
        <3>3. there \in Nat
            BY <2>2 DEF there
        <3>4. CASE f = "message"
            <4>1. sent'[s][Other(e)] = sent[s][Other(e)] + 1
                BY <1>5, <3>4
            <4>2. Count("message", more) = there + 1
                BY <3>2, <3>4
            <4>3. \A a, b, c \in Nat : a = b + c => a + 1 = b + (c + 1)
                OBVIOUS
            <4>4. stage[s][e] # "ended" =>
                    sent[s][Other(e)] + 1 = got[s][e] + (there + 1)
                BY <1>2, <3>1, <3>3, <4>3
            <4> QED
                BY <4>1, <4>2, <4>4, Zenon
        <3>5. CASE f # "message"
            BY <1>2, <1>5, <3>1, <3>2, <3>3, <3>5
        <3> QED
            BY <3>4, <3>5
    <2> HIDE DEF more
    <2>4. wire'[s][e] = more
        BY <1>5 DEF more
    <2>5. RightPeers(s, e)'
        BY <1>1, <1>3, <1>5, <2>1, <2>4 DEF EndOK, RightPeers, Signed
    <2>6. HelloFirst(s, e)'
        BY <1>1, <1>5, <2>1, <2>4 DEF EndOK, HelloFirst
    <2>7. PlainOverWs(s, e)'
        BY <1>1, <1>3, <1>5, <2>1, <2>4 DEF EndOK, PlainOverWs, Signed
    <2>8. NothingLost(s, e)'
        BY <2>3, <2>4 DEF NothingLost
    <2> QED
        BY <2>5, <2>6, <2>7, <2>8 DEF EndOK
<1> QED
    BY <1>4, <1>5

\* The two ends of the socket a step is at, and the others.
LEMMA AllEndsOK ==
    ASSUME ConnInv, NEW s \in Sockets, NEW e \in Ends, OnlyAt(s),
           EndOK(s, e)', EndOK(s, Other(e))'
    PROVE  \A t \in Sockets, x \in Ends : EndOK(t, x)'
<1>1. \A x \in Ends : x = e \/ x = Other(e)
    BY TwoEnds DEF ConnInv, ConnectionsTypeOK
<1>2. \A x \in Ends : EndOK(s, x)'
    BY <1>1
<1> QED
    BY <1>2, OthersKept

\* What changing the stage and the frames of one socket leaves.
LEMMA StageAndWire ==
    ASSUME ConnInv, NEW s \in Sockets, NEW e \in Ends
    PROVE  LET o == Other(e)
           IN  /\ \A next : Becomes(s, e, next) =>
                    /\ stage'[s][e] = next /\ stage'[s][o] = stage[s][o]
                    /\ \A t \in Sockets \ {s} : stage'[t] = stage[t]
               /\ \A f : Send(s, e, f) =>
                    /\ wire'[s][e] = wire[s][e]
                    /\ wire'[s][o] = Append(wire[s][o], f)
                    /\ \A t \in Sockets \ {s} : wire'[t] = wire[t]
               /\ \A f : Answer(s, e, f) =>
                    /\ wire'[s][e] = Tail(wire[s][e])
                    /\ wire'[s][o] = Append(wire[s][o], f)
                    /\ \A t \in Sockets \ {s} : wire'[t] = wire[t]
               /\ Consume(s, e) =>
                    /\ wire'[s][e] = Tail(wire[s][e])
                    /\ wire'[s][o] = wire[s][o]
                    /\ \A t \in Sockets \ {s} : wire'[t] = wire[t]
               /\ Fail(s, e) =>
                    /\ stage'[s][e] = "ended" /\ stage'[s][o] = stage[s][o]
                    /\ \A t \in Sockets \ {s} : stage'[t] = stage[t]
                    /\ wire'[s][e] = <<>>
                    /\ wire'[s][o] = wire[s][o]
                    /\ \A t \in Sockets \ {s} : wire'[t] = wire[t]
<1> DEFINE o == Other(e)
<1>1. o \in Ends /\ o # e
    BY TwoEnds DEF ConnInv, ConnectionsTypeOK
<1> HIDE DEF o
<1>2. /\ stage \in [Sockets -> [Ends -> {"idle", "reading", "ended"} \cup Waiting]]
      /\ wire \in [Sockets -> [Ends -> Seq(Frame)]]
    BY DEF ConnInv, ConnectionsTypeOK, Frame
<1>3. ASSUME NEW next, Becomes(s, e, next)
      PROVE  /\ stage'[s][e] = next /\ stage'[s][o] = stage[s][o]
             /\ \A t \in Sockets \ {s} : stage'[t] = stage[t]
    BY <1>1, <1>2, <1>3 DEF Becomes
<1>4. ASSUME NEW f, Send(s, e, f)
      PROVE  /\ wire'[s][e] = wire[s][e]
             /\ wire'[s][o] = Append(wire[s][o], f)
             /\ \A t \in Sockets \ {s} : wire'[t] = wire[t]
    BY <1>1, <1>2, <1>4 DEF Send, o
<1>5. ASSUME NEW f, Answer(s, e, f)
      PROVE  /\ wire'[s][e] = Tail(wire[s][e])
             /\ wire'[s][o] = Append(wire[s][o], f)
             /\ \A t \in Sockets \ {s} : wire'[t] = wire[t]
    <2>1. wire' = [wire EXCEPT ![s][e] = Tail(wire[s][e]),
                               ![s][o] = Append(wire[s][o], f)]
        BY <1>5 DEF Answer, o
    <2> QED
        BY <1>1, <1>2, <2>1
<1>6. ASSUME Consume(s, e)
      PROVE  /\ wire'[s][e] = Tail(wire[s][e])
             /\ wire'[s][o] = wire[s][o]
             /\ \A t \in Sockets \ {s} : wire'[t] = wire[t]
    BY <1>1, <1>2, <1>6 DEF Consume
<1>7. ASSUME Fail(s, e)
      PROVE  /\ stage'[s][e] = "ended" /\ stage'[s][o] = stage[s][o]
             /\ \A t \in Sockets \ {s} : stage'[t] = stage[t]
             /\ wire'[s][e] = <<>>
             /\ wire'[s][o] = wire[s][o]
             /\ \A t \in Sockets \ {s} : wire'[t] = wire[t]
    <2>1. wire' = [wire EXCEPT ![s][e] = <<>>]
        BY <1>7 DEF Fail
    <2>2. Becomes(s, e, "ended")
        BY <1>7 DEF Fail
    <2> QED
        BY <1>1, <1>2, <1>3, <2>1, <2>2
<1> QED
    BY <1>3, <1>4, <1>5, <1>6, <1>7 DEF o

\* An end that fails leaves the other with what it has been sent.
LEMMA FailStep ==
    ASSUME ConnInv, NEW s \in Sockets, NEW e \in Ends,
           stage[s][e] # "idle", Fail(s, e),
           UNCHANGED <<over, identified, route, sent, got>>
    PROVE  /\ OnlyAt(s) /\ stage'[s][Other(e)] = stage[s][Other(e)]
           /\ stage'[s][e] = "ended"
           /\ \A t \in Sockets, x \in Ends : EndOK(t, x)'
<1> DEFINE o == Other(e)
<1>1. /\ stage'[s][e] = "ended" /\ stage'[s][o] = stage[s][o]
      /\ wire'[s][e] = <<>> /\ wire'[s][o] = wire[s][o] /\ OnlyAt(s)
    BY StageAndWire DEF OnlyAt
<1>2. o \in Ends /\ Other(o) = e
    BY TwoEnds DEF ConnInv, ConnectionsTypeOK
<1>3. EndOK(s, o)'
    <2>1. /\ stage'[s][Other(o)] # "idle" /\ stage[s][Other(o)] # "idle"
          /\ got'[s][o] = got[s][o] /\ sent'[s][Other(o)] = sent[s][Other(o)]
        BY <1>1, <1>2
    <2> HIDE DEF o
    <2> QED
        BY <1>1, <1>2, <2>1, SendStep
<1>4. stage[s][o] = "idle" => wire[s][e] = <<>>
    BY DEF ConnInv, EndOK, HelloFirst
<1>5. EndOK(s, e)'
    <2>1. \A f : ~In(f, <<>>)
        BY DEF In
    <2> QED
        BY <1>1, <1>4, <2>1
           DEF EndOK, RightPeers, HelloFirst, PlainOverWs, NothingLost
<1> QED
    BY <1>1, <1>2, <1>3, <1>5, AllEndsOK

\* An end that reads a frame of the handshake and goes on, answering or not.
LEMMA TakeStep ==
    ASSUME ConnInv, NEW s \in Sockets, NEW e \in Ends, NEW next,
           stage[s][e] \in Waiting, Arrived(s, e),
           Head(wire[s][e]) # "message", Becomes(s, e, next),
           \/ Consume(s, e)
           \/ Answer(s, e, "challenge")
           \/ /\ Answer(s, e, "response")
              /\ over # "ws" /\ Signed(HostAt(s, e)) /\ Signed(Remote(s, e)),
           next \in {"challenge", "response", "reading"},
           next \in {"challenge", "response"} => Signed(Remote(s, e)),
           next = "reading" => (Signed(HostAt(s, e)) <=> Signed(Remote(s, e))),
           over = "ws" => next # "challenge",
           over = "ws" /\ next = "reading" => ~Signed(Remote(s, e)),
           UNCHANGED <<over, identified, route, sent, got>>
    PROVE  /\ OnlyAt(s) /\ stage'[s][Other(e)] = stage[s][Other(e)]
           /\ stage'[s][e] = next
           /\ \A t \in Sockets, x \in Ends : EndOK(t, x)'
<1> DEFINE o == Other(e)
<1>1. /\ stage'[s][e] = next /\ stage'[s][o] = stage[s][o] /\ OnlyAt(s)
      /\ wire'[s][e] = Tail(wire[s][e]) /\ wire[s][e] # <<>>
      /\ \/ wire'[s][o] = wire[s][o]
         \/ wire'[s][o] = Append(wire[s][o], "challenge")
         \/ /\ wire'[s][o] = Append(wire[s][o], "response")
            /\ over # "ws" /\ Signed(HostAt(s, e)) /\ Signed(Remote(s, e))
    BY StageAndWire DEF OnlyAt, Arrived
<1>2. /\ o \in Ends /\ Other(o) = e
      /\ HostAt(s, o) = Remote(s, e) /\ Remote(s, o) = HostAt(s, e)
    BY TwoEnds DEF ConnInv, ConnectionsTypeOK
<1>3. stage[s][e] # "ended" /\ stage[s][e] # "idle"
    BY DEF Waiting
<1>4. EndOK(s, e)'
    <2>1. /\ sent'[s][Other(e)] = sent[s][Other(e)]
          /\ got'[s][e] = IF Head(wire[s][e]) = "message" THEN got[s][e] + 1
                                                          ELSE got[s][e]
        OBVIOUS
    <2>2. stage'[s][e] \notin {"idle", "hello", "ended"}
        BY <1>1
    <2> QED
        BY <1>1, <1>3, <2>1, <2>2, ReadStep
<1>5. EndOK(s, o)'
    <2>1. /\ stage'[s][Other(o)] # "idle" /\ stage[s][Other(o)] # "idle"
          /\ got'[s][o] = got[s][o] /\ sent'[s][Other(o)] = sent[s][Other(o)]
        BY <1>1, <1>2, <1>3
    <2>2. "challenge" \in Frame /\ "response" \in Frame
        BY DEF Frame
    <2> HIDE DEF o
    <2>3. CASE wire'[s][o] = wire[s][o]
        BY <1>1, <1>2, <2>1, <2>3, SendStep
    <2>4. ASSUME NEW f \in {"challenge", "response"},
                 wire'[s][o] = Append(wire[s][o], f),
                 f = "response" =>
                    over # "ws" /\ Signed(HostAt(s, e)) /\ Signed(Remote(s, e))
          PROVE  EndOK(s, o)'
        <3>1. /\ f \in Frame /\ f # "hello" /\ f # "message"
              /\ sent'[s][Other(o)] = IF f = "message" THEN sent[s][Other(o)] + 1
                                                       ELSE sent[s][Other(o)]
              /\ f = "response" =>
                    over # "ws" /\ Signed(HostAt(s, o)) /\ Signed(Remote(s, o))
            BY <1>2, <2>1, <2>2, <2>4
        <3>2. \E x \in Frame :
                /\ wire'[s][o] = Append(wire[s][o], x)
                /\ sent'[s][Other(o)] = IF x = "message" THEN sent[s][Other(o)] + 1
                                                         ELSE sent[s][Other(o)]
                /\ x # "hello" => stage[s][Other(o)] # "idle"
                /\ x = "response" =>
                        over # "ws" /\ Signed(HostAt(s, o)) /\ Signed(Remote(s, o))
                /\ x = "message" /\ over = "ws" =>
                        ~Signed(HostAt(s, o)) /\ ~Signed(Remote(s, o))
            BY <2>1, <2>4, <3>1
        <3> QED
            BY <1>1, <1>2, <2>1, <3>2, SendStep
    <2> QED
        BY <1>1, <2>3, <2>4
<1> QED
    BY <1>1, <1>4, <1>5, AllEndsOK

\* An end that starts with its Hello.
LEMMA OpenStep ==
    ASSUME ConnInv, NEW s \in Sockets, NEW e \in Ends,
           stage[s][e] = "idle", Becomes(s, e, "hello"), Send(s, e, "hello"),
           UNCHANGED <<over, identified, route, entry, sent, got>>
    PROVE  /\ \A t \in Sockets, x \in Ends : EndOK(t, x)'
           /\ EntriesAreRead'
<1> DEFINE o == Other(e)
<1>2. /\ stage'[s][e] = "hello" /\ stage'[s][o] = stage[s][o] /\ OnlyAt(s)
      /\ wire'[s][e] = wire[s][e]
      /\ wire'[s][o] = Append(wire[s][o], "hello")
    BY StageAndWire DEF OnlyAt
<1>3. /\ o \in Ends /\ Other(o) = e
      /\ HostAt(s, o) = Remote(s, e) /\ Remote(s, o) = HostAt(s, e)
    BY TwoEnds DEF ConnInv, ConnectionsTypeOK
<1>4. EndOK(s, e) /\ EndOK(s, o)
    BY <1>3 DEF ConnInv
<1>5. EndOK(s, e)'
    <2>1. /\ HostAt(s, e)' = HostAt(s, e) /\ Remote(s, e)' = Remote(s, e)
        BY DEF HostAt, Remote
    <2> QED
        BY <1>2, <1>4, <2>1
           DEF EndOK, RightPeers, HelloFirst, PlainOverWs, NothingLost, Signed
<1>6. EndOK(s, o)'
    <2>1. \E x \in Frame :
            /\ wire'[s][o] = Append(wire[s][o], x)
            /\ sent'[s][Other(o)] = IF x = "message" THEN sent[s][Other(o)] + 1
                                                     ELSE sent[s][Other(o)]
            /\ x # "hello" => stage[s][Other(o)] # "idle"
            /\ x = "response" => Signed(HostAt(s, o)) /\ Signed(Remote(s, o))
            /\ x = "message" /\ over = "ws" =>
                    ~Signed(HostAt(s, o)) /\ ~Signed(Remote(s, o))
        <3>1. "hello" \in Frame
            BY DEF Frame
        <3>2. sent'[s][Other(o)] = sent[s][Other(o)]
            OBVIOUS
        <3> WITNESS "hello" \in Frame
        <3> QED
            BY <1>2, <3>2
    <2>2. stage'[s][o] = stage[s][o] /\ stage'[s][Other(o)] # "idle"
          /\ got'[s][o] = got[s][o]
        BY <1>2, <1>3
    <2> HIDE DEF o
    <2> QED
        BY <1>2, <1>3, <2>1, <2>2, SendStep
<1>7. EntriesAreRead'
    BY <1>2, EntriesKept
<1> QED
    BY <1>2, <1>5, <1>6, <1>7, AllEndsOK

\* connect and accept_incoming.
LEMMA DialOrAccept ==
    ASSUME ConnInv, NEW s \in Sockets, Dial(s) \/ AcceptIncoming(s)
    PROVE  /\ \A t \in Sockets, x \in Ends : EndOK(t, x)'
           /\ EntriesAreRead'
<1>1. CASE Dial(s)
    BY <1>1, OpenStep DEF Dial, Ends
<1>2. CASE AcceptIncoming(s)
    BY <1>2, OpenStep DEF AcceptIncoming, Ends
<1> QED
    BY <1>1, <1>2

\* The other's Hello.
LEMMA HelloStep ==
    ASSUME ConnInv, NEW s \in Sockets, NEW e \in Ends, TakeHello(s, e)
    PROVE  /\ \A t \in Sockets, x \in Ends : EndOK(t, x)'
           /\ EntriesAreRead'
<1>1. /\ stage[s][e] = "hello" /\ stage[s][e] \in Waiting /\ stage[s][e] # "idle"
      /\ Arrived(s, e) /\ Head(wire[s][e]) # "message"
      /\ UNCHANGED <<over, identified, route, sent, got>>
    BY DEF TakeHello, Waiting
<1>2. CASE ~Acceptable(HostAt(s, e), Remote(s, e)) /\ Fail(s, e) /\ UNCHANGED entry
    BY <1>1, <1>2, FailStep, EntriesKept
<1>3. CASE /\ Remote(s, e) \in identified
           /\ IF Challenges(e) THEN Becomes(s, e, "response") /\ Answer(s, e, "challenge")
                               ELSE Becomes(s, e, "challenge") /\ Consume(s, e)
           /\ UNCHANGED entry
    <2>1. CASE Challenges(e)
        BY <1>1, <1>3, <2>1, TakeStep, EntriesKept DEF Signed
    <2>2. CASE ~Challenges(e)
        BY <1>1, <1>3, <2>2, TakeStep, EntriesKept DEF Signed, Challenges
    <2> QED
        BY <2>1, <2>2
<1>4. CASE /\ Acceptable(HostAt(s, e), Remote(s, e))
           /\ Remote(s, e) \notin identified
           /\ Consume(s, e)
           /\ RegisterSocket(s, e)
    <2>1. Signed(HostAt(s, e)) <=> Signed(Remote(s, e))
        BY <1>4 DEF Acceptable, Signed
    <2>2. Becomes(s, e, "reading") /\ ~Signed(Remote(s, e))
        BY <1>4 DEF RegisterSocket, Signed
    <2>3. /\ OnlyAt(s) /\ stage'[s][Other(e)] = stage[s][Other(e)]
          /\ \A t \in Sockets, x \in Ends : EndOK(t, x)'
        BY <1>1, <1>4, <2>1, <2>2, TakeStep
    <2> QED
        BY <1>4, <2>1, <2>3, EntriesKept
<1> QED
    BY <1>2, <1>3, <1>4 DEF TakeHello

\* A challenge and the answer to one.
LEMMA ChallengeStep ==
    ASSUME ConnInv, NEW s \in Sockets, NEW e \in Ends,
           TakeChallenge(s, e) \/ TakeAnswer(s, e)
    PROVE  /\ \A t \in Sockets, x \in Ends : EndOK(t, x)'
           /\ EntriesAreRead'
<1>1. /\ stage[s][e] \in {"challenge", "response"} /\ stage[s][e] \in Waiting
      /\ stage[s][e] # "idle" /\ Arrived(s, e)
      /\ Head(wire[s][e]) = stage[s][e] /\ Head(wire[s][e]) # "message"
      /\ UNCHANGED <<over, identified, route, sent, got>>
    BY DEF TakeChallenge, TakeAnswer, Waiting
<1>2. EndOK(s, e)
    BY DEF ConnInv
<1>3. Signed(Remote(s, e))
    BY <1>1, <1>2 DEF EndOK, RightPeers
<1>4. CASE Fail(s, e) /\ UNCHANGED entry
    BY <1>1, <1>4, FailStep, EntriesKept
<1>5. CASE /\ TakeChallenge(s, e) /\ HostAt(s, e) \in identified
           /\ Answer(s, e, "response") /\ RegisterSocket(s, e)
    <2>1. over # "ws" /\ Signed(HostAt(s, e)) /\ Becomes(s, e, "reading")
        BY <1>2, <1>5 DEF TakeChallenge, EndOK, PlainOverWs, Signed, RegisterSocket
    <2>2. /\ OnlyAt(s) /\ stage'[s][Other(e)] = stage[s][Other(e)]
          /\ \A t \in Sockets, x \in Ends : EndOK(t, x)'
        BY <1>1, <1>3, <1>5, <2>1, TakeStep
    <2> QED
        BY <1>3, <1>5, <2>1, <2>2, EntriesKept
<1>6. CASE TakeAnswer(s, e)
    <2>1. In("response", wire[s][e])
        <3>1. wire[s][e] \in Seq(Frame)
            BY EndTyped DEF ConnInv
        <3> QED
            BY <1>1, <1>6, <3>1, ReadFrame DEF TakeAnswer, Arrived
    <2>2. over # "ws" /\ Signed(HostAt(s, e)) /\ Becomes(s, e, "reading")
        BY <1>2, <1>6, <2>1
           DEF EndOK, RightPeers, PlainOverWs, TakeAnswer, RegisterSocket
    <2>3. /\ OnlyAt(s) /\ stage'[s][Other(e)] = stage[s][Other(e)]
          /\ \A t \in Sockets, x \in Ends : EndOK(t, x)'
        BY <1>1, <1>3, <1>6, <2>2, TakeStep DEF TakeAnswer
    <2> QED
        BY <1>3, <1>6, <2>2, <2>3, EntriesKept DEF TakeAnswer
<1> QED
    BY <1>4, <1>5, <1>6 DEF TakeChallenge

\* A frame that is not waited for: over a WebSocket it is skipped by an end that
\* waits for the answer to its challenge, and is a challenge.
LEMMA UnexpectedStep ==
    ASSUME ConnInv, NEW s \in Sockets, NEW e \in Ends, TakeUnexpected(s, e)
    PROVE  /\ \A t \in Sockets, x \in Ends : EndOK(t, x)'
           /\ EntriesAreRead'
<1>1. /\ stage[s][e] \in Waiting /\ stage[s][e] # "idle" /\ stage[s][e] # "reading"
      /\ Arrived(s, e) /\ Head(wire[s][e]) # stage[s][e]
      /\ UNCHANGED <<over, identified, route, entry, sent, got>>
    BY DEF TakeUnexpected, Waiting
<1>2. CASE over = "tcp"
    BY <1>1, <1>2, FailStep, EntriesKept DEF TakeUnexpected
<1>3. CASE over # "tcp"
    <2>1. /\ over = "ws" /\ Consume(s, e) /\ stage' = stage
          /\ EndOK(s, e) /\ wire[s][e] \in Seq(Frame)
        BY <1>3, EndTyped DEF TakeUnexpected, ConnInv, ConnectionsTypeOK
    <2>2. stage[s][e] = "response" /\ Signed(Remote(s, e))
        BY <1>1, <2>1 DEF EndOK, HelloFirst, PlainOverWs, RightPeers, Waiting, Arrived
    <2>3. Head(wire[s][e]) # "message"
        <3>1. In(Head(wire[s][e]), wire[s][e])
            BY <1>1, <2>1, ReadFrame DEF Arrived
        <3> QED
            BY <2>1, <2>2, <3>1 DEF EndOK, PlainOverWs
    <2>4. Becomes(s, e, "response")
        BY <2>1, <2>2 DEF Becomes, ConnInv, ConnectionsTypeOK
    <2>5. /\ OnlyAt(s) /\ stage'[s][Other(e)] = stage[s][Other(e)]
          /\ \A t \in Sockets, x \in Ends : EndOK(t, x)'
        BY <1>1, <2>1, <2>2, <2>3, <2>4, TakeStep
    <2> QED
        BY <1>1, <2>1, <2>5, EntriesKept
<1> QED
    BY <1>2, <1>3

\* An end that times out, sees the other's end, or breaks.
LEMMA EndStep ==
    ASSUME ConnInv, NEW s \in Sockets, NEW e \in Ends,
           HandshakeTimeout(s, e) \/ SeeEnd(s, e) \/ Break(s, e)
    PROVE  /\ \A t \in Sockets, x \in Ends : EndOK(t, x)'
           /\ EntriesAreRead'
<1>1. /\ stage[s][e] # "idle" /\ Fail(s, e)
      /\ UNCHANGED <<over, identified, route, sent, got>>
      /\ IF stage[s][e] = "reading" THEN RemoveEntry(s, e) ELSE UNCHANGED entry
    BY DEF HandshakeTimeout, SeeEnd, Break, Waiting
<1>2. /\ OnlyAt(s) /\ stage'[s][Other(e)] = stage[s][Other(e)]
      /\ \A t \in Sockets, x \in Ends : EndOK(t, x)'
    BY <1>1, FailStep
<1> QED
    BY <1>1, <1>2, EntriesKept

\* The reader takes a frame.
LEMMA MessageRead ==
    ASSUME ConnInv, NEW s \in Sockets, NEW e \in Ends, ReadMessage(s, e)
    PROVE  /\ \A t \in Sockets, x \in Ends : EndOK(t, x)'
           /\ EntriesAreRead'
<1> DEFINE o == Other(e)
<1>1. /\ o \in Ends /\ o # e /\ Other(o) = e
    BY TwoEnds DEF ConnInv, ConnectionsTypeOK
<1>2. /\ stage[s][e] = "reading" /\ wire[s][e] # <<>> /\ EndOK(s, e)
      /\ UNCHANGED <<over, identified, route, stage, entry, sent>>
    BY DEF ReadMessage, Arrived, ConnInv
<1>3. got' = [got EXCEPT ![s][e] = IF Head(wire[s][e]) = "message" THEN got[s][e] + 1
                                                                  ELSE got[s][e]]
    BY DEF ReadMessage
<1>4. /\ wire'[s][e] = Tail(wire[s][e]) /\ wire'[s][o] = wire[s][o]
      /\ \A t \in Sockets \ {s} : wire'[t] = wire[t]
    BY StageAndWire DEF ReadMessage
<1> HIDE DEF o
<1>5. /\ got'[s][e] = IF Head(wire[s][e]) = "message" THEN got[s][e] + 1 ELSE got[s][e]
      /\ got'[s][o] = got[s][o]
      /\ \A t \in Sockets \ {s} : got'[t] = got[t]
    BY <1>1, <1>3 DEF ConnInv, ConnectionsTypeOK
<1>6. OnlyAt(s)
    BY <1>2, <1>4, <1>5 DEF OnlyAt
<1>7. /\ stage[s][e] = "reading" => (Signed(HostAt(s, e)) <=> Signed(Remote(s, e)))
      /\ over = "ws" => ~Signed(Remote(s, e))
    BY <1>2 DEF EndOK, RightPeers, PlainOverWs
<1>8. EndOK(s, e)'
    BY <1>2, <1>4, <1>5, <1>6, <1>7, ReadStep
<1>9. EndOK(s, o)'
    BY <1>1, <1>2, <1>4, <1>5, <1>6, SendStep
<1>10. EntriesAreRead'
    BY <1>2, <1>6, EntriesKept
<1> QED
    BY <1>6, <1>8, <1>9, <1>10, AllEndsOK DEF o

\* A message is sent through an entry, and so by an end that is done with the
\* handshake.
LEMMA MessageSent ==
    ASSUME ConnInv, NEW h \in Hosts, NEW g \in Hosts, SendMessage(h, g)
    PROVE  /\ \A t \in Sockets, x \in Ends : EndOK(t, x)'
           /\ EntriesAreRead'
<1>1. PICK s \in Sockets, e \in Ends :
        /\ entry[h][g] = s /\ HostAt(s, e) = h
        /\ sent' = [sent EXCEPT ![s][e] = sent[s][e] + 1]
        /\ IF stage[s][Other(e)] = "ended" THEN UNCHANGED wire ELSE Send(s, e, "message")
        /\ UNCHANGED <<over, identified, route, stage, entry, got>>
    BY DEF SendMessage
<1> DEFINE o == Other(e)
<1>2. /\ o \in Ends /\ o # e /\ Other(o) = e
      /\ HostAt(s, o) = Remote(s, e) /\ Remote(s, o) = HostAt(s, e)
      /\ HostAt(s, o) # h /\ \A x \in Ends : x = e \/ x = o
    BY <1>1, TwoEnds DEF ConnInv, ConnectionsTypeOK
<1>3. stage[s][e] = "reading"
    <2>1. s # NoSocket
        BY ConnectionsAssumption
    <2>2. \E x \in Ends : HostAt(s, x) = h /\ stage[s][x] = "reading"
        BY <1>1, <2>1 DEF ConnInv, EntriesAreRead
    <2> QED
        BY <1>2, <2>2
<1>4. /\ EndOK(s, e)
      /\ over = "ws" => ~Signed(HostAt(s, o)) /\ ~Signed(Remote(s, o))
    BY <1>2, <1>3 DEF ConnInv, EndOK, PlainOverWs
<1>5. /\ wire'[s][e] = wire[s][e]
      /\ \A t \in Sockets \ {s} : wire'[t] = wire[t]
      /\ IF stage[s][o] = "ended" THEN wire'[s][o] = wire[s][o]
                                  ELSE wire'[s][o] = Append(wire[s][o], "message")
    BY <1>1, StageAndWire
<1> HIDE DEF o
<1>6. /\ sent'[s][e] = sent[s][e] + 1 /\ sent'[s][o] = sent[s][o]
      /\ \A t \in Sockets \ {s} : sent'[t] = sent[t]
    BY <1>1, <1>2 DEF ConnInv, ConnectionsTypeOK
<1>7. OnlyAt(s)
    BY <1>1, <1>5, <1>6 DEF OnlyAt
<1>8. EndOK(s, e)'
    <2>1. /\ HostAt(s, e)' = HostAt(s, e) /\ Remote(s, e)' = Remote(s, e)
          /\ Other(e) = o
        BY <1>1 DEF HostAt, Remote, o
    <2> QED
        BY <1>1, <1>4, <1>5, <1>6, <2>1
           DEF EndOK, RightPeers, HelloFirst, PlainOverWs, NothingLost, Signed
<1>9. EndOK(s, o)'
    <2>1. CASE stage[s][o] = "ended"
        BY <1>1, <1>2, <1>3, <1>5, <1>7, <2>1, SendStep
    <2>2. CASE stage[s][o] # "ended"
        <3>1. \E x \in Frame :
                /\ wire'[s][o] = Append(wire[s][o], x)
                /\ sent'[s][Other(o)] = IF x = "message" THEN sent[s][Other(o)] + 1
                                                         ELSE sent[s][Other(o)]
                /\ x # "hello" => stage[s][Other(o)] # "idle"
                /\ x = "response" =>
                        over # "ws" /\ Signed(HostAt(s, o)) /\ Signed(Remote(s, o))
                /\ x = "message" /\ over = "ws" =>
                        ~Signed(HostAt(s, o)) /\ ~Signed(Remote(s, o))
            <4>1. "message" \in Frame
                BY DEF Frame
            <4> WITNESS "message" \in Frame
            <4> QED
                BY <1>2, <1>3, <1>4, <1>5, <1>6, <2>2
        <3>2. /\ stage'[s][o] = stage[s][o] /\ stage'[s][Other(o)] # "idle"
              /\ got'[s][o] = got[s][o]
            BY <1>1, <1>2, <1>3
        <3> QED
            BY <1>2, <1>7, <3>1, <3>2, SendStep
    <2> QED
        BY <2>1, <2>2
<1>10. EntriesAreRead'
    BY <1>1, <1>7, EntriesKept
<1> QED
    BY <1>7, <1>8, <1>9, <1>10, AllEndsOK DEF o

-----------------------------------------------------------------------------
(* The theorems                                                            *)

\* Tables by socket and end, and by two hosts, keep their type.
LEMMA TableTyped ==
    ASSUME NEW S, NEW E, NEW V, NEW f \in [S -> [E -> V]],
           NEW s \in S, NEW e \in E, NEW v \in V
    PROVE  [f EXCEPT ![s][e] = v] \in [S -> [E -> V]]
OBVIOUS

\* The types are kept: nobody reads a frame that has not arrived.
LEMMA NextTyped ==
    ASSUME ConnInv, [ConnectionsNext]_connVars
    PROVE  ConnectionsTypeOK'
<1> DEFINE Stages == {"idle", "reading", "ended"} \cup Waiting
           Entries == Sockets \cup {NoSocket}
<1>0. /\ stage \in [Sockets -> [Ends -> Stages]]
      /\ wire \in [Sockets -> [Ends -> Seq(Frame)]]
      /\ entry \in [Hosts -> [Hosts -> Entries]]
      /\ sent \in [Sockets -> [Ends -> Nat]]
      /\ got \in [Sockets -> [Ends -> Nat]]
      /\ over \in {"tcp", "ws"} /\ identified \subseteq Hosts /\ route \in Routes
    BY DEF ConnInv, ConnectionsTypeOK, Frame
<1>t. ASSUME stage' \in [Sockets -> [Ends -> Stages]],
             wire' \in [Sockets -> [Ends -> Seq(Frame)]],
             entry' \in [Hosts -> [Hosts -> Entries]],
             sent' \in [Sockets -> [Ends -> Nat]],
             got' \in [Sockets -> [Ends -> Nat]],
             UNCHANGED <<over, identified, route>>
      PROVE  ConnectionsTypeOK'
    BY <1>0, <1>t DEF ConnectionsTypeOK, Frame
<1>f. "hello" \in Frame /\ "challenge" \in Frame /\ "response" \in Frame
      /\ "message" \in Frame
    BY DEF Frame
<1>s. Waiting \subseteq Stages /\ "reading" \in Stages /\ "ended" \in Stages
      /\ "hello" \in Stages /\ "challenge" \in Stages /\ "response" \in Stages
    BY DEF Waiting
<1> HIDE DEF Stages, Entries
<1>1. ASSUME NEW s \in Sockets, NEW e \in Ends
      PROVE  /\ HostAt(s, e) \in Hosts /\ Remote(s, e) \in Hosts /\ Other(e) \in Ends
             /\ wire[s][e] \in Seq(Frame) /\ wire[s][Other(e)] \in Seq(Frame)
             /\ wire[s][e] # <<>> => Tail(wire[s][e]) \in Seq(Frame)
             /\ \A f \in Frame : Append(wire[s][Other(e)], f) \in Seq(Frame)
             /\ got[s][e] \in Nat /\ sent[s][e] \in Nat
    <2>1. HostAt(s, e) \in Hosts /\ Remote(s, e) \in Hosts /\ Other(e) \in Ends
        BY <1>0, TwoEnds
    <2>2. /\ wire[s][e] \in Seq(Frame) /\ wire[s][Other(e)] \in Seq(Frame)
          /\ got[s][e] \in Nat /\ sent[s][e] \in Nat
        BY <1>0, <2>1
    <2> QED
        BY <2>1, <2>2
<1>2. ASSUME NEW s \in Sockets, NEW e \in Ends, NEW next \in Stages, Becomes(s, e, next)
      PROVE  stage' \in [Sockets -> [Ends -> Stages]]
    BY <1>0, <1>2, TableTyped DEF Becomes
<1>3. ASSUME NEW s \in Sockets, NEW e \in Ends,
             \/ wire[s][e] # <<>> /\ Consume(s, e)
             \/ Fail(s, e)
             \/ \E f \in Frame : wire[s][e] # <<>> /\ Answer(s, e, f)
             \/ \E f \in Frame : Send(s, e, f)
      PROVE  wire' \in [Sockets -> [Ends -> Seq(Frame)]]
    <2>1. CASE wire[s][e] # <<>> /\ Consume(s, e)
        BY <1>0, <1>1, <2>1, TableTyped DEF Consume
    <2>2. CASE Fail(s, e)
        <3>1. <<>> \in Seq(Frame) /\ wire' = [wire EXCEPT ![s][e] = <<>>]
            BY <2>2 DEF Fail
        <3> QED
            BY <1>0, <3>1, TableTyped
    <2>3. ASSUME NEW f \in Frame, wire[s][e] # <<>>, Answer(s, e, f)
          PROVE  wire' \in [Sockets -> [Ends -> Seq(Frame)]]
        <3>1. wire' = [wire EXCEPT ![s][e] = Tail(wire[s][e]),
                                   ![s][Other(e)] = Append(wire[s][Other(e)], f)]
            BY <2>3 DEF Answer
        <3>2. /\ Tail(wire[s][e]) \in Seq(Frame) /\ Other(e) \in Ends
              /\ Append(wire[s][Other(e)], f) \in Seq(Frame)
            BY <1>1, <2>3
        <3> DEFINE Queue == Seq(Frame)
                   o == Other(e)
                   left == Tail(wire[s][e])
                   more == Append(wire[s][o], f)
        <3>3. /\ wire' = [wire EXCEPT ![s][e] = left, ![s][o] = more]
              /\ wire \in [Sockets -> [Ends -> Queue]]
              /\ left \in Queue /\ more \in Queue /\ o \in Ends
            BY <1>0, <3>1, <3>2
        <3> HIDE DEF Queue, o, left, more
        <3>4. wire' \in [Sockets -> [Ends -> Queue]]
            <4> DEFINE row == [wire[s] EXCEPT ![e] = left, ![o] = more]
            <4>1. wire' = [wire EXCEPT ![s] = row]
                BY <3>3
            <4>2. row \in [Ends -> Queue]
                BY <3>3
            <4> HIDE DEF row
            <4> QED
                BY <3>3, <4>1, <4>2
        <3> QED
            BY <3>4 DEF Queue
    <2>4. ASSUME NEW f \in Frame, Send(s, e, f)
          PROVE  wire' \in [Sockets -> [Ends -> Seq(Frame)]]
        <3>1. wire' = [wire EXCEPT ![s][Other(e)] = Append(wire[s][Other(e)], f)]
            BY <2>4 DEF Send
        <3> DEFINE Queue == Seq(Frame)
                   o == Other(e)
                   more == Append(wire[s][o], f)
        <3>2. /\ wire' = [wire EXCEPT ![s][o] = more]
              /\ wire \in [Sockets -> [Ends -> Queue]]
              /\ more \in Queue /\ o \in Ends
            BY <1>0, <1>1, <3>1
        <3> HIDE DEF Queue, o, more
        <3>3. wire' \in [Sockets -> [Ends -> Queue]]
            BY <3>2, TableTyped
        <3> QED
            BY <3>3 DEF Queue
    <2> QED
        BY <1>3, <2>1, <2>2, <2>3, <2>4
<1>4. ASSUME NEW s \in Sockets, NEW e \in Ends, RegisterSocket(s, e) \/ RemoveEntry(s, e)
      PROVE  entry' \in [Hosts -> [Hosts -> Entries]]
    <2> DEFINE h == HostAt(s, e)
               g == Remote(s, e)
    <2>1. \E t \in Entries : entry' = [entry EXCEPT ![h][g] = t]
        BY <1>4 DEF RegisterSocket, RemoveEntry, Entries
    <2>2. h \in Hosts /\ g \in Hosts
        BY <1>1
    <2> HIDE DEF h, g
    <2> QED
        BY <1>0, <2>1, <2>2, TableTyped
<1>5. CASE UNCHANGED connVars
    BY <1>0, <1>5, <1>t DEF connVars
<1>6. ASSUME NEW s \in Sockets, Dial(s) \/ AcceptIncoming(s)
      PROVE  ConnectionsTypeOK'
    <2>1. /\ UNCHANGED <<over, identified, route, entry, sent, got>>
          /\ \E e \in Ends : Becomes(s, e, "hello") /\ Send(s, e, "hello")
        BY <1>6 DEF Dial, AcceptIncoming, Ends
    <2> QED
        BY <1>0, <1>2, <1>3, <1>f, <1>s, <1>t, <2>1
<1>7. ASSUME NEW s \in Sockets, NEW e \in Ends, TakeHello(s, e)
      PROVE  ConnectionsTypeOK'
    <2>1. /\ UNCHANGED <<over, identified, route, sent, got>> /\ wire[s][e] # <<>>
          /\ entry' = entry \/ RegisterSocket(s, e)
        BY <1>7 DEF TakeHello, Arrived
    <2>2. \E next \in Stages : Becomes(s, e, next)
        BY <1>7, <1>s DEF TakeHello, Fail, RegisterSocket
    <2>3. Fail(s, e) \/ Answer(s, e, "challenge") \/ Consume(s, e)
        BY <1>7 DEF TakeHello
    <2>4. wire' \in [Sockets -> [Ends -> Seq(Frame)]]
        BY <1>3, <1>f, <2>1, <2>3
    <2>5. entry' \in [Hosts -> [Hosts -> Entries]]
        BY <1>0, <1>4, <2>1
    <2>6. stage' \in [Sockets -> [Ends -> Stages]]
        BY <1>2, <2>2
    <2> QED
        BY <1>0, <1>t, <2>1, <2>4, <2>5, <2>6
<1>8. ASSUME NEW s \in Sockets, NEW e \in Ends, TakeChallenge(s, e) \/ TakeAnswer(s, e)
      PROVE  ConnectionsTypeOK'
    <2>1. /\ UNCHANGED <<over, identified, route, sent, got>> /\ wire[s][e] # <<>>
          /\ entry' = entry \/ RegisterSocket(s, e)
        BY <1>8 DEF TakeChallenge, TakeAnswer, Arrived
    <2>2. Becomes(s, e, "ended") \/ Becomes(s, e, "reading")
        BY <1>8 DEF TakeChallenge, TakeAnswer, Fail, RegisterSocket
    <2>3. Fail(s, e) \/ Answer(s, e, "response") \/ Consume(s, e)
        BY <1>8 DEF TakeChallenge, TakeAnswer
    <2>4. wire' \in [Sockets -> [Ends -> Seq(Frame)]]
        BY <1>3, <1>f, <2>1, <2>3
    <2>5. entry' \in [Hosts -> [Hosts -> Entries]]
        BY <1>0, <1>4, <2>1
    <2>6. stage' \in [Sockets -> [Ends -> Stages]]
        BY <1>2, <1>s, <2>2
    <2> QED
        BY <1>0, <1>t, <2>1, <2>4, <2>5, <2>6
<1>9. ASSUME NEW s \in Sockets, NEW e \in Ends,
             \/ TakeUnexpected(s, e) \/ HandshakeTimeout(s, e)
             \/ SeeEnd(s, e) \/ Break(s, e)
      PROVE  ConnectionsTypeOK'
    <2>1. /\ UNCHANGED <<over, identified, route, sent, got>>
          /\ Fail(s, e) \/ (wire[s][e] # <<>> /\ Consume(s, e) /\ UNCHANGED stage)
          /\ entry' = entry \/ RemoveEntry(s, e)
        BY <1>9 DEF TakeUnexpected, HandshakeTimeout, SeeEnd, Break, Arrived
    <2>2. Becomes(s, e, "ended") \/ UNCHANGED stage
        BY <2>1 DEF Fail
    <2>3. stage' \in [Sockets -> [Ends -> Stages]]
        BY <1>0, <1>2, <1>s, <2>2
    <2> QED
        BY <1>0, <1>3, <1>4, <1>t, <2>1, <2>3
<1>10. ASSUME NEW s \in Sockets, NEW e \in Ends, ReadMessage(s, e)
       PROVE  ConnectionsTypeOK'
    <2>1. /\ UNCHANGED <<over, identified, route, stage, entry, sent>>
          /\ wire[s][e] # <<>> /\ Consume(s, e)
        BY <1>10 DEF ReadMessage, Arrived
    <2>2. \E n \in Nat : got' = [got EXCEPT ![s][e] = n]
        <3>1. got' = [got EXCEPT ![s][e] = IF Head(wire[s][e]) = "message"
                                            THEN got[s][e] + 1 ELSE got[s][e]]
            BY <1>10 DEF ReadMessage
        <3>2. (IF Head(wire[s][e]) = "message" THEN got[s][e] + 1 ELSE got[s][e]) \in Nat
            BY <1>1
        <3> QED
            BY <3>1, <3>2
    <2>3. got' \in [Sockets -> [Ends -> Nat]]
        BY <1>0, <2>2, TableTyped
    <2> QED
        BY <1>0, <1>3, <1>t, <2>1, <2>3
<1>11. ASSUME NEW h \in Hosts, NEW g \in Hosts, SendMessage(h, g)
       PROVE  ConnectionsTypeOK'
    <2>1. PICK s \in Sockets, e \in Ends :
            /\ sent' = [sent EXCEPT ![s][e] = sent[s][e] + 1]
            /\ UNCHANGED wire \/ Send(s, e, "message")
            /\ UNCHANGED <<over, identified, route, stage, entry, got>>
        BY <1>11 DEF SendMessage
    <2>2. sent[s][e] + 1 \in Nat
        BY <1>1
    <2>3. sent' \in [Sockets -> [Ends -> Nat]]
        BY <1>0, <2>1, <2>2, TableTyped
    <2> QED
        BY <1>0, <1>3, <1>f, <1>t, <2>1, <2>3
<1> QED
    BY <1>1, <1>5, <1>6, <1>7, <1>8, <1>9, <1>10, <1>11 DEF ConnectionsNext

\* Every step keeps the invariant.
LEMMA NextConnInv == ConnInv /\ [ConnectionsNext]_connVars => ConnInv'
<1> SUFFICES ASSUME ConnInv, [ConnectionsNext]_connVars
             PROVE  ConnInv'
    OBVIOUS
<1>1. ConnectionsTypeOK'
    BY NextTyped
<1>2. ASSUME ConnectionsNext
      PROVE  (\A t \in Sockets, x \in Ends : EndOK(t, x)') /\ EntriesAreRead'
    <2>1. PICK s \in Sockets :
            \/ Dial(s) \/ AcceptIncoming(s)
            \/ \E e \in Ends :
                  \/ TakeHello(s, e) \/ TakeChallenge(s, e) \/ TakeAnswer(s, e)
                  \/ TakeUnexpected(s, e) \/ HandshakeTimeout(s, e)
                  \/ ReadMessage(s, e) \/ SeeEnd(s, e) \/ Break(s, e)
                  \/ SendMessage(HostAt(s, e), Remote(s, e))
        BY <1>2 DEF ConnectionsNext
    <2>2. CASE Dial(s) \/ AcceptIncoming(s)
        BY <2>2, DialOrAccept
    <2>3. ASSUME NEW e \in Ends, TakeHello(s, e)
          PROVE  (\A t \in Sockets, x \in Ends : EndOK(t, x)') /\ EntriesAreRead'
        BY <2>3, HelloStep
    <2>4. ASSUME NEW e \in Ends, TakeChallenge(s, e) \/ TakeAnswer(s, e)
          PROVE  (\A t \in Sockets, x \in Ends : EndOK(t, x)') /\ EntriesAreRead'
        BY <2>4, ChallengeStep
    <2>5. ASSUME NEW e \in Ends, TakeUnexpected(s, e)
          PROVE  (\A t \in Sockets, x \in Ends : EndOK(t, x)') /\ EntriesAreRead'
        BY <2>5, UnexpectedStep
    <2>6. ASSUME NEW e \in Ends, HandshakeTimeout(s, e) \/ SeeEnd(s, e) \/ Break(s, e)
          PROVE  (\A t \in Sockets, x \in Ends : EndOK(t, x)') /\ EntriesAreRead'
        BY <2>6, EndStep
    <2>7. ASSUME NEW e \in Ends, ReadMessage(s, e)
          PROVE  (\A t \in Sockets, x \in Ends : EndOK(t, x)') /\ EntriesAreRead'
        BY <2>7, MessageRead
    <2>8. ASSUME NEW e \in Ends, SendMessage(HostAt(s, e), Remote(s, e))
          PROVE  (\A t \in Sockets, x \in Ends : EndOK(t, x)') /\ EntriesAreRead'
        <3>1. HostAt(s, e) \in Hosts /\ Remote(s, e) \in Hosts
            BY TwoEnds DEF ConnInv, ConnectionsTypeOK
        <3>2. ASSUME NEW h \in Hosts, NEW g \in Hosts, SendMessage(h, g)
              PROVE  (\A t \in Sockets, x \in Ends : EndOK(t, x)') /\ EntriesAreRead'
            BY <3>2, MessageSent
        <3> QED
            BY <2>8, <3>1, <3>2
    <2> QED
        BY <2>1, <2>2, <2>3, <2>4, <2>5, <2>6, <2>7, <2>8
<1>3. ASSUME UNCHANGED connVars
      PROVE  (\A t \in Sockets, x \in Ends : EndOK(t, x)') /\ EntriesAreRead'
    <2>1. \A t \in Sockets, x \in Ends : EndOK(t, x)'
        <3> SUFFICES ASSUME NEW t \in Sockets, NEW x \in Ends
                     PROVE  EndOK(t, x)'
            OBVIOUS
        <3>1. EndOK(t, x)
            BY DEF ConnInv
        <3> QED
            BY <1>3, <3>1 DEF EndOK, RightPeers, HelloFirst, PlainOverWs, NothingLost,
                              HostAt, Remote, Signed, connVars
    <2>2. EntriesAreRead'
        BY <1>3 DEF ConnInv, EntriesAreRead, HostAt, Remote, connVars
    <2> QED
        BY <2>1, <2>2
<1> QED
    BY <1>1, <1>2, <1>3 DEF ConnInv

\* The invariant of the connections: their types, what is on its way to either
\* end of every socket, and whose the entries are.
THEOREM ConnectionsInvariance == ConnectionsSpec => []ConnInv
BY InitConnInv, NextConnInv, PTL DEF ConnectionsSpec

\* However connections between two peers replace each other and end, a listed
\* peer has a connection that is being read and that went through the handshake
\* with that peer.
THEOREM RegistryIsLive == ConnectionsSpec => []EntriesAreRead
<1>1. ConnInv => EntriesAreRead
    BY DEF ConnInv
<1> QED
    BY <1>1, ConnectionsInvariance, PTL

\* Whatever a peer sends, and however early, is handed to the other's engine or
\* under way, as long as the other's end lives.
THEOREM MessagesArrive == ConnectionsSpec => []NothingSwallowed
<1>1. ConnInv => NothingSwallowed
    <2> SUFFICES ASSUME ConnInv, NEW s \in Sockets, NEW e \in Ends,
                        stage[s][Other(e)] # "ended"
                 PROVE  sent[s][e] =
                            got[s][Other(e)] + Count("message", wire[s][Other(e)])
        BY DEF NothingSwallowed
    <2> DEFINE o == Other(e)
    <2>1. o \in Ends /\ Other(o) = e
        BY TwoEnds DEF ConnInv, ConnectionsTypeOK
    <2>2. NothingLost(s, o)
        BY <2>1 DEF ConnInv, EndOK
    <2> HIDE DEF o
    <2>3. stage[s][o] # "ended" =>
            sent[s][e] = got[s][o] + Count("message", wire[s][o])
        BY <2>1, <2>2 DEF NothingLost
    <2> QED
        BY <2>3 DEF o
<1> QED
    BY <1>1, ConnectionsInvariance, PTL

=============================================================================
