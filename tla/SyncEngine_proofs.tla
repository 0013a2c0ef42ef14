-------------------------- MODULE SyncEngine_proofs --------------------------
(***************************************************************************)
(* What the sync engine promises over working connections, for every       *)
(* number of peers, every capacity and budget, and any number of failures. *)
(***************************************************************************)
EXTENDS SyncEngine, TLAPS

-----------------------------------------------------------------------------
(* The elements of sequences                                               *)

\* Sending appends frames and takes none away.
LEMMA RangeConcat ==
    ASSUME NEW S, NEW s \in Seq(S), NEW t \in Seq(S)
    PROVE  s \o t \in Seq(S) /\ Range(s \o t) = Range(s) \cup Range(t)
<1>1. s \o t \in Seq(S) /\ Len(s \o t) = Len(s) + Len(t)
    OBVIOUS
<1>2. \A i \in 1..Len(s) : (s \o t)[i] = s[i]
    OBVIOUS
<1>3. \A i \in 1..Len(t) : (s \o t)[i + Len(s)] = t[i] /\ i + Len(s) \in 1..Len(s \o t)
    OBVIOUS
<1>4. \A i \in 1..Len(s \o t) :
        i \in 1..Len(s) \/ (i - Len(s) \in 1..Len(t)
                                /\ (s \o t)[i] = t[i - Len(s)])
    OBVIOUS
<1>5. DOMAIN s = 1..Len(s) /\ DOMAIN t = 1..Len(t) /\ DOMAIN (s \o t) = 1..Len(s \o t)
    BY <1>1
<1>6. Range(s) \subseteq Range(s \o t)
  <2>1. ASSUME NEW i \in 1..Len(s) PROVE s[i] \in Range(s \o t)
    <3>1. i \in 1..Len(s \o t)
        BY <1>1
    <3> QED
        BY <3>1, <1>2, <1>5 DEF Range
  <2> QED
    BY <2>1, <1>5 DEF Range
<1>7. Range(t) \subseteq Range(s \o t)
    BY <1>3, <1>5 DEF Range
<1>8. Range(s \o t) \subseteq Range(s) \cup Range(t)
    BY <1>2, <1>4, <1>5 DEF Range
<1> QED
    BY <1>1, <1>6, <1>7, <1>8

\* The frames are those of the one and of the other sequence.
IsJoin(u, s, t, S) == u \in Seq(S) /\ Range(u) = Range(s) \cup Range(t)

\* The same, of sequences that need not be looked into.
LEMMA Joined ==
    ASSUME NEW S, NEW s \in Seq(S), NEW t \in Seq(S)
    PROVE  IsJoin(s \o t, s, t, S)
<1>1. s \o t \in Seq(S) /\ Range(s \o t) = Range(s) \cup Range(t)
    BY RangeConcat
<1> QED
    BY Zenon, <1>1 DEF IsJoin

\* The elements of a sequence of a set are in the set.
LEMMA RangeTyped ==
    ASSUME NEW S, NEW s \in Seq(S)
    PROVE  Range(s) \subseteq S
BY DEF Range

\* Reading a frame takes the first one away and no other.
LEMMA RangeTail ==
    ASSUME NEW S, NEW s \in Seq(S), s # <<>>
    PROVE  /\ Head(s) \in S /\ Tail(s) \in Seq(S)
           /\ Range(s) = {Head(s)} \cup Range(Tail(s))
<1>1. Head(s) \in S /\ Tail(s) \in Seq(S) /\ Len(Tail(s)) = Len(s) - 1
    OBVIOUS
<1>2. \A i \in 1..Len(Tail(s)) : Tail(s)[i] = s[i + 1] /\ i + 1 \in 1..Len(s)
    OBVIOUS
<1>3. Head(s) = s[1] /\ 1 \in 1..Len(s)
    OBVIOUS
<1>4. \A i \in 1..Len(s) : i = 1 \/ (i - 1 \in 1..Len(Tail(s))
                                        /\ s[i] = Tail(s)[i - 1])
    BY <1>1, <1>2
<1>5. DOMAIN s = 1..Len(s) /\ DOMAIN Tail(s) = 1..Len(Tail(s))
    BY <1>1
<1>6. Range(Tail(s)) \subseteq Range(s)
    BY <1>2, <1>5 DEF Range
<1>7. Head(s) \in Range(s)
    BY <1>3, <1>5 DEF Range
<1>8. Range(s) \subseteq {Head(s)} \cup Range(Tail(s))
  <2> SUFFICES ASSUME NEW i \in 1..Len(s)
               PROVE  s[i] \in {Head(s)} \cup Range(Tail(s))
      BY <1>5 DEF Range
  <2>1. CASE i = 1
      BY <1>3, <2>1
  <2>2. CASE i # 1
    <3>1. i - 1 \in DOMAIN Tail(s) /\ s[i] = Tail(s)[i - 1]
        BY <1>4, <1>5, <2>2
    <3> QED
        BY <3>1 DEF Range
  <2> QED
      BY <2>1, <2>2
<1> QED
    BY <1>1, <1>6, <1>7, <1>8

\* A connection that breaks keeps a prefix of its frames.
LEMMA RangeSubSeq ==
    ASSUME NEW S, NEW s \in Seq(S), NEW i \in 0..Len(s)
    PROVE  SubSeq(s, 1, i) \in Seq(S) /\ Range(SubSeq(s, 1, i)) \subseteq Range(s)
<1>1. SubSeq(s, 1, i) \in Seq(S) /\ Len(SubSeq(s, 1, i)) = i
    OBVIOUS
<1>2. \A k \in 1..i : SubSeq(s, 1, i)[k] = s[k] /\ k \in 1..Len(s)
    OBVIOUS
<1> QED
    BY <1>1, <1>2 DEF Range

\* A single frame, and none.
LEMMA RangeSingle ==
    ASSUME NEW S, NEW m \in S
    PROVE  /\ <<m>> \in Seq(S) /\ Range(<<m>>) = {m}
           /\ <<>> \in Seq(S) /\ Range(<<>>) = {}
BY DEF Range

\* One frame before the others, or after them.
LEMMA RangeOneMore ==
    ASSUME NEW S, NEW s \in Seq(S), NEW m \in S
    PROVE  /\ <<m>> \o s \in Seq(S) /\ Range(<<m>> \o s) = Range(s) \cup {m}
           /\ Append(s, m) \in Seq(S) /\ Range(Append(s, m)) = Range(s) \cup {m}
<1> PICK one : one = <<m>>
    OBVIOUS
<1>1. one \in Seq(S) /\ Range(one) = {m}
    BY RangeSingle
<1>2. /\ one \o s \in Seq(S) /\ Range(one \o s) = Range(one) \cup Range(s)
      /\ s \o one \in Seq(S) /\ Range(s \o one) = Range(s) \cup Range(one)
  <2>1. IsJoin(one \o s, one, s, S) /\ IsJoin(s \o one, s, one, S)
      BY Zenon, <1>1, Joined
  <2> QED
      BY Zenon, <2>1 DEF IsJoin
<1>3. Append(s, m) = s \o one
    OBVIOUS
<1> QED
    BY <1>1, <1>2, <1>3

-----------------------------------------------------------------------------
(* The inductive invariant                                                 *)

\* Whoever has an operation, its issuer has it.
OwnersKnow == \A p \in Peers : \A o \in log[p] : o \in log[o[1]]

\* What a frame from p to q may be about: what p sends as operations it has
\* issued itself, and what it acknowledges q has issued.
FrameOK(p, q, m) ==
    /\ m.type \in {"Operation", "Batch"} => m.ops \subseteq Own(p)
    /\ m.type = "Ack" => m.ops \subseteq Own(q)
    /\ m.type = "RequestSnapshot" => m.ops = {}
    /\ \A o \in m.ops : o \in log[o[1]]

FramesOK == \A p, q \in Peers : \A m \in Range(chan[p][q]) : FrameOK(p, q, m)

\* Only an engine's own operations and requests wait in its offline queue.
QueueOK ==
    \A p \in Peers : \A m \in Range(offline[p]) :
        /\ m.type \in {"Operation", "RequestSnapshot"}
        /\ \A q \in Peers : FrameOK(p, q, m)

IInv ==
    /\ TypeOK
    /\ WithinLimits
    /\ OwnersKnow
    /\ FramesOK
    /\ QueueOK
    /\ LinkedPeersAreFed

-----------------------------------------------------------------------------
(* Sending                                                                 *)

\* What the frames of a write are: the old ones and, on the connections that
\* work, the new ones.
LEMMA WrittenFrames ==
    ASSUME TypeOK, NEW p \in Peers, NEW out \in [Peers -> Seq(Message)],
           chan' = [chan EXCEPT ![p] = Written(p, out)]
    PROVE  /\ chan' \in [Peers -> [Peers -> Seq(Message)]]
           /\ \A x, y \in Peers : x # p => chan'[x][y] = chan[x][y]
           /\ \A y \in Peers :
                Range(chan'[p][y]) = Range(chan[p][y]) \cup
                    (IF Works(p, y) THEN Range(out[y]) ELSE {})
           /\ \A y \in Peers : Works(p, y) =>
                InFlight(p, y)' = InFlight(p, y) \cup Carried(out[y])
<1>1. chan \in [Peers -> [Peers -> Seq(Message)]]
    BY DEF TypeOK
<1>2. ASSUME NEW y \in Peers
      PROVE  /\ Written(p, out)[y] \in Seq(Message)
             /\ Range(Written(p, out)[y]) = Range(chan[p][y]) \cup
                    (IF Works(p, y) THEN Range(out[y]) ELSE {})
  <2> DEFINE new == IF Works(p, y) THEN out[y] ELSE <<>>
  <2>1. new \in Seq(Message) /\ chan[p][y] \in Seq(Message)
      BY <1>1
  <2>2. Range(new) = IF Works(p, y) THEN Range(out[y]) ELSE {}
      BY DEF Range
  <2>3. Written(p, out)[y] = chan[p][y] \o new
      BY DEF Written
  <2> HIDE DEF new
  <2>4. IsJoin(chan[p][y] \o new, chan[p][y], new, Message)
      BY Zenon, <2>1, Joined
  <2> QED
      BY Zenon, <2>2, <2>3, <2>4 DEF IsJoin
<1>3. Written(p, out) \in [Peers -> Seq(Message)]
    BY <1>2 DEF Written
<1>4. ASSUME NEW y \in Peers, Works(p, y)
      PROVE  InFlight(p, y)' = InFlight(p, y) \cup Carried(out[y])
  <2> DEFINE old == chan[p][y]
             new == chan'[p][y]
             more == out[y]
  <2>1. Range(new) = Range(old) \cup Range(more)
      BY <1>1, <1>2, <1>3, <1>4
  <2> HIDE DEF old, new, more
  <2>2. Carried(new) = Carried(old) \cup Carried(more)
      BY Zenon, <2>1 DEF Carried
  <2> QED
      BY <2>2 DEF InFlight, old, new, more
<1> QED
    BY <1>1, <1>2, <1>3, <1>4

\* A frame stays in order while logs grow.
LEMMA FrameStaysOK ==
    ASSUME TypeOK, \A x \in Peers : log[x] \subseteq log'[x],
           NEW p \in Peers, NEW q \in Peers, NEW m \in Message, FrameOK(p, q, m)
    PROVE  FrameOK(p, q, m)'
<1>1. \A x \in Peers : Own(x) \subseteq Own(x)'
    BY DEF Own
<1>2. \A o \in m.ops : o[1] \in Peers
    BY DEF Message, Op
<1> QED
    BY <1>1, <1>2 DEF FrameOK

\* A step in which p writes frames, and may log operations, keeps what is
\* said of frames and of working connections.
LEMMA SendingKeeps ==
    ASSUME IInv, NEW p \in Peers, NEW out \in [Peers -> Seq(Message)],
           chan' = [chan EXCEPT ![p] = Written(p, out)],
           \A x \in Peers : log[x] \subseteq log'[x],
           \A x \in Peers \ {p} : /\ log'[x] = log[x]
                                  /\ batch'[x] = batch[x]
                                  /\ known'[x] = known[x],
           UNCHANGED netVars,
           \A y \in Peers : \A m \in Range(out[y]) : FrameOK(p, y, m)',
           \A y \in Peers : y \in known'[p] /\ Works(p, y) =>
                Own(p)' \subseteq log'[y] \cup InFlight(p, y)
                                  \cup Carried(out[y]) \cup batch'[p]
    PROVE  FramesOK' /\ LinkedPeersAreFed'
<1> USE DEF IInv
<1>1. /\ \A x, y \in Peers : x # p => chan'[x][y] = chan[x][y]
      /\ \A y \in Peers :
            Range(chan'[p][y]) = Range(chan[p][y]) \cup
                (IF Works(p, y) THEN Range(out[y]) ELSE {})
      /\ \A y \in Peers : Works(p, y) =>
            InFlight(p, y)' = InFlight(p, y) \cup Carried(out[y])
    BY WrittenFrames
<1>2. \A x, y \in Peers : Works(x, y)' <=> Works(x, y)
    BY DEF Works, netVars
<1>3. FramesOK'
  <2> SUFFICES ASSUME NEW x \in Peers, NEW y \in Peers,
                      NEW m \in Range(chan'[x][y])
               PROVE  FrameOK(x, y, m)'
      BY DEF FramesOK
  <2>1. CASE m \in Range(chan[x][y])
    <3>1. m \in Message
      <4>1. chan[x][y] \in Seq(Message)
          BY DEF TypeOK
      <4> QED
          BY <2>1, <4>1, RangeTyped
    <3> QED
        BY <2>1, <3>1, FrameStaysOK DEF FramesOK
  <2>2. CASE m \notin Range(chan[x][y])
      BY <1>1, <2>2
  <2> QED
      BY <2>1, <2>2
<1>4. LinkedPeersAreFed'
  <2> SUFFICES ASSUME NEW x \in Peers, NEW y \in Peers,
                      y \in known'[x], Works(x, y)
               PROVE  Own(x)' \subseteq
                        log'[y] \cup InFlight(x, y)' \cup batch'[x]
      BY <1>2 DEF LinkedPeersAreFed
  <2>1. CASE x # p
    <3>1. Own(x)' = Own(x) /\ InFlight(x, y)' = InFlight(x, y)
        BY <1>1, <2>1 DEF Own, InFlight
    <3>2. Own(x) \subseteq log[y] \cup InFlight(x, y) \cup batch[x]
        BY <2>1 DEF LinkedPeersAreFed
    <3>3. log[y] \subseteq log'[y] /\ batch'[x] = batch[x]
        BY <2>1
    <3> QED
        BY <3>1, <3>2, <3>3
  <2>2. CASE x = p
    <3>1. InFlight(p, y)' = InFlight(p, y) \cup Carried(out[y])
        BY <1>1, <2>2
    <3>2. Own(p)' \subseteq log'[y] \cup InFlight(p, y)
                            \cup Carried(out[y]) \cup batch'[p]
        BY <2>2
    <3> QED
        BY <2>2, <3>1, <3>2
  <2> QED
      BY <2>1, <2>2
<1> QED
    BY <1>3, <1>4

\* The offline queue stays within its capacity, whatever it drops.
LEMMA EnqueueBounded ==
    ASSUME NEW queue \in Seq(Message), Len(queue) <= OfflineCapacity,
           NEW m \in Message
    PROVE  /\ Enqueue(queue, m) \in Seq(Message)
           /\ Len(Enqueue(queue, m)) <= OfflineCapacity
           /\ Range(Enqueue(queue, m)) \subseteq Range(queue) \cup {m}
<1> DEFINE kept == IF Len(queue) >= OfflineCapacity THEN Tail(queue) ELSE queue
<1>1. /\ kept \in Seq(Message) /\ Len(kept) < OfflineCapacity
      /\ Range(kept) \subseteq Range(queue)
  <2>1. CASE Len(queue) >= OfflineCapacity
    <3>1. Len(queue) \in Nat \ {0} /\ queue # <<>>
        BY <2>1, EngineAssumption
    <3>2. Len(Tail(queue)) = Len(queue) - 1
        BY <3>1
    <3> QED
        BY <2>1, <3>1, <3>2, RangeTail, EngineAssumption
  <2>2. CASE ~(Len(queue) >= OfflineCapacity)
      BY <2>2, EngineAssumption
  <2> QED
      BY <2>1, <2>2
<1>2. <<m>> \in Seq(Message) /\ Range(<<m>>) = {m} /\ Len(<<m>>) = 1
    BY RangeSingle
<1>3. Enqueue(queue, m) = kept \o <<m>>
    BY <1>1 DEF Enqueue
<1> HIDE DEF kept
<1>4. Len(kept \o <<m>>) = Len(kept) + 1 /\ Len(kept) \in Nat
    BY <1>1, <1>2
<1>5. Len(kept \o <<m>>) <= OfflineCapacity
    BY <1>1, <1>4, EngineAssumption
<1>6. /\ kept \o <<m>> \in Seq(Message)
      /\ Range(kept \o <<m>>) = Range(kept) \cup {m}
  <2>1. kept \in Seq(Message) /\ <<m>> \in Seq(Message)
      BY <1>1, <1>2
  <2>2. /\ kept \o <<m>> \in Seq(Message)
        /\ Range(kept \o <<m>>) = Range(kept) \cup Range(<<m>>)
    <3>1. IsJoin(kept \o <<m>>, kept, <<m>>, Message)
        BY Zenon, <2>1, Joined
    <3> QED
        BY Zenon, <3>1 DEF IsJoin
  <2> QED
      BY <1>2, <2>2
<1> QED
    BY <1>1, <1>3, <1>5, <1>6

-----------------------------------------------------------------------------
(* Tracking                                                                *)

\* What is tracked: own operations, each sent within the budget.
TrackedOK(tracked, own) ==
    /\ DOMAIN tracked \subseteq own
    /\ \A o \in DOMAIN tracked : tracked[o] \in 1..(MaxResends + 1)

\* Tracking, acknowledging and resending stay within the budget.
LEMMA TrackingKeeps ==
    ASSUME NEW tracked, NEW own, TrackedOK(tracked, own)
    PROVE  /\ \A ops : ops \subseteq own => TrackedOK(Track(tracked, ops), own)
           /\ \A ops : TrackedOK(Untrack(tracked, ops), own)
           /\ \A o \in DOMAIN tracked : TrackedOK(Attempt(tracked, o), own)
<1>1. ASSUME NEW ops, ops \subseteq own PROVE TrackedOK(Track(tracked, ops), own)
    BY <1>1, EngineAssumption DEF TrackedOK, Track
<1>2. ASSUME NEW ops PROVE TrackedOK(Untrack(tracked, ops), own)
    BY DEF TrackedOK, Untrack
<1>3. ASSUME NEW o \in DOMAIN tracked PROVE TrackedOK(Attempt(tracked, o), own)
  <2>1. CASE tracked[o] > MaxResends
      BY <1>2, <2>1 DEF Attempt
  <2>2. CASE ~(tracked[o] > MaxResends)
      BY <2>2, EngineAssumption DEF Attempt, TrackedOK
  <2> QED
      BY <2>1, <2>2
<1> QED
    BY <1>1, <1>2, <1>3

\* WithinLimits, in these terms.
LEMMA Limits ==
    /\ WithinLimits <=> \A p \in Peers :
        /\ Len(offline[p]) <= OfflineCapacity
        /\ batch[p] \subseteq Own(p)
        /\ TrackedOK(pending[p], Own(p))
        /\ \A a \in acked[p] : a[1] \in Own(p)
BY DEF WithinLimits, TrackedOK

\* Whoever logs more keeps its limits.
LEMMA TrackedGrows ==
    ASSUME NEW tracked, NEW own, NEW more, own \subseteq more,
           TrackedOK(tracked, own)
    PROVE  TrackedOK(tracked, more)
BY DEF TrackedOK

-----------------------------------------------------------------------------
(* The application's calls                                                 *)

\* An operation that its issuer logs is new to it and to nobody else.
LEMMA LoggingFresh ==
    ASSUME TypeOK, OwnersKnow, NEW p \in Peers,
           log' = [log EXCEPT ![p] = @ \cup {Fresh(p)}]
    PROVE  /\ Fresh(p) \in Op /\ Fresh(p)[1] = p
           /\ log' \in [Peers -> SUBSET Op]
           /\ \A x \in Peers : log[x] \subseteq log'[x]
           /\ \A x \in Peers \ {p} : log'[x] = log[x]
           /\ Own(p)' = Own(p) \cup {Fresh(p)}
           /\ \A x \in Peers : Own(x) \subseteq Own(x)'
           /\ OwnersKnow'
<1>1. Fresh(p) \in Op /\ Fresh(p)[1] = p
    BY EngineAssumption DEF Fresh, Op, TypeOK
<1>2. log \in [Peers -> SUBSET Op]
    BY DEF TypeOK
<1>3. /\ log' \in [Peers -> SUBSET Op]
      /\ \A x \in Peers : log[x] \subseteq log'[x]
      /\ \A x \in Peers \ {p} : log'[x] = log[x]
      /\ log'[p] = log[p] \cup {Fresh(p)}
    BY <1>1, <1>2
<1>4. /\ Own(p)' = Own(p) \cup {Fresh(p)}
      /\ \A x \in Peers : Own(x) \subseteq Own(x)'
    BY <1>1, <1>3 DEF Own
<1>5. OwnersKnow'
  <2> SUFFICES ASSUME NEW x \in Peers, NEW o \in log'[x]
               PROVE  o \in log'[o[1]]
      BY DEF OwnersKnow
  <2>1. CASE o = Fresh(p)
      BY <1>1, <1>3, <2>1
  <2>2. CASE o # Fresh(p)
    <3>1. o \in log[x] /\ o \in Op
        BY <1>2, <1>3, <2>2
    <3>2. o[1] \in Peers /\ o \in log[o[1]]
        BY <3>1 DEF Op, OwnersKnow
    <3> QED
        BY <1>3, <3>2
  <2> QED
      BY <2>1, <2>2
<1> QED
    BY <1>1, <1>3, <1>4, <1>5

\* A dispatched message is on its way to the peers it reached or waits in the
\* queue, and the rest of the engine's promises are kept.
LEMMA DispatchKeeps ==
    ASSUME IInv, TypeOK', OwnersKnow', NEW p \in Peers, NEW m \in Message,
           Dispatch(p, m), m.type \in {"Operation", "RequestSnapshot"},
           \A q \in Peers : FrameOK(p, q, m)',
           UNCHANGED <<acked, batch, known, netVars>>,
           \A x \in Peers : log[x] \subseteq log'[x],
           \A x \in Peers \ {p} : log'[x] = log[x],
           Own(p)' = Own(p) \cup m.ops
    PROVE  WithinLimits' /\ FramesOK' /\ QueueOK' /\ LinkedPeersAreFed'
<1> USE DEF IInv
<1>0. \A x \in Peers : Own(x) \subseteq Own(x)'
    BY DEF Own
<1>1. PICK ok \in BroadcastOk(p) :
        /\ chan' = [chan EXCEPT ![p] = Written(p, ToAll(<<m>>))]
        /\ pending' = IF ok THEN [pending EXCEPT ![p] = Track(@, Tracked(<<m>>))]
                      ELSE pending
        /\ offline' = IF ok THEN offline
                      ELSE [offline EXCEPT ![p] = Enqueue(@, m)]
    BY DEF Dispatch
<1>2. Range(<<m>>) = {m} /\ <<m>> \in Seq(Message)
    BY RangeSingle
<1>3. Tracked(<<m>>) \subseteq m.ops /\ Carried(<<m>>) = m.ops
    BY <1>2 DEF Tracked, Carried
<1>4. FramesOK' /\ LinkedPeersAreFed'
  <2> DEFINE out == ToAll(<<m>>)
  <2>1. out \in [Peers -> Seq(Message)] /\ \A y \in Peers : out[y] = <<m>>
      BY <1>2 DEF ToAll
  <2>2. chan' = [chan EXCEPT ![p] = Written(p, out)]
      BY <1>1
  <2>3. ASSUME NEW y \in Peers, y \in known'[p], Works(p, y)
        PROVE  Own(p)' \subseteq log'[y] \cup InFlight(p, y)
                                  \cup Carried(out[y]) \cup batch'[p]
    <3>1. Own(p) \subseteq log[y] \cup InFlight(p, y) \cup batch[p]
        BY <2>3 DEF LinkedPeersAreFed
    <3> QED
        BY <1>3, <2>1, <3>1
  <2>4. \A y \in Peers : \A n \in Range(out[y]) : FrameOK(p, y, n)'
      BY <1>2, <2>1
  <2>5. \A x \in Peers \ {p} : /\ log'[x] = log[x]
                               /\ batch'[x] = batch[x]
                               /\ known'[x] = known[x]
      OBVIOUS
  <2>6. UNCHANGED netVars
      OBVIOUS
  <2> HIDE DEF out, IInv
  <2> QED
      BY <2>1, <2>2, <2>3, <2>4, <2>5, <2>6, SendingKeeps
<1>5. QueueOK'
  <2> SUFFICES ASSUME NEW x \in Peers, NEW n \in Range(offline'[x])
               PROVE  /\ n.type \in {"Operation", "RequestSnapshot"}
                      /\ \A q \in Peers : FrameOK(x, q, n)'
      BY DEF QueueOK
  <2>1. n \in Range(offline[x]) \/ (x = p /\ n = m)
    <3>1. offline[p] \in Seq(Message) /\ Len(offline[p]) <= OfflineCapacity
        BY DEF TypeOK, WithinLimits
    <3>2. Range(Enqueue(offline[p], m)) \subseteq Range(offline[p]) \cup {m}
        BY <3>1, EnqueueBounded
    <3>3. offline'[x] = offline[x]
            \/ (x = p /\ offline'[x] = Enqueue(offline[p], m))
        BY <1>1 DEF TypeOK
    <3> QED
        BY <3>2, <3>3
  <2>2. CASE n \in Range(offline[x])
    <3>1. n \in Message
        BY <2>2 DEF TypeOK, Range
    <3>2. /\ n.type \in {"Operation", "RequestSnapshot"}
          /\ \A q \in Peers : FrameOK(x, q, n)
        BY <2>2 DEF QueueOK
    <3> QED
        BY <3>1, <3>2, FrameStaysOK
  <2> QED
      BY <2>1, <2>2
<1>6. WithinLimits'
  <2> SUFFICES ASSUME NEW x \in Peers
               PROVE  /\ Len(offline'[x]) <= OfflineCapacity
                      /\ batch'[x] \subseteq Own(x)'
                      /\ TrackedOK(pending'[x], Own(x)')
                      /\ \A a \in acked'[x] : a[1] \in Own(x)'
      BY DEF WithinLimits, TrackedOK
  <2>1. /\ Len(offline[x]) <= OfflineCapacity
        /\ batch[x] \subseteq Own(x)
        /\ TrackedOK(pending[x], Own(x))
        /\ \A a \in acked[x] : a[1] \in Own(x)
      BY Limits
  <2>2. Len(offline'[x]) <= OfflineCapacity
    <3>1. offline[p] \in Seq(Message) /\ Len(offline[p]) <= OfflineCapacity
        BY DEF TypeOK, WithinLimits
    <3>2. Len(Enqueue(offline[p], m)) <= OfflineCapacity
        BY <3>1, EnqueueBounded
    <3>3. offline'[x] = offline[x]
            \/ (x = p /\ offline'[x] = Enqueue(offline[p], m))
        BY <1>1 DEF TypeOK
    <3> QED
        BY <2>1, <3>2, <3>3
  <2>3. TrackedOK(pending[x], Own(x)')
      BY <1>0, <2>1, TrackedGrows
  <2>4. pending'[x] = pending[x]
            \/ (x = p /\ pending'[x] = Track(pending[x], Tracked(<<m>>)))
      BY <1>1 DEF TypeOK
  <2>5. x = p => Tracked(<<m>>) \subseteq Own(x)'
      BY <1>3
  <2>6. TrackedOK(pending'[x], Own(x)')
      BY <2>3, <2>4, <2>5, TrackingKeeps
  <2> QED
      BY <1>0, <2>1, <2>2, <2>6
<1> QED
    BY <1>4, <1>5, <1>6

\* The types after a message has been dispatched.
LEMMA DispatchTypes ==
    ASSUME TypeOK, WithinLimits, NEW p \in Peers, NEW m \in Message, Dispatch(p, m)
    PROVE  /\ chan' \in [Peers -> [Peers -> Seq(Message)]]
           /\ offline' \in [Peers -> Seq(Message)]
           /\ DOMAIN pending' = Peers
<1>1. ToAll(<<m>>) \in [Peers -> Seq(Message)]
    BY RangeSingle DEF ToAll
<1>2. chan' = [chan EXCEPT ![p] = Written(p, ToAll(<<m>>))]
    BY DEF Dispatch
<1>3. chan' \in [Peers -> [Peers -> Seq(Message)]]
    BY <1>1, <1>2, WrittenFrames
<1>4. Enqueue(offline[p], m) \in Seq(Message)
    BY EnqueueBounded DEF TypeOK, WithinLimits
<1>5. offline' \in [Peers -> Seq(Message)] /\ DOMAIN pending' = Peers
    BY <1>4 DEF Dispatch, TypeOK
<1> QED
    BY <1>3, <1>5

LEMMA ApplyLocalKeeps ==
    ASSUME IInv, NEW p \in Peers, ApplyLocal(p)
    PROVE  IInv'
<1> USE DEF IInv
<1> PICK m : m = Operation(Fresh(p))
    OBVIOUS
<1>1. log' = [log EXCEPT ![p] = @ \cup {Fresh(p)}]
    BY DEF ApplyLocal
<1>2. /\ Fresh(p) \in Op /\ Fresh(p)[1] = p
      /\ log' \in [Peers -> SUBSET Op]
      /\ \A x \in Peers : log[x] \subseteq log'[x]
      /\ \A x \in Peers \ {p} : log'[x] = log[x]
      /\ Own(p)' = Own(p) \cup {Fresh(p)}
      /\ OwnersKnow'
    BY <1>1, LoggingFresh
<1>3. m \in Message /\ m.type = "Operation" /\ m.ops = {Fresh(p)}
    BY <1>2 DEF Operation, Msg, Message, MessageType
<1>4. Dispatch(p, m)
    BY DEF ApplyLocal
<1>5. TypeOK'
  <2>1. /\ chan' \in [Peers -> [Peers -> Seq(Message)]]
        /\ offline' \in [Peers -> Seq(Message)]
        /\ DOMAIN pending' = Peers
      BY <1>3, <1>4, DispatchTypes
  <2>2. calls' \in 0..MaxCalls
      BY EngineAssumption DEF ApplyLocal, Call, TypeOK
  <2> QED
      BY <1>2, <2>1, <2>2 DEF ApplyLocal, TypeOK, netVars
<1>6. \A q \in Peers : FrameOK(p, q, m)'
  <2>1. Fresh(p) \in log'[p]
      BY <1>1, <1>2 DEF TypeOK
  <2> QED
      BY <1>2, <1>3, <2>1 DEF FrameOK
<1>7. UNCHANGED <<acked, batch, known, netVars>>
    BY DEF ApplyLocal
<1> QED
    BY <1>2, <1>3, <1>4, <1>5, <1>6, <1>7, DispatchKeeps

LEMMA RequestSnapshotKeeps ==
    ASSUME IInv, NEW p \in Peers, RequestSnapshot(p)
    PROVE  IInv'
<1> USE DEF IInv
<1> PICK m : m = Msg("RequestSnapshot", {})
    OBVIOUS
<1>1. m \in Message /\ m.type = "RequestSnapshot" /\ m.ops = {}
    BY DEF Msg, Message, MessageType
<1>2. Dispatch(p, m) /\ log' = log /\ UNCHANGED <<acked, batch, known, netVars>>
    BY DEF RequestSnapshot
<1>3. TypeOK'
  <2>1. /\ chan' \in [Peers -> [Peers -> Seq(Message)]]
        /\ offline' \in [Peers -> Seq(Message)]
        /\ DOMAIN pending' = Peers
      BY <1>1, <1>2, DispatchTypes
  <2>2. calls' \in 0..MaxCalls
      BY EngineAssumption DEF RequestSnapshot, Call, TypeOK
  <2> QED
      BY <2>1, <2>2 DEF RequestSnapshot, TypeOK, netVars
<1>4. OwnersKnow' /\ Own(p)' = Own(p)
    BY <1>2 DEF OwnersKnow, Own
<1>5. \A q \in Peers : FrameOK(p, q, m)'
    BY <1>1 DEF FrameOK
<1> QED
    BY <1>1, <1>2, <1>3, <1>4, <1>5, DispatchKeeps

\* Where the logs only grow and the queues stay, they stay in order.
LEMMA QueueStaysOK ==
    ASSUME TypeOK, QueueOK, \A x \in Peers : log[x] \subseteq log'[x],
           offline' = offline
    PROVE  QueueOK'
<1> SUFFICES ASSUME NEW x \in Peers, NEW n \in Range(offline[x])
             PROVE  /\ n.type \in {"Operation", "RequestSnapshot"}
                    /\ \A q \in Peers : FrameOK(x, q, n)'
    BY DEF QueueOK
<1>1. n \in Message
    BY DEF TypeOK, Range
<1>2. /\ n.type \in {"Operation", "RequestSnapshot"}
      /\ \A q \in Peers : FrameOK(x, q, n)
    BY DEF QueueOK
<1> QED
    BY <1>1, <1>2, FrameStaysOK

LEMMA BatchLocalKeeps ==
    ASSUME IInv, NEW p \in Peers, BatchLocal(p)
    PROVE  IInv'
<1> USE DEF IInv
<1>1. /\ log' = [log EXCEPT ![p] = @ \cup {Fresh(p)}]
      /\ batch' = [batch EXCEPT ![p] = @ \cup {Fresh(p)}]
      /\ UNCHANGED <<offline, pending, acked, known, chan, conn, link, breaks>>
    BY DEF BatchLocal, netVars
<1>2. /\ Fresh(p) \in Op /\ Fresh(p)[1] = p
      /\ log' \in [Peers -> SUBSET Op]
      /\ \A x \in Peers : log[x] \subseteq log'[x]
      /\ \A x \in Peers \ {p} : log'[x] = log[x]
      /\ Own(p)' = Own(p) \cup {Fresh(p)}
      /\ \A x \in Peers : Own(x) \subseteq Own(x)'
      /\ OwnersKnow'
    BY <1>1, LoggingFresh
<1>3. TypeOK'
  <2>1. calls' \in 0..MaxCalls
      BY EngineAssumption DEF BatchLocal, Call, TypeOK
  <2> QED
      BY <1>1, <1>2, <2>1 DEF TypeOK
<1>4. WithinLimits'
  <2> SUFFICES ASSUME NEW x \in Peers
               PROVE  /\ Len(offline'[x]) <= OfflineCapacity
                      /\ batch'[x] \subseteq Own(x)'
                      /\ TrackedOK(pending'[x], Own(x)')
                      /\ \A a \in acked'[x] : a[1] \in Own(x)'
      BY DEF WithinLimits, TrackedOK
  <2>1. /\ Len(offline[x]) <= OfflineCapacity
        /\ batch[x] \subseteq Own(x)
        /\ TrackedOK(pending[x], Own(x))
        /\ \A a \in acked[x] : a[1] \in Own(x)
      BY Limits
  <2>2. TrackedOK(pending[x], Own(x)')
      BY <1>2, <2>1, TrackedGrows
  <2>3. batch'[x] \subseteq Own(x)'
      BY <1>1, <1>2, <2>1 DEF TypeOK
  <2> QED
      BY <1>1, <1>2, <2>1, <2>2, <2>3
<1>5. FramesOK'
  <2> SUFFICES ASSUME NEW x \in Peers, NEW y \in Peers, NEW m \in Range(chan[x][y])
               PROVE  FrameOK(x, y, m)'
      BY <1>1 DEF FramesOK
  <2>1. m \in Message
      BY DEF TypeOK, Range
  <2> QED
      BY <1>2, <2>1, FrameStaysOK DEF FramesOK
<1>6. QueueOK'
    BY <1>1, <1>2, QueueStaysOK
<1>7. LinkedPeersAreFed'
  <2> SUFFICES ASSUME NEW x \in Peers, NEW y \in Peers,
                      y \in known[x], Works(x, y)
               PROVE  Own(x)' \subseteq log'[y] \cup InFlight(x, y) \cup batch'[x]
      BY <1>1 DEF LinkedPeersAreFed, Works, InFlight
  <2>1. Own(x) \subseteq log[y] \cup InFlight(x, y) \cup batch[x]
      BY DEF LinkedPeersAreFed
  <2>2. Own(x)' \subseteq Own(x) \cup (batch'[x] \ batch[x]) \cup batch'[x]
      BY <1>1, <1>2 DEF TypeOK, Own
  <2>3. batch[x] \subseteq batch'[x]
      BY <1>1 DEF TypeOK
  <2> QED
      BY <1>2, <2>1, <2>2, <2>3
<1> QED
    BY <1>2, <1>3, <1>4, <1>5, <1>6, <1>7

\* A step in which p writes frames and changes only its tracking, its batch,
\* its queue and what it knows of its peers: the state it leaves.
Bookkeeping(p) ==
    /\ UNCHANGED <<log, acked, calls, conn, link, breaks>>
    /\ \A x \in Peers \ {p} : batch'[x] = batch[x] /\ known'[x] = known[x]
    /\ batch' \in [Peers -> SUBSET Op] /\ batch'[p] \subseteq batch[p]
    /\ known' \in [Peers -> SUBSET Peers]
    /\ \A x \in Peers : offline'[x] \in {offline[x], <<>>}
    /\ offline' \in [Peers -> Seq(Message)]
    /\ DOMAIN pending' = Peers
    /\ \A x \in Peers : TrackedOK(pending'[x], Own(x))

\* What it writes is in order, and feeds the peers it knows.
Writes(p, out) ==
    /\ out \in [Peers -> Seq(Message)]
    /\ chan' = [chan EXCEPT ![p] = Written(p, out)]
    /\ \A y \in Peers : \A m \in Range(out[y]) : FrameOK(p, y, m)
    /\ \A y \in Peers : y \in known'[p] /\ Works(p, y) =>
            Own(p) \subseteq log[y] \cup InFlight(p, y)
                              \cup Carried(out[y]) \cup batch'[p]

\* Such a step keeps the invariant.
LEMMA WritingKeeps ==
    ASSUME IInv, NEW p \in Peers, NEW out, Writes(p, out), Bookkeeping(p)
    PROVE  IInv'
<1> USE DEF IInv, Writes, Bookkeeping
<1>1. chan' \in [Peers -> [Peers -> Seq(Message)]]
    BY WrittenFrames
<1>2. \A x \in Peers : Own(x)' = Own(x)
    BY DEF Own
<1>3. \A x, y, m : FrameOK(x, y, m)' <=> FrameOK(x, y, m)
    BY DEF FrameOK, Own
<1>4. TypeOK'
    BY <1>1 DEF TypeOK
<1>5. FramesOK' /\ LinkedPeersAreFed'
  <2>1. UNCHANGED netVars
      BY DEF netVars
  <2>2. \A y \in Peers : \A m \in Range(out[y]) : FrameOK(p, y, m)'
      BY <1>3
  <2>3. \A x \in Peers : log[x] \subseteq log'[x]
      OBVIOUS
  <2>4. \A x \in Peers \ {p} : /\ log'[x] = log[x]
                               /\ batch'[x] = batch[x]
                               /\ known'[x] = known[x]
      OBVIOUS
  <2>5. \A y \in Peers : y \in known'[p] /\ Works(p, y) =>
            Own(p)' \subseteq log'[y] \cup InFlight(p, y)
                              \cup Carried(out[y]) \cup batch'[p]
      BY <1>2
  <2> HIDE DEF IInv
  <2> QED
      BY <2>1, <2>2, <2>3, <2>4, <2>5, SendingKeeps
<1>6. QueueOK'
  <2> SUFFICES ASSUME NEW x \in Peers, NEW m \in Range(offline'[x])
               PROVE  /\ m.type \in {"Operation", "RequestSnapshot"}
                      /\ \A q \in Peers : FrameOK(x, q, m)
      BY <1>3 DEF QueueOK
  <2>1. Range(<<>>) = {}
      BY DEF Range
  <2>2. m \in Range(offline[x])
      BY <2>1
  <2> QED
      BY <2>2 DEF QueueOK
<1>7. OwnersKnow'
    BY DEF OwnersKnow
<1>8. WithinLimits'
  <2> SUFFICES ASSUME NEW x \in Peers
               PROVE  /\ Len(offline'[x]) <= OfflineCapacity
                      /\ batch'[x] \subseteq Own(x)
                      /\ \A a \in acked[x] : a[1] \in Own(x)
      BY <1>2 DEF WithinLimits, TrackedOK
  <2>1. batch'[x] \subseteq batch[x]
      OBVIOUS
  <2>2. Len(offline'[x]) <= OfflineCapacity
    <3>1. Len(<<>>) <= OfflineCapacity
        BY EngineAssumption
    <3> QED
        BY <3>1 DEF WithinLimits
  <2> QED
      BY <2>1, <2>2 DEF WithinLimits
<1> QED
    BY <1>4, <1>5, <1>6, <1>7, <1>8

\* What is on its way to the peers that are known already.
LEMMA Fed ==
    ASSUME LinkedPeersAreFed, NEW p \in Peers, NEW y \in Peers,
           y \in known[p], Works(p, y)
    PROVE  Own(p) \subseteq log[y] \cup InFlight(p, y) \cup batch[p]
BY DEF LinkedPeersAreFed

LEMMA FlushBatchKeeps ==
    ASSUME IInv, NEW p \in Peers, FlushBatch(p)
    PROVE  IInv'
<1> PICK m : m = Msg("Batch", batch[p])
    OBVIOUS
<1>1. m \in Message /\ m.type = "Batch" /\ m.ops = batch[p]
    BY DEF Msg, Message, MessageType, IInv, TypeOK
<1> PICK out : out = ToAll(<<m>>)
    OBVIOUS
<1>2. /\ out \in [Peers -> Seq(Message)]
      /\ \A y \in Peers : Range(out[y]) = {m}
    BY <1>1, RangeSingle DEF ToAll
<1>3. /\ chan' = [chan EXCEPT ![p] = Written(p, out)]
      /\ batch' \in {[batch EXCEPT ![p] = {}], batch}
      /\ UNCHANGED <<log, offline, pending, acked, known, calls, conn, link, breaks>>
    BY DEF FlushBatch, netVars
<1>4. \A y \in Peers : \A n \in Range(out[y]) : FrameOK(p, y, n)
  <2>1. batch[p] \subseteq Own(p)
      BY DEF IInv, WithinLimits
  <2>2. \A o \in Own(p) : o \in log[o[1]]
      BY DEF IInv, OwnersKnow, Own
  <2> QED
      BY <1>1, <1>2, <2>1, <2>2 DEF FrameOK
<1>5. \A y \in Peers : y \in known'[p] /\ Works(p, y) =>
            Own(p) \subseteq log[y] \cup InFlight(p, y)
                              \cup Carried(out[y]) \cup batch'[p]
  <2>1. \A y \in Peers : Carried(out[y]) = batch[p]
      BY <1>1, <1>2 DEF Carried
  <2> QED
      BY <1>3, <2>1, Fed DEF IInv
<1>6. /\ batch' \in [Peers -> SUBSET Op] /\ batch'[p] \subseteq batch[p]
      /\ \A x \in Peers \ {p} : batch'[x] = batch[x] /\ known'[x] = known[x]
      /\ known' \in [Peers -> SUBSET Peers]
      /\ \A x \in Peers : offline'[x] \in {offline[x], <<>>}
      /\ DOMAIN pending' = Peers
      /\ offline' \in [Peers -> Seq(Message)]
    BY <1>3 DEF IInv, TypeOK
<1>7. \A x \in Peers : TrackedOK(pending'[x], Own(x))
    BY <1>3, Limits DEF IInv
<1>8. Writes(p, out)
    BY <1>2, <1>3, <1>4, <1>5 DEF Writes
<1>9. Bookkeeping(p)
    BY <1>3, <1>6, <1>7 DEF Bookkeeping
<1> QED
    BY <1>8, <1>9, WritingKeeps

LEMMA ResendDueKeeps ==
    ASSUME IInv, NEW p \in Peers, ResendDue(p)
    PROVE  IInv'
<1>1. UNCHANGED <<log, offline, acked, batch, known, calls, conn, link, breaks>>
    BY DEF ResendDue, netVars
<1>2. PICK o \in DOMAIN pending[p] :
        /\ chan' = IF pending[p][o] > MaxResends THEN chan
                   ELSE [chan EXCEPT ![p] = Written(p, ToAll(<<Operation(o)>>))]
        /\ pending' = [pending EXCEPT ![p] = Attempt(@, o)]
    BY DEF ResendDue
<1> PICK m : m = Operation(o)
    OBVIOUS
<1>3. o \in Own(p) /\ o \in Op
    BY DEF IInv, WithinLimits, Own, TypeOK
<1>4. m \in Message /\ m.type = "Operation" /\ m.ops = {o}
    BY <1>3 DEF Operation, Msg, Message, MessageType
<1>5. /\ DOMAIN pending' = Peers
      /\ \A x \in Peers : TrackedOK(pending'[x], Own(x))
  <2>1. \A x \in Peers : TrackedOK(pending[x], Own(x))
      BY Limits DEF IInv
  <2>2. TrackedOK(Attempt(pending[p], o), Own(p))
      BY <2>1, TrackingKeeps
  <2>3. DOMAIN pending = Peers
      BY DEF IInv, TypeOK
  <2> QED
      BY <1>2, <2>1, <2>2, <2>3
<1> PICK out : out = ToAll(IF pending[p][o] > MaxResends THEN <<>> ELSE <<m>>)
    OBVIOUS
<1>6. /\ out \in [Peers -> Seq(Message)]
      /\ \A y \in Peers : Range(out[y]) \subseteq {m}
    BY <1>4, RangeSingle DEF ToAll
<1>7. chan' = [chan EXCEPT ![p] = Written(p, out)]
  <2>1. CASE pending[p][o] > MaxResends
    <3>1. \A y \in Peers : out[y] = <<>> /\ chan[p][y] \in Seq(Message)
        BY <2>1 DEF ToAll, IInv, TypeOK
    <3>2. \A y \in Peers : chan[p][y] \o <<>> = chan[p][y]
        BY <3>1
    <3>3. Written(p, out) = [y \in Peers |-> chan[p][y]]
        BY <3>1, <3>2 DEF Written
    <3> QED
        BY <1>2, <2>1, <3>3 DEF IInv, TypeOK
  <2>2. CASE ~(pending[p][o] > MaxResends)
      BY <1>2, <2>2
  <2> QED
      BY <2>1, <2>2
<1>8. \A y \in Peers : \A n \in Range(out[y]) : FrameOK(p, y, n)
  <2>1. o \in log[o[1]]
      BY <1>3 DEF IInv, OwnersKnow, Own
  <2> QED
      BY <1>3, <1>4, <1>6, <2>1 DEF FrameOK
<1>9. \A y \in Peers : y \in known'[p] /\ Works(p, y) =>
            Own(p) \subseteq log[y] \cup InFlight(p, y)
                              \cup Carried(out[y]) \cup batch'[p]
    BY <1>1, Fed DEF IInv
<1>10. /\ batch' \in [Peers -> SUBSET Op] /\ batch'[p] \subseteq batch[p]
       /\ \A x \in Peers \ {p} : batch'[x] = batch[x] /\ known'[x] = known[x]
       /\ known' \in [Peers -> SUBSET Peers]
       /\ \A x \in Peers : offline'[x] \in {offline[x], <<>>}
       /\ offline' \in [Peers -> Seq(Message)]
    BY <1>1 DEF IInv, TypeOK
<1>11. Writes(p, out)
    BY <1>6, <1>7, <1>8, <1>9 DEF Writes
<1>12. Bookkeeping(p)
    BY <1>1, <1>5, <1>10 DEF Bookkeeping
<1> QED
    BY <1>11, <1>12, WritingKeeps

\* The frames of a greeting are the queue and snapshots.
LEMMA GreetingFrames ==
    ASSUME NEW p \in Peers, NEW greeted, NEW queued \in Seq(Message),
           Snapshot(p) \in Message, NEW y \in Peers
    PROVE  /\ Greeting(p, greeted, queued)[y] \in Seq(Message)
           /\ Range(Greeting(p, greeted, queued)[y])
                    \subseteq Range(queued) \cup {Snapshot(p)}
           /\ y \in greeted =>
                    Snapshot(p) \in Range(Greeting(p, greeted, queued)[y])
<1> PICK snap \in Message : snap = Snapshot(p)
    OBVIOUS
<1>1. /\ <<snap>> \o queued \in Seq(Message)
      /\ Range(<<snap>> \o queued) = Range(queued) \cup {snap}
      /\ Append(queued, snap) \in Seq(Message)
      /\ Range(Append(queued, snap)) = Range(queued) \cup {snap}
    BY RangeOneMore
<1> PICK out : out = Greeting(p, greeted, queued)[y]
    OBVIOUS
<1>2. /\ out \in {queued, <<snap>> \o queued, Append(queued, snap)}
      /\ y \in greeted => out \in {<<snap>> \o queued, Append(queued, snap)}
    BY DEF Greeting
<1> QED
    BY <1>1, <1>2

\* A new peer whose connection works is greeted with a snapshot, which holds
\* all that the old ones are fed.
LEMMA DetectPeerChangesKeeps ==
    ASSUME IInv, NEW p \in Peers, DetectPeerChanges(p)
    PROVE  IInv'
<1> PICK joined : joined = conn[p] \ known[p]
    OBVIOUS
<1> PICK greeted : greeted = joined \ Refusing(p)
    OBVIOUS
<1> PICK queued : queued = IF greeted = {} THEN <<>> ELSE offline[p]
    OBVIOUS
<1> PICK snap : snap = Snapshot(p)
    OBVIOUS
<1> PICK out : out = Greeting(p, greeted, queued)
    OBVIOUS
<1>1. /\ chan' = [chan EXCEPT ![p] = Written(p, out)]
      /\ \E ok \in BroadcastOk(p) :
            pending' = IF ok THEN [pending EXCEPT ![p] = Track(@, Tracked(queued))]
                       ELSE pending
      /\ offline' = IF greeted = {} THEN offline
                    ELSE [offline EXCEPT ![p] = <<>>]
      /\ known' = [known EXCEPT ![p] = conn[p]]
      /\ UNCHANGED <<log, acked, batch, calls, conn, link, breaks>>
    BY DEF DetectPeerChanges, netVars
<1>2. snap \in Message /\ snap.type = "Snapshot" /\ snap.ops = log[p]
    BY DEF Snapshot, Msg, Message, MessageType, IInv, TypeOK
<1>3. /\ queued \in Seq(Message)
      /\ \A m \in Range(queued) : /\ m.type \in {"Operation", "RequestSnapshot"}
                                  /\ \A y \in Peers : FrameOK(p, y, m)
  <2>1. Range(<<>>) = {} /\ <<>> \in Seq(Message)
      BY DEF Range
  <2> QED
      BY <2>1 DEF IInv, TypeOK, QueueOK
<1>4. Tracked(queued) \subseteq Own(p)
    BY <1>3 DEF Tracked, FrameOK
<1>5. \A y \in Peers :
        /\ out[y] \in Seq(Message)
        /\ Range(out[y]) \subseteq Range(queued) \cup {snap}
        /\ y \in greeted => snap \in Range(out[y])
    BY <1>2, <1>3, GreetingFrames
<1>6. out \in [Peers -> Seq(Message)]
    BY <1>5 DEF Greeting
<1>7. \A y \in Peers : \A m \in Range(out[y]) : FrameOK(p, y, m)
  <2>1. \A y \in Peers : FrameOK(p, y, snap)
      BY <1>2 DEF FrameOK, IInv, OwnersKnow
  <2> QED
      BY <1>3, <1>5, <2>1
<1>8. ASSUME NEW y \in Peers, y \in known'[p], Works(p, y)
      PROVE  Own(p) \subseteq log[y] \cup InFlight(p, y)
                              \cup Carried(out[y]) \cup batch'[p]
  <2>1. CASE y \in known[p]
    <3>1. Own(p) \subseteq log[y] \cup InFlight(p, y) \cup batch[p]
        BY <1>8, <2>1, Fed DEF IInv
    <3> QED
        BY <1>1, <3>1
  <2>2. CASE y \notin known[p]
    <3>1. y \in greeted
        BY <1>1, <1>8, <2>2 DEF Works, Refusing, IInv, TypeOK
    <3>2. snap \in Range(out[y])
        BY <1>5, <3>1
    <3>3. log[p] \subseteq Carried(out[y])
        BY <1>2, <3>2 DEF Carried
    <3> QED
        BY <3>3 DEF Own
  <2> QED
      BY <2>1, <2>2
<1>9. /\ batch' \in [Peers -> SUBSET Op] /\ batch'[p] \subseteq batch[p]
      /\ \A x \in Peers \ {p} : batch'[x] = batch[x] /\ known'[x] = known[x]
      /\ known' \in [Peers -> SUBSET Peers]
      /\ \A x \in Peers : offline'[x] \in {offline[x], <<>>}
      /\ offline' \in [Peers -> Seq(Message)]
  <2>1. /\ batch' = batch
        /\ batch \in [Peers -> SUBSET Op] /\ known \in [Peers -> SUBSET Peers]
        /\ conn \in [Peers -> SUBSET Peers] /\ offline \in [Peers -> Seq(Message)]
      BY <1>1 DEF IInv, TypeOK
  <2>2. /\ \A x \in Peers \ {p} : known'[x] = known[x]
        /\ known' \in [Peers -> SUBSET Peers]
      BY <1>1, <2>1
  <2>3. /\ \A x \in Peers : offline'[x] \in {offline[x], <<>>}
        /\ offline' \in [Peers -> Seq(Message)]
      BY <1>1, <2>1
  <2> QED
      BY <2>1, <2>2, <2>3
<1>10. /\ DOMAIN pending' = Peers
       /\ \A x \in Peers : TrackedOK(pending'[x], Own(x))
  <2>1. DOMAIN pending = Peers /\ \A x \in Peers : TrackedOK(pending[x], Own(x))
      BY Limits DEF IInv, TypeOK
  <2>2. TrackedOK(Track(pending[p], Tracked(queued)), Own(p))
      BY <1>4, <2>1, TrackingKeeps
  <2> QED
      BY <1>1, <2>1, <2>2
<1>11. Writes(p, out)
    BY <1>1, <1>6, <1>7, <1>8 DEF Writes
<1>12. Bookkeeping(p)
    BY <1>1, <1>9, <1>10 DEF Bookkeeping
<1> QED
    BY <1>11, <1>12, WritingKeeps

\* A reply is in order: what is acknowledged, the sender has issued.
LEMMA ReplyOK ==
    ASSUME IInv, NEW p \in Peers, NEW q \in Peers, NEW m \in Message,
           FrameOK(q, p, m)
    PROVE  /\ Reply(p, m) \in Seq(Message)
           /\ \A n \in Range(Reply(p, m)) : FrameOK(p, q, n)
<1>1. CASE m.type \in {"Operation", "Batch"}
  <2> PICK n : n = Msg("Ack", m.ops)
      OBVIOUS
  <2>1. n \in Message /\ n.type = "Ack" /\ n.ops = m.ops
      BY DEF Msg, Message, MessageType
  <2>2. FrameOK(p, q, n)
      BY <1>1, <2>1 DEF FrameOK
  <2>3. Reply(p, m) = <<n>>
      BY <1>1 DEF Reply
  <2> QED
      BY <2>1, <2>2, <2>3, RangeSingle
<1>2. CASE m.type = "RequestSnapshot"
  <2> PICK n : n = Snapshot(p)
      OBVIOUS
  <2>1. n \in Message /\ n.type = "Snapshot" /\ n.ops = log[p]
      BY DEF Snapshot, Msg, Message, MessageType, IInv, TypeOK
  <2>2. FrameOK(p, q, n)
      BY <2>1 DEF FrameOK, IInv, OwnersKnow
  <2>3. Reply(p, m) = <<n>>
      BY <1>2 DEF Reply
  <2> QED
      BY <2>1, <2>2, <2>3, RangeSingle
<1>3. CASE m.type \notin {"Operation", "Batch", "RequestSnapshot"}
  <2>1. Reply(p, m) = <<>>
      BY <1>3 DEF Reply
  <2> QED
      BY <2>1 DEF Range
<1> QED
    BY <1>1, <1>2, <1>3

\* Handling a frame moves what it carries from the connection into the log.
LEMMA HandleMessageKeeps ==
    ASSUME IInv, NEW p \in Peers, NEW q \in Peers \ {p}, HandleMessage(p, q)
    PROVE  IInv'
<1> PICK m : m = Head(chan[q][p])
    OBVIOUS
<1> PICK rest : rest = Tail(chan[q][p])
    OBVIOUS
<1> PICK reply : reply = IF Works(p, q) THEN Reply(p, m) ELSE <<>>
    OBVIOUS
<1>1. /\ chan[q][p] # <<>>
      /\ chan' = [chan EXCEPT ![q][p] = rest, ![p][q] = @ \o reply]
      /\ log' = IF m.type = "Ack" THEN log
                ELSE [log EXCEPT ![p] = @ \cup m.ops]
      /\ OnAck(p, q, m)
      /\ UNCHANGED <<offline, batch, known, calls, conn, link, breaks>>
    BY DEF HandleMessage, netVars
<1>2. /\ log \in [Peers -> SUBSET Op]
      /\ chan \in [Peers -> [Peers -> Seq(Message)]]
    BY DEF IInv, TypeOK
<1>3. /\ m \in Message /\ rest \in Seq(Message)
      /\ Range(chan[q][p]) = {m} \cup Range(rest)
    BY <1>1, <1>2, RangeTail
<1>4. FrameOK(q, p, m)
    BY <1>3 DEF IInv, FramesOK
<1>5. reply \in Seq(Message) /\ \A n \in Range(reply) : FrameOK(p, q, n)
  <2>1. <<>> \in Seq(Message) /\ Range(<<>>) = {}
      BY DEF Range
  <2> QED
      BY <1>3, <1>4, <2>1, ReplyOK
<1>6. /\ chan' \in [Peers -> [Peers -> Seq(Message)]]
      /\ chan'[q][p] = rest
      /\ Range(chan'[p][q]) = Range(chan[p][q]) \cup Range(reply)
      /\ \A x, y \in Peers : ~(x = q /\ y = p) /\ ~(x = p /\ y = q)
                                => chan'[x][y] = chan[x][y]
  <2> PICK old \in Seq(Message) : old = chan[p][q]
      BY <1>2
  <2> PICK longer : longer = old \o reply
      OBVIOUS
  <2>0. IsJoin(old \o reply, old, reply, Message)
      BY Zenon, <1>5, Joined
  <2>1. longer \in Seq(Message) /\ Range(longer) = Range(old) \cup Range(reply)
      BY Zenon, <2>0 DEF IsJoin
  <2>2. chan' = [chan EXCEPT ![q][p] = rest, ![p][q] = longer]
      BY <1>1, <1>2
  <2>3. chan'[q][p] = rest /\ chan'[p][q] = longer
      BY <1>2, <2>2
  <2>4. \A x, y \in Peers : ~(x = q /\ y = p) /\ ~(x = p /\ y = q)
                                => chan'[x][y] = chan[x][y]
      BY <1>2, <2>2
  <2>5. chan' \in [Peers -> [Peers -> Seq(Message)]]
      BY <1>2, <1>3, <2>1, <2>2
  <2> QED
      BY <2>1, <2>3, <2>4, <2>5
<1>7. /\ log' \in [Peers -> SUBSET Op]
      /\ \A x \in Peers : log[x] \subseteq log'[x]
      /\ \A x \in Peers \ {p} : log'[x] = log[x]
      /\ log'[p] \subseteq log[p] \cup m.ops
      /\ m.type # "Ack" => m.ops \subseteq log'[p]
  <2>1. m.ops \subseteq Op
      BY <1>3 DEF Message
  <2> QED
      BY <1>1, <1>2, <2>1
<1>8. OwnersKnow' /\ \A x \in Peers : Own(x)' = Own(x)
  <2>1. \A x \in Peers : \A o \in log'[x] : o \in log[o[1]] /\ o[1] \in Peers
    <3>1. \A o \in m.ops : o \in log[o[1]] /\ o \in Op
        BY <1>3, <1>4 DEF FrameOK, Message
    <3>2. \A x \in Peers : \A o \in log[x] : o \in log[o[1]] /\ o \in Op
        BY <1>2 DEF IInv, OwnersKnow
    <3>3. \A x \in Peers : \A o \in log'[x] : o \in log[x] \/ o \in m.ops
        BY <1>7
    <3> QED
        BY <3>1, <3>2, <3>3 DEF Op
  <2>2. OwnersKnow'
      BY <1>7, <2>1 DEF OwnersKnow
  <2>3. \A x \in Peers : Own(x)' = Own(x)
      BY <1>7, <2>1 DEF Own
  <2> QED
      BY <2>2, <2>3
<1>9. /\ acked' \in [Peers -> SUBSET (Op \X Peers)]
      /\ DOMAIN pending' = Peers
      /\ \A x \in Peers : TrackedOK(pending'[x], Own(x))
      /\ \A x \in Peers : \A a \in acked'[x] : a[1] \in Own(x)
  <2>1. /\ acked \in [Peers -> SUBSET (Op \X Peers)] /\ DOMAIN pending = Peers
        /\ \A x \in Peers : TrackedOK(pending[x], Own(x))
        /\ \A x \in Peers : \A a \in acked[x] : a[1] \in Own(x)
      BY Limits DEF IInv, TypeOK
  <2>2. CASE m.type # "Ack"
      BY <1>1, <2>1, <2>2 DEF OnAck
  <2>3. CASE m.type = "Ack"
    <3> PICK new : new = {<<o, q>> : o \in m.ops}
        OBVIOUS
    <3> PICK first : first = {o \in m.ops : ~HasAck(acked[p], o)}
        OBVIOUS
    <3>1. /\ acked' = [acked EXCEPT ![p] = @ \cup new]
          /\ pending' = [pending EXCEPT ![p] = Untrack(@, first)]
        BY <1>1, <2>3 DEF OnAck
    <3>2. new \subseteq Op \X Peers /\ \A a \in new : a[1] \in Own(p)
        BY <1>3, <1>4, <2>3 DEF FrameOK, Message
    <3>3. TrackedOK(Untrack(pending[p], first), Own(p))
        BY <2>1, TrackingKeeps
    <3>4. /\ DOMAIN pending' = Peers
          /\ \A x \in Peers : TrackedOK(pending'[x], Own(x))
        BY <2>1, <3>1, <3>3
    <3>5. /\ acked' \in [Peers -> SUBSET (Op \X Peers)]
          /\ \A x \in Peers : \A a \in acked'[x] : a[1] \in Own(x)
        BY <2>1, <3>1, <3>2
    <3> QED
        BY <3>4, <3>5
  <2> QED
      BY <2>2, <2>3
<1>10. TypeOK'
    BY <1>1, <1>6, <1>7, <1>9 DEF IInv, TypeOK
<1>11. WithinLimits'
    BY <1>1, <1>8, <1>9 DEF IInv, WithinLimits, TrackedOK
<1>12. QueueOK'
    BY <1>1, <1>7, QueueStaysOK DEF IInv
<1>13. FramesOK'
  <2> SUFFICES ASSUME NEW x \in Peers, NEW y \in Peers, NEW n \in Range(chan'[x][y])
               PROVE  FrameOK(x, y, n)'
      BY DEF FramesOK
  <2>1. n \in Message
      BY <1>6 DEF Range
  <2>2. FrameOK(x, y, n)
    <3>1. n \in Range(chan[x][y]) => FrameOK(x, y, n)
        BY DEF IInv, FramesOK
    <3>2. CASE x = q /\ y = p
        BY <1>3, <1>6, <3>1, <3>2
    <3>3. CASE x = p /\ y = q
        BY <1>5, <1>6, <3>1, <3>3
    <3>4. CASE ~(x = q /\ y = p) /\ ~(x = p /\ y = q)
        BY <1>6, <3>1, <3>4
    <3> QED
        BY <3>2, <3>3, <3>4
  <2> QED
      BY <1>7, <2>1, <2>2, FrameStaysOK DEF IInv
<1>14. LinkedPeersAreFed'
  <2>0. \A x, y \in Peers :
            /\ Works(x, y)' <=> Works(x, y)
            /\ Own(x)' = Own(x) /\ known'[x] = known[x] /\ batch'[x] = batch[x]
      BY <1>1, <1>8 DEF Works
  <2> SUFFICES ASSUME NEW x \in Peers, NEW y \in Peers,
                      y \in known[x], Works(x, y)
               PROVE  Own(x) \subseteq log'[y] \cup InFlight(x, y)' \cup batch[x]
      BY <2>0 DEF LinkedPeersAreFed
  <2>1. Own(x) \subseteq log[y] \cup InFlight(x, y) \cup batch[x]
      BY Fed DEF IInv
  <2>2. InFlight(x, y) \subseteq log'[y] \cup InFlight(x, y)'
    <3>1. CASE x = q /\ y = p
      <4>1. InFlight(q, p) \subseteq Carried(rest) \cup (IF m.type = "Ack" THEN {} ELSE m.ops)
          BY <1>3 DEF InFlight, Carried
      <4>2. InFlight(q, p)' = Carried(rest)
          BY <1>6 DEF InFlight
      <4> QED
          BY <1>7, <3>1, <4>1, <4>2
    <3>2. CASE x = p /\ y = q
      <4>1. Range(chan[p][q]) \subseteq Range(chan'[p][q])
          BY <1>6
      <4>2. Carried(chan[p][q]) \subseteq Carried(chan'[p][q])
          BY <4>1 DEF Carried
      <4> QED
          BY <3>2, <4>2 DEF InFlight
    <3>3. CASE ~(x = q /\ y = p) /\ ~(x = p /\ y = q)
        BY <1>6, <3>3 DEF InFlight
    <3> QED
        BY <3>1, <3>2, <3>3
  <2> QED
      BY <1>7, <2>1, <2>2
<1> QED
    BY <1>8, <1>10, <1>11, <1>12, <1>13, <1>14 DEF IInv

-----------------------------------------------------------------------------
(* Connections                                                             *)

\* A step of the transport that loses frames only where a connection stops
\* working, and makes none work that an engine believes to know.
LEMMA TransportKeeps ==
    ASSUME IInv,
           UNCHANGED <<log, offline, pending, acked, batch, known, calls>>,
           conn' \in [Peers -> SUBSET Peers],
           link' \in [Pairs -> {"up", "silent", "dead"}],
           chan' \in [Peers -> [Peers -> Seq(Message)]],
           breaks' \in 0..MaxBreaks,
           \A x, y \in Peers : Range(chan'[x][y]) \subseteq Range(chan[x][y]),
           \A x, y \in Peers : y \in known[x] /\ Works(x, y)' =>
                Works(x, y) /\ chan'[x][y] = chan[x][y]
    PROVE  IInv'
<1>1. TypeOK'
    BY DEF IInv, TypeOK
<1>2. WithinLimits' /\ OwnersKnow'
    BY DEF IInv, WithinLimits, OwnersKnow, Own
<1>3. \A x, y, m : FrameOK(x, y, m)' <=> FrameOK(x, y, m)
    BY DEF FrameOK, Own
<1>4. FramesOK' /\ QueueOK'
    BY <1>3 DEF IInv, FramesOK, QueueOK
<1>5. LinkedPeersAreFed'
  <2> SUFFICES ASSUME NEW x \in Peers, NEW y \in Peers,
                      y \in known[x], Works(x, y)'
               PROVE  Own(x) \subseteq log[y] \cup InFlight(x, y)' \cup batch[x]
      BY DEF LinkedPeersAreFed, Own
  <2>1. InFlight(x, y)' = InFlight(x, y)
      BY DEF InFlight
  <2> QED
      BY <2>1, Fed DEF IInv
<1> QED
    BY <1>1, <1>2, <1>4, <1>5 DEF IInv

LEMMA ConnectKeeps ==
    ASSUME IInv, NEW p \in Peers, NEW q \in Peers, Noticed(p, q), Connect(p, q)
    PROVE  IInv'
<1>1. conn \in [Peers -> SUBSET Peers] /\ link \in [Pairs -> {"up", "silent", "dead"}]
    BY DEF IInv, TypeOK
<1>2. /\ conn' = [conn EXCEPT ![p] = @ \cup {q}, ![q] = @ \cup {p}]
      /\ link' = [link EXCEPT ![{p, q}] = "up"]
      /\ UNCHANGED <<log, offline, pending, acked, batch, known,
                     chan, calls, breaks>>
    BY DEF Connect
<1>3. conn' \in [Peers -> SUBSET Peers] /\ link' \in [Pairs -> {"up", "silent", "dead"}]
    BY <1>1, <1>2
<1>4. ASSUME NEW x \in Peers, NEW y \in Peers, y \in known[x], Works(x, y)'
      PROVE  Works(x, y)
  <2>1. {x, y} # {p, q}
      BY <1>4 DEF Noticed
  <2>2. {x, y} \in Pairs
      BY DEF Pairs
  <2>3. link'[{x, y}] = link[{x, y}]
      BY <1>1, <1>2, <2>1, <2>2
  <2>4. y \in conn[x]
      BY <1>1, <1>2, <1>4, <2>1 DEF Works
  <2> QED
      BY <1>4, <2>3, <2>4 DEF Works
<1>5. /\ chan' \in [Peers -> [Peers -> Seq(Message)]]
      /\ breaks' \in 0..MaxBreaks
      /\ \A x, y \in Peers : Range(chan'[x][y]) \subseteq Range(chan[x][y])
    BY <1>2 DEF IInv, TypeOK
<1> QED
    BY <1>2, <1>3, <1>4, <1>5, TransportKeeps

LEMMA BreakKeeps ==
    ASSUME IInv, NEW p \in Peers, NEW q \in Peers, Break(p, q)
    PROVE  IInv'
<1>1. /\ link \in [Pairs -> {"up", "silent", "dead"}]
      /\ chan \in [Peers -> [Peers -> Seq(Message)]]
      /\ p # q /\ {p, q} \in Pairs
  <2>1. p \in Nat /\ q \in Nat /\ p < q
      BY EngineAssumption DEF Break
  <2>2. p # q
      BY <2>1
  <2> QED
      BY <2>2 DEF IInv, TypeOK, Pairs
<1>2. PICK s \in {"silent", "dead"},
           i \in 0..Len(chan[p][q]), j \in 0..Len(chan[q][p]) :
        /\ link' = [link EXCEPT ![{p, q}] = s]
        /\ chan' = [chan EXCEPT ![p][q] = SubSeq(@, 1, i),
                                ![q][p] = SubSeq(@, 1, j)]
    BY DEF Break
<1>3. UNCHANGED <<log, offline, pending, acked, batch, known, conn, calls>>
    BY DEF Break
<1>4. /\ SubSeq(chan[p][q], 1, i) \in Seq(Message)
      /\ Range(SubSeq(chan[p][q], 1, i)) \subseteq Range(chan[p][q])
      /\ SubSeq(chan[q][p], 1, j) \in Seq(Message)
      /\ Range(SubSeq(chan[q][p], 1, j)) \subseteq Range(chan[q][p])
    BY <1>1, RangeSubSeq
<1>5. /\ chan'[p][q] = SubSeq(chan[p][q], 1, i)
      /\ chan'[q][p] = SubSeq(chan[q][p], 1, j)
      /\ \A x, y \in Peers : {x, y} # {p, q} => chan'[x][y] = chan[x][y]
      /\ chan' \in [Peers -> [Peers -> Seq(Message)]]
  <2> PICK a, b : a = SubSeq(chan[p][q], 1, i) /\ b = SubSeq(chan[q][p], 1, j)
      OBVIOUS
  <2>1. chan' = [chan EXCEPT ![p][q] = a, ![q][p] = b]
      BY <1>2, <1>1
  <2>2. a \in Seq(Message) /\ b \in Seq(Message)
      BY <1>4
  <2>3. chan'[p][q] = a /\ chan'[q][p] = b
      BY <1>1, <2>1
  <2>4. \A x, y \in Peers : ~(x = p /\ y = q) /\ ~(x = q /\ y = p)
                                => chan'[x][y] = chan[x][y]
      BY <1>1, <2>1
  <2>5. chan' \in [Peers -> [Peers -> Seq(Message)]]
      BY <1>1, <2>1, <2>2
  <2> QED
      BY <2>3, <2>4, <2>5
<1>6. \A x, y \in Peers : Range(chan'[x][y]) \subseteq Range(chan[x][y])
  <2> SUFFICES ASSUME NEW x \in Peers, NEW y \in Peers
               PROVE  Range(chan'[x][y]) \subseteq Range(chan[x][y])
      OBVIOUS
  <2>1. CASE {x, y} # {p, q}
      BY <1>5, <2>1
  <2>2. CASE {x, y} = {p, q}
    <3>1. (x = p /\ y = q) \/ (x = q /\ y = p)
        BY <1>1, <2>2
    <3> QED
        BY <1>4, <1>5, <3>1
  <2> QED
      BY <2>1, <2>2
<1>7. ASSUME NEW x \in Peers, NEW y \in Peers, Works(x, y)'
      PROVE  Works(x, y) /\ chan'[x][y] = chan[x][y]
  <2>1. {x, y} # {p, q}
      BY <1>1, <1>2, <1>7 DEF Works
  <2>2. {x, y} \in Pairs
      BY DEF Pairs
  <2>3. link'[{x, y}] = link[{x, y}]
      BY <1>1, <1>2, <2>1, <2>2
  <2> QED
      BY <1>3, <1>5, <1>7, <2>1, <2>3 DEF Works
<1>8. /\ breaks' \in 0..MaxBreaks
      /\ link' \in [Pairs -> {"up", "silent", "dead"}]
      /\ conn' \in [Peers -> SUBSET Peers]
    BY <1>1, <1>2, EngineAssumption DEF Break, IInv, TypeOK
<1> QED
    BY <1>3, <1>5, <1>6, <1>7, <1>8, TransportKeeps

LEMMA ResetKeeps ==
    ASSUME IInv, NEW p \in Peers, NEW q \in Peers, Reset(p, q)
    PROVE  IInv'
<1>1. link \in [Pairs -> {"up", "silent", "dead"}] /\ {p, q} \in Pairs
    BY DEF IInv, TypeOK, Pairs
<1>2. /\ link' = [link EXCEPT ![{p, q}] = "dead"]
      /\ UNCHANGED <<log, offline, pending, acked, batch, known,
                     conn, chan, calls, breaks>>
    BY DEF Reset
<1>3. ASSUME NEW x \in Peers, NEW y \in Peers, Works(x, y)'
      PROVE  Works(x, y)
  <2>1. {x, y} \in Pairs
      BY DEF Pairs
  <2> QED
      BY <1>1, <1>2, <1>3, <2>1 DEF Works
<1>4. /\ chan' \in [Peers -> [Peers -> Seq(Message)]]
      /\ breaks' \in 0..MaxBreaks
      /\ link' \in [Pairs -> {"up", "silent", "dead"}]
      /\ conn' \in [Peers -> SUBSET Peers]
      /\ \A x, y \in Peers : Range(chan'[x][y]) \subseteq Range(chan[x][y])
    BY <1>1, <1>2 DEF IInv, TypeOK
<1> QED
    BY <1>2, <1>3, <1>4, TransportKeeps

LEMMA HangupKeeps ==
    ASSUME IInv, NEW p \in Peers, NEW q \in Peers, Hangup(p, q)
    PROVE  IInv'
<1>1. /\ conn' = [conn EXCEPT ![p] = @ \ {q}]
      /\ UNCHANGED <<log, offline, pending, acked, batch, known,
                     link, chan, calls, breaks>>
    BY DEF Hangup
<1>2. \A x, y \in Peers : Works(x, y)' => Works(x, y)
    BY <1>1 DEF Works, IInv, TypeOK
<1>3. /\ chan' \in [Peers -> [Peers -> Seq(Message)]]
      /\ breaks' \in 0..MaxBreaks
      /\ link' \in [Pairs -> {"up", "silent", "dead"}]
      /\ conn' \in [Peers -> SUBSET Peers]
      /\ \A x, y \in Peers : Range(chan'[x][y]) \subseteq Range(chan[x][y])
    BY <1>1 DEF IInv, TypeOK
<1> QED
    BY <1>1, <1>2, <1>3, TransportKeeps

-----------------------------------------------------------------------------
(* The theorems                                                            *)

LEMMA InitHolds == Init => IInv
<1> SUFFICES ASSUME Init PROVE IInv
    OBVIOUS
<1>1. Range(<<>>) = {} /\ <<>> \in Seq(Message) /\ Len(<<>>) = 0
    BY DEF Range
<1>2. TypeOK
    BY <1>1, EngineAssumption DEF Init, TypeOK
<1>3. WithinLimits
    BY <1>1, EngineAssumption DEF Init, WithinLimits, NoPending
<1>4. OwnersKnow /\ FramesOK /\ QueueOK /\ LinkedPeersAreFed
    BY <1>1 DEF Init, OwnersKnow, FramesOK, QueueOK, LinkedPeersAreFed
<1> QED
    BY <1>2, <1>3, <1>4 DEF IInv

\* Every step of an engine and of the transport keeps the invariant.
LEMMA NextKeeps == IInv /\ [Next]_vars => IInv'
<1> SUFFICES ASSUME IInv, [Next]_vars PROVE IInv'
    OBVIOUS
<1>1. CASE UNCHANGED vars
  <2>1. TypeOK' /\ OwnersKnow'
      BY <1>1 DEF vars, IInv, TypeOK, OwnersKnow
  <2>2. \A x, y, m : FrameOK(x, y, m)' <=> FrameOK(x, y, m)
      BY <1>1 DEF vars, FrameOK, Own
  <2>3. FramesOK' /\ QueueOK'
      BY <1>1, <2>2 DEF vars, IInv, FramesOK, QueueOK
  <2>4. WithinLimits' /\ LinkedPeersAreFed'
      BY <1>1 DEF vars, IInv, WithinLimits, LinkedPeersAreFed, Own, Works, InFlight
  <2> QED
      BY <2>1, <2>3, <2>4 DEF IInv
<1>2. ASSUME NEW p \in Peers, EngineStep(p) PROVE IInv'
    BY <1>2, ApplyLocalKeeps, RequestSnapshotKeeps, BatchLocalKeeps,
       FlushBatchKeeps, DetectPeerChangesKeeps, HandleMessageKeeps, ResendDueKeeps
       DEF EngineStep
<1>3. ASSUME NEW p \in Peers, NEW q \in Peers, Failure(p, q) PROVE IInv'
    BY <1>3, BreakKeeps, ResetKeeps, HangupKeeps DEF Failure
<1>4. ASSUME NEW p \in Peers, NEW q \in Peers, Noticed(p, q), Connect(p, q)
      PROVE  IInv'
    BY <1>4, ConnectKeeps
<1> QED
    BY <1>1, <1>2, <1>3, <1>4 DEF Next

THEOREM Invariance == Safety => []IInv
BY InitHolds, NextKeeps, PTL DEF Safety

\* The engine's fields keep their types.
THEOREM TypeCorrect == Safety => []TypeOK
<1>1. IInv => TypeOK
    BY DEF IInv
<1> QED
    BY <1>1, Invariance, PTL

\* Queue and resends stay bounded, and an engine tracks and batches its own
\* operations only, however many peers join, leave and fail.
THEOREM LimitsHold == Safety => []WithinLimits
<1>1. IInv => WithinLimits
    BY DEF IInv
<1> QED
    BY <1>1, Invariance, PTL

\* As long as every reconnection is noticed, no edit is lost between queue,
\* snapshot and broadcast: what a known, connected peer lacks is on its way.
THEOREM FedTheorem == Safety => []LinkedPeersAreFed
<1>1. IInv => LinkedPeersAreFed
    BY DEF IInv
<1> QED
    BY <1>1, Invariance, PTL

-----------------------------------------------------------------------------
(* Refinement: what the engines of a mesh do with operations is what       *)
(* ReplicatedOpSet lets replicas do.  An operation is its id here, so that *)
(* nothing is told of its content; calls are numbered through.             *)

Stamped(ops) == {<<[lamport |-> o[2], peer |-> o[1]], "edit">> : o \in ops}

Issued == {o \in Op : \E p \in Peers : o \in log[p]}

OpSet == INSTANCE ReplicatedOpSet WITH
            MaxLamport <- MaxCalls,
            Content    <- [p \in Peers |-> {"edit"}],
            published  <- Stamped(Issued),
            known      <- [p \in Peers |-> Stamped(log[p])]

\* No operation is from a call yet to be made.
CallsCovered == \A p \in Peers : \A o \in log[p] : o[2] \in 1..calls

\* What engines know changes in two ways only.
LEMMA EngineSteps ==
    ASSUME IInv, Next
    PROVE  \/ UNCHANGED <<log, calls>>
           \/ \E p \in Peers :
                /\ log' = [log EXCEPT ![p] = @ \cup {Fresh(p)}]
                /\ calls < MaxCalls /\ calls' = calls + 1
           \/ /\ log' = log /\ calls < MaxCalls /\ calls' = calls + 1
           \/ \E p \in Peers, ops \in SUBSET Issued :
                /\ log' = [log EXCEPT ![p] = @ \cup ops]
                /\ calls' = calls
<1>1. ASSUME NEW p \in Peers, EngineStep(p)
      PROVE  \/ UNCHANGED <<log, calls>>
             \/ /\ log' = [log EXCEPT ![p] = @ \cup {Fresh(p)}]
                /\ calls < MaxCalls /\ calls' = calls + 1
             \/ /\ log' = log /\ calls < MaxCalls /\ calls' = calls + 1
             \/ \E ops \in SUBSET Issued :
                    /\ log' = [log EXCEPT ![p] = @ \cup ops]
                    /\ calls' = calls
    <2>1. CASE ApplyLocal(p)
        BY <2>1 DEF ApplyLocal, Call
    <2>2. CASE BatchLocal(p)
        BY <2>2 DEF BatchLocal, Call
    <2>3. CASE RequestSnapshot(p)
        BY <2>3 DEF RequestSnapshot, Call
    <2>4. CASE FlushBatch(p)
        BY <2>4 DEF FlushBatch
    <2>5. CASE DetectPeerChanges(p)
        BY <2>5 DEF DetectPeerChanges
    <2>6. CASE ResendDue(p)
        BY <2>6 DEF ResendDue
    <2>7. ASSUME NEW q \in Peers \ {p}, HandleMessage(p, q)
          PROVE  \/ UNCHANGED <<log, calls>>
                 \/ \E ops \in SUBSET Issued :
                        /\ log' = [log EXCEPT ![p] = @ \cup ops]
                        /\ calls' = calls
        <3> DEFINE m == Head(chan[q][p])
        <3>1. /\ chan[q][p] # <<>> /\ calls' = calls
              /\ log' = IF m.type = "Ack" THEN log ELSE [log EXCEPT ![p] = @ \cup m.ops]
            BY <2>7 DEF HandleMessage
        <3>2. chan[q][p] \in Seq(Message)
            BY DEF IInv, TypeOK
        <3>3. m \in Message /\ m \in Range(chan[q][p])
            BY <3>1, <3>2, RangeTail
        <3>4. \A o \in m.ops : o \in Op /\ o[1] \in Peers /\ o \in log[o[1]]
            <4>1. FrameOK(q, p, m)
                BY <3>3 DEF IInv, FramesOK
            <4> HIDE DEF m
            <4>2. m.ops \in SUBSET Op
                BY <3>3 DEF Message
            <4> QED
                BY <4>1, <4>2 DEF FrameOK, Op
        <3> HIDE DEF m
        <3>5. m.ops \in SUBSET Issued
            BY <3>4 DEF Issued
        <3> QED
            BY <3>1, <3>5
    <2> QED
        BY <1>1, <2>1, <2>2, <2>3, <2>4, <2>5, <2>6, <2>7 DEF EngineStep
<1>2. ASSUME NEW p \in Peers, NEW q \in Peers, Failure(p, q) \/ Connect(p, q)
      PROVE  UNCHANGED <<log, calls>>
    BY <1>2 DEF Failure, Break, Reset, Hangup, Connect
<1> QED
    BY <1>1, <1>2 DEF Next

\* The calls stay ahead of the logs.
LEMMA CallsStayAhead ==
    ASSUME IInv, CallsCovered, [Next]_vars
    PROVE  CallsCovered'
<1>0. log \in [Peers -> SUBSET Op] /\ calls \in Nat
    BY EngineAssumption DEF IInv, TypeOK
<1> SUFFICES ASSUME NEW x \in Peers, NEW o \in log'[x]
             PROVE  o[2] \in 1..calls'
    BY DEF CallsCovered
<1>1. CASE UNCHANGED <<log, calls>>
    BY <1>1 DEF CallsCovered
<1>2. ASSUME NEW p \in Peers, log' = [log EXCEPT ![p] = @ \cup {Fresh(p)}],
             calls' = calls + 1
      PROVE  o[2] \in 1..calls'
    <2>1. o \in log[x] \/ o = Fresh(p)
        BY <1>0, <1>2
    <2>2. CASE o = Fresh(p)
        <3>1. o[2] = calls + 1
            BY <2>2 DEF Fresh
        <3> QED
            BY <1>0, <1>2, <3>1
    <2>3. CASE o \in log[x]
        <3>1. o[2] \in 1..calls
            BY <2>3 DEF CallsCovered
        <3> QED
            BY <1>0, <1>2, <3>1
    <2> QED
        BY <2>1, <2>2, <2>3
<1>3. CASE log' = log /\ calls' = calls + 1
    <2>1. o[2] \in 1..calls
        BY <1>3 DEF CallsCovered
    <2> QED
        BY <1>0, <1>3, <2>1
<1>4. ASSUME NEW p \in Peers, NEW ops \in SUBSET Issued,
             log' = [log EXCEPT ![p] = @ \cup ops], calls' = calls
      PROVE  o[2] \in 1..calls'
    <2>1. o \in log[x] \/ o \in Issued
        BY <1>0, <1>4
    <2>2. PICK y \in Peers : o \in log[y]
        BY <2>1 DEF Issued
    <2> QED
        BY <1>4, <2>2 DEF CallsCovered
<1>5. CASE UNCHANGED vars
    BY <1>1, <1>5 DEF vars
<1> QED
    BY <1>1, <1>2, <1>3, <1>4, <1>5, EngineSteps

\* An edit is published under an id nobody has used and that outranks all.
LEMMA EditRefines ==
    ASSUME IInv, CallsCovered, NEW p \in Peers, calls < MaxCalls,
           log' = [log EXCEPT ![p] = @ \cup {Fresh(p)}]
    PROVE  OpSet!Publish(p)
<1> DEFINE id == [lamport |-> calls + 1, peer |-> p]
           seen == [x \in Peers |-> Stamped(log[x])]
<1>0. log \in [Peers -> SUBSET Op] /\ calls \in Nat /\ MaxCalls \in Nat
    BY EngineAssumption DEF IInv, TypeOK
<1>1. Fresh(p) = <<p, calls + 1>> /\ Fresh(p) \in Op
    BY <1>0 DEF Fresh, Op
<1>2. id \in OpSet!Id(p)
    BY <1>0 DEF OpSet!Id
<1>3. ASSUME NEW x \in Peers, NEW o \in log[x]
      PROVE  o[2] < calls + 1 /\ o[2] # calls + 1
    <2>1. o[2] \in 1..calls
        BY DEF CallsCovered
    <2> QED
        BY <1>0, <2>1
<1>4. \A s \in Stamped(Issued) : s[1] # id
    <2> SUFFICES ASSUME NEW o \in Issued
                 PROVE  [lamport |-> o[2], peer |-> o[1]] # id
        BY DEF Stamped
    <2>1. o[2] # calls + 1
        BY <1>3 DEF Issued
    <2> QED
        BY <2>1
<1>5. \A s \in seen[p] : OpSet!TagLess(s[1], id)
    <2> SUFFICES ASSUME NEW o \in log[p]
                 PROVE  OpSet!TagLess([lamport |-> o[2], peer |-> o[1]], id)
        BY DEF Stamped
    <2>1. o[2] < calls + 1
        BY <1>3
    <2> QED
        BY <2>1 DEF OpSet!TagLess
<1>6. Stamped(Issued)' = Stamped(Issued) \cup {<<id, "edit">>}
    <2>1. Issued' = Issued \cup {Fresh(p)}
        BY <1>0, <1>1 DEF Issued
    <2> QED
        BY <1>1, <2>1 DEF Stamped
<1>7. seen' = [seen EXCEPT ![p] = @ \cup {<<id, "edit">>}]
    <2>1. \A x \in Peers \ {p} : log'[x] = log[x]
        BY <1>0
    <2>2. log'[p] = log[p] \cup {Fresh(p)}
        BY <1>0
    <2>3. Stamped(log'[p]) = Stamped(log[p]) \cup {<<id, "edit">>}
        BY <1>1, <2>2 DEF Stamped
    <2>4. seen' = [x \in Peers |-> Stamped(log'[x])]
        BY DEF Stamped
    <2>5. [x \in Peers |-> Stamped(log'[x])]
                = [seen EXCEPT ![p] = @ \cup {<<id, "edit">>}]
        <3>1. \A x \in Peers : Stamped(log'[x]) =
                IF x = p THEN Stamped(log[p]) \cup {<<id, "edit">>} ELSE Stamped(log[x])
            <4> TAKE x \in Peers
            <4>1. CASE x = p
                BY <2>3, <4>1, Zenon
            <4>2. CASE x # p
                <5>1. log'[x] = log[x]
                    BY <2>1, <4>2
                <5> QED
                    BY <4>2, <5>1 DEF Stamped
            <4> QED
                BY <4>1, <4>2, Zenon
        <3> QED
            BY <3>1
    <2> QED
        BY <2>4, <2>5, Zenon
<1>8. "edit" \in [x \in Peers |-> {"edit"}][p]
    OBVIOUS
<1> QED
    BY <1>2, <1>4, <1>5, <1>6, <1>7, <1>8 DEF OpSet!Publish

\* What a frame brings, one operation or many, has been published.
LEMMA FrameRefines ==
    ASSUME IInv, NEW p \in Peers, NEW ops \in SUBSET Issued,
           log' = [log EXCEPT ![p] = @ \cup ops]
    PROVE  OpSet!Learn(p)
<1> DEFINE seen == [x \in Peers |-> Stamped(log[x])]
<1>0. log \in [Peers -> SUBSET Op]
    BY DEF IInv, TypeOK
<1>1. Stamped(ops) \in SUBSET Stamped(Issued)
    BY DEF Stamped
<1>2. Issued' = Issued
    BY <1>0 DEF Issued
<1>3. Stamped(Issued)' = Stamped(Issued)
    BY <1>2 DEF Stamped
<1>4. seen' = [seen EXCEPT ![p] = @ \cup Stamped(ops)]
    <2>1. \A x \in Peers \ {p} : log'[x] = log[x]
        BY <1>0
    <2>2. log'[p] = log[p] \cup ops
        BY <1>0
    <2>3. Stamped(log'[p]) = Stamped(log[p]) \cup Stamped(ops)
        BY <2>2 DEF Stamped
    <2>4. seen' = [x \in Peers |-> Stamped(log'[x])]
        BY DEF Stamped
    <2>5. [x \in Peers |-> Stamped(log'[x])]
                = [seen EXCEPT ![p] = @ \cup Stamped(ops)]
        <3>1. \A x \in Peers : Stamped(log'[x]) =
                IF x = p THEN Stamped(log[p]) \cup Stamped(ops) ELSE Stamped(log[x])
            <4> TAKE x \in Peers
            <4>1. CASE x = p
                BY <2>3, <4>1, Zenon
            <4>2. CASE x # p
                <5>1. log'[x] = log[x]
                    BY <2>1, <4>2
                <5> QED
                    BY <4>2, <5>1 DEF Stamped
            <4> QED
                BY <4>1, <4>2, Zenon
        <3> QED
            BY <3>1
    <2> QED
        BY <2>4, <2>5, Zenon
<1> QED
    BY <1>1, <1>3, <1>4 DEF OpSet!Learn

\* Whatever connections do, however often an operation is sent, resent, queued,
\* dropped or part of a snapshot, and in whichever order frames are handled: an
\* engine knows nothing but operations that were issued, forgets none, and
\* issues every operation once.
THEOREM EnginesImplementOpSet == Safety => OpSet!Spec
<1>1. Init => OpSet!Init /\ CallsCovered
    <2> SUFFICES ASSUME Init PROVE OpSet!Init /\ CallsCovered
        OBVIOUS
    <2>1. log = [p \in Peers |-> {}]
        BY DEF Init
    <2>2. Stamped(Issued) = {} /\ CallsCovered
        BY <2>1 DEF Stamped, Issued, CallsCovered
    <2>3. [p \in Peers |-> Stamped(log[p])] = [p \in Peers |-> {}]
        BY <2>1 DEF Stamped
    <2> QED
        BY <2>2, <2>3 DEF OpSet!Init
<1>2. IInv /\ CallsCovered /\ [Next]_vars => [OpSet!Next]_(OpSet!vars)
    <2> SUFFICES ASSUME IInv, CallsCovered, [Next]_vars
                 PROVE  OpSet!Next \/ UNCHANGED OpSet!vars
        OBVIOUS
    <2>1. ASSUME log' = log
          PROVE  UNCHANGED OpSet!vars
        BY <2>1 DEF OpSet!vars, Stamped, Issued
    <2>2. ASSUME NEW p \in Peers, calls < MaxCalls,
                 log' = [log EXCEPT ![p] = @ \cup {Fresh(p)}]
          PROVE  OpSet!Next
        BY <2>2, EditRefines DEF OpSet!Next
    <2>3. ASSUME NEW p \in Peers, NEW ops \in SUBSET Issued,
                 log' = [log EXCEPT ![p] = @ \cup ops]
          PROVE  OpSet!Next
        BY <2>3, FrameRefines DEF OpSet!Next
    <2>4. CASE Next
        BY <2>1, <2>2, <2>3, <2>4, EngineSteps
    <2>5. CASE UNCHANGED vars
        BY <2>1, <2>5 DEF vars
    <2> QED
        BY <2>4, <2>5
<1>3. IInv /\ CallsCovered /\ [Next]_vars => CallsCovered'
    BY CallsStayAhead
<1> QED
    BY <1>1, <1>2, <1>3, Invariance, PTL DEF Safety, OpSet!Spec

=============================================================================
