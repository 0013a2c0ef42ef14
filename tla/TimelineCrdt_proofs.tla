------------------------- MODULE TimelineCrdt_proofs -------------------------
(***************************************************************************)
(* Theorems about the replication engine for every set of peers, clips and *)
(* tracks and every set of edits.                                          *)
(***************************************************************************)
EXTENDS TimelineCrdt, Session_proofs, WellFoundedInduction

-----------------------------------------------------------------------------

\* A set of numbers that lacks a smallest element is empty.
LEMMA NoLeast ==
    ASSUME NEW Bad \in SUBSET Nat,
           ~\E m \in Bad : \A j \in Bad : m <= j
    PROVE  Bad = {}
<1> DEFINE Below == OpToRel(<, Nat)
<1>1. SUFFICES ASSUME Bad # {} PROVE FALSE
    OBVIOUS
<1>2. PICK m \in Bad : \A j \in Bad : ~(<<j, m>> \in Below)
    <2> HIDE DEF Below
    <2>1. IsWellFoundedOn(Below, Nat)
        BY NatLessThanWellFounded DEF Below
    <2> QED
        BY <1>1, <2>1, WFMin
<1>3. ASSUME NEW j \in Bad PROVE m <= j
    <2>1. ~(j < m)
        BY <1>2 DEF OpToRel
    <2> QED
        BY <2>1
<1> QED
    BY <1>2, <1>3

-----------------------------------------------------------------------------
(* drain_pending                                                           *)

\* A function defined by recursion on 0..n exists: were there a smallest n
\* without one, the one for n - 1 could be extended.
LEMMA LoopExists ==
    ASSUME NEW x0, NEW n \in Nat
    PROVE  \E loop : loop = [k \in 0..n |->
                        IF k = 0 THEN x0 ELSE DrainStep(loop[k - 1])]
<1> DEFINE IsLoop(loop, m) == loop = [k \in 0..m |->
                        IF k = 0 THEN x0 ELSE DrainStep(loop[k - 1])]
           Bad == {m \in Nat : ~\E loop : IsLoop(loop, m)}
<1>1. ASSUME NEW m \in Bad, \A j \in Bad : m <= j
      PROVE  FALSE
    <2>1. CASE m = 0
        <3> DEFINE f == [k \in 0..0 |-> x0]
        <3>1. f = [k \in 0..0 |-> IF k = 0 THEN x0 ELSE DrainStep(f[k - 1])]
            <4>1. \A k \in 0..0 :
                    x0 = IF k = 0 THEN x0 ELSE DrainStep(f[k - 1])
                OBVIOUS
            <4> QED
                BY <4>1
        <3>2. IsLoop(f, 0)
            BY <3>1
        <3> HIDE DEF f, IsLoop
        <3> QED
            BY <2>1, <3>2
    <2>2. CASE m # 0
        <3>1. m - 1 \in Nat /\ m - 1 \notin Bad
            BY <1>1, <2>2
        <3>2. PICK f : IsLoop(f, m - 1)
            BY <3>1
        <3> DEFINE g == [k \in 0..m |->
                            IF k = m THEN DrainStep(f[m - 1]) ELSE f[k]]
        <3>3. ASSUME NEW k \in 0..m
              PROVE  g[k] = IF k = 0 THEN x0 ELSE DrainStep(g[k - 1])
            <4>1. CASE k = m
                <5>1. g[k] = DrainStep(f[m - 1]) /\ g[k - 1] = f[m - 1]
                    BY <2>2, <3>1, <4>1
                <5> QED
                    BY <2>2, <4>1, <5>1
            <4>2. CASE k # m
                <5>1. k \in 0..(m - 1) /\ g[k] = f[k]
                    BY <1>1, <4>2
                <5>2. f[k] = IF k = 0 THEN x0 ELSE DrainStep(f[k - 1])
                    BY <3>2, <5>1
                <5>3. k # 0 => k - 1 \in 0..m /\ k - 1 # m /\ g[k - 1] = f[k - 1]
                    BY <5>1
                <5> QED
                    BY <5>1, <5>2, <5>3
            <4> QED
                BY <4>1, <4>2
        <3>4. g = [k \in 0..m |-> g[k]]
            OBVIOUS
        <3>5. IsLoop(g, m)
            <4> HIDE DEF g
            <4> QED
                BY <3>3, <3>4
        <3> HIDE DEF g, IsLoop
        <3> QED
            BY <3>5
    <2> QED
        BY <2>1, <2>2
<1>2. Bad = {}
    <2> HIDE DEF Bad
    <2>1. Bad \subseteq Nat
        BY DEF Bad
    <2> QED
        BY <1>1, <2>1, NoLeast
<1> QED
    BY <1>2

\* What each state of drain_pending's loop hands to the next, all of them have.
LEMMA LoopFollows ==
    ASSUME NEW s, NEW pending, Len(pending) \in Nat,
           NEW At, DrainStart(s, pending) \in At[0],
           \A k \in Nat : \A x \in At[k] : DrainStep(x) \in At[k + 1]
    PROVE  \A k \in 0..DrainSteps(Len(pending)) : DrainLoop(s, pending)[k] \in At[k]
<1> DEFINE last == DrainSteps(Len(pending))
           Is(f) == f = [k \in 0..last |->
                IF k = 0 THEN DrainStart(s, pending) ELSE DrainStep(f[k - 1])]
           loop == CHOOSE f : Is(f)
           Bad == {m \in 0..last : loop[m] \notin At[m]}
<1>1. last \in Nat
    BY DEF DrainSteps
<1>2. DrainLoop(s, pending) = loop
    BY DEF DrainLoop
<1>3. Is(loop)
    <2>1. \E f : Is(f)
        BY <1>1, LoopExists
    <2> HIDE DEF Is
    <2> QED
        BY <2>1
<1>4. \A k \in 0..last : loop[k] =
            IF k = 0 THEN DrainStart(s, pending) ELSE DrainStep(loop[k - 1])
    <2> HIDE DEF loop
    <2> QED
        BY <1>3
<1> HIDE DEF loop, last
<1>5. ASSUME NEW m \in Bad, \A j \in Bad : m <= j
      PROVE  FALSE
    <2>1. m # 0
        BY <1>1, <1>4
    <2>2. m - 1 \in 0..last /\ m - 1 \notin Bad /\ m - 1 \in Nat
        BY <1>1, <1>5, <2>1
    <2>3. loop[m] = DrainStep(loop[m - 1])
        BY <1>4, <2>1
    <2>4. DrainStep(loop[m - 1]) \in At[(m - 1) + 1]
        BY <2>2
    <2>5. (m - 1) + 1 = m
        BY <1>1
    <2> QED
        BY <2>3, <2>4, <2>5
<1>6. Bad = {}
    <2>1. Bad \subseteq Nat
        BY <1>1
    <2> HIDE DEF Bad
    <2> QED
        BY <1>5, <2>1, NoLeast
<1> QED
    BY <1>1, <1>2, <1>6 DEF last

\* So has the last.
LEMMA DrainFollows ==
    ASSUME NEW s, NEW pending, Len(pending) \in Nat,
           NEW At, DrainStart(s, pending) \in At[0],
           \A k \in Nat : \A x \in At[k] : DrainStep(x) \in At[k + 1]
    PROVE  Drain(s, pending) \in At[DrainSteps(Len(pending))]
<1> DEFINE last == DrainSteps(Len(pending))
<1>1. last \in 0..last
    BY DEF DrainSteps
<1>2. \A k \in 0..last : DrainLoop(s, pending)[k] \in At[k]
    BY LoopFollows
<1> HIDE DEF last
<1> QED
    BY <1>1, <1>2 DEF Drain, last

\* Whatever set of states the loop starts in and cannot leave by one step, it
\* stays in.
LEMMA LoopStays ==
    ASSUME NEW s, NEW pending, Len(pending) \in Nat,
           NEW States, DrainStart(s, pending) \in States,
           \A x \in States : DrainStep(x) \in States
    PROVE  \A k \in 0..DrainSteps(Len(pending)) :
                DrainLoop(s, pending)[k] \in States
<1> DEFINE At == [k \in Nat |-> States]
           last == DrainSteps(Len(pending))
<1>1. /\ At[0] = States
      /\ \A k \in Nat : At[k] = States /\ At[k + 1] = States
    OBVIOUS
<1>2. last \in Nat
    BY DEF DrainSteps
<1> HIDE DEF At
<1>3. \A k \in 0..last : DrainLoop(s, pending)[k] \in At[k]
    BY <1>1, LoopFollows
<1> HIDE DEF last
<1>4. ASSUME NEW k \in 0..last
      PROVE  DrainLoop(s, pending)[k] \in States
    <2>1. k \in Nat
        BY <1>2
    <2>2. At[k] = States
        BY <1>1, <2>1
    <2>3. DrainLoop(s, pending)[k] \in At[k]
        BY <1>3
    <2> QED
        BY <2>2, <2>3, Zenon
<1> QED
    BY <1>4 DEF last

\* So does what it returns.
LEMMA DrainStays ==
    ASSUME NEW s, NEW pending, Len(pending) \in Nat,
           NEW States, DrainStart(s, pending) \in States,
           \A x \in States : DrainStep(x) \in States
    PROVE  Drain(s, pending) \in States
<1> DEFINE last == DrainSteps(Len(pending))
<1>1. last \in 0..last
    BY DEF DrainSteps
<1>2. \A k \in 0..last : DrainLoop(s, pending)[k] \in States
    BY LoopStays
<1> HIDE DEF last
<1> QED
    BY <1>1, <1>2 DEF Drain, last

-----------------------------------------------------------------------------
(* Logs and buffers                                                        *)

\* Appending an operation to a log adds it to the log's operations, and
\* keeps ids distinct when its own is new.
LEMMA AppendOps ==
    ASSUME NEW log \in Seq(TaggedOp), NEW o \in TaggedOp
    PROVE  /\ Append(log, o) \in Seq(TaggedOp)
           /\ OpsIn(Append(log, o)) = OpsIn(log) \cup {o}
           /\ IdsIn(Append(log, o)) = IdsIn(log) \cup {o.op_id}
           /\ DistinctIds(log) /\ o.op_id \notin IdsIn(log)
                => DistinctIds(Append(log, o))
<1>1. /\ Append(log, o) \in Seq(TaggedOp)
      /\ DOMAIN log = 1..Len(log)
      /\ DOMAIN Append(log, o) = 1..(Len(log) + 1)
      /\ Len(log) \in Nat
      /\ \A i \in DOMAIN log : Append(log, o)[i] = log[i]
      /\ Append(log, o)[Len(log) + 1] = o
    OBVIOUS
<1>2. OpsIn(Append(log, o)) = OpsIn(log) \cup {o}
    <2>1. ASSUME NEW x \in OpsIn(Append(log, o))
          PROVE  x \in OpsIn(log) \cup {o}
        BY <1>1 DEF OpsIn
    <2>2. ASSUME NEW x \in OpsIn(log)
          PROVE  x \in OpsIn(Append(log, o))
        <3>1. PICK i \in DOMAIN log : x = log[i]
            BY DEF OpsIn
        <3>2. i \in DOMAIN Append(log, o) /\ Append(log, o)[i] = x
            BY <1>1, <3>1
        <3> QED
            BY <3>2 DEF OpsIn
    <2>3. o \in OpsIn(Append(log, o))
        <3>1. Len(log) + 1 \in DOMAIN Append(log, o)
            BY <1>1
        <3> QED
            BY <1>1, <3>1 DEF OpsIn
    <2> QED
        BY <2>1, <2>2, <2>3
<1>3. IdsIn(Append(log, o)) = IdsIn(log) \cup {o.op_id}
    BY <1>2 DEF IdsIn
<1>4. ASSUME DistinctIds(log), o.op_id \notin IdsIn(log)
      PROVE  DistinctIds(Append(log, o))
    <2>1. \A i \in DOMAIN log : log[i].op_id # o.op_id
        BY <1>4 DEF IdsIn, OpsIn
    <2> QED
        BY <1>1, <1>4, <2>1 DEF DistinctIds
<1> QED
    BY <1>1, <1>2, <1>3, <1>4

\* A log's operations are its head and those of its tail.
LEMMA TailOps ==
    ASSUME NEW log \in Seq(TaggedOp), log # <<>>
    PROVE  /\ Tail(log) \in Seq(TaggedOp)
           /\ Head(log) \in OpsIn(log) /\ Head(log) \in TaggedOp
           /\ OpsIn(Tail(log)) \subseteq OpsIn(log)
           /\ IdsIn(Tail(log)) \subseteq IdsIn(log)
           /\ DistinctIds(log) => /\ DistinctIds(Tail(log))
                                 /\ Head(log).op_id \notin IdsIn(Tail(log))
<1>1. /\ Tail(log) \in Seq(TaggedOp)
      /\ Len(log) \in Nat /\ Len(log) > 0
      /\ DOMAIN log = 1..Len(log)
      /\ DOMAIN Tail(log) = 1..(Len(log) - 1)
      /\ \A i \in DOMAIN Tail(log) : Tail(log)[i] = log[i + 1]
      /\ Head(log) = log[1]
      /\ \A i \in DOMAIN log : log[i] \in TaggedOp
    OBVIOUS
<1>2. Head(log) \in OpsIn(log) /\ Head(log) \in TaggedOp
    BY <1>1 DEF OpsIn
<1>3. OpsIn(Tail(log)) \subseteq OpsIn(log)
    <2>1. ASSUME NEW i \in DOMAIN Tail(log)
          PROVE  i + 1 \in DOMAIN log
        BY <1>1
    <2> QED
        BY <1>1, <2>1 DEF OpsIn
<1>4. ASSUME DistinctIds(log)
      PROVE  /\ DistinctIds(Tail(log))
             /\ Head(log).op_id \notin IdsIn(Tail(log))
    <2>1. ASSUME NEW i \in DOMAIN Tail(log)
          PROVE  i + 1 \in DOMAIN log /\ i + 1 # 1 /\ 1 \in DOMAIN log
        BY <1>1
    <2>2. DistinctIds(Tail(log))
        <3>1. ASSUME NEW i \in DOMAIN Tail(log), NEW j \in DOMAIN Tail(log),
                     Tail(log)[i].op_id = Tail(log)[j].op_id
              PROVE  i = j
            <4>1. i + 1 = j + 1
                BY <1>1, <1>4, <2>1, <3>1 DEF DistinctIds
            <4> QED
                BY <1>1, <4>1
        <3> QED
            BY <3>1 DEF DistinctIds
    <2>3. \A i \in DOMAIN Tail(log) : Tail(log)[i].op_id # Head(log).op_id
        BY <1>1, <1>4, <2>1 DEF DistinctIds
    <2> QED
        BY <2>2, <2>3 DEF IdsIn, OpsIn
<1> QED
    BY <1>1, <1>2, <1>3, <1>4 DEF IdsIn

\* drain_pending keeps the session well formed, retries and leaves only what
\* was buffered, and leaves no operation waiting twice.
LEMMA DrainKeeps ==
    ASSUME NEW s \in SessionState, NEW pending \in Seq(TaggedOp)
    PROVE  /\ Drain(s, pending) \in DrainState
           /\ OpsIn(Drain(s, pending).waiting) \subseteq OpsIn(pending)
           /\ DistinctIds(pending) => DistinctIds(Drain(s, pending).waiting)
           /\ \A k \in 0..DrainSteps(Len(pending)) :
                LET x == DrainLoop(s, pending)[k]
                IN  x \in DrainState /\ OpsIn(x.todo) \subseteq OpsIn(pending)
<1> DEFINE Kept(x) ==
                /\ OpsIn(x.todo) \subseteq OpsIn(pending)
                /\ OpsIn(x.waiting) \subseteq OpsIn(pending)
           Apart(x) ==
                /\ DistinctIds(x.todo) /\ DistinctIds(x.waiting)
                /\ IdsIn(x.todo) \cap IdsIn(x.waiting) = {}
           States == {x \in DrainState :
                        Kept(x) /\ (DistinctIds(pending) => Apart(x))}
<1>0. /\ <<>> \in Seq(TaggedOp) /\ OpsIn(<<>>) = {} /\ IdsIn(<<>>) = {}
      /\ DistinctIds(<<>>)
    BY DEF OpsIn, IdsIn, DistinctIds
<1>1. DrainStart(s, pending) \in States
    <2>1. DrainStart(s, pending) \in DrainState
        BY <1>0 DEF DrainStart, DrainState
    <2> QED
        BY <1>0, <2>1 DEF DrainStart
<1>2. ASSUME NEW x \in States
      PROVE  DrainStep(x) \in States
    <2>1. CASE x.todo # <<>>
        <3> DEFINE op  == Head(x.todo)
                   res == Apply(x.session, op.operation, op.op_id)
        <3>1. /\ x.todo \in Seq(TaggedOp) /\ x.waiting \in Seq(TaggedOp)
              /\ x.session \in SessionState /\ x.progress \in BOOLEAN
            BY DEF DrainState
        <3>2. /\ op \in TaggedOp /\ op \in OpsIn(x.todo)
              /\ op.op_id \in IdsIn(x.todo)
            BY <2>1, <3>1, TailOps DEF IdsIn
        <3>3. res.ok \in BOOLEAN /\ res.session \in SessionState
            <4>1. op.operation \in Operation /\ op.op_id \in OpTag
                BY <3>2 DEF TaggedOp
            <4> QED
                BY <3>1, <4>1, ApplyTyped
        <3> HIDE DEF op, res
        <3>4. DrainStep(x) =
                [ session  |-> res.session,
                  todo     |-> Tail(x.todo),
                  waiting  |-> IF res.ok THEN x.waiting ELSE Append(x.waiting, op),
                  progress |-> x.progress \/ res.ok ]
            BY <2>1 DEF DrainStep, Retry, op, res
        <3>5. /\ Tail(x.todo) \in Seq(TaggedOp)
              /\ Append(x.waiting, op) \in Seq(TaggedOp)
            BY <2>1, <3>1, <3>2, TailOps, AppendOps
        <3>6. DrainStep(x) \in DrainState
            BY <3>1, <3>3, <3>4, <3>5 DEF DrainState
        <3>7. Kept(DrainStep(x))
            BY <2>1, <3>1, <3>2, <3>4, TailOps, AppendOps
        <3>8. ASSUME DistinctIds(pending)
              PROVE  Apart(DrainStep(x))
            <4>1. /\ DistinctIds(Tail(x.todo)) /\ op.op_id \notin IdsIn(Tail(x.todo))
                  /\ IdsIn(Tail(x.todo)) \subseteq IdsIn(x.todo)
                BY <2>1, <3>1, <3>8, TailOps DEF op
            <4>2. op.op_id \notin IdsIn(x.waiting)
                BY <3>2, <3>8
            <4>3. /\ DistinctIds(Append(x.waiting, op))
                  /\ IdsIn(Append(x.waiting, op)) = IdsIn(x.waiting) \cup {op.op_id}
                BY <3>1, <3>2, <3>8, <4>2, AppendOps
            <4> QED
                BY <3>4, <3>8, <4>1, <4>3
        <3> QED
            BY <3>6, <3>7, <3>8
    <2>2. CASE x.todo = <<>> /\ x.progress
        <3>1. DrainStep(x) = [x EXCEPT !.todo = x.waiting, !.waiting = <<>>,
                                       !.progress = FALSE]
            BY <2>2 DEF DrainStep, NextPass
        <3>2. DrainStep(x) \in DrainState
            BY <1>0, <3>1 DEF DrainState
        <3>3. DrainStep(x).todo = x.waiting /\ DrainStep(x).waiting = <<>>
            BY <3>1 DEF DrainState
        <3> QED
            BY <1>0, <3>2, <3>3
    <2>3. CASE x.todo = <<>> /\ ~x.progress
        BY <2>3 DEF DrainStep
    <2> QED
        BY <2>1, <2>2, <2>3
<1>3. Len(pending) \in Nat
    OBVIOUS
<1>4. Drain(s, pending) \in States
    <2> HIDE DEF States
    <2> QED
        BY <1>1, <1>2, <1>3, DrainStays
<1>5. \A k \in 0..DrainSteps(Len(pending)) : DrainLoop(s, pending)[k] \in States
    <2> HIDE DEF States
    <2> QED
        BY <1>1, <1>2, <1>3, LoopStays
<1> QED
    BY <1>4, <1>5

\* How many steps the loop of drain_pending has left, at most: with n
\* operations buffered, a pass retries no more than n, and each pass but the
\* last leaves fewer waiting.
StepsLeft(x, n) ==
    LET t == Len(x.todo)
        w == Len(x.waiting)
    IN  IF x.progress THEN t + 1 + (t + w) * (n + 1)
        ELSE t + 1 + (t + w - 1) * (n + 1)

DrainEnded(x) == x.todo = <<>> /\ ~x.progress

\* In a pass that has applied nothing, what waits waits for a target.
OrphansWait(x) ==
    ~x.progress => \A o \in OpsIn(x.waiting) :
                        MissingTargets(x.session, o.operation) # {}

\* The states the loop may be in after k steps.
DrainAfter(k, n, last) ==
    {x \in DrainState :
        /\ Len(x.todo) + Len(x.waiting) <= n
        /\ OrphansWait(x)
        /\ DrainEnded(x) \/ k + StepsLeft(x, n) <= last}

\* A retry takes one step of those left, or ends the loop.
LEMMA RetryAdvances ==
    ASSUME NEW k \in Nat, NEW n \in Nat, NEW last \in Nat,
           NEW x \in DrainAfter(k, n, last), x.todo # <<>>
    PROVE  DrainStep(x) \in DrainAfter(k + 1, n, last)
<1> DEFINE op  == Head(x.todo)
           res == Apply(x.session, op.operation, op.op_id)
           y   == DrainStep(x)
           t == Len(x.todo)
           w == Len(x.waiting)
<1>1. /\ x.todo \in Seq(TaggedOp) /\ x.waiting \in Seq(TaggedOp)
      /\ x.session \in SessionState /\ x.progress \in BOOLEAN
      /\ x \in DrainState /\ OrphansWait(x) /\ t + w <= n
      /\ k + StepsLeft(x, n) <= last
    BY DEF DrainAfter, DrainState, DrainEnded
<1>2. op \in TaggedOp /\ op.operation \in Operation /\ op.op_id \in OpTag
    BY <1>1, TailOps DEF TaggedOp
<1>3. /\ res.ok \in BOOLEAN /\ res.session \in SessionState
    BY <1>1, <1>2, ApplyTyped
<1>4. ~res.ok => /\ MissingTargets(x.session, op.operation) # {}
                 /\ \A e \in Target : TargetExists(x.session, e)
                                        <=> TargetExists(res.session, e)
    BY <1>1, <1>2, ApplyExists
<1> HIDE DEF op, res
<1>5. y = [ session  |-> res.session,
            todo     |-> Tail(x.todo),
            waiting  |-> IF res.ok THEN x.waiting ELSE Append(x.waiting, op),
            progress |-> x.progress \/ res.ok ]
    BY DEF DrainStep, Retry, op, res
<1> HIDE DEF y
<1>6. /\ Tail(x.todo) \in Seq(TaggedOp)
      /\ Append(x.waiting, op) \in Seq(TaggedOp)
      /\ OpsIn(Append(x.waiting, op)) = OpsIn(x.waiting) \cup {op}
    BY <1>1, <1>2, TailOps, AppendOps
<1>7. /\ t \in Nat /\ w \in Nat /\ t > 0 /\ Len(Tail(x.todo)) = t - 1
      /\ Len(Append(x.waiting, op)) = w + 1
    <2>1. t \in Nat /\ t > 0 /\ Len(Tail(x.todo)) = t - 1
        BY <1>1
    <2>2. w \in Nat /\ Len(Append(x.waiting, op)) = w + 1
        BY <1>1, <1>2
    <2> QED
        BY <2>1, <2>2
<1> HIDE DEF t, w
<1>8. y \in DrainState
    BY <1>1, <1>3, <1>5, <1>6 DEF DrainState
<1>9. OrphansWait(y)
    <2>1. SUFFICES ASSUME ~y.progress, NEW o \in OpsIn(y.waiting)
                   PROVE  MissingTargets(y.session, o.operation) # {}
        BY DEF OrphansWait
    <2>2. ~x.progress /\ ~res.ok
        BY <1>1, <1>3, <1>5, <2>1
    <2>3. o \in OpsIn(x.waiting) \cup {op}
        BY <1>5, <1>6, <2>1, <2>2
    <2>4. MissingTargets(x.session, o.operation) # {}
        BY <1>1, <1>4, <2>2, <2>3 DEF OrphansWait
    <2>5. o.operation \in Operation
        <3>1. OpsIn(x.waiting) \subseteq TaggedOp
            BY <1>1 DEF OpsIn
        <3>2. o \in TaggedOp
            BY <1>2, <2>3, <3>1
        <3> QED
            BY <3>2 DEF TaggedOp
    <2>6. MissingTargets(res.session, o.operation) = MissingTargets(x.session, o.operation)
        BY <1>4, <2>2, <2>5, MissingSame
    <2> QED
        BY <1>5, <2>4, <2>6
<1>10. /\ Len(y.todo) = t - 1
       /\ Len(y.waiting) = IF res.ok THEN w ELSE w + 1
       /\ y.progress = (x.progress \/ res.ok)
    BY <1>5, <1>7 DEF w
<1> DEFINE A == (t + w) * (n + 1)
           B == (t + w - 1) * (n + 1)
<1>11. A \in Int /\ B \in Int /\ A = B + n + 1
    BY <1>7
<1>12. Len(y.todo) + Len(y.waiting) <= n
    <2>1. t + w <= n
        BY <1>1 DEF t, w
    <2> QED
        BY <1>3, <1>7, <1>10, <2>1
<1>13. /\ x.progress => StepsLeft(x, n) = t + 1 + A
       /\ ~x.progress => StepsLeft(x, n) = t + 1 + B
    BY DEF StepsLeft, t, w
<1>14. StepsLeft(y, n) = IF x.progress /\ ~res.ok THEN t + A ELSE t + B
    <2>1. CASE res.ok
        <3>1. StepsLeft(y, n) = t - 1 + 1 + (t - 1 + w) * (n + 1)
            BY <1>10, <2>1 DEF StepsLeft
        <3>2. t - 1 + w = t + w - 1 /\ t - 1 + 1 = t
            BY <1>7
        <3> QED
            BY <2>1, <3>1, <3>2
    <2>2. CASE ~res.ok /\ x.progress
        <3>1. StepsLeft(y, n) = t - 1 + 1 + (t - 1 + (w + 1)) * (n + 1)
            BY <1>10, <2>2 DEF StepsLeft
        <3>2. t - 1 + (w + 1) = t + w /\ t - 1 + 1 = t
            BY <1>7
        <3> QED
            BY <2>2, <3>1, <3>2
    <2>3. CASE ~res.ok /\ ~x.progress
        <3>1. StepsLeft(y, n) = t - 1 + 1 + (t - 1 + (w + 1) - 1) * (n + 1)
            BY <1>10, <2>3 DEF StepsLeft
        <3>2. t - 1 + (w + 1) - 1 = t + w - 1 /\ t - 1 + 1 = t
            BY <1>7
        <3> QED
            BY <2>3, <3>1, <3>2
    <2> QED
        BY <2>1, <2>2, <2>3
<1>15. k + 1 + StepsLeft(y, n) <= last
    <2> HIDE DEF A, B
    <2>1. CASE x.progress
        <3>1. k + (t + 1 + A) <= last
            BY <1>1, <1>13, <2>1
        <3> QED
            BY <1>7, <1>11, <1>14, <2>1, <3>1
    <2>2. CASE ~x.progress
        <3>1. k + (t + 1 + B) <= last
            BY <1>1, <1>13, <2>2
        <3> QED
            BY <1>7, <1>11, <1>14, <2>2, <3>1
    <2> QED
        BY <2>1, <2>2
<1> QED
    BY <1>8, <1>9, <1>12, <1>15 DEF DrainAfter, y

\* So does the start of the next pass; an ended loop stays ended.
LEMMA PassAdvances ==
    ASSUME NEW k \in Nat, NEW n \in Nat, NEW last \in Nat,
           NEW x \in DrainAfter(k, n, last), x.todo = <<>>
    PROVE  DrainStep(x) \in DrainAfter(k + 1, n, last)
<1> DEFINE y == DrainStep(x)
           w == Len(x.waiting)
<1>1. /\ x.waiting \in Seq(TaggedOp) /\ x \in DrainState
      /\ x.progress \in BOOLEAN /\ w <= n /\ w \in Nat
    BY DEF DrainAfter, DrainState
<1>2. CASE ~x.progress
    BY <1>2 DEF DrainStep, DrainAfter, DrainEnded
<1>3. CASE x.progress
    <2>1. y = [x EXCEPT !.todo = x.waiting, !.waiting = <<>>, !.progress = FALSE]
        BY <1>3 DEF DrainStep, NextPass
    <2>2. /\ y.todo = x.waiting /\ y.waiting = <<>> /\ y.progress = FALSE
          /\ y \in DrainState
        BY <1>1, <2>1 DEF DrainState
    <2> HIDE DEF y
    <2>3. OpsIn(<<>>) = {}
        BY DEF OpsIn
    <2>4. OrphansWait(y)
        BY <2>2, <2>3 DEF OrphansWait
    <2>5. Len(y.todo) = w /\ Len(y.waiting) = 0
        BY <2>2
    <2>6. k + (0 + 1 + (0 + w) * (n + 1)) <= last
        BY <1>3 DEF DrainAfter, DrainEnded, StepsLeft
    <2>7. DrainEnded(y) \/ k + 1 + StepsLeft(y, n) <= last
        <3>1. CASE w = 0
            <4>1. y.todo = <<>>
                BY <1>1, <2>2, <3>1
            <4> QED
                BY <2>2, <4>1 DEF DrainEnded
        <3>2. CASE w > 0
            <4> DEFINE A == (0 + w) * (n + 1)
                       B == (w + 0 - 1) * (n + 1)
            <4>1. StepsLeft(y, n) = w + 1 + B
                BY <2>2, <2>5 DEF StepsLeft
            <4>2. A \in Int /\ B \in Int /\ A = B + n + 1
                <5> HIDE DEF w
                <5> QED
                    BY <1>1
            <4>3. k + 1 + A <= last
                <5>1. k + (0 + 1 + A) <= last
                    BY <2>6
                <5> HIDE DEF A, B, w
                <5> QED
                    BY <4>2, <5>1
            <4>4. k + 1 + StepsLeft(y, n) <= last
                <5> HIDE DEF A, B, w
                <5> QED
                    BY <1>1, <4>1, <4>2, <4>3
            <4> QED
                BY <4>4
        <3> QED
            BY <1>1, <3>1, <3>2
    <2>8. Len(y.todo) + Len(y.waiting) <= n
        <3> HIDE DEF w
        <3> QED
            BY <1>1, <2>5
    <2> QED
        BY <2>2, <2>4, <2>7, <2>8 DEF DrainAfter, y
<1> QED
    BY <1>1, <1>2, <1>3

\* drain_pending ends, and what then still waits misses a target.
THEOREM DrainEnds ==
    ASSUME NEW s \in SessionState, NEW pending \in Seq(TaggedOp)
    PROVE  LET x == Drain(s, pending)
           IN  /\ x.todo = <<>>
               /\ \A o \in OpsIn(x.waiting) :
                        MissingTargets(x.session, o.operation) # {}
<1> DEFINE n == Len(pending)
           last == DrainSteps(n)
           At == [k \in Nat |-> DrainAfter(k, n, last)]
<1>1. n \in Nat /\ last \in Nat /\ last = (n + 1) * (n + 1)
    BY DEF DrainSteps
<1> HIDE DEF n, last
<1>2. DrainStart(s, pending) \in At[0]
    <2> DEFINE x == DrainStart(s, pending)
    <2>1. /\ x \in DrainState /\ x.todo = pending /\ x.waiting = <<>>
          /\ x.progress = FALSE
        BY DEF DrainStart, DrainState
    <2> HIDE DEF x
    <2>2. OpsIn(<<>>) = {}
        BY DEF OpsIn
    <2>3. OrphansWait(x)
        BY <2>1, <2>2 DEF OrphansWait
    <2>4. Len(x.todo) = n /\ Len(x.waiting) = 0
        BY <2>1 DEF n
    <2>5. DrainEnded(x) \/ 0 + StepsLeft(x, n) <= last
        <3>1. StepsLeft(x, n) = n + 1 + (n + 0 - 1) * (n + 1)
            BY <2>1, <2>4 DEF StepsLeft
        <3>2. n + 1 + (n + 0 - 1) * (n + 1) <= (n + 1) * (n + 1)
            BY <1>1
        <3> QED
            BY <1>1, <3>1, <3>2
    <2>6. Len(x.todo) + Len(x.waiting) <= n
        BY <1>1, <2>4
    <2>7. x \in DrainAfter(0, n, last)
        BY <2>1, <2>3, <2>5, <2>6 DEF DrainAfter
    <2> QED
        BY <2>7 DEF x
<1>3. ASSUME NEW k \in Nat, NEW x \in At[k]
      PROVE  DrainStep(x) \in At[k + 1]
    <2>1. x \in DrainAfter(k, n, last) /\ At[k + 1] = DrainAfter(k + 1, n, last)
        BY <1>3
    <2>2. CASE x.todo # <<>>
        BY <1>1, <1>3, <2>1, <2>2, RetryAdvances
    <2>3. CASE x.todo = <<>>
        BY <1>1, <1>3, <2>1, <2>3, PassAdvances
    <2> QED
        BY <2>2, <2>3
<1>4. Drain(s, pending) \in DrainAfter(last, n, last)
    <2>1. /\ \A k \in Nat : \A x \in At[k] : DrainStep(x) \in At[k + 1]
          /\ At[last] = DrainAfter(last, n, last)
        BY <1>1, <1>3
    <2> HIDE DEF At
    <2> QED
        BY <1>1, <1>2, <2>1, DrainFollows DEF n, last
<1> DEFINE x == Drain(s, pending)
<1>5. StepsLeft(x, n) > 0 \/ DrainEnded(x)
    <2> HIDE DEF x
    <2> SUFFICES ASSUME x \in DrainAfter(last, n, last), ~DrainEnded(x)
                 PROVE  StepsLeft(x, n) > 0
        BY <1>4 DEF x
    <2>1. /\ x.todo \in Seq(TaggedOp) /\ x.waiting \in Seq(TaggedOp)
          /\ x.progress \in BOOLEAN
        BY DEF DrainAfter, DrainState
    <2> DEFINE t == Len(x.todo)
               w == Len(x.waiting)
    <2>2. t \in Nat /\ w \in Nat /\ (t = 0 => x.todo = <<>>)
        BY <2>1
    <2> HIDE DEF t, w
    <2>3. CASE x.progress
        <3>1. StepsLeft(x, n) = t + 1 + (t + w) * (n + 1)
            BY <2>3 DEF StepsLeft, t, w
        <3>2. (t + w) * (n + 1) \in Nat
            BY <1>1, <2>2
        <3> QED
            BY <2>2, <3>1, <3>2
    <2>4. CASE ~x.progress
        <3>1. StepsLeft(x, n) = t + 1 + (t + w - 1) * (n + 1)
            BY <2>4 DEF StepsLeft, t, w
        <3>2. t # 0
            BY <2>2, <2>4 DEF DrainEnded
        <3>3. t + w - 1 \in Nat
            BY <2>2, <3>2
        <3>4. (t + w - 1) * (n + 1) \in Nat
            BY <1>1, <3>3
        <3> QED
            BY <2>2, <3>1, <3>4
    <2> QED
        BY <2>3, <2>4
<1> HIDE DEF x
<1>6. x \in DrainAfter(last, n, last)
    BY <1>4 DEF x
<1>7. DrainEnded(x)
    <2>1. StepsLeft(x, n) \in Int
        <3>1. /\ x.todo \in Seq(TaggedOp) /\ x.waiting \in Seq(TaggedOp)
            BY <1>6 DEF DrainAfter, DrainState
        <3>2. Len(x.todo) \in Nat /\ Len(x.waiting) \in Nat
            BY <3>1
        <3> QED
            BY <1>1, <3>2 DEF StepsLeft
    <2> QED
        BY <1>1, <1>5, <1>6, <2>1 DEF DrainAfter
<1>8. OrphansWait(x)
    BY <1>6 DEF DrainAfter
<1> QED
    BY <1>7, <1>8 DEF DrainEnded, OrphansWait, x

-----------------------------------------------------------------------------
(* The two ways a replica changes                                          *)

\* The Lamport clock stays a number, whatever it ticks or observes.
LEMMA ClockTyped ==
    /\ \A a, b \in Nat : Observe(a, b) \in Nat /\ a <= Observe(a, b)
                                          /\ b <= Observe(a, b)
    /\ \A a \in Nat : Tick(a) \in Nat
BY ClockAssumption DEF Observe, Tick

\* Merging, witnessing and incrementing keep a vector clock one.
LEMMA VectorClockTyped ==
    ASSUME NEW vc \in VectorClock, NEW other \in VectorClock,
           NEW p \in Peers, NEW n \in Nat
    PROVE  /\ Merge(vc, other) \in VectorClock
           /\ Witness(vc, p, n) \in VectorClock
           /\ Increment(vc, p) \in VectorClock
<1>1. \A q \in Peers : Observe(vc[q], other[q]) \in Nat
    BY ClockTyped DEF VectorClock
<1>2. Observe(vc[p], n) \in Nat /\ vc[p] + 1 \in Nat
    <2>1. vc[p] \in Nat
        BY DEF VectorClock
    <2>2. Observe(vc[p], n) \in Nat
        BY <2>1, ClockTyped
    <2> QED
        BY <2>1, <2>2
<1> QED
    BY <1>1, <1>2 DEF VectorClock, Merge, Witness, Increment

\* Receiving an operation: apply_remote past the duplicate check.
LEMMA AcceptTyped ==
    ASSUME NEW t \in Timeline, NEW o \in TaggedOp, o.op_id.peer \in Peers
    PROVE  /\ Accept(t, o) \in Timeline
           /\ OpsIn(Accept(t, o).pending) \subseteq OpsIn(t.pending) \cup {o}
           /\ DistinctIds(t.pending) /\ o.op_id \notin IdsIn(t.pending)
                => DistinctIds(Accept(t, o).pending)
<1> DEFINE res     == Apply(t.session, o.operation, o.op_id)
           buffer  == IF res.ok THEN t.pending ELSE Append(t.pending, o)
           drained == Drain(res.session, buffer)
<1>1. /\ t.session \in SessionState /\ t.pending \in Seq(TaggedOp)
      /\ t.operation_log \in Seq(TaggedOp) /\ t.seen \in SUBSET OpTag
      /\ t.vector_clock \in VectorClock /\ t.lamport \in Nat
    BY DEF Timeline
<1>2. /\ o.operation \in Operation /\ o.op_id \in OpTag
      /\ o.vector_clock \in VectorClock /\ o.op_id.lamport \in Nat
    BY DEF TaggedOp, OpTag
<1>3. res.session \in SessionState
    BY <1>1, <1>2, ApplyTyped
<1> HIDE DEF res
<1>4. /\ buffer \in Seq(TaggedOp)
      /\ OpsIn(buffer) \subseteq OpsIn(t.pending) \cup {o}
      /\ DistinctIds(t.pending) /\ o.op_id \notin IdsIn(t.pending)
            => DistinctIds(buffer)
    BY <1>1, AppendOps
<1> HIDE DEF buffer
<1>5. /\ drained \in DrainState
      /\ OpsIn(drained.waiting) \subseteq OpsIn(buffer)
      /\ DistinctIds(buffer) => DistinctIds(drained.waiting)
    BY <1>3, <1>4, DrainKeeps
<1> HIDE DEF drained
<1>6. Accept(t, o) =
        [ session       |-> drained.session,
          operation_log |-> Append(t.operation_log, o),
          seen          |-> t.seen \cup {o.op_id},
          vector_clock  |-> Witness(Merge(t.vector_clock, o.vector_clock),
                                    o.op_id.peer, o.op_id.lamport),
          lamport       |-> Observe(t.lamport, o.op_id.lamport),
          pending       |-> drained.waiting ]
    BY DEF Accept, drained, buffer, res
<1>7. Accept(t, o) \in Timeline
    <2>1. /\ drained.session \in SessionState
          /\ drained.waiting \in Seq(TaggedOp)
        BY <1>5 DEF DrainState
    <2>2. Append(t.operation_log, o) \in Seq(TaggedOp)
        BY <1>1, AppendOps
    <2>3. Witness(Merge(t.vector_clock, o.vector_clock),
                  o.op_id.peer, o.op_id.lamport) \in VectorClock
        BY <1>1, <1>2, VectorClockTyped
    <2>4. Observe(t.lamport, o.op_id.lamport) \in Nat
        BY <1>1, <1>2, ClockTyped
    <2> QED
        BY <1>1, <1>2, <1>6, <2>1, <2>2, <2>3, <2>4 DEF Timeline
<1> QED
    BY <1>4, <1>5, <1>6, <1>7

\* Issuing an operation: apply_local_internal.
LEMMA PerformTyped ==
    ASSUME NEW t \in Timeline, NEW o \in TaggedOp
    PROVE  /\ Perform(t, o) \in Timeline
           /\ OpsIn(Perform(t, o).pending) \subseteq OpsIn(t.pending) \cup {o}
           /\ DistinctIds(t.pending) /\ o.op_id \notin IdsIn(t.pending)
                => DistinctIds(Perform(t, o).pending)
<1> DEFINE res    == Apply(t.session, o.operation, o.op_id)
           buffer == IF res.ok THEN t.pending ELSE Append(t.pending, o)
<1>1. /\ t.session \in SessionState /\ t.pending \in Seq(TaggedOp)
      /\ t.operation_log \in Seq(TaggedOp) /\ t.seen \in SUBSET OpTag
    BY DEF Timeline
<1>2. /\ o.operation \in Operation /\ o.op_id \in OpTag
      /\ o.vector_clock \in VectorClock /\ o.op_id.lamport \in Nat
    BY DEF TaggedOp, OpTag
<1>3. res.session \in SessionState
    BY <1>1, <1>2, ApplyTyped
<1> HIDE DEF res
<1>4. /\ buffer \in Seq(TaggedOp)
      /\ OpsIn(buffer) \subseteq OpsIn(t.pending) \cup {o}
      /\ DistinctIds(t.pending) /\ o.op_id \notin IdsIn(t.pending)
            => DistinctIds(buffer)
    BY <1>1, AppendOps
<1> HIDE DEF buffer
<1>5. Perform(t, o) =
        [ session       |-> res.session,
          operation_log |-> Append(t.operation_log, o),
          seen          |-> t.seen \cup {o.op_id},
          vector_clock  |-> o.vector_clock,
          lamport       |-> o.op_id.lamport,
          pending       |-> buffer ]
    BY DEF Perform, buffer, res
<1>6. Append(t.operation_log, o) \in Seq(TaggedOp)
    BY <1>1, AppendOps
<1> QED
    BY <1>1, <1>2, <1>3, <1>4, <1>5, <1>6 DEF Timeline

-----------------------------------------------------------------------------
(* The inductive invariant.  Each conjunct is one of the properties; none  *)
(* is inductive without the others: an id is fresh because the issuer's    *)
(* log holds all it has issued and its clock covers the log, and the log   *)
(* holds each operation once because seen holds exactly the logged ids.    *)

IndInv ==
    /\ TypeOK
    /\ LogHasNoDuplicates
    /\ OpIdsUnique
    /\ IssuedAfterObserved
    /\ BufferIsLogged
    /\ ClockCoversLog
    /\ \A o \in sent : o.op_id.peer \in Peers

\* Empty replicas satisfy the inductive invariant.
LEMMA InitIndInv == Init => IndInv
<1> SUFFICES ASSUME Init PROVE IndInv
    OBVIOUS
<1>1. /\ <<>> \in Seq(TaggedOp) /\ OpsIn(<<>>) = {} /\ IdsIn(<<>>) = {}
      /\ DistinctIds(<<>>)
    BY DEF OpsIn, IdsIn, DistinctIds
<1>2. NewTimeline \in Timeline
    BY <1>1, EmptySessionTyped DEF NewTimeline, Timeline, ZeroClock, VectorClock
<1>3. \A p \in Peers : crdt[p] = NewTimeline
    BY DEF Init
<1>4. \A p \in Peers : /\ crdt[p].operation_log = <<>> /\ crdt[p].pending = <<>>
                       /\ crdt[p].seen = {}
    <2>1. /\ NewTimeline.operation_log = <<>> /\ NewTimeline.pending = <<>>
          /\ NewTimeline.seen = {}
        BY DEF NewTimeline
    <2> QED
        BY <1>3, <2>1
<1>5. TypeOK
    BY <1>2 DEF Init, TypeOK
<1>6. LogHasNoDuplicates /\ BufferIsLogged /\ ClockCoversLog
    BY <1>1, <1>4 DEF LogHasNoDuplicates, BufferIsLogged, ClockCoversLog, Log,
                      Pending, Init
<1>7. IssuedAfterObserved
    BY <1>4 DEF IssuedAfterObserved
<1> QED
    BY <1>5, <1>6, <1>7 DEF IndInv, OpIdsUnique, Init

\* What an application may issue is an operation.
LEMMA EditIsOperation ==
    ASSUME NEW p \in Peers, NEW operation \in Edits[p]
    PROVE  operation \in Operation
BY TimelineAssumption

\* The stamp of a new operation: the next tick of its issuer's clock.
LEMMA StampTyped ==
    ASSUME NEW t \in Timeline, NEW p \in Peers, NEW operation \in Operation,
           t.lamport < MaxLamport
    PROVE  LET o == Stamp(t, p, operation)
           IN  /\ o \in TaggedOp
               /\ o.op_id = [lamport |-> t.lamport + 1, peer |-> p]
<1> DEFINE o == Stamp(t, p, operation)
<1>1. t.lamport \in Nat /\ t.vector_clock \in VectorClock
    BY DEF Timeline
<1>2. o = [ op_id |-> [lamport |-> t.lamport + 1, peer |-> p],
            operation |-> operation,
            vector_clock |-> Increment(t.vector_clock, p) ]
    BY DEF Stamp, Tick
<1>4. p \in Nat
    BY ClockAssumption
<1>5. Increment(t.vector_clock, p) \in VectorClock
    BY <1>1, VectorClockTyped
<1> QED
    BY <1>1, <1>2, <1>4, <1>5 DEF TaggedOp, OpTag

\* The stamp of a new operation: an id nobody has used, above all its issuer
\* has logged.
LEMMA StampIsFresh ==
    ASSUME IndInv, NEW p \in Peers, NEW operation \in Operation, WithinBounds(p)
    PROVE  LET o == Stamp(crdt[p], p, operation)
           IN  /\ o \in TaggedOp
               /\ o.op_id.peer = p
               /\ o.op_id.lamport = crdt[p].lamport + 1
               /\ \A x \in Log(p) : x.op_id.lamport < o.op_id.lamport
               /\ \A x \in sent : x.op_id # o.op_id
               /\ o.op_id \notin IdsIn(crdt[p].operation_log)
<1> DEFINE o == Stamp(crdt[p], p, operation)
<1>1. /\ crdt[p] \in Timeline /\ crdt[p].lamport \in Nat
      /\ crdt[p].vector_clock \in VectorClock
    BY DEF IndInv, TypeOK, Timeline
<1>2. /\ o \in TaggedOp
      /\ o.op_id = [lamport |-> crdt[p].lamport + 1, peer |-> p]
    BY <1>1, StampTyped DEF WithinBounds
<1> HIDE DEF o
<1>4. \A x \in Log(p) : x.op_id.lamport \in Nat
    BY DEF IndInv, TypeOK, ClockCoversLog, TaggedOp, OpTag
<1>5. \A x \in Log(p) : x.op_id.lamport < o.op_id.lamport
    BY <1>1, <1>2, <1>4 DEF IndInv, ClockCoversLog
<1>6. ASSUME NEW x \in sent, x.op_id = o.op_id
      PROVE  FALSE
    <2>1. x \in Log(p)
        BY <1>2, <1>6 DEF IndInv, BufferIsLogged
    <2> QED
        BY <1>1, <1>2, <1>4, <1>5, <1>6, <2>1
<1>7. o.op_id \notin IdsIn(crdt[p].operation_log)
    BY <1>6 DEF IdsIn, IndInv, ClockCoversLog, Log
<1> QED
    BY <1>2, <1>5, <1>6, <1>7 DEF o

\* apply_local keeps the inductive invariant, and so do undo and redo.
LEMMA IssueKeepsIndInv ==
    ASSUME IndInv, NEW p \in Peers, NEW operation \in Operation,
           Issue(p, operation)
    PROVE  IndInv'
<1> DEFINE o == Stamp(crdt[p], p, operation)
           t == crdt[p]
<1>1. /\ o \in TaggedOp /\ o.op_id.peer = p
      /\ o.op_id.lamport = t.lamport + 1
      /\ \A x \in Log(p) : x.op_id.lamport < o.op_id.lamport
      /\ \A x \in sent : x.op_id # o.op_id
      /\ o.op_id \notin IdsIn(t.operation_log)
    BY StampIsFresh DEF Issue
<1>2. /\ sent' = sent \cup {o}
      /\ crdt' = [crdt EXCEPT ![p] = Perform(t, o)]
    BY DEF Issue
<1> HIDE DEF o
<1>3. /\ crdt \in [Peers -> Timeline] /\ t \in Timeline /\ sent \subseteq TaggedOp
      /\ t.operation_log \in Seq(TaggedOp) /\ t.pending \in Seq(TaggedOp)
      /\ t.lamport \in Nat
    BY DEF IndInv, TypeOK, Timeline
<1>4. /\ crdt'[p] = Perform(t, o)
      /\ \A q \in Peers \ {p} : crdt'[q] = crdt[q]
    BY <1>2, <1>3
<1>5. /\ crdt'[p].operation_log = Append(t.operation_log, o)
      /\ crdt'[p].seen = t.seen \cup {o.op_id}
      /\ crdt'[p].lamport = o.op_id.lamport
    BY <1>4 DEF Perform
<1>6. /\ Log(p)' = Log(p) \cup {o}
      /\ IdsIn(crdt'[p].operation_log) = IdsIn(t.operation_log) \cup {o.op_id}
      /\ DistinctIds(crdt'[p].operation_log)
    BY <1>1, <1>3, <1>5, AppendOps DEF Log, IndInv, LogHasNoDuplicates
<1>7. /\ Pending(p)' \subseteq Pending(p) \cup {o}
      /\ DistinctIds(crdt'[p].pending)
    <2>1. o.op_id \notin IdsIn(t.pending)
        BY <1>1 DEF IdsIn, IndInv, BufferIsLogged, Log, Pending
    <2>2. DistinctIds(t.pending)
        BY DEF IndInv, BufferIsLogged
    <2> QED
        BY <1>1, <1>3, <1>4, <2>1, <2>2, PerformTyped DEF Pending
<1>8. \A q \in Peers \ {p} : Log(q)' = Log(q) /\ Pending(q)' = Pending(q)
    BY <1>4 DEF Log, Pending
<1>9. TypeOK'
    BY <1>1, <1>2, <1>3, PerformTyped DEF TypeOK
<1>10. LogHasNoDuplicates'
    BY <1>4, <1>5, <1>6 DEF IndInv, LogHasNoDuplicates
<1>11. OpIdsUnique'
    BY <1>1, <1>2 DEF IndInv, OpIdsUnique
<1>12. IssuedAfterObserved'
    <2>1. ASSUME NEW q \in Peers, NEW i \in DOMAIN crdt'[q].operation_log,
                 NEW j \in DOMAIN crdt'[q].operation_log, i < j,
                 crdt'[q].operation_log[j].op_id.peer = q
          PROVE  crdt'[q].operation_log[i].op_id.lamport
                    < crdt'[q].operation_log[j].op_id.lamport
        <3>1. CASE q # p
            BY <1>4, <2>1, <3>1 DEF IndInv, IssuedAfterObserved
        <3>2. CASE q = p
            <4> DEFINE log == t.operation_log
            <4>1. /\ DOMAIN log = 1..Len(log) /\ Len(log) \in Nat
                  /\ DOMAIN Append(log, o) = 1..(Len(log) + 1)
                  /\ \A k \in DOMAIN log : Append(log, o)[k] = log[k]
                  /\ Append(log, o)[Len(log) + 1] = o
                BY <1>3
            <4>2. i \in DOMAIN log /\ Append(log, o)[i] = log[i]
                <5>1. i \in DOMAIN Append(log, o) /\ j \in DOMAIN Append(log, o)
                    BY <1>5, <2>1, <3>2
                <5>2. i \in 1..Len(log)
                    BY <2>1, <4>1, <5>1
                <5> QED
                    BY <4>1, <5>2
            <4>3. CASE j \in DOMAIN log
                <5>1. Append(log, o)[j] = log[j]
                    BY <4>1, <4>3
                <5>2. log[j].op_id.peer = p
                    BY <1>5, <2>1, <3>2, <5>1
                <5>3. log[i].op_id.lamport < log[j].op_id.lamport
                    BY <2>1, <4>2, <4>3, <5>2 DEF IndInv, IssuedAfterObserved
                <5> QED
                    BY <1>5, <3>2, <4>2, <5>1, <5>3
            <4>4. CASE j \notin DOMAIN log
                <5>1. Append(log, o)[j] = o
                    BY <1>5, <2>1, <3>2, <4>1, <4>4
                <5>2. log[i] \in Log(p)
                    BY <4>2 DEF Log, OpsIn
                <5> QED
                    BY <1>1, <1>5, <3>2, <4>2, <5>1, <5>2
            <4> QED
                BY <4>3, <4>4
        <3> QED
            BY <3>1, <3>2
    <2> QED
        BY <2>1 DEF IssuedAfterObserved
<1>13. BufferIsLogged'
    <2>1. ASSUME NEW q \in Peers
          PROVE  /\ Pending(q)' \subseteq Log(q)'
                 /\ DistinctIds(crdt'[q].pending)
                 /\ {x \in sent' : x.op_id.peer = q} \subseteq Log(q)'
        <3>1. CASE q = p
            BY <1>2, <1>6, <1>7, <3>1 DEF IndInv, BufferIsLogged
        <3>2. CASE q # p
            BY <1>1, <1>2, <1>4, <1>8, <3>2 DEF IndInv, BufferIsLogged
        <3> QED
            BY <3>1, <3>2
    <2> QED
        BY <2>1 DEF BufferIsLogged
<1>14. ClockCoversLog'
    <2>1. ASSUME NEW q \in Peers
          PROVE  /\ Log(q)' \subseteq sent'
                 /\ \A x \in Log(q)' : x.op_id.lamport <= crdt'[q].lamport
        <3>1. CASE q = p
            <4>1. Log(q)' \subseteq sent'
                BY <1>2, <1>6, <3>1 DEF IndInv, ClockCoversLog
            <4>2. \A x \in Log(p) : x.op_id.lamport <= t.lamport
                                   /\ x.op_id.lamport \in Nat
                BY <1>3 DEF IndInv, ClockCoversLog, TaggedOp, OpTag
            <4> QED
                BY <1>1, <1>3, <1>5, <1>6, <3>1, <4>1, <4>2
        <3>2. CASE q # p
            BY <1>2, <1>4, <1>8, <3>2 DEF IndInv, ClockCoversLog
        <3> QED
            BY <3>1, <3>2
    <2> QED
        BY <2>1 DEF ClockCoversLog
<1>15. (\A x \in sent : x.op_id.peer \in Peers)'
    BY <1>1, <1>2 DEF IndInv
<1> QED
    BY <1>9, <1>10, <1>11, <1>12, <1>13, <1>14, <1>15 DEF IndInv

\* apply_remote keeps the inductive invariant, duplicate or not.
LEMMA ReceiveKeepsIndInv ==
    ASSUME IndInv, NEW p \in Peers, NEW o \in sent, ApplyRemote(p, o)
    PROVE  IndInv'
<1> DEFINE t == crdt[p]
<1>1. /\ sent' = sent
      /\ crdt' = [crdt EXCEPT ![p] = Receive(t, o)]
    BY DEF ApplyRemote
<1>2. /\ crdt \in [Peers -> Timeline] /\ t \in Timeline /\ o \in TaggedOp
      /\ sent \subseteq TaggedOp /\ o.op_id.peer \in Peers
      /\ t.operation_log \in Seq(TaggedOp) /\ t.pending \in Seq(TaggedOp)
      /\ t.lamport \in Nat /\ o.op_id.lamport \in Nat
    BY DEF IndInv, TypeOK, Timeline, TaggedOp, OpTag
<1>3. CASE o.op_id \in t.seen
    <2>1. crdt' = crdt
        BY <1>1, <1>2, <1>3 DEF Receive
    <2> QED
        BY <1>1, <2>1 DEF IndInv, TypeOK, LogHasNoDuplicates, OpIdsUnique,
            IssuedAfterObserved, BufferIsLogged, ClockCoversLog, Log, Pending
<1>4. CASE o.op_id \notin t.seen
    <2>1. /\ crdt' = [crdt EXCEPT ![p] = Accept(t, o)]
          /\ crdt'[p] = Accept(t, o)
          /\ \A q \in Peers \ {p} : crdt'[q] = crdt[q]
        BY <1>1, <1>2, <1>4 DEF Receive
    <2>2. /\ crdt'[p].operation_log = Append(t.operation_log, o)
          /\ crdt'[p].seen = t.seen \cup {o.op_id}
          /\ crdt'[p].lamport = Observe(t.lamport, o.op_id.lamport)
        BY <2>1 DEF Accept
    <2>3. o.op_id \notin IdsIn(t.operation_log) /\ o.op_id.peer # p
        <3>1. o.op_id \notin IdsIn(t.operation_log)
            BY <1>4 DEF IndInv, LogHasNoDuplicates
        <3> QED
            BY <3>1 DEF IndInv, BufferIsLogged, Log, IdsIn
    <2>4. /\ Log(p)' = Log(p) \cup {o}
          /\ IdsIn(crdt'[p].operation_log) = IdsIn(t.operation_log) \cup {o.op_id}
          /\ DistinctIds(crdt'[p].operation_log)
        BY <1>2, <2>2, <2>3, AppendOps DEF Log, IndInv, LogHasNoDuplicates
    <2>5. /\ Pending(p)' \subseteq Pending(p) \cup {o}
          /\ DistinctIds(crdt'[p].pending)
        <3>1. o.op_id \notin IdsIn(t.pending)
            BY <2>3 DEF IdsIn, IndInv, BufferIsLogged, Log, Pending
        <3>2. DistinctIds(t.pending)
            BY DEF IndInv, BufferIsLogged
        <3> QED
            BY <1>2, <2>1, <3>1, <3>2, AcceptTyped DEF Pending
    <2>6. \A q \in Peers \ {p} : Log(q)' = Log(q) /\ Pending(q)' = Pending(q)
        BY <2>1 DEF Log, Pending
    <2>7. TypeOK'
        BY <1>1, <1>2, <2>1, AcceptTyped DEF TypeOK
    <2>8. LogHasNoDuplicates'
        BY <2>1, <2>2, <2>4 DEF IndInv, LogHasNoDuplicates
    <2>9. OpIdsUnique'
        BY <1>1 DEF IndInv, OpIdsUnique
    <2>10. IssuedAfterObserved'
        <3>1. ASSUME NEW q \in Peers, NEW i \in DOMAIN crdt'[q].operation_log,
                     NEW j \in DOMAIN crdt'[q].operation_log, i < j,
                     crdt'[q].operation_log[j].op_id.peer = q
              PROVE  crdt'[q].operation_log[i].op_id.lamport
                        < crdt'[q].operation_log[j].op_id.lamport
            <4>1. CASE q # p
                BY <2>1, <3>1, <4>1 DEF IndInv, IssuedAfterObserved
            <4>2. CASE q = p
                <5> DEFINE log == t.operation_log
                <5>1. /\ DOMAIN log = 1..Len(log) /\ Len(log) \in Nat
                      /\ DOMAIN Append(log, o) = 1..(Len(log) + 1)
                      /\ \A k \in DOMAIN log : Append(log, o)[k] = log[k]
                      /\ Append(log, o)[Len(log) + 1] = o
                    BY <1>2
                <5>2. j \in DOMAIN log /\ Append(log, o)[j] = log[j]
                    <6>1. Append(log, o)[j].op_id.peer = p
                        BY <2>2, <3>1, <4>2
                    <6>2. j # Len(log) + 1
                        BY <2>3, <5>1, <6>1
                    <6>3. j \in 1..(Len(log) + 1)
                        BY <2>2, <4>2, <5>1
                    <6> QED
                        BY <5>1, <6>2, <6>3
                <5>3. i \in DOMAIN log /\ Append(log, o)[i] = log[i]
                    <6>1. i \in DOMAIN Append(log, o)
                        BY <2>2, <3>1, <4>2
                    <6>2. i \in 1..Len(log)
                        BY <3>1, <5>1, <5>2, <6>1
                    <6> QED
                        BY <5>1, <6>2
                <5>4. log[j].op_id.peer = p
                    BY <2>2, <3>1, <4>2, <5>2
                <5>5. log[i].op_id.lamport < log[j].op_id.lamport
                    BY <3>1, <5>2, <5>3, <5>4 DEF IndInv, IssuedAfterObserved
                <5> QED
                    BY <2>2, <4>2, <5>2, <5>3, <5>5
            <4> QED
                BY <4>1, <4>2
        <3> QED
            BY <3>1 DEF IssuedAfterObserved
    <2>11. BufferIsLogged'
        <3>1. ASSUME NEW q \in Peers
              PROVE  /\ Pending(q)' \subseteq Log(q)'
                     /\ DistinctIds(crdt'[q].pending)
                     /\ {x \in sent' : x.op_id.peer = q} \subseteq Log(q)'
            <4>1. CASE q = p
                BY <1>1, <2>4, <2>5, <4>1 DEF IndInv, BufferIsLogged
            <4>2. CASE q # p
                BY <1>1, <2>1, <2>6, <4>2 DEF IndInv, BufferIsLogged
            <4> QED
                BY <4>1, <4>2
        <3> QED
            BY <3>1 DEF BufferIsLogged
    <2>12. ClockCoversLog'
        <3>1. ASSUME NEW q \in Peers
              PROVE  /\ Log(q)' \subseteq sent'
                     /\ \A x \in Log(q)' : x.op_id.lamport <= crdt'[q].lamport
            <4>1. CASE q = p
                <5>1. Log(q)' \subseteq sent'
                    BY <1>1, <2>4, <4>1 DEF IndInv, ClockCoversLog
                <5>2. \A x \in Log(p) : x.op_id.lamport <= t.lamport
                                       /\ x.op_id.lamport \in Nat
                    BY <1>2 DEF IndInv, ClockCoversLog, TaggedOp, OpTag
                <5>3. /\ Observe(t.lamport, o.op_id.lamport) \in Nat
                      /\ t.lamport <= Observe(t.lamport, o.op_id.lamport)
                      /\ o.op_id.lamport <= Observe(t.lamport, o.op_id.lamport)
                    BY <1>2, ClockTyped
                <5>4. ASSUME NEW x \in Log(p)'
                      PROVE  x.op_id.lamport <= crdt'[p].lamport
                    <6>1. CASE x = o
                        BY <2>2, <5>3, <6>1
                    <6>2. CASE x # o
                        <7>1. x.op_id.lamport <= t.lamport
                                /\ x.op_id.lamport \in Nat
                            BY <2>4, <5>2, <6>2
                        <7> HIDE DEF t
                        <7> QED
                            BY <1>2, <2>2, <5>3, <7>1
                    <6> QED
                        BY <6>1, <6>2
                <5> QED
                    BY <4>1, <5>1, <5>4
            <4>2. CASE q # p
                BY <1>1, <2>1, <2>6, <4>2 DEF IndInv, ClockCoversLog
            <4> QED
                BY <4>1, <4>2
        <3> QED
            BY <3>1 DEF ClockCoversLog
    <2> QED
        BY <1>1, <2>7, <2>8, <2>9, <2>10, <2>11, <2>12 DEF IndInv
<1> QED
    BY <1>3, <1>4

\* Every step of the replication engine keeps the inductive invariant.
LEMMA NextKeepsIndInv == IndInv /\ [Next]_vars => IndInv'
<1> SUFFICES ASSUME IndInv, [Next]_vars PROVE IndInv'
    OBVIOUS
<1>1. ASSUME NEW p \in Peers, ApplyLocal(p)
      PROVE  IndInv'
    BY <1>1, EditIsOperation, IssueKeepsIndInv DEF ApplyLocal
<1>2. ASSUME NEW p \in Peers, NEW o \in sent, ApplyRemote(p, o)
      PROVE  IndInv'
    BY <1>2, ReceiveKeepsIndInv
<1>3. CASE UNCHANGED vars
    BY <1>3 DEF vars, IndInv, TypeOK, LogHasNoDuplicates, OpIdsUnique,
        IssuedAfterObserved, BufferIsLogged, ClockCoversLog, Log, Pending
<1> QED
    BY <1>1, <1>2, <1>3 DEF Next

\* The inductive invariant holds in every state the replicas reach.
THEOREM Invariance == Spec => []IndInv
BY InitIndInv, NextKeepsIndInv, PTL DEF Spec

-----------------------------------------------------------------------------
(* What follows                                                            *)

\* Every replica is well typed in every state: apply_local and apply_remote,
\* with the drain of the buffer, keep the clocks, the log, the buffer and the
\* whole session well formed.
THEOREM TypeCorrectness == Spec => []TypeOK
BY Invariance, PTL DEF IndInv

\* However often operations are duplicated, no log holds one twice and the
\* duplicate check consults exactly what is logged.
THEOREM NoDuplicates == Spec => []LogHasNoDuplicates
BY Invariance, PTL DEF IndInv

\* Operation ids are unique across all peers, in any number.
THEOREM UniqueIds == Spec => []OpIdsUnique
BY Invariance, PTL DEF IndInv

\* An issuer's operation outranks all it had logged.
THEOREM IssueOrder == Spec => []IssuedAfterObserved
BY Invariance, PTL DEF IndInv

\* Buffering neither loses nor repeats an operation.
THEOREM BufferSafe == Spec => []BufferIsLogged
BY Invariance, PTL DEF IndInv

\* Logs hold issued operations only and clocks cover them.
THEOREM ClockSafe == Spec => []ClockCoversLog
BY Invariance, PTL DEF IndInv

-----------------------------------------------------------------------------
(* Refinement                                                              *)

\* Replicas that have logged nothing know nothing.
LEMMA InitRefines == Init => OpSet!Init
<1> SUFFICES ASSUME Init PROVE OpSet!Init
    OBVIOUS
<1>1. ASSUME NEW p \in Peers
      PROVE  {Body(o) : o \in Log(p)} = {}
    <2>1. crdt[p].operation_log = <<>>
        BY DEF Init, NewTimeline
    <2>2. OpsIn(<<>>) = {}
        BY DEF OpsIn
    <2> QED
        BY <2>1, <2>2 DEF Log
<1>2. [p \in Peers |-> {Body(o) : o \in Log(p)}] = [p \in Peers |-> {}]
    BY <1>1
<1>3. {Body(o) : o \in sent} = {}
    BY DEF Init
<1> QED
    BY <1>2, <1>3 DEF OpSet!Init

\* Issuing an operation publishes it: its id is new and outranks all known.
LEMMA IssueRefines ==
    ASSUME IndInv, NEW p \in Peers, NEW operation \in Edits[p],
           Issue(p, operation)
    PROVE  OpSet!Publish(p)
<1> DEFINE o == Stamp(crdt[p], p, operation)
           published == {Body(x) : x \in sent}
           known == [q \in Peers |-> {Body(x) : x \in Log(q)}]
<1>1. /\ o \in TaggedOp /\ o.op_id.peer = p
      /\ o.op_id.lamport = crdt[p].lamport + 1
      /\ \A x \in Log(p) : x.op_id.lamport < o.op_id.lamport
      /\ \A x \in sent : x.op_id # o.op_id
    BY EditIsOperation, StampIsFresh DEF Issue
<1>2. o.operation = operation
    BY DEF Stamp
<1>3. /\ sent' = sent \cup {o}
      /\ crdt' = [crdt EXCEPT ![p] = Perform(crdt[p], o)]
      /\ crdt[p].lamport < MaxLamport
    BY DEF Issue, WithinBounds
<1> HIDE DEF o
<1>4. /\ crdt \in [Peers -> Timeline]
      /\ crdt[p].operation_log \in Seq(TaggedOp) /\ crdt[p].lamport \in Nat
    BY DEF IndInv, TypeOK, Timeline
<1>5. o.op_id \in OpSet!Id(p)
    <2>1. o.op_id \in OpTag
        BY <1>1 DEF TaggedOp
    <2>2. o.op_id = [lamport |-> crdt[p].lamport + 1, peer |-> p]
        BY <1>1, <2>1 DEF OpTag
    <2> QED
        BY <1>3, <1>4, <2>2, ClockAssumption DEF OpSet!Id
<1>6. \A x \in published : x[1] # o.op_id
    BY <1>1 DEF Body
<1>7. \A x \in known[p] : OpSet!TagLess(x[1], o.op_id)
    BY <1>1 DEF Body, OpSet!TagLess
<1>8. published' = published \cup {<<o.op_id, operation>>}
    BY <1>2, <1>3 DEF Body
<1>9. known' = [known EXCEPT ![p] = @ \cup {<<o.op_id, operation>>}]
    <2>1. Log(p)' = Log(p) \cup {o}
        <3>1. crdt'[p].operation_log = Append(crdt[p].operation_log, o)
            BY <1>3, <1>4 DEF Perform
        <3> QED
            BY <1>1, <1>4, <3>1, AppendOps DEF Log
    <2>2. \A q \in Peers \ {p} : Log(q)' = Log(q)
        BY <1>3, <1>4 DEF Log
    <2>3. {Body(x) : x \in Log(p)'} = known[p] \cup {<<o.op_id, operation>>}
        BY <1>2, <2>1 DEF Body
    <2> QED
        BY <2>2, <2>3
<1> QED
    BY <1>5, <1>6, <1>7, <1>8, <1>9 DEF OpSet!Publish

\* Receiving an operation learns it, or, for a duplicate, changes nothing.
LEMMA ReceiveRefines ==
    ASSUME IndInv, NEW p \in Peers, NEW o \in sent, ApplyRemote(p, o)
    PROVE  OpSet!Learn(p) \/ UNCHANGED OpSet!vars
<1> DEFINE published == {Body(x) : x \in sent}
           known == [q \in Peers |-> {Body(x) : x \in Log(q)}]
<1>1. /\ sent' = sent
      /\ crdt' = [crdt EXCEPT ![p] = Receive(crdt[p], o)]
    BY DEF ApplyRemote
<1>2. /\ crdt \in [Peers -> Timeline] /\ o \in TaggedOp
      /\ crdt[p].operation_log \in Seq(TaggedOp)
    BY DEF IndInv, TypeOK, Timeline
<1>3. CASE o.op_id \in crdt[p].seen
    <2>1. crdt' = crdt
        BY <1>1, <1>2, <1>3 DEF Receive
    <2> QED
        BY <1>1, <2>1 DEF OpSet!vars, Log
<1>4. CASE o.op_id \notin crdt[p].seen
    <2>1. Log(p)' = Log(p) \cup {o}
        <3>1. crdt'[p].operation_log = Append(crdt[p].operation_log, o)
            BY <1>1, <1>2, <1>4 DEF Receive, Accept
        <3> QED
            BY <1>2, <3>1, AppendOps DEF Log
    <2>2. \A q \in Peers \ {p} : Log(q)' = Log(q)
        BY <1>1, <1>2 DEF Log
    <2>3. {Body(x) : x \in Log(p)'} = known[p] \cup {Body(o)}
        BY <2>1
    <2>4. known' = [known EXCEPT ![p] = @ \cup {Body(o)}]
        BY <2>2, <2>3
    <2>5. Body(o) \in published /\ published' = published
        BY <1>1
    <2>6. {Body(o)} \in SUBSET published
        BY <2>5
    <2> QED
        BY <2>4, <2>5, <2>6 DEF OpSet!Learn
<1> QED
    BY <1>3, <1>4

\* The replication engine implements the grow-only set of operations, for any
\* peers, any edits and any order, loss or duplication of deliveries.
THEOREM Refinement == Spec => ImplementsOpSet
<1>1. IndInv /\ [Next]_vars => [OpSet!Next]_(OpSet!vars)
    <2> SUFFICES ASSUME IndInv, [Next]_vars
                 PROVE  OpSet!Next \/ UNCHANGED OpSet!vars
        OBVIOUS
    <2>1. ASSUME NEW p \in Peers, ApplyLocal(p)
          PROVE  OpSet!Next
        BY <2>1, IssueRefines DEF ApplyLocal, OpSet!Next
    <2>2. ASSUME NEW p \in Peers, NEW o \in sent, ApplyRemote(p, o)
          PROVE  OpSet!Next \/ UNCHANGED OpSet!vars
        BY <2>2, ReceiveRefines DEF OpSet!Next
    <2>3. CASE UNCHANGED vars
        BY <2>3 DEF vars, OpSet!vars, Log
    <2> QED
        BY <2>1, <2>2, <2>3 DEF Next
<1> QED
    BY <1>1, InitRefines, Invariance, PTL DEF Spec, ImplementsOpSet, OpSet!Spec

-----------------------------------------------------------------------------
(* What the session holds, read off the set of applied operations: every   *)
(* register holds the top of the writes to it, an entity exists exactly    *)
(* when an applied operation made it, and what does not exist has never    *)
(* been edited.  The last of these is what makes the others inductive: an  *)
(* entity starts with the write that makes it, which is the top of one.    *)

\* reg is the write of W with the greatest tag.
IsTop(reg, W) ==
    IF W = {} THEN reg = NewInitial(0)
    ELSE reg \in W /\ \A x \in W : ~TagLess(reg.tag, x.tag)

WritesTo(ops, f) ==
    {Written(o.operation.writes[f], o.op_id) :
        o \in {x \in ops : f \in DOMAIN x.operation.writes}}

\* The writes to liveness registers.
Reviving == {"InsertClip", "InsertTrack", "SplitClip"}
Burying == {"DeleteClip", "DeleteTrack"}
AliveWrites(ops) ==
    {Written(o.operation.type \in Reviving, o.op_id) :
        o \in {x \in ops : x.operation.type \in Reviving \cup Burying}}

EnvelopeWrites(ops, e) ==
    {Written(o.operation.points, o.op_id) :
        o \in {x \in ops : /\ x.operation \in EnvelopeEdit
                           /\ x.operation.target = e}}

EditsOfClip(ops, c) ==
    {o \in ops : o.operation \in ClipEdit /\ o.operation.clip = c}
EditsOfTrack(ops, t) ==
    {o \in ops : o.operation \in TrackEdit /\ o.operation.track = t}
MetadataEdits(ops) == {o \in ops : o.operation \in MetadataEdit}

\* What may be taken for an issued operation: its id is nobody's initial tag.
Stamped == {o \in TaggedOp : o.op_id.peer \in Peers}

Creates(op, c) ==
    \/ op \in ClipEdit /\ op.type = "InsertClip" /\ op.clip = c
    \/ op \in SplitEdit /\ op.new_clip = c /\ op.clip # c

ClipReflects(s, ops, c) ==
    /\ Exists(s.clips, c) <=> \E o \in ops : Creates(o.operation, c)
    /\ ~Exists(s.clips, c) => EditsOfClip(ops, c) = {}
    /\ Exists(s.clips, c) =>
        /\ \A f \in ClipField :
                IsTop(s.clips[c].regs[f], WritesTo(EditsOfClip(ops, c), f))
        /\ s.clips[c].detached <=>
                \E o \in EditsOfClip(ops, c) :
                        o.operation.type \in {"MoveClip", "TrimClip"}

TrackReflects(s, ops, t) ==
    /\ Exists(s.tracks, t) <=>
            \E o \in EditsOfTrack(ops, t) : o.operation.type = "InsertTrack"
    /\ ~Exists(s.tracks, t) => EditsOfTrack(ops, t) = {}
    /\ Exists(s.tracks, t) =>
        /\ \A f \in TrackField :
                IsTop(s.tracks[t].regs[f], WritesTo(EditsOfTrack(ops, t), f))
        /\ IsTop(s.tracks[t].alive, AliveWrites(EditsOfTrack(ops, t)))

\* The splits that make clip c, and the cuts made in it: offset and child.
SplitsInto(ops, c) ==
    {o \in ops : o.operation \in SplitEdit /\ Creates(o.operation, c)}
CutsOf(ops, c) ==
    {<<o.operation.split_frame, o.operation.new_clip>> :
        o \in {x \in ops : /\ x.operation \in SplitEdit
                           /\ x.operation.clip = c
                           /\ x.operation.new_clip # c}}

\* splits holds, of the cuts at each offset, the one with the smallest child.
IsLeast(splits, cuts) ==
    /\ splits \subseteq cuts
    /\ \A x \in cuts : \E e \in splits : e[1] = x[1] /\ e[2] <= x[2]
    /\ \A d, e \in splits : d[1] = e[1] => d = e

\* How a clip hangs together with the pieces split off it.
ClipStructure(s, ops, c) ==
    /\ ~Exists(s.clips, c) => CutsOf(ops, c) = {}
    /\ Exists(s.clips, c) =>
        /\ IsTop(s.clips[c].alive,
                 AliveWrites(EditsOfClip(ops, c) \cup SplitsInto(ops, c)))
        /\ SplitsInto(ops, c) = {} => s.clips[c].parent = NoParent
        /\ \A o \in SplitsInto(ops, c) :
                s.clips[c].parent =
                    <<o.operation.clip, o.operation.split_frame>>
        /\ IsLeast(s.clips[c].splits, CutsOf(ops, c))

\* The id of a piece is used for one split only: no other operation makes it.
\* The same split may have been issued more than once.
OneSplitPerPiece(ops) ==
    \A a, b \in ops : \A c \in ClipId :
        a.operation \in SplitEdit /\ Creates(a.operation, c)
                /\ Creates(b.operation, c) => b.operation = a.operation

\* No clips owe each other their existence: of every set of clips one was made
\* by an operation that needed none of them.
Grounded(s, ops) ==
    \A C \in SUBSET {c \in ClipId : Exists(s.clips, c)} :
        C # {} => \E c \in C, o \in ops :
                    /\ Creates(o.operation, c)
                    /\ o.operation \in SplitEdit => o.operation.clip \notin C

\* The session of a replica that knows the operations of log and has applied
\* those of ops.
Reflects(s, ops, log) ==
    /\ \A c \in ClipId : ClipReflects(s, ops, c)
    /\ \A t \in TrackId : TrackReflects(s, ops, t)
    /\ \A e \in Target : IsTop(s.envelopes[e], EnvelopeWrites(ops, e))
    /\ \A f \in MetaField :
            IsTop(s.metadata[f], WritesTo(MetadataEdits(ops), f))
    /\ \A e \in Target : EnvelopeWrites(ops, e) # {} => TargetExists(s, e)
    /\ OneSplitPerPiece(log) =>
            /\ \A c \in ClipId : ClipStructure(s, ops, c)
            /\ Grounded(s, ops)

\* LwwReg::set keeps the top of the writes, whatever arrives.
LEMMA TopSet ==
    ASSUME NEW W, \A x \in W : x.tag \in OpTag, NEW reg, IsTop(reg, W),
           NEW v, NEW tag \in OpTag, tag.peer # 0
    PROVE  IsTop(Set(reg, v, tag), W \cup {Written(v, tag)})
<1> DEFINE w == Written(v, tag)
<1>1. w.tag = tag
    BY DEF Written
<1>2. reg.tag \in OpTag
    <2>1. InitialTag \in OpTag /\ NewInitial(0).tag = InitialTag
        BY DEF InitialTag, OpTag, NewInitial, Written
    <2> QED
        BY <2>1 DEF IsTop
<1>3. CASE TagLess(reg.tag, tag)
    <2>1. Set(reg, v, tag) = w
        BY <1>3 DEF Set
    <2>2. ASSUME NEW x \in W
          PROVE  ~TagLess(tag, x.tag)
        <3>1. ~TagLess(reg.tag, x.tag)
            BY DEF IsTop
        <3> QED
            BY <1>2, <1>3, <3>1, TagOrder
    <2>3. ~TagLess(tag, tag)
        BY TagOrder
    <2> HIDE DEF w
    <2> QED
        BY <1>1, <2>1, <2>2, <2>3 DEF IsTop, w
<1>4. CASE ~TagLess(reg.tag, tag)
    <2>1. Set(reg, v, tag) = reg
        BY <1>4 DEF Set
    <2>2. W # {}
        <3>1. SUFFICES ASSUME W = {} PROVE FALSE
            OBVIOUS
        <3>2. reg.tag = InitialTag
            BY <3>1 DEF IsTop, NewInitial, Written
        <3>3. tag.lamport \in Nat /\ tag.peer \in Nat
            BY DEF OpTag
        <3> QED
            BY <1>4, <3>2, <3>3 DEF TagLess, InitialTag
    <2> HIDE DEF w
    <2> QED
        BY <1>1, <1>4, <2>1, <2>2 DEF IsTop, w
<1> QED
    BY <1>3, <1>4

\* The first write is the top of one.
LEMMA TopOfOne ==
    ASSUME NEW v, NEW tag \in OpTag
    PROVE  IsTop(Written(v, tag), {Written(v, tag)})
<1> DEFINE w == Written(v, tag)
<1>1. w.tag = tag
    BY DEF Written
<1>2. ~TagLess(tag, tag)
    BY TagOrder
<1> HIDE DEF w
<1>3. IsTop(w, {w})
    BY <1>1, <1>2 DEF IsTop
<1> QED
    BY <1>3 DEF w

\* One more operation adds its writes to those of a set.
LEMMA WritesToAdd ==
    ASSUME NEW ops, NEW o, NEW f
    PROVE  WritesTo(ops \cup {o}, f) =
            IF f \in DOMAIN o.operation.writes
            THEN WritesTo(ops, f) \cup {Written(o.operation.writes[f], o.op_id)}
            ELSE WritesTo(ops, f)
BY DEF WritesTo

\* One more operation adds its write to liveness registers, if it has one.
LEMMA AliveWritesAdd ==
    ASSUME NEW ops, NEW o
    PROVE  AliveWrites(ops \cup {o}) =
            IF o.operation.type \in Reviving \cup Burying
            THEN AliveWrites(ops) \cup
                    {Written(o.operation.type \in Reviving, o.op_id)}
            ELSE AliveWrites(ops)
BY DEF AliveWrites

\* One more operation adds its points to an envelope, if it is about it.
LEMMA EnvelopeWritesAdd ==
    ASSUME NEW ops, NEW o, NEW e
    PROVE  EnvelopeWrites(ops \cup {o}, e) =
            IF o.operation \in EnvelopeEdit /\ o.operation.target = e
            THEN EnvelopeWrites(ops, e) \cup {Written(o.operation.points, o.op_id)}
            ELSE EnvelopeWrites(ops, e)
BY DEF EnvelopeWrites

\* The tags of writes are the ids of operations.
LEMMA WritesTagged ==
    ASSUME NEW ops \in SUBSET Stamped
    PROVE  /\ \A f : \A x \in WritesTo(ops, f) : x.tag \in OpTag
           /\ \A x \in AliveWrites(ops) : x.tag \in OpTag
           /\ \A e : \A x \in EnvelopeWrites(ops, e) : x.tag \in OpTag
BY DEF WritesTo, AliveWrites, EnvelopeWrites, Stamped, TaggedOp, Written

\* An operation's own id is above every initial tag.
LEMMA StampedTag ==
    ASSUME NEW o \in Stamped
    PROVE  /\ o.operation \in Operation /\ o.op_id \in OpTag
           /\ o.op_id.peer # 0
BY ClockAssumption DEF Stamped, TaggedOp

\* Registers that hold the top of the writes of some operations, after the
\* writes of one more.
LEMMA TopSetAll ==
    ASSUME NEW ops \in SUBSET Stamped, NEW o \in Stamped, NEW F, NEW regs,
           DOMAIN regs = F,
           \A f \in F : IsTop(regs[f], WritesTo(ops, f))
    PROVE  \A f \in F :
                IsTop(SetAll(regs, o.operation.writes, o.op_id)[f],
                      WritesTo(ops \cup {o}, f))
<1> SUFFICES ASSUME NEW f \in F
             PROVE  IsTop(SetAll(regs, o.operation.writes, o.op_id)[f],
                          WritesTo(ops \cup {o}, f))
    OBVIOUS
<1>1. CASE f \in DOMAIN o.operation.writes
    <2>1. SetAll(regs, o.operation.writes, o.op_id)[f]
            = Set(regs[f], o.operation.writes[f], o.op_id)
        BY <1>1 DEF SetAll
    <2>2. WritesTo(ops \cup {o}, f)
            = WritesTo(ops, f) \cup {Written(o.operation.writes[f], o.op_id)}
        BY <1>1, WritesToAdd
    <2>3. \A x \in WritesTo(ops, f) : x.tag \in OpTag
        BY WritesTagged
    <2>4. o.op_id \in OpTag /\ o.op_id.peer # 0
        BY StampedTag
    <2>5. IsTop(regs[f], WritesTo(ops, f))
        OBVIOUS
    <2>6. IsTop(Set(regs[f], o.operation.writes[f], o.op_id),
                WritesTo(ops, f) \cup {Written(o.operation.writes[f], o.op_id)})
        BY <2>3, <2>4, <2>5, TopSet
    <2> QED
        BY <2>1, <2>2, <2>6
<1>2. CASE f \notin DOMAIN o.operation.writes
    <2>1. SetAll(regs, o.operation.writes, o.op_id)[f] = regs[f]
        BY <1>2 DEF SetAll
    <2>2. WritesTo(ops \cup {o}, f) = WritesTo(ops, f)
        BY <1>2, WritesToAdd
    <2> QED
        BY <2>1, <2>2
<1> QED
    BY <1>1, <1>2

\* A liveness register after one more operation.
LEMMA TopSetAlive ==
    ASSUME NEW ops \in SUBSET Stamped, NEW o \in Stamped, NEW reg,
           o.operation.type # "SplitClip", IsTop(reg, AliveWrites(ops))
    PROVE  IsTop(SetAlive(reg, o.operation, o.op_id), AliveWrites(ops \cup {o}))
<1> DEFINE type == o.operation.type
<1>1. \A x \in AliveWrites(ops) : x.tag \in OpTag
    BY WritesTagged
<1>2. CASE type \in {"InsertClip", "InsertTrack"}
    <2>1. SetAlive(reg, o.operation, o.op_id) = Set(reg, TRUE, o.op_id)
        BY <1>2 DEF SetAlive
    <2>2. AliveWrites(ops \cup {o}) = AliveWrites(ops) \cup {Written(TRUE, o.op_id)}
        <3>1. (type \in Reviving) = TRUE /\ type \in Reviving \cup Burying
            BY <1>2 DEF Reviving
        <3> QED
            BY <3>1, AliveWritesAdd, Zenon
    <2>3. o.op_id \in OpTag /\ o.op_id.peer # 0
        BY StampedTag
    <2>4. IsTop(Set(reg, TRUE, o.op_id), AliveWrites(ops) \cup {Written(TRUE, o.op_id)})
        BY <1>1, <2>3, TopSet
    <2> QED
        BY <2>1, <2>2, <2>4
<1>3. CASE type \in {"DeleteClip", "DeleteTrack"}
    <2>1. SetAlive(reg, o.operation, o.op_id) = Set(reg, FALSE, o.op_id)
        BY <1>3 DEF SetAlive
    <2>2. AliveWrites(ops \cup {o}) = AliveWrites(ops) \cup {Written(FALSE, o.op_id)}
        <3>1. (type \in Reviving) = FALSE /\ type \in Reviving \cup Burying
            BY <1>3 DEF Reviving, Burying
        <3> QED
            BY <3>1, AliveWritesAdd, Zenon
    <2>3. o.op_id \in OpTag /\ o.op_id.peer # 0
        BY StampedTag
    <2>4. IsTop(Set(reg, FALSE, o.op_id), AliveWrites(ops) \cup {Written(FALSE, o.op_id)})
        BY <1>1, <2>3, TopSet
    <2> QED
        BY <2>1, <2>2, <2>4
<1>4. CASE type \notin {"InsertClip", "InsertTrack", "DeleteClip", "DeleteTrack"}
    <2>1. SetAlive(reg, o.operation, o.op_id) = reg
        BY <1>4 DEF SetAlive
    <2>2. type \notin Reviving \cup Burying
        BY <1>4 DEF Reviving, Burying
    <2> QED
        BY <2>1, <2>2, AliveWritesAdd
<1> QED
    BY <1>2, <1>3, <1>4

\* The write that makes an entity is the top of the only one.
LEMMA AliveOfOne ==
    ASSUME NEW o \in Stamped, o.operation.type \in Reviving
    PROVE  IsTop(Written(TRUE, o.op_id), AliveWrites({o}))
<1>1. /\ (o.operation.type \in Reviving) = TRUE
      /\ o.operation.type \in Reviving \cup Burying
    OBVIOUS
<1>2. AliveWrites({} \cup {o}) = AliveWrites({}) \cup {Written(TRUE, o.op_id)}
    BY <1>1, AliveWritesAdd, Zenon
<1>3. AliveWrites({}) = {}
    BY DEF AliveWrites
<1>4. AliveWrites({o}) = {Written(TRUE, o.op_id)}
    <2>1. {} \cup {o} = {o}
        OBVIOUS
    <2> QED
        BY <1>2, <1>3, <2>1
<1>5. o.op_id \in OpTag
    BY StampedTag
<1> QED
    BY <1>4, <1>5, TopOfOne

\* Which edits of a clip, of a track or of the metadata one more operation adds.
LEMMA EditsAdd ==
    ASSUME NEW ops, NEW o
    PROVE  /\ \A c : EditsOfClip(ops \cup {o}, c) =
                IF o.operation \in ClipEdit /\ o.operation.clip = c
                THEN EditsOfClip(ops, c) \cup {o} ELSE EditsOfClip(ops, c)
           /\ \A t : EditsOfTrack(ops \cup {o}, t) =
                IF o.operation \in TrackEdit /\ o.operation.track = t
                THEN EditsOfTrack(ops, t) \cup {o} ELSE EditsOfTrack(ops, t)
           /\ MetadataEdits(ops \cup {o}) =
                IF o.operation \in MetadataEdit
                THEN MetadataEdits(ops) \cup {o} ELSE MetadataEdits(ops)
BY DEF EditsOfClip, EditsOfTrack, MetadataEdits

\* No edits, no writes.
LEMMA NoEditsNoWrites ==
    /\ \A f : WritesTo({}, f) = {}
    /\ AliveWrites({}) = {}
    /\ \A e : EnvelopeWrites({}, e) = {}
BY DEF WritesTo, AliveWrites, EnvelopeWrites

\* What one more operation does to a clip it does not touch: nothing.
LEMMA ClipReflectsSame ==
    ASSUME NEW s, NEW r, NEW ops, NEW o, NEW c,
           r.clips[c] = s.clips[c], ClipReflects(s, ops, c),
           o.operation \in ClipEdit => o.operation.clip # c,
           ~Creates(o.operation, c)
    PROVE  ClipReflects(r, ops \cup {o}, c)
<1>1. EditsOfClip(ops \cup {o}, c) = EditsOfClip(ops, c)
    BY EditsAdd
<1>2. (\E x \in ops \cup {o} : Creates(x.operation, c))
            <=> \E x \in ops : Creates(x.operation, c)
    OBVIOUS
<1>3. Exists(r.clips, c) <=> Exists(s.clips, c)
    BY DEF Exists
<1> QED
    BY <1>1, <1>2, <1>3 DEF ClipReflects

\* A clip edit that succeeds.
LEMMA ClipEditReflects ==
    ASSUME NEW s \in SessionState, NEW ops \in SUBSET Stamped, NEW o \in Stamped,
           o.operation \in ClipEdit,
           ApplyClipEdit(s, o.operation, o.op_id).ok,
           \A c \in ClipId : ClipReflects(s, ops, c)
    PROVE  \A c \in ClipId :
                ClipReflects(ApplyClipEdit(s, o.operation, o.op_id).session,
                             ops \cup {o}, c)
<1> DEFINE op == o.operation
           r  == ApplyClipEdit(s, op, o.op_id).session
           c0 == op.clip
           edits == EditsOfClip(ops, c0)
<1>1. c0 \in ClipId /\ o.op_id \in OpTag
    BY StampedTag DEF ClipEdit
<1>2. /\ \A c \in ClipId \ {c0} : r.clips[c] = s.clips[c]
      /\ r.clips[c0] = IF Exists(s.clips, c0)
                       THEN ApplyToClip(s.clips[c0], op, o.op_id)
                       ELSE ClipFromInsert(op, o.op_id)
      /\ Exists(r.clips, c0)
      /\ ~Exists(s.clips, c0) => op.type = "InsertClip"
    BY <1>1, ClipEditEffect
<1> HIDE DEF r
<1>3. EditsOfClip(ops \cup {o}, c0) = edits \cup {o}
    BY EditsAdd
<1>4. edits \in SUBSET Stamped
    BY DEF EditsOfClip
<1>5. ClipReflects(s, ops, c0)
    BY <1>1
<1>6. ASSUME NEW c \in ClipId \ {c0}
      PROVE  ClipReflects(r, ops \cup {o}, c)
    <2>1. ~Creates(op, c)
        BY KindsApart, StampedTag DEF Creates
    <2> QED
        BY <1>2, <2>1, ClipReflectsSame
<1>7. CASE Exists(s.clips, c0)
    <2> DEFINE old == s.clips[c0]
    <2>1. old \in Clip
        BY <1>1, <1>7 DEF SessionState, Exists
    <2>2. /\ r.clips[c0].regs = SetAll(old.regs, op.writes, o.op_id)
          /\ r.clips[c0].detached
                = (old.detached \/ op.type \in {"MoveClip", "TrimClip"})
        BY <1>2, <1>7, <2>1 DEF ApplyToClip, Clip
    <2>3. DOMAIN old.regs = ClipField
        BY <2>1 DEF Clip
    <2>4. \A f \in ClipField : IsTop(old.regs[f], WritesTo(edits, f))
        BY <1>5, <1>7 DEF ClipReflects
    <2>5. \A f \in ClipField :
            IsTop(r.clips[c0].regs[f], WritesTo(edits \cup {o}, f))
        BY <1>4, <2>2, <2>3, <2>4, TopSetAll
    <2>6. old.detached <=> \E x \in edits : x.operation.type \in {"MoveClip", "TrimClip"}
        BY <1>5, <1>7 DEF ClipReflects
    <2>7. r.clips[c0].detached <=>
            \E x \in edits \cup {o} : x.operation.type \in {"MoveClip", "TrimClip"}
        BY <2>2, <2>6
    <2>8. \E x \in ops \cup {o} : Creates(x.operation, c0)
        BY <1>5, <1>7 DEF ClipReflects
    <2>9. ClipReflects(r, ops \cup {o}, c0)
        BY <1>2, <1>3, <2>5, <2>7, <2>8 DEF ClipReflects
    <2> QED
        BY <1>6, <2>9 DEF r
<1>8. CASE ~Exists(s.clips, c0)
    <2>1. op.type = "InsertClip" /\ op.writes \in [ClipField -> Nat]
        BY <1>2, <1>8 DEF ClipEdit, InsertWrites
    <2>2. edits = {}
        BY <1>5, <1>8 DEF ClipReflects
    <2>3. /\ r.clips[c0].regs = AllWritten(op.writes, o.op_id)
          /\ r.clips[c0].detached = FALSE
        BY <1>2, <1>8 DEF ClipFromInsert
    <2>4. ASSUME NEW f \in ClipField
          PROVE  IsTop(r.clips[c0].regs[f], WritesTo(edits \cup {o}, f))
        <3>1. r.clips[c0].regs[f] = Written(op.writes[f], o.op_id)
            BY <2>1, <2>3 DEF AllWritten
        <3>2. f \in DOMAIN op.writes
            BY <2>1
        <3>3. WritesTo(edits \cup {o}, f)
                = WritesTo(edits, f) \cup {Written(op.writes[f], o.op_id)}
            BY <3>2, WritesToAdd
        <3>4. WritesTo(edits, f) = {}
            BY <2>2, NoEditsNoWrites
        <3>5. IsTop(Written(op.writes[f], o.op_id), {Written(op.writes[f], o.op_id)})
            BY <1>1, TopOfOne
        <3>6. WritesTo(edits \cup {o}, f) = {Written(op.writes[f], o.op_id)}
            BY <3>3, <3>4
        <3> QED
            BY <3>1, <3>5, <3>6
    <2>5. r.clips[c0].detached <=>
            \E x \in edits \cup {o} : x.operation.type \in {"MoveClip", "TrimClip"}
        BY <2>1, <2>2, <2>3
    <2>6. Creates(op, c0)
        BY <2>1 DEF Creates
    <2>7. ClipReflects(r, ops \cup {o}, c0)
        BY <1>2, <1>3, <2>4, <2>5, <2>6 DEF ClipReflects
    <2> QED
        BY <1>6, <2>7 DEF r
<1> QED
    BY <1>7, <1>8

\* A split, whether it succeeds or fails.
LEMMA SplitReflects ==
    ASSUME NEW s \in SessionState, NEW ops \in SUBSET Stamped, NEW o \in Stamped,
           o.operation \in SplitEdit,
           \A c \in ClipId : ClipReflects(s, ops, c)
    PROVE  LET r == ApplySplit(s, o.operation, o.op_id)
           IN  \A c \in ClipId :
                  ClipReflects(r.session, IF r.ok THEN ops \cup {o} ELSE ops, c)
<1> DEFINE op == o.operation
           r  == ApplySplit(s, op, o.op_id)
           after == IF r.ok THEN ops \cup {o} ELSE ops
<1>1. op.new_clip \in ClipId /\ o.op_id \in OpTag /\ op \notin ClipEdit
    BY StampedTag, KindsApart DEF SplitEdit
<1>2. SplitKeeps(s, op, r)
    BY <1>1, SplitEffect
<1> HIDE DEF r
<1>3. SUFFICES ASSUME NEW c \in ClipId
               PROVE  ClipReflects(r.session, after, c)
    BY DEF r
<1>4. EditsOfClip(after, c) = EditsOfClip(ops, c)
    BY <1>1, EditsAdd
<1>5. Creates(op, c) <=> c = op.new_clip /\ op.clip # op.new_clip
    BY <1>1 DEF Creates
<1>6. CASE Exists(s.clips, c)
    <2>1. /\ Exists(r.session.clips, c)
          /\ r.session.clips[c].regs = s.clips[c].regs
          /\ r.session.clips[c].detached = s.clips[c].detached
        BY <1>2, <1>6 DEF SplitKeeps
    <2>2. \E x \in after : Creates(x.operation, c)
        BY <1>6 DEF ClipReflects
    <2> QED
        BY <1>4, <1>6, <2>1, <2>2 DEF ClipReflects
<1>7. CASE ~Exists(s.clips, c) /\ Exists(r.session.clips, c)
    <2>1. /\ r.ok /\ c = op.new_clip /\ op.clip # op.new_clip
          /\ r.session.clips[c].regs = [f \in ClipField |-> NewInitial(0)]
          /\ ~r.session.clips[c].detached
        BY <1>2, <1>7 DEF SplitKeeps
    <2>2. \E x \in after : Creates(x.operation, c)
        BY <1>5, <2>1
    <2>3. EditsOfClip(after, c) = {}
        BY <1>4, <1>7 DEF ClipReflects
    <2>4. \A f \in ClipField :
            IsTop(r.session.clips[c].regs[f], WritesTo(EditsOfClip(after, c), f))
        BY <2>1, <2>3, NoEditsNoWrites DEF IsTop
    <2> QED
        BY <1>7, <2>1, <2>2, <2>3, <2>4 DEF ClipReflects
<1>8. CASE ~Exists(s.clips, c) /\ ~Exists(r.session.clips, c)
    <2>1. EditsOfClip(after, c) = {}
        BY <1>4, <1>8 DEF ClipReflects
    <2>2. ~\E x \in ops : Creates(x.operation, c)
        BY <1>8 DEF ClipReflects
    <2>3. r.ok => ~Creates(op, c)
        BY <1>2, <1>5, <1>8 DEF SplitKeeps
    <2>4. ~\E x \in after : Creates(x.operation, c)
        BY <2>2, <2>3
    <2> QED
        BY <1>8, <2>1, <2>4 DEF ClipReflects
<1> QED
    BY <1>6, <1>7, <1>8

\* Every operation, for every clip: what a failed one leaves, too.
LEMMA ApplyClipsReflect ==
    ASSUME NEW s \in SessionState, NEW ops \in SUBSET Stamped, NEW o \in Stamped,
           \A c \in ClipId : ClipReflects(s, ops, c)
    PROVE  LET r == Apply(s, o.operation, o.op_id)
           IN  \A c \in ClipId :
                  ClipReflects(r.session, IF r.ok THEN ops \cup {o} ELSE ops, c)
<1> DEFINE op == o.operation
           r  == Apply(s, op, o.op_id)
           after == IF r.ok THEN ops \cup {o} ELSE ops
<1>1. op \in Operation /\ o.op_id \in OpTag
    BY StampedTag
<1>2. CASE op \in ClipEdit
    <2>1. r = ApplyClipEdit(s, op, o.op_id)
        BY <1>1, <1>2, ApplyDispatch
    <2>2. ~r.ok => r.session = s
        BY <1>1, <1>2, <2>1, ClipEditEffect
    <2>3. r.ok => \A c \in ClipId : ClipReflects(r.session, ops \cup {o}, c)
        BY <1>2, <2>1, ClipEditReflects
    <2> HIDE DEF r
    <2>4. \A c \in ClipId : ClipReflects(r.session, after, c)
        <3>1. CASE r.ok
            BY <2>3, <3>1
        <3>2. CASE ~r.ok
            BY <2>2, <3>2
        <3> QED
            BY <3>1, <3>2
    <2> QED
        BY <2>4 DEF r
<1>3. CASE op \in SplitEdit
    <2>1. r = ApplySplit(s, op, o.op_id)
        BY <1>1, <1>3, ApplyDispatch
    <2> QED
        BY <1>3, <2>1, SplitReflects
<1>4. CASE op \notin ClipEdit \cup SplitEdit
    <2>1. r.session.clips = s.clips
        BY <1>1, <1>4, ApplyElsewhere
    <2> HIDE DEF r
    <2>2. ASSUME NEW c \in ClipId
          PROVE  ClipReflects(r.session, after, c)
        <3>1. ClipReflects(r.session, ops \cup {o}, c)
            BY <1>4, <2>1, ClipReflectsSame DEF Creates
        <3>2. ClipReflects(r.session, ops, c)
            BY <2>1 DEF ClipReflects, Exists
        <3> QED
            BY <3>1, <3>2
    <2> QED
        BY <2>2 DEF r
<1> QED
    BY <1>2, <1>3, <1>4

\* A track edit that succeeds.
LEMMA TrackEditReflects ==
    ASSUME NEW s \in SessionState, NEW ops \in SUBSET Stamped, NEW o \in Stamped,
           o.operation \in TrackEdit,
           ApplyTrackEdit(s, o.operation, o.op_id).ok,
           \A t \in TrackId : TrackReflects(s, ops, t)
    PROVE  \A t \in TrackId :
                TrackReflects(ApplyTrackEdit(s, o.operation, o.op_id).session,
                              ops \cup {o}, t)
<1> DEFINE op == o.operation
           r  == ApplyTrackEdit(s, op, o.op_id).session
           t0 == op.track
           edits == EditsOfTrack(ops, t0)
           old == s.tracks[t0]
<1>1. t0 \in TrackId /\ o.op_id \in OpTag
    BY StampedTag DEF TrackEdit
<1>2. /\ \A t \in TrackId \ {t0} : r.tracks[t] = s.tracks[t]
      /\ r.tracks[t0] = EditedTrack(old, op, o.op_id)
      /\ Exists(r.tracks, t0)
      /\ ~Exists(s.tracks, t0) => op.type = "InsertTrack"
    BY <1>1, TrackEditEffect
<1> HIDE DEF r
<1>3. EditsOfTrack(ops \cup {o}, t0) = edits \cup {o}
    BY EditsAdd
<1>4. edits \in SUBSET Stamped
    BY DEF EditsOfTrack
<1>5. TrackReflects(s, ops, t0)
    BY <1>1
<1>6. ASSUME NEW t \in TrackId \ {t0}
      PROVE  TrackReflects(r, ops \cup {o}, t)
    <2>1. EditsOfTrack(ops \cup {o}, t) = EditsOfTrack(ops, t)
        BY EditsAdd
    <2>2. Exists(r.tracks, t) <=> Exists(s.tracks, t)
        BY <1>2 DEF Exists
    <2>3. TrackReflects(s, ops, t)
        OBVIOUS
    <2> QED
        BY <1>2, <2>1, <2>2, <2>3 DEF TrackReflects
<1>7. old \in Track \cup {Vacant}
    BY <1>1 DEF SessionState
<1>8. CASE Exists(s.tracks, t0)
    <2>1. /\ old \in Track
          /\ r.tracks[t0].regs = SetAll(old.regs, op.writes, o.op_id)
          /\ r.tracks[t0].alive = SetAlive(old.alive, op, o.op_id)
        <3>1. old # Vacant
            BY <1>8 DEF Exists
        <3>2. /\ EditedTrack(old, op, o.op_id).regs
                    = SetAll(old.regs, op.writes, o.op_id)
              /\ EditedTrack(old, op, o.op_id).alive
                    = SetAlive(old.alive, op, o.op_id)
            BY <1>1, <1>7, <3>1, EditedTrackTyped
        <3> QED
            BY <1>2, <1>7, <3>1, <3>2
    <2>2. DOMAIN old.regs = TrackField
        BY <2>1 DEF Track
    <2>3. /\ \A f \in TrackField : IsTop(old.regs[f], WritesTo(edits, f))
          /\ IsTop(old.alive, AliveWrites(edits))
          /\ \E x \in edits : x.operation.type = "InsertTrack"
        BY <1>5, <1>8 DEF TrackReflects
    <2>4. \A f \in TrackField :
            IsTop(r.tracks[t0].regs[f], WritesTo(edits \cup {o}, f))
        BY <1>4, <2>1, <2>2, <2>3, TopSetAll
    <2>5. IsTop(r.tracks[t0].alive, AliveWrites(edits \cup {o}))
        <3>1. op.type # "SplitClip"
            BY DEF TrackEdit
        <3> QED
            BY <1>4, <2>1, <2>3, <3>1, TopSetAlive
    <2>6. TrackReflects(r, ops \cup {o}, t0)
        BY <1>2, <1>3, <2>3, <2>4, <2>5 DEF TrackReflects
    <2> QED
        BY <1>6, <2>6 DEF r
<1>9. CASE ~Exists(s.tracks, t0)
    <2>1. op.type = "InsertTrack" /\ op.writes \in [TrackField -> Nat]
        BY <1>2, <1>9 DEF TrackEdit
    <2>2. edits = {}
        BY <1>5, <1>9 DEF TrackReflects
    <2>3. /\ r.tracks[t0].regs = AllWritten(op.writes, o.op_id)
          /\ r.tracks[t0].alive = Written(TRUE, o.op_id)
        <3>1. old = Vacant
            BY <1>9 DEF Exists
        <3>2. /\ EditedTrack(old, op, o.op_id).regs
                    = AllWritten(op.writes, o.op_id)
              /\ EditedTrack(old, op, o.op_id).alive = Written(TRUE, o.op_id)
            BY <3>1 DEF EditedTrack
        <3> QED
            BY <1>2, <3>2
    <2>4. ASSUME NEW f \in TrackField
          PROVE  IsTop(r.tracks[t0].regs[f], WritesTo(edits \cup {o}, f))
        <3>1. r.tracks[t0].regs[f] = Written(op.writes[f], o.op_id)
            BY <2>1, <2>3 DEF AllWritten
        <3>2. f \in DOMAIN op.writes
            BY <2>1
        <3>3. WritesTo(edits \cup {o}, f)
                = WritesTo(edits, f) \cup {Written(op.writes[f], o.op_id)}
            BY <3>2, WritesToAdd
        <3>4. WritesTo(edits, f) = {}
            BY <2>2, NoEditsNoWrites
        <3>5. IsTop(Written(op.writes[f], o.op_id), {Written(op.writes[f], o.op_id)})
            BY <1>1, TopOfOne
        <3>6. WritesTo(edits \cup {o}, f) = {Written(op.writes[f], o.op_id)}
            BY <3>3, <3>4
        <3> QED
            BY <3>1, <3>5, <3>6
    <2>5. IsTop(r.tracks[t0].alive, AliveWrites(edits \cup {o}))
        <3>1. edits \cup {o} = {o}
            BY <2>2
        <3>2. op.type \in Reviving
            BY <2>1 DEF Reviving
        <3> QED
            BY <2>3, <3>1, <3>2, AliveOfOne
    <2>6. TrackReflects(r, ops \cup {o}, t0)
        BY <1>2, <1>3, <2>1, <2>4, <2>5 DEF TrackReflects
    <2> QED
        BY <1>6, <2>6 DEF r
<1> QED
    BY <1>8, <1>9

\* Every operation, for every track.
LEMMA ApplyTracksReflect ==
    ASSUME NEW s \in SessionState, NEW ops \in SUBSET Stamped, NEW o \in Stamped,
           \A t \in TrackId : TrackReflects(s, ops, t)
    PROVE  LET r == Apply(s, o.operation, o.op_id)
           IN  \A t \in TrackId :
                  TrackReflects(r.session, IF r.ok THEN ops \cup {o} ELSE ops, t)
<1> DEFINE op == o.operation
           r  == Apply(s, op, o.op_id)
           after == IF r.ok THEN ops \cup {o} ELSE ops
<1>1. op \in Operation /\ o.op_id \in OpTag
    BY StampedTag
<1>2. CASE op \in TrackEdit
    <2>1. r = ApplyTrackEdit(s, op, o.op_id)
        BY <1>1, <1>2, ApplyDispatch
    <2>2. ~r.ok => r.session = s
        BY <1>1, <1>2, <2>1, TrackEditEffect
    <2>3. r.ok => \A t \in TrackId : TrackReflects(r.session, ops \cup {o}, t)
        BY <1>2, <2>1, TrackEditReflects
    <2> HIDE DEF r
    <2>4. \A t \in TrackId : TrackReflects(r.session, after, t)
        <3>1. CASE r.ok
            BY <2>3, <3>1
        <3>2. CASE ~r.ok
            BY <2>2, <3>2
        <3> QED
            BY <3>1, <3>2
    <2> QED
        BY <2>4 DEF r
<1>3. CASE op \notin TrackEdit
    <2>1. r.session.tracks = s.tracks
        BY <1>1, <1>3, ApplyElsewhere
    <2> HIDE DEF r
    <2>2. ASSUME NEW t \in TrackId
          PROVE  TrackReflects(r.session, after, t)
        <3>1. EditsOfTrack(after, t) = EditsOfTrack(ops, t)
            BY <1>3, EditsAdd
        <3> QED
            BY <2>1, <3>1 DEF TrackReflects, Exists
    <2> QED
        BY <2>2 DEF r
<1> QED
    BY <1>2, <1>3

\* Every operation, for every envelope and for the metadata.
LEMMA ApplyOthersReflect ==
    ASSUME NEW s \in SessionState, NEW ops \in SUBSET Stamped, NEW o \in Stamped,
           \A e \in Target : IsTop(s.envelopes[e], EnvelopeWrites(ops, e)),
           \A f \in MetaField :
                IsTop(s.metadata[f], WritesTo(MetadataEdits(ops), f))
    PROVE  LET r == Apply(s, o.operation, o.op_id)
               after == IF r.ok THEN ops \cup {o} ELSE ops
           IN  /\ \A e \in Target :
                    IsTop(r.session.envelopes[e], EnvelopeWrites(after, e))
               /\ \A f \in MetaField :
                    IsTop(r.session.metadata[f], WritesTo(MetadataEdits(after), f))
<1> DEFINE op == o.operation
           r  == Apply(s, op, o.op_id)
           after == IF r.ok THEN ops \cup {o} ELSE ops
           Envelopes == \A e \in Target :
                    IsTop(r.session.envelopes[e], EnvelopeWrites(after, e))
           Metadata == \A f \in MetaField :
                    IsTop(r.session.metadata[f], WritesTo(MetadataEdits(after), f))
<1>1. op \in Operation /\ o.op_id \in OpTag /\ o.op_id.peer # 0
    BY StampedTag
<1>2. Envelopes
    <2>1. CASE op \in EnvelopeEdit
        <3> DEFINE e0 == op.target
                   new == Set(s.envelopes[e0], op.points, o.op_id)
        <3>1. /\ r.ok => r.session.envelopes = [s.envelopes EXCEPT ![e0] = new]
              /\ ~r.ok => r.session = s
            BY <1>1, <2>1, ApplyDispatch, EnvelopeEffect
        <3>2. e0 \in Target /\ DOMAIN s.envelopes = Target
            BY <2>1 DEF EnvelopeEdit, SessionState
        <3>3. /\ EnvelopeWrites(ops \cup {o}, e0)
                    = EnvelopeWrites(ops, e0) \cup {Written(op.points, o.op_id)}
              /\ \A e \in Target \ {e0} :
                    EnvelopeWrites(ops \cup {o}, e) = EnvelopeWrites(ops, e)
            BY <2>1, EnvelopeWritesAdd
        <3>4. IsTop(new, EnvelopeWrites(ops, e0) \cup {Written(op.points, o.op_id)})
            <4>1. \A x \in EnvelopeWrites(ops, e0) : x.tag \in OpTag
                BY WritesTagged
            <4> QED
                BY <1>1, <3>2, <4>1, TopSet
        <3> HIDE DEF r, new
        <3>5. ASSUME NEW e \in Target
              PROVE  IsTop(r.session.envelopes[e], EnvelopeWrites(after, e))
            <4>1. CASE ~r.ok
                BY <3>1, <4>1
            <4>2. CASE r.ok /\ e = e0
                <5>1. r.session.envelopes[e] = new
                    BY <3>1, <3>2, <4>2
                <5> QED
                    BY <3>3, <3>4, <4>2, <5>1
            <4>3. CASE r.ok /\ e # e0
                <5>1. r.session.envelopes[e] = s.envelopes[e]
                    BY <3>1, <3>2, <4>3
                <5> QED
                    BY <3>3, <4>3, <5>1
            <4> QED
                BY <4>1, <4>2, <4>3
        <3> QED
            BY <3>5
    <2>2. CASE op \notin EnvelopeEdit
        <3>1. r.session.envelopes = s.envelopes
            BY <1>1, <2>2, ApplyElsewhere
        <3> HIDE DEF r
        <3>2. \A e \in Target : EnvelopeWrites(after, e) = EnvelopeWrites(ops, e)
            BY <2>2, EnvelopeWritesAdd
        <3> QED
            BY <3>1, <3>2
    <2> QED
        BY <2>1, <2>2
<1>3. Metadata
    <2>1. CASE op \in MetadataEdit
        <3>1. r.ok /\ r.session.metadata = SetAll(s.metadata, op.writes, o.op_id)
            BY <1>1, <2>1, MetadataEffect
        <3>2. MetadataEdits(after) = MetadataEdits(ops) \cup {o}
            BY <2>1, <3>1, EditsAdd
        <3>3. DOMAIN s.metadata = MetaField
            BY DEF SessionState
        <3>4. MetadataEdits(ops) \in SUBSET Stamped
            BY DEF MetadataEdits
        <3>5. \A f \in MetaField :
                IsTop(SetAll(s.metadata, op.writes, o.op_id)[f],
                      WritesTo(MetadataEdits(ops) \cup {o}, f))
            BY <3>3, <3>4, TopSetAll
        <3> HIDE DEF r
        <3> QED
            BY <3>1, <3>2, <3>5
    <2>2. CASE op \notin MetadataEdit
        <3>1. r.session.metadata = s.metadata
            BY <1>1, <2>2, ApplyElsewhere
        <3> HIDE DEF r
        <3>2. MetadataEdits(after) = MetadataEdits(ops)
            BY <2>2, EditsAdd
        <3> QED
            BY <3>1, <3>2
    <2> QED
        BY <2>1, <2>2
<1> QED
    BY <1>2, <1>3

\* Which pieces and which cuts one more operation adds.
LEMMA SplitsAdd ==
    ASSUME NEW ops, NEW o
    PROVE  /\ \A c : SplitsInto(ops \cup {o}, c) =
                IF o.operation \in SplitEdit /\ Creates(o.operation, c)
                THEN SplitsInto(ops, c) \cup {o} ELSE SplitsInto(ops, c)
           /\ \A c : CutsOf(ops \cup {o}, c) =
                IF /\ o.operation \in SplitEdit /\ o.operation.clip = c
                   /\ o.operation.new_clip # c
                THEN CutsOf(ops, c) \cup
                        {<<o.operation.split_frame, o.operation.new_clip>>}
                ELSE CutsOf(ops, c)
BY DEF SplitsInto, CutsOf

\* What one more operation does to the structure of a clip it leaves alone.
LEMMA StructureSame ==
    ASSUME NEW s, NEW r, NEW ops, NEW o, NEW c,
           r.clips[c] = s.clips[c], ClipStructure(s, ops, c),
           o.operation \in ClipEdit => o.operation.clip # c,
           o.operation \in SplitEdit =>
                \/ o.operation.clip = o.operation.new_clip
                \/ o.operation.clip # c /\ o.operation.new_clip # c
    PROVE  ClipStructure(r, ops \cup {o}, c)
<1>1. /\ EditsOfClip(ops \cup {o}, c) = EditsOfClip(ops, c)
      /\ CutsOf(ops \cup {o}, c) = CutsOf(ops, c)
    <2>1. EditsOfClip(ops \cup {o}, c) = EditsOfClip(ops, c)
        BY EditsAdd
    <2>2. CutsOf(ops \cup {o}, c) = CutsOf(ops, c)
        BY SplitsAdd
    <2> QED
        BY <2>1, <2>2
<1>2. SplitsInto(ops \cup {o}, c) = SplitsInto(ops, c)
    <2>1. o.operation \in SplitEdit => ~Creates(o.operation, c)
        BY DEF Creates, ClipEdit, SplitEdit
    <2> QED
        BY <2>1, SplitsAdd
<1>3. Exists(r.clips, c) <=> Exists(s.clips, c)
    BY DEF Exists
<1> QED
    BY <1>1, <1>2, <1>3 DEF ClipStructure

\* Only a clip edit of it or a split into it bears on a clip's life.
LEMMA LifeAdd ==
    ASSUME NEW ops, NEW o, NEW c,
           \/ o.operation \in ClipEdit /\ o.operation.clip = c
           \/ o.operation \in SplitEdit /\ Creates(o.operation, c)
    PROVE  EditsOfClip(ops \cup {o}, c) \cup SplitsInto(ops \cup {o}, c)
            = (EditsOfClip(ops, c) \cup SplitsInto(ops, c)) \cup {o}
BY DEF EditsOfClip, SplitsInto

\* A clip that is not there has had neither.
LEMMA NoLifeYet ==
    ASSUME NEW s, NEW ops, NEW c, ClipReflects(s, ops, c), ~Exists(s.clips, c)
    PROVE  EditsOfClip(ops, c) = {} /\ SplitsInto(ops, c) = {}
BY DEF ClipReflects, SplitsInto

\* A clip edit and the structure of the clip it is about.
LEMMA ClipEditStructure ==
    ASSUME NEW s \in SessionState, NEW ops \in SUBSET Stamped, NEW o \in Stamped,
           o.operation \in ClipEdit,
           ApplyClipEdit(s, o.operation, o.op_id).ok,
           NEW c \in ClipId, o.operation.clip = c,
           ClipReflects(s, ops, c), ClipStructure(s, ops, c)
    PROVE  ClipStructure(ApplyClipEdit(s, o.operation, o.op_id).session,
                         ops \cup {o}, c)
<1> DEFINE op   == o.operation
           r    == ApplyClipEdit(s, op, o.op_id)
           life == EditsOfClip(ops, c) \cup SplitsInto(ops, c)
           old  == s.clips[c]
           new  == r.session.clips[c]
<1>1. op \in Operation /\ o.op_id \in OpTag
    BY StampedTag
<1>2. /\ new = IF Exists(s.clips, c) THEN ApplyToClip(old, op, o.op_id)
                                     ELSE ClipFromInsert(op, o.op_id)
      /\ ~Exists(s.clips, c) => op.type = "InsertClip"
    BY <1>1, ClipEditEffect
<1>3. Exists(r.session.clips, c)
    BY <1>1, ClipEditReflects, ClipEditEffect
<1> HIDE DEF r
<1>4. EditsOfClip(ops \cup {o}, c) \cup SplitsInto(ops \cup {o}, c) = life \cup {o}
    <2>1. EditsOfClip(ops \cup {o}, c) \cup SplitsInto(ops \cup {o}, c)
            = (EditsOfClip(ops, c) \cup SplitsInto(ops, c)) \cup {o}
        BY DEF EditsOfClip, SplitsInto
    <2> QED
        BY <2>1
<1>5. life \in SUBSET Stamped
    BY DEF EditsOfClip, SplitsInto
<1>6. op \notin SplitEdit /\ op.type # "SplitClip"
    BY DEF ClipEdit, SplitEdit
<1>7. /\ SplitsInto(ops \cup {o}, c) = SplitsInto(ops, c)
      /\ CutsOf(ops \cup {o}, c) = CutsOf(ops, c)
    BY <1>6, SplitsAdd
<1>8. CASE Exists(s.clips, c)
    <2>1. old \in Clip
        BY <1>8 DEF SessionState, Exists
    <2>2. /\ new.alive = SetAlive(old.alive, op, o.op_id)
          /\ new.parent = old.parent /\ new.splits = old.splits
        BY <1>2, <1>8, <2>1 DEF ApplyToClip, Clip
    <2>3. IsTop(old.alive, AliveWrites(life))
        BY <1>8 DEF ClipStructure
    <2>4. IsTop(new.alive, AliveWrites(life \cup {o}))
        BY <1>5, <1>6, <2>2, <2>3, TopSetAlive
    <2> QED
        BY <1>3, <1>4, <1>7, <1>8, <2>2, <2>4 DEF ClipStructure, r
<1>9. CASE ~Exists(s.clips, c)
    <2>1. /\ new.alive = Written(TRUE, o.op_id)
          /\ new.parent = NoParent /\ new.splits = {}
        BY <1>2, <1>9 DEF ClipFromInsert
    <2>2. life = {} /\ SplitsInto(ops, c) = {}
        BY <1>9, NoLifeYet
    <2>3. IsTop(new.alive, AliveWrites(life \cup {o}))
        <3>1. life \cup {o} = {o} /\ op.type \in Reviving
            BY <1>2, <1>9, <2>2 DEF Reviving
        <3> QED
            BY <2>1, <3>1, AliveOfOne
    <2>4. IsLeast(new.splits, CutsOf(ops, c))
        BY <1>9, <2>1 DEF ClipStructure, IsLeast
    <2> QED
        BY <1>3, <1>4, <1>7, <2>1, <2>2, <2>3, <2>4 DEF ClipStructure, r
<1> QED
    BY <1>8, <1>9

\* ClipCrdt::record_split keeps the smallest child at each offset.
LEMMA RecordLeast ==
    ASSUME NEW clip \in Clip, NEW offset \in Nat, NEW child \in ClipId,
           NEW cuts \in SUBSET (Nat \X ClipId), IsLeast(clip.splits, cuts)
    PROVE  LET new == RecordSplit(clip, offset, child)
           IN  /\ IsLeast(new.splits, cuts \cup {<<offset, child>>})
               /\ new.alive = clip.alive /\ new.parent = clip.parent
<1> DEFINE old   == clip.splits
           taken == {e \in old : e[1] = offset}
           cut   == <<offset, child>>
           new   == RecordSplit(clip, offset, child)
<1>1. /\ old \subseteq Nat \X ClipId /\ ClipId \subseteq Nat
      /\ cut[1] = offset /\ cut[2] = child
    BY SessionAssumption DEF Clip
<1>2. /\ old \subseteq cuts
      /\ \A x \in cuts : \E e \in old : e[1] = x[1] /\ e[2] <= x[2]
      /\ \A d, e \in old : d[1] = e[1] => d = e
    BY DEF IsLeast
<1>3. CASE \E e \in taken : e[2] <= child
    <2>1. new = clip
        BY <1>3 DEF RecordSplit
    <2>2. \E e \in old : e[1] = cut[1] /\ e[2] <= cut[2]
        BY <1>1, <1>3
    <2> HIDE DEF cut, new
    <2> QED
        BY <1>2, <2>1, <2>2 DEF IsLeast, cut, new
<1>4. CASE ~(\E e \in taken : e[2] <= child)
    <2>1. new = [clip EXCEPT !.splits = (old \ taken) \cup {cut}]
        BY <1>4 DEF RecordSplit
    <2>2. /\ new.splits = (old \ taken) \cup {cut}
          /\ new.alive = clip.alive /\ new.parent = clip.parent
        BY <2>1 DEF Clip
    <2>3. \A e \in taken : e[2] \in Nat /\ child \in Nat /\ child <= e[2]
        <3> SUFFICES ASSUME NEW e \in taken
                     PROVE  e[2] \in Nat /\ child \in Nat /\ child <= e[2]
            OBVIOUS
        <3>1. e[2] \in Nat /\ child \in Nat
            BY <1>1
        <3>2. ~(e[2] <= child)
            BY <1>4
        <3> HIDE DEF taken
        <3> QED
            BY <3>1, <3>2
    <2> HIDE DEF cut, new
    <2>4. ASSUME NEW x \in cuts \cup {cut}
          PROVE  \E e \in new.splits : e[1] = x[1] /\ e[2] <= x[2]
        <3>1. CASE x = cut
            BY <1>1, <2>2, <3>1
        <3>2. CASE x \in cuts
            <4>1. PICK e \in old : e[1] = x[1] /\ e[2] <= x[2]
                BY <1>2, <3>2
            <4>2. CASE e \in taken
                <5>1. cut[1] = x[1] /\ cut[2] <= e[2]
                    BY <1>1, <2>3, <4>1, <4>2
                <5>2. x[2] \in Nat
                    BY <1>1, <3>2
                <5> QED
                    BY <1>1, <2>2, <2>3, <4>1, <4>2, <5>1, <5>2
            <4>3. CASE e \notin taken
                BY <2>2, <4>1, <4>3
            <4> QED
                BY <4>2, <4>3
        <3> QED
            BY <3>1, <3>2
    <2>5. \A d, e \in new.splits : d[1] = e[1] => d = e
        BY <1>1, <1>2, <2>2
    <2>6. new.splits \subseteq cuts \cup {cut}
        BY <1>2, <2>2
    <2> QED
        BY <2>2, <2>4, <2>5, <2>6 DEF IsLeast, new, cut
<1> QED
    BY <1>3, <1>4

\* SplitClip and the structure of the two clips it is about.
LEMMA SplitStructure ==
    ASSUME NEW s \in SessionState, NEW log \in SUBSET Stamped,
           NEW ops \in SUBSET log, NEW o \in log,
           OneSplitPerPiece(log),
           o.operation \in SplitEdit, o.operation.clip # o.operation.new_clip,
           \A c \in ClipId : ClipReflects(s, ops, c) /\ ClipStructure(s, ops, c)
    PROVE  LET r == ApplySplit(s, o.operation, o.op_id)
           IN  \A c \in ClipId :
                  ClipStructure(r.session, IF r.ok THEN ops \cup {o} ELSE ops, c)
<1> DEFINE op == o.operation
           r  == ApplySplit(s, op, o.op_id)
           p  == op.clip
           k  == op.new_clip
           claim == <<p, op.split_frame>>
           cut   == <<op.split_frame, k>>
<1>1. /\ op.clip \in ClipId /\ op.new_clip \in ClipId /\ op.split_frame \in Nat
      /\ o.op_id \in OpTag /\ o.op_id.peer # 0 /\ o \in Stamped
      /\ p \in Nat /\ k \in Nat
    BY StampedTag, SessionAssumption DEF SplitEdit
<1>2. Creates(op, k)
    BY DEF Creates
<1>3. ASSUME Exists(s.clips, k)
      PROVE  /\ Exists(s.clips, p)
             /\ s.clips[k].parent = claim
    <2>1. PICK x \in ops : Creates(x.operation, k)
        BY <1>1, <1>3 DEF ClipReflects
    <2>2. x.operation = op
        BY <1>1, <1>2, <2>1 DEF OneSplitPerPiece
    <2>3. x \in SplitsInto(ops, k) /\ cut \in CutsOf(ops, p)
        BY <2>1, <2>2 DEF SplitsInto, CutsOf
    <2>4. ClipStructure(s, ops, k) /\ ClipStructure(s, ops, p)
        BY <1>1
    <2>5. s.clips[k].parent = <<x.operation.clip, x.operation.split_frame>>
        BY <1>3, <2>3, <2>4 DEF ClipStructure
    <2> QED
        BY <2>2, <2>3, <2>4, <2>5 DEF ClipStructure
<1>4. CASE ~Exists(s.clips, p)
    <2>1. ~Exists(s.clips, k)
        BY <1>3, <1>4
    <2>2. r = UnknownTarget(s)
        BY <1>4, <2>1 DEF ApplySplit
    <2> QED
        BY <2>2 DEF UnknownTarget
<1>5. CASE Exists(s.clips, p)
    <2> DEFINE after == ops \cup {o}
               new   == r.session.clips
    <2>1. /\ r.ok
          /\ \A c \in ClipId \ {p, k} : new[c] = s.clips[c]
          /\ new[p] = RecordSplit(s.clips[p], op.split_frame, k)
          /\ new[k] = IF Exists(s.clips, k)
                      THEN [s.clips[k] EXCEPT !.alive = Set(@, TRUE, o.op_id)]
                      ELSE ClipFromSplit(claim, o.op_id)
        <3>1. Exists(s.clips, op.new_clip)
                => s.clips[op.new_clip].parent = <<op.clip, op.split_frame>>
            BY <1>3
        <3>2. op \in SplitEdit /\ op.clip # op.new_clip /\ o.op_id \in OpTag
            BY <1>1
        <3> QED
            BY <1>5, <3>1, <3>2, SplitOutcome
    <2>2. /\ Exists(new, p) /\ Exists(new, k)
        <3>1. SplitKeeps(s, op, r)
            BY <1>1, SplitEffect
        <3> QED
            BY <1>1, <1>5, <2>1, <3>1 DEF SplitKeeps
    <2> HIDE DEF r
    <2>3. op \notin ClipEdit /\ ~Creates(op, p)
        BY DEF SplitEdit, ClipEdit, Creates
    <2>4. /\ ClipStructure(s, ops, p) /\ ClipStructure(s, ops, k)
          /\ ClipReflects(s, ops, k)
        BY <1>1
    <2>5. ClipStructure(r.session, after, p)
        <3>1. s.clips[p] \in Clip
            BY <1>1, <1>5 DEF SessionState, Exists
        <3>2. IsLeast(s.clips[p].splits, CutsOf(ops, p))
            BY <1>5, <2>4 DEF ClipStructure
        <3>3. /\ IsLeast(new[p].splits, CutsOf(ops, p) \cup {cut})
              /\ new[p].alive = s.clips[p].alive
              /\ new[p].parent = s.clips[p].parent
            <4>1. CutsOf(ops, p) \in SUBSET (Nat \X ClipId)
                BY DEF CutsOf, SplitEdit
            <4> DEFINE recorded == RecordSplit(s.clips[p], op.split_frame, k)
            <4>2. /\ IsLeast(recorded.splits, CutsOf(ops, p) \cup {cut})
                  /\ recorded.alive = s.clips[p].alive
                  /\ recorded.parent = s.clips[p].parent
                BY <1>1, <3>1, <3>2, <4>1, RecordLeast
            <4> QED
                BY <2>1, <4>2
        <3>4. /\ CutsOf(after, p) = CutsOf(ops, p) \cup {cut}
              /\ SplitsInto(after, p) = SplitsInto(ops, p)
              /\ EditsOfClip(after, p) = EditsOfClip(ops, p)
            BY <2>3, SplitsAdd, EditsAdd
        <3> HIDE DEF after, cut, new
        <3>5. Exists(r.session.clips, p) /\ new = r.session.clips
            BY <2>2 DEF new
        <3>6. /\ IsTop(s.clips[p].alive,
                       AliveWrites(EditsOfClip(ops, p) \cup SplitsInto(ops, p)))
              /\ SplitsInto(ops, p) = {} => s.clips[p].parent = NoParent
              /\ \A x \in SplitsInto(ops, p) :
                    s.clips[p].parent =
                        <<x.operation.clip, x.operation.split_frame>>
            BY <1>5, <2>4 DEF ClipStructure
        <3> HIDE DEF p
        <3> QED
            BY <3>3, <3>4, <3>5, <3>6 DEF ClipStructure
    <2>6. ClipStructure(r.session, after, k)
        <3> DEFINE life == EditsOfClip(ops, k) \cup SplitsInto(ops, k)
        <3>1. /\ CutsOf(after, k) = CutsOf(ops, k)
              /\ SplitsInto(after, k) = SplitsInto(ops, k) \cup {o}
            BY <1>2, SplitsAdd
        <3>2. EditsOfClip(after, k) \cup SplitsInto(after, k) = life \cup {o}
            BY <1>2, LifeAdd
        <3>3. life \in SUBSET Stamped
            BY DEF EditsOfClip, SplitsInto
        <3>4. op.type \in Reviving
            BY DEF SplitEdit, Reviving
        <3>5. /\ IsTop(new[k].alive, AliveWrites(life \cup {o}))
              /\ new[k].parent = claim
              /\ \A x \in SplitsInto(ops, k) :
                    <<x.operation.clip, x.operation.split_frame>> = claim
              /\ IsLeast(new[k].splits, CutsOf(ops, k))
            <4>1. CASE Exists(s.clips, k)
                <5>1. s.clips[k] \in Clip
                    BY <1>1, <4>1 DEF SessionState, Exists
                <5>2. /\ new[k].alive = Set(s.clips[k].alive, TRUE, o.op_id)
                      /\ new[k].parent = s.clips[k].parent
                      /\ new[k].splits = s.clips[k].splits
                    BY <2>1, <4>1, <5>1 DEF Clip
                <5>3. IsTop(s.clips[k].alive, AliveWrites(life))
                    BY <2>4, <4>1 DEF ClipStructure
                <5>4. /\ (op.type \in Reviving) = TRUE
                      /\ op.type \in Reviving \cup Burying
                    BY <3>4
                <5>5. AliveWrites(life \cup {o})
                        = AliveWrites(life) \cup {Written(TRUE, o.op_id)}
                    BY <5>4, AliveWritesAdd, Zenon
                <5>6. \A x \in AliveWrites(life) : x.tag \in OpTag
                    BY <3>3, WritesTagged
                <5> HIDE DEF life
                <5>7. IsTop(Set(s.clips[k].alive, TRUE, o.op_id),
                            AliveWrites(life) \cup {Written(TRUE, o.op_id)})
                    BY <1>1, <5>3, <5>6, TopSet
                <5>8. IsTop(new[k].alive, AliveWrites(life \cup {o}))
                    BY <5>2, <5>5, <5>7
                <5> QED
                    BY <1>3, <2>4, <4>1, <5>2, <5>8 DEF ClipStructure
            <4>2. CASE ~Exists(s.clips, k)
                <5>1. /\ new[k].alive = Written(TRUE, o.op_id)
                      /\ new[k].parent = claim /\ new[k].splits = {}
                    BY <2>1, <4>2 DEF ClipFromSplit
                <5>2. life = {} /\ SplitsInto(ops, k) = {}
                    BY <2>4, <4>2, NoLifeYet
                <5>3. IsTop(new[k].alive, AliveWrites(life \cup {o}))
                    <6>1. life \cup {o} = {o}
                        BY <5>2
                    <6> QED
                        BY <1>1, <3>4, <5>1, <6>1, AliveOfOne
                <5>4. IsLeast(new[k].splits, CutsOf(ops, k))
                    BY <2>4, <4>2, <5>1 DEF ClipStructure, IsLeast
                <5> HIDE DEF life
                <5> QED
                    BY <5>1, <5>2, <5>3, <5>4
            <4> QED
                BY <4>1, <4>2
        <3>6. \A x \in SplitsInto(after, k) :
                new[k].parent = <<x.operation.clip, x.operation.split_frame>>
            BY <3>1, <3>5
        <3>7. Exists(r.session.clips, k) /\ new = r.session.clips
            BY <2>2
        <3> HIDE DEF after, new, life, claim
        <3> QED
            BY <3>1, <3>2, <3>5, <3>6, <3>7 DEF ClipStructure
    <2>7. ASSUME NEW c \in ClipId \ {p, k}
          PROVE  ClipStructure(r.session, after, c)
        BY <2>1, <2>3, StructureSame
    <2> QED
        BY <2>1, <2>5, <2>6, <2>7 DEF r
<1> QED
    BY <1>4, <1>5

\* Session::apply keeps the structure of every clip what the applied
\* operations make it, as long as no two splits share a piece.
LEMMA ApplyStructure ==
    ASSUME NEW s \in SessionState, NEW log \in SUBSET Stamped,
           NEW ops \in SUBSET log, NEW o \in log,
           OneSplitPerPiece(log),
           \A c \in ClipId : ClipReflects(s, ops, c) /\ ClipStructure(s, ops, c)
    PROVE  LET r == Apply(s, o.operation, o.op_id)
           IN  \A c \in ClipId :
                  ClipStructure(r.session, IF r.ok THEN ops \cup {o} ELSE ops, c)
<1> DEFINE op == o.operation
           r  == Apply(s, op, o.op_id)
           after == IF r.ok THEN ops \cup {o} ELSE ops
<1>1. /\ op \in Operation /\ o.op_id \in OpTag
      /\ o \in Stamped /\ ops \in SUBSET Stamped
    BY StampedTag
<1>2. CASE op \in ClipEdit
    <2>1. r = ApplyClipEdit(s, op, o.op_id) /\ op.clip \in ClipId
        BY <1>1, <1>2, ApplyDispatch DEF ClipEdit
    <2>2. /\ \A c \in ClipId \ {op.clip} : r.session.clips[c] = s.clips[c]
          /\ ~r.ok => r.session = s
        BY <1>1, <1>2, <2>1, ClipEditEffect
    <2>3. CASE ~r.ok
        BY <2>2, <2>3
    <2>4. CASE r.ok
        <3>1. ClipStructure(r.session, ops \cup {o}, op.clip)
            BY <1>1, <1>2, <2>1, <2>4, ClipEditStructure
        <3> HIDE DEF r
        <3>2. op \notin SplitEdit
            BY <1>1, <1>2, KindsApart
        <3>3. ASSUME NEW c \in ClipId \ {op.clip}
              PROVE  ClipStructure(r.session, ops \cup {o}, c)
            BY <2>2, <3>2, StructureSame
        <3> QED
            BY <2>4, <3>1, <3>3 DEF r
    <2> QED
        BY <2>3, <2>4
<1>3. CASE op \in SplitEdit /\ op.clip # op.new_clip
    <2>1. r = ApplySplit(s, op, o.op_id)
        BY <1>1, <1>3, ApplyDispatch
    <2> QED
        BY <1>3, <2>1, SplitStructure
<1>4. CASE op \notin ClipEdit /\ (op \in SplitEdit => op.clip = op.new_clip)
    <2>1. r.session.clips = s.clips
        <3>1. CASE op \in SplitEdit
            <4>1. r = Ok(s)
                BY <1>1, <1>4, <3>1, ApplyDispatch DEF ApplySplit
            <4> QED
                BY <4>1 DEF Ok
        <3>2. CASE op \notin SplitEdit
            BY <1>1, <1>4, <3>2, ApplyElsewhere
        <3> QED
            BY <3>1, <3>2
    <2> HIDE DEF r
    <2>2. ASSUME NEW c \in ClipId
          PROVE  ClipStructure(r.session, after, c)
        <3>1. ClipStructure(r.session, ops \cup {o}, c)
            BY <1>4, <2>1, StructureSame
        <3>2. ClipStructure(r.session, ops, c)
            BY <2>1 DEF ClipStructure, Exists
        <3> QED
            BY <3>1, <3>2
    <2> QED
        BY <2>2 DEF r
<1> QED
    BY <1>2, <1>3, <1>4

\* A session stays grounded as operations are applied: a clip that a split has
\* just made cannot be what older clips were split from.
LEMMA StaysGrounded ==
    ASSUME NEW s, NEW r, NEW ops, NEW o, NEW after,
           after \subseteq ops \cup {o}, ops \subseteq after,
           \A c \in ClipId : ClipReflects(s, ops, c) /\ ClipStructure(s, ops, c),
           \A c \in ClipId : ClipReflects(r, after, c),
           Grounded(s, ops)
    PROVE  Grounded(r, after)
<1> SUFFICES ASSUME NEW C \in SUBSET {c \in ClipId : Exists(r.clips, c)}, C # {}
             PROVE  \E c \in C, x \in after :
                        /\ Creates(x.operation, c)
                        /\ x.operation \in SplitEdit => x.operation.clip \notin C
    BY DEF Grounded
<1> DEFINE op == o.operation
           Old == {c \in C : Exists(s.clips, c)}
<1>1. ASSUME NEW c \in C, c \notin Old
      PROVE  o \in after /\ Creates(op, c) /\ CutsOf(ops, c) = {}
    <2>1. c \in ClipId /\ Exists(r.clips, c) /\ ~Exists(s.clips, c)
        BY <1>1
    <2>2. PICK x \in after : Creates(x.operation, c)
        BY <2>1 DEF ClipReflects
    <2>3. ~\E y \in ops : Creates(y.operation, c)
        BY <2>1 DEF ClipReflects
    <2>4. x = o
        BY <2>2, <2>3
    <2> QED
        BY <2>1, <2>2, <2>4 DEF ClipStructure
<1>2. ASSUME Old # {}
      PROVE  \E c \in Old, x \in ops :
                    /\ Creates(x.operation, c)
                    /\ x.operation \in SplitEdit => x.operation.clip \notin Old
    <2>1. Old \in SUBSET {c \in ClipId : Exists(s.clips, c)}
        OBVIOUS
    <2> HIDE DEF Old
    <2> QED
        BY <1>2, <2>1 DEF Grounded
<1>3. CASE C = Old
    BY <1>2, <1>3
<1>4. CASE C # Old
    <2>1. PICK k \in C : k \notin Old
        BY <1>4
    <2>2. o \in after /\ Creates(op, k)
        BY <1>1, <2>1
    <2>3. CASE op \in SplitEdit => op.clip \notin C
        BY <2>1, <2>2, <2>3
    <2>4. CASE op \in SplitEdit /\ op.clip \in C
        <3>1. \A c \in C \ Old : c = k
            BY <1>1, <2>2, <2>4 DEF Creates, ClipEdit, SplitEdit
        <3>2. op.clip # k
            BY <2>2, <2>4 DEF Creates, ClipEdit, SplitEdit
        <3>3. op.clip \in Old
            BY <2>4, <3>1, <3>2
        <3> HIDE DEF Old
        <3>4. PICK c \in Old, x \in ops :
                    /\ Creates(x.operation, c)
                    /\ x.operation \in SplitEdit => x.operation.clip \notin Old
            BY <1>2, <3>3
        <3>5. c \in C /\ c # k
            BY <2>1, <3>4 DEF Old
        <3>6. ASSUME x.operation \in SplitEdit, x.operation.clip \in C
              PROVE  FALSE
            <4>1. x.operation.clip = k
                BY <3>1, <3>4, <3>6
            <4>2. x.operation.new_clip = c
                BY <3>4, <3>6 DEF Creates, ClipEdit, SplitEdit
            <4>3. <<x.operation.split_frame, x.operation.new_clip>>
                        \in CutsOf(ops, k)
                BY <3>4, <3>5, <3>6, <4>1, <4>2 DEF CutsOf
            <4> QED
                BY <1>1, <2>1, <4>3
        <3> QED
            BY <3>4, <3>5, <3>6
    <2> QED
        BY <2>3, <2>4
<1> QED
    BY <1>3, <1>4

\* An envelope is written only where its clip or track exists, and neither
\* goes away.
LEMMA EnvelopesHaveTargets ==
    ASSUME NEW s \in SessionState, NEW ops \in SUBSET Stamped, NEW o \in Stamped,
           \A e \in Target : EnvelopeWrites(ops, e) # {} => TargetExists(s, e)
    PROVE  LET r == Apply(s, o.operation, o.op_id)
               after == IF r.ok THEN ops \cup {o} ELSE ops
           IN  \A e \in Target :
                    EnvelopeWrites(after, e) # {} => TargetExists(r.session, e)
<1> DEFINE op == o.operation
           r  == Apply(s, op, o.op_id)
           after == IF r.ok THEN ops \cup {o} ELSE ops
<1>1. op \in Operation /\ o.op_id \in OpTag
    BY StampedTag
<1>2. \A e \in Target : TargetExists(s, e) => TargetExists(r.session, e)
    BY <1>1, ApplyExists
<1>3. ASSUME op \in EnvelopeEdit, r.ok
      PROVE  TargetExists(s, op.target)
    <2>1. r = ApplyEnvelope(s, op, o.op_id)
        BY <1>1, <1>3, ApplyDispatch
    <2>2. ApplyEnvelope(s, op, o.op_id).ok => TargetExists(s, op.target)
        BY <1>1, <1>3, EnvelopeEffect
    <2> HIDE DEF r
    <2> QED
        BY <1>3, <2>1, <2>2
<1> HIDE DEF r
<1>4. ASSUME NEW e \in Target, EnvelopeWrites(after, e) # {}
      PROVE  TargetExists(s, e)
    <2>1. CASE r.ok /\ op \in EnvelopeEdit /\ op.target = e
        BY <1>3, <2>1
    <2>2. CASE ~(r.ok /\ op \in EnvelopeEdit /\ op.target = e)
        <3>1. EnvelopeWrites(after, e) = EnvelopeWrites(ops, e)
            <4>1. CASE ~r.ok
                BY <4>1
            <4>2. CASE ~(op \in EnvelopeEdit /\ op.target = e)
                <5>1. EnvelopeWrites(ops \cup {o}, e) = EnvelopeWrites(ops, e)
                    BY <4>2, EnvelopeWritesAdd
                <5> QED
                    BY <5>1
            <4> QED
                BY <2>2, <4>1, <4>2
        <3> QED
            BY <1>4, <3>1
    <2> QED
        BY <2>1, <2>2
<1> QED
    BY <1>2, <1>4 DEF r

\* Session::apply keeps the session what the applied operations make it.
LEMMA ApplyReflects ==
    ASSUME NEW s \in SessionState, NEW log \in SUBSET Stamped,
           NEW ops \in SUBSET log, NEW o \in log, Reflects(s, ops, log)
    PROVE  LET r == Apply(s, o.operation, o.op_id)
           IN  Reflects(r.session, IF r.ok THEN ops \cup {o} ELSE ops, log)
<1> DEFINE r == Apply(s, o.operation, o.op_id)
           after == IF r.ok THEN ops \cup {o} ELSE ops
<1>1. ops \in SUBSET Stamped /\ o \in Stamped
    OBVIOUS
<1>2. /\ \A c \in ClipId : ClipReflects(s, ops, c)
      /\ \A t \in TrackId : TrackReflects(s, ops, t)
      /\ \A e \in Target : IsTop(s.envelopes[e], EnvelopeWrites(ops, e))
      /\ \A f \in MetaField :
            IsTop(s.metadata[f], WritesTo(MetadataEdits(ops), f))
      /\ \A e \in Target : EnvelopeWrites(ops, e) # {} => TargetExists(s, e)
      /\ OneSplitPerPiece(log) =>
            (\A c \in ClipId : ClipStructure(s, ops, c)) /\ Grounded(s, ops)
    BY DEF Reflects
<1>3. \A c \in ClipId : ClipReflects(r.session, after, c)
    BY <1>1, <1>2, ApplyClipsReflect
<1>4. \A t \in TrackId : TrackReflects(r.session, after, t)
    BY <1>1, <1>2, ApplyTracksReflect
<1>5. /\ \A e \in Target :
            IsTop(r.session.envelopes[e], EnvelopeWrites(after, e))
      /\ \A f \in MetaField :
            IsTop(r.session.metadata[f], WritesTo(MetadataEdits(after), f))
    BY <1>1, <1>2, ApplyOthersReflect
<1>6. ASSUME OneSplitPerPiece(log)
      PROVE  (\A c \in ClipId : ClipStructure(r.session, after, c))
                /\ Grounded(r.session, after)
    <2>1. \A c \in ClipId : ClipStructure(r.session, after, c)
        BY <1>2, <1>6, ApplyStructure
    <2>2. after \in SUBSET (ops \cup {o}) /\ ops \in SUBSET after
        OBVIOUS
    <2> HIDE DEF r, after
    <2>3. Grounded(r.session, after)
        BY <1>2, <1>3, <1>6, <2>2, StaysGrounded
    <2> QED
        BY <2>1, <2>3
<1>7. \A e \in Target :
            EnvelopeWrites(after, e) # {} => TargetExists(r.session, e)
    BY <1>1, <1>2, EnvelopesHaveTargets
<1> HIDE DEF r
<1>8. Reflects(r.session, after, log)
    BY <1>3, <1>4, <1>5, <1>6, <1>7 DEF Reflects
<1> QED
    BY <1>8 DEF r

\* A log's operations are its head and those of its tail, and no others.
LEMMA HeadTailOps ==
    ASSUME NEW log \in Seq(TaggedOp), log # <<>>
    PROVE  OpsIn(log) = {Head(log)} \cup OpsIn(Tail(log))
<1>1. /\ Len(log) \in Nat /\ Len(log) > 0
      /\ DOMAIN log = 1..Len(log)
      /\ DOMAIN Tail(log) = 1..(Len(log) - 1)
      /\ \A i \in DOMAIN Tail(log) : Tail(log)[i] = log[i + 1]
      /\ Head(log) = log[1]
    OBVIOUS
<1>2. ASSUME NEW i \in DOMAIN log, i # 1
      PROVE  log[i] \in OpsIn(Tail(log))
    <2>1. i - 1 \in DOMAIN Tail(log) /\ Tail(log)[i - 1] = log[i]
        BY <1>1, <1>2
    <2> QED
        BY <2>1 DEF OpsIn
<1>3. OpsIn(log) \subseteq {Head(log)} \cup OpsIn(Tail(log))
    BY <1>1, <1>2 DEF OpsIn
<1> QED
    BY <1>3, TailOps

\* drain_pending keeps it too, whatever order it finds targets in.
LEMMA DrainReflects ==
    ASSUME NEW s \in SessionState, NEW pending \in Seq(TaggedOp),
           NEW log \in SUBSET Stamped, OpsIn(pending) \subseteq log,
           DistinctIds(pending), Reflects(s, log \ OpsIn(pending), log)
    PROVE  Reflects(Drain(s, pending).session,
                    log \ OpsIn(Drain(s, pending).waiting), log)
<1> DEFINE Left(x) == OpsIn(x.todo) \cup OpsIn(x.waiting)
           Apart(x) ==
                /\ DistinctIds(x.todo) /\ DistinctIds(x.waiting)
                /\ IdsIn(x.todo) \cap IdsIn(x.waiting) = {}
           States == {x \in DrainState :
                        /\ Apart(x) /\ Left(x) \subseteq log
                        /\ Reflects(x.session, log \ Left(x), log)}
<1>0. /\ <<>> \in Seq(TaggedOp) /\ OpsIn(<<>>) = {} /\ IdsIn(<<>>) = {}
      /\ DistinctIds(<<>>)
    BY DEF OpsIn, IdsIn, DistinctIds
<1>1. DrainStart(s, pending) \in States
    <2>1. DrainStart(s, pending) \in DrainState
        BY <1>0 DEF DrainStart, DrainState
    <2> QED
        BY <1>0, <2>1 DEF DrainStart
<1>2. ASSUME NEW x \in States
      PROVE  DrainStep(x) \in States
    <2>1. CASE x.todo # <<>>
        <3> DEFINE op  == Head(x.todo)
                   res == Apply(x.session, op.operation, op.op_id)
                   y   == DrainStep(x)
        <3>1. /\ x.todo \in Seq(TaggedOp) /\ x.waiting \in Seq(TaggedOp)
              /\ x.session \in SessionState /\ x.progress \in BOOLEAN
            BY DEF DrainState
        <3>2. /\ op \in TaggedOp /\ op \in OpsIn(x.todo) /\ op \in log
              /\ op.op_id \in IdsIn(x.todo)
            BY <2>1, <3>1, TailOps DEF IdsIn
        <3>3. res.ok \in BOOLEAN /\ res.session \in SessionState
            <4>1. op.operation \in Operation /\ op.op_id \in OpTag
                BY <3>2 DEF TaggedOp
            <4> QED
                BY <3>1, <4>1, ApplyTyped
        <3>4. Reflects(res.session, IF res.ok THEN (log \ Left(x)) \cup {op}
                                    ELSE log \ Left(x), log)
            <4>1. Reflects(x.session, log \ Left(x), log)
                OBVIOUS
            <4>2. log \ Left(x) \in SUBSET log
                OBVIOUS
            <4> HIDE DEF Left, op
            <4> QED
                BY <3>1, <3>2, <4>1, <4>2, ApplyReflects
        <3> HIDE DEF op, res
        <3>5. y = [ session  |-> res.session,
                    todo     |-> Tail(x.todo),
                    waiting  |-> IF res.ok THEN x.waiting ELSE Append(x.waiting, op),
                    progress |-> x.progress \/ res.ok ]
            BY <2>1 DEF DrainStep, Retry, op, res
        <3> HIDE DEF y
        <3>6. /\ Tail(x.todo) \in Seq(TaggedOp)
              /\ Append(x.waiting, op) \in Seq(TaggedOp)
            BY <2>1, <3>1, <3>2, TailOps, AppendOps
        <3>7. y \in DrainState
            BY <3>1, <3>3, <3>5, <3>6 DEF DrainState
        <3>8. /\ DistinctIds(Tail(x.todo)) /\ op.op_id \notin IdsIn(Tail(x.todo))
              /\ IdsIn(Tail(x.todo)) \subseteq IdsIn(x.todo)
            BY <2>1, <3>1, TailOps DEF op
        <3>9. op.op_id \notin IdsIn(x.waiting)
            BY <3>2
        <3>10. Apart(y)
            <4>1. /\ DistinctIds(Append(x.waiting, op))
                  /\ IdsIn(Append(x.waiting, op)) = IdsIn(x.waiting) \cup {op.op_id}
                BY <3>1, <3>2, <3>9, AppendOps
            <4> QED
                BY <3>5, <3>8, <4>1
        <3>11. /\ OpsIn(x.todo) = {op} \cup OpsIn(Tail(x.todo))
               /\ OpsIn(Append(x.waiting, op)) = OpsIn(x.waiting) \cup {op}
            BY <2>1, <3>1, <3>2, HeadTailOps, AppendOps DEF op
        <3>12. op \notin OpsIn(Tail(x.todo)) \cup OpsIn(x.waiting)
            BY <3>8, <3>9 DEF IdsIn
        <3>13. CASE res.ok
            <4>1. Left(y) = OpsIn(Tail(x.todo)) \cup OpsIn(x.waiting)
                BY <3>5, <3>13
            <4>2. log \ Left(y) = (log \ Left(x)) \cup {op}
                BY <3>2, <3>11, <3>12, <4>1
            <4>3. Reflects(y.session, log \ Left(y), log)
                BY <3>4, <3>5, <3>13, <4>2
            <4>4. Left(y) \subseteq log
                BY <3>11, <4>1
            <4> QED
                BY <3>7, <3>10, <4>3, <4>4 DEF y
        <3>14. CASE ~res.ok
            <4>1. Left(y) = Left(x)
                BY <3>5, <3>11, <3>14
            <4>2. Reflects(y.session, log \ Left(y), log)
                BY <3>4, <3>5, <3>14, <4>1
            <4>3. Left(y) \subseteq log
                BY <4>1
            <4> QED
                BY <3>7, <3>10, <4>2, <4>3 DEF y
        <3> QED
            BY <3>13, <3>14
    <2>2. CASE x.todo = <<>> /\ x.progress
        <3>1. DrainStep(x) = [x EXCEPT !.todo = x.waiting, !.waiting = <<>>,
                                       !.progress = FALSE]
            BY <2>2 DEF DrainStep, NextPass
        <3>2. DrainStep(x) \in DrainState
            BY <1>0, <3>1 DEF DrainState
        <3>3. /\ DrainStep(x).todo = x.waiting /\ DrainStep(x).waiting = <<>>
              /\ DrainStep(x).session = x.session
            BY <3>1 DEF DrainState
        <3>4. Left(DrainStep(x)) = Left(x)
            BY <1>0, <2>2, <3>3
        <3>5. Apart(DrainStep(x))
            BY <1>0, <3>3
        <3> QED
            BY <3>2, <3>3, <3>4, <3>5
    <2>3. CASE x.todo = <<>> /\ ~x.progress
        BY <2>3 DEF DrainStep
    <2> QED
        BY <2>1, <2>2, <2>3
<1>3. Len(pending) \in Nat
    OBVIOUS
<1>4. Drain(s, pending) \in States
    <2> HIDE DEF States
    <2> QED
        BY <1>1, <1>2, <1>3, DrainStays
<1>5. Drain(s, pending).todo = <<>>
    BY DrainEnds
<1> QED
    BY <1>0, <1>4, <1>5

\* Knowing more operations than are applied makes no difference to what the
\* applied ones have done.
LEMMA ReflectsMore ==
    ASSUME NEW s, NEW ops, NEW log, NEW o, Reflects(s, ops, log)
    PROVE  Reflects(s, ops, log \cup {o})
<1>1. OneSplitPerPiece(log \cup {o}) => OneSplitPerPiece(log)
    BY DEF OneSplitPerPiece
<1> QED
    BY <1>1 DEF Reflects

\* apply_local_internal, applied or buffered.
LEMMA PerformReflects ==
    ASSUME NEW t \in Timeline, NEW o \in Stamped, NEW known \in SUBSET Stamped,
           o \notin known, OpsIn(t.pending) \subseteq known,
           Reflects(t.session, known \ OpsIn(t.pending), known)
    PROVE  LET u == Perform(t, o)
           IN  Reflects(u.session, (known \cup {o}) \ OpsIn(u.pending),
                        known \cup {o})
<1> DEFINE u   == Perform(t, o)
           res == Apply(t.session, o.operation, o.op_id)
           ops == known \ OpsIn(t.pending)
<1>1. /\ t.session \in SessionState /\ t.pending \in Seq(TaggedOp)
      /\ o \in TaggedOp
    BY DEF Timeline, Stamped
<1>2. /\ u.session = res.session
      /\ u.pending = IF res.ok THEN t.pending ELSE Append(t.pending, o)
    BY DEF Perform
<1>4. Reflects(res.session, IF res.ok THEN ops \cup {o} ELSE ops,
               known \cup {o})
    <2>1. Reflects(t.session, ops, known \cup {o})
        BY ReflectsMore
    <2>2. ops \in SUBSET (known \cup {o}) /\ known \cup {o} \in SUBSET Stamped
        BY DEF Stamped
    <2> HIDE DEF ops
    <2> QED
        BY <1>1, <2>1, <2>2, ApplyReflects
<1> HIDE DEF u, res
<1>5. CASE res.ok
    <2>1. (known \cup {o}) \ OpsIn(u.pending) = ops \cup {o}
        BY <1>2, <1>5
    <2> QED
        BY <1>2, <1>4, <1>5, <2>1 DEF u
<1>6. CASE ~res.ok
    <2>1. OpsIn(u.pending) = OpsIn(t.pending) \cup {o}
        BY <1>1, <1>2, <1>6, AppendOps
    <2>2. (known \cup {o}) \ OpsIn(u.pending) = ops
        BY <2>1
    <2> QED
        BY <1>2, <1>4, <1>6, <2>2 DEF u
<1> QED
    BY <1>5, <1>6

\* apply_remote past the duplicate check, with the drain, when all that was
\* ever known to the replica is known.
LEMMA TakeReflects ==
    ASSUME NEW t \in Timeline, NEW o \in Stamped, NEW known \in SUBSET Stamped,
           OpsIn(t.pending) \subseteq known, DistinctIds(t.pending),
           o.op_id \notin IdsIn(t.pending),
           o \in known => Apply(t.session, o.operation, o.op_id).ok,
           Reflects(t.session, known \ OpsIn(t.pending), known)
    PROVE  LET u == Accept(t, o)
           IN  /\ Reflects(u.session, (known \cup {o}) \ OpsIn(u.pending),
                           known \cup {o})
               /\ \A x \in OpsIn(u.pending) :
                        MissingTargets(u.session, x.operation) # {}
<1> DEFINE u   == Accept(t, o)
           res == Apply(t.session, o.operation, o.op_id)
           buffer == IF res.ok THEN t.pending ELSE Append(t.pending, o)
           drained == Drain(res.session, buffer)
           ops == known \ OpsIn(t.pending)
<1>1. /\ t.session \in SessionState /\ t.pending \in Seq(TaggedOp)
      /\ o \in TaggedOp /\ o.operation \in Operation /\ o.op_id \in OpTag
    BY DEF Timeline, Stamped, TaggedOp
<1>2. u.session = drained.session /\ u.pending = drained.waiting
    BY DEF Accept
<1> HIDE DEF u
<1>4. Reflects(res.session, IF res.ok THEN ops \cup {o} ELSE ops,
               known \cup {o})
    <2>1. Reflects(t.session, ops, known \cup {o})
        BY ReflectsMore
    <2>2. ops \in SUBSET (known \cup {o}) /\ known \cup {o} \in SUBSET Stamped
        BY DEF Stamped
    <2> HIDE DEF ops
    <2> QED
        BY <1>1, <2>1, <2>2, ApplyReflects
<1>5. res.session \in SessionState
    BY <1>1, ApplyTyped
<1>6. o \notin OpsIn(t.pending) /\ (o \in known => res.ok)
    BY DEF IdsIn
<1> HIDE DEF res
<1>7. /\ buffer \in Seq(TaggedOp) /\ DistinctIds(buffer)
      /\ OpsIn(buffer) = IF res.ok THEN OpsIn(t.pending)
                         ELSE OpsIn(t.pending) \cup {o}
    BY <1>1, <1>6, AppendOps
<1>8. (known \cup {o}) \ OpsIn(buffer) = IF res.ok THEN ops \cup {o} ELSE ops
    BY <1>6, <1>7
<1>9. OpsIn(buffer) \subseteq known \cup {o} /\ known \cup {o} \in SUBSET Stamped
    BY <1>7
<1> HIDE DEF buffer, ops
<1>10. Reflects(res.session, (known \cup {o}) \ OpsIn(buffer), known \cup {o})
    BY <1>4, <1>8
<1>11. Reflects(drained.session, (known \cup {o}) \ OpsIn(drained.waiting),
                known \cup {o})
    BY <1>5, <1>7, <1>9, <1>10, DrainReflects
<1>12. \A x \in OpsIn(drained.waiting) :
            MissingTargets(drained.session, x.operation) # {}
    BY <1>5, <1>7, DrainEnds
<1> HIDE DEF drained
<1> QED
    BY <1>2, <1>11, <1>12 DEF u

\* The same when the log is all the replica was ever given.
LEMMA AcceptReflects ==
    ASSUME NEW t \in Timeline, NEW o \in Stamped,
           OpsIn(t.operation_log) \subseteq Stamped,
           o.op_id \notin IdsIn(t.operation_log),
           OpsIn(t.pending) \subseteq OpsIn(t.operation_log),
           DistinctIds(t.pending),
           Reflects(t.session, OpsIn(t.operation_log) \ OpsIn(t.pending),
                    OpsIn(t.operation_log))
    PROVE  LET u == Accept(t, o)
           IN  /\ Reflects(u.session,
                           OpsIn(u.operation_log) \ OpsIn(u.pending),
                           OpsIn(u.operation_log))
               /\ \A x \in OpsIn(u.pending) :
                        MissingTargets(u.session, x.operation) # {}
<1> DEFINE u     == Accept(t, o)
           known == OpsIn(t.operation_log)
<1>1. t.operation_log \in Seq(TaggedOp) /\ o \in TaggedOp
    BY DEF Timeline, Stamped
<1>2. u.operation_log = Append(t.operation_log, o)
    BY DEF Accept
<1> HIDE DEF u
<1>3. OpsIn(u.operation_log) = known \cup {o}
    BY <1>1, <1>2, AppendOps
<1>4. o \notin known /\ o.op_id \notin IdsIn(t.pending)
    BY DEF IdsIn
<1> HIDE DEF known
<1>5. /\ Reflects(u.session, (known \cup {o}) \ OpsIn(u.pending), known \cup {o})
      /\ \A x \in OpsIn(u.pending) :
                MissingTargets(u.session, x.operation) # {}
    BY <1>4, TakeReflects DEF u, known
<1> QED
    BY <1>3, <1>5 DEF u

-----------------------------------------------------------------------------
(* What the sessions of the replicas hold                                  *)

\* Every session is what the operations applied to it make it.
SessionsReflect ==
    \A p \in Peers : Reflects(crdt[p].session, Applied(p), Log(p))

\* An empty session has applied nothing.
LEMMA EmptyReflects == Reflects(EmptySession, {}, {})
<1>1. /\ \A c : EditsOfClip({}, c) = {}
      /\ \A t : EditsOfTrack({}, t) = {}
      /\ MetadataEdits({}) = {}
    BY DEF EditsOfClip, EditsOfTrack, MetadataEdits
<1>2. /\ \A c \in ClipId : EmptySession.clips[c] = Vacant
      /\ \A t \in TrackId : EmptySession.tracks[t] = Vacant
      /\ \A e \in Target : EmptySession.envelopes[e] = NewInitial(0)
      /\ \A f \in MetaField : EmptySession.metadata[f] = NewInitial(0)
    BY DEF EmptySession
<1>3. \A c \in ClipId :
        ClipReflects(EmptySession, {}, c) /\ ClipStructure(EmptySession, {}, c)
    BY <1>1, <1>2 DEF ClipReflects, ClipStructure, CutsOf, Exists
<1>4. \A t \in TrackId : TrackReflects(EmptySession, {}, t)
    BY <1>1, <1>2 DEF TrackReflects, Exists
<1>5. \A e \in Target : EnvelopeWrites({}, e) = {}
    BY NoEditsNoWrites
<1>6. \A e \in Target : IsTop(EmptySession.envelopes[e], EnvelopeWrites({}, e))
    BY <1>2, <1>5 DEF IsTop
<1>7. \A f \in MetaField :
            IsTop(EmptySession.metadata[f], WritesTo(MetadataEdits({}), f))
    BY <1>1, <1>2, NoEditsNoWrites DEF IsTop
<1>8. Grounded(EmptySession, {})
    BY <1>2 DEF Grounded, Exists
<1> QED
    BY <1>3, <1>4, <1>5, <1>6, <1>7, <1>8 DEF Reflects

\* No replica has logged or applied anything.
LEMMA InitReflects == Init => SessionsReflect
<1> SUFFICES ASSUME Init, NEW p \in Peers
             PROVE  Reflects(crdt[p].session, Applied(p), Log(p))
    BY DEF SessionsReflect
<1>1. OpsIn(<<>>) = {}
    BY DEF OpsIn
<1>2. /\ crdt[p].session = EmptySession
      /\ crdt[p].operation_log = <<>> /\ crdt[p].pending = <<>>
    BY DEF Init, NewTimeline
<1>3. Applied(p) = {} /\ Log(p) = {}
    BY <1>1, <1>2 DEF Applied, Log, Pending
<1> QED
    BY <1>2, <1>3, EmptyReflects

\* What the inductive invariant says of one replica.
LEMMA ReplicaFacts ==
    ASSUME IndInv, NEW p \in Peers
    PROVE  /\ crdt[p] \in Timeline
           /\ Log(p) \in SUBSET Stamped
           /\ Pending(p) \subseteq Log(p)
           /\ DistinctIds(crdt[p].pending)
           /\ \A a, b \in Log(p) : a.op_id = b.op_id => a = b
BY DEF IndInv, TypeOK, BufferIsLogged, ClockCoversLog, OpIdsUnique, Stamped

\* An operation that is issued, by an edit, an undo or a redo, is applied to
\* its issuer's session or waits there.
LEMMA IssueReflects ==
    ASSUME IndInv, SessionsReflect, NEW p \in Peers, NEW operation \in Operation,
           Issue(p, operation)
    PROVE  SessionsReflect'
<1> DEFINE t == crdt[p]
           o == Stamp(t, p, operation)
<1>1. /\ o \in TaggedOp /\ o.op_id.peer = p
      /\ \A x \in sent : x.op_id # o.op_id
    BY StampIsFresh DEF Issue
<1>2. crdt' = [crdt EXCEPT ![p] = Perform(t, o)]
    BY DEF Issue
<1> HIDE DEF o
<1>3. o \in Stamped /\ o \notin Log(p)
    BY <1>1 DEF Stamped, IndInv, ClockCoversLog
<1>4. crdt \in [Peers -> Timeline]
    BY DEF IndInv, TypeOK
<1>5. /\ crdt'[p] = Perform(t, o)
      /\ \A q \in Peers \ {p} : crdt'[q] = crdt[q]
    BY <1>2, <1>4
<1>6. Reflects(t.session, OpsIn(t.operation_log) \ OpsIn(t.pending),
               OpsIn(t.operation_log))
    BY DEF SessionsReflect, Applied, Log, Pending
<1>7. LET u == Perform(t, o)
      IN  Reflects(u.session, (Log(p) \cup {o}) \ OpsIn(u.pending),
                   Log(p) \cup {o})
    BY <1>3, <1>6, ReplicaFacts, PerformReflects DEF Log, Pending
<1>8. OpsIn(Perform(t, o).operation_log) = Log(p) \cup {o}
    <2>1. t.operation_log \in Seq(TaggedOp) /\ o \in TaggedOp
        BY <1>3, ReplicaFacts DEF Timeline, Stamped
    <2>2. Perform(t, o).operation_log = Append(t.operation_log, o)
        BY DEF Perform
    <2> QED
        BY <2>1, <2>2, AppendOps DEF Log
<1>9. Reflects(crdt'[p].session,
               OpsIn(crdt'[p].operation_log) \ OpsIn(crdt'[p].pending),
               OpsIn(crdt'[p].operation_log))
    BY <1>5, <1>7, <1>8
<1>10. ASSUME NEW q \in Peers
      PROVE  Reflects(crdt'[q].session, Applied(q)', Log(q)')
    <2>1. CASE q = p
        BY <1>9, <2>1 DEF Applied, Log, Pending
    <2>2. CASE q # p
        BY <1>5, <2>2 DEF SessionsReflect, Applied, Log, Pending
    <2> QED
        BY <2>1, <2>2
<1> QED
    BY <1>10 DEF SessionsReflect

\* So is one that is received, with all it lets others find.
LEMMA ReceiveReflects ==
    ASSUME IndInv, SessionsReflect, NEW p \in Peers, NEW o \in sent,
           ApplyRemote(p, o)
    PROVE  SessionsReflect'
<1> DEFINE t == crdt[p]
<1>1. crdt' = [crdt EXCEPT ![p] = Receive(t, o)]
    BY DEF ApplyRemote
<1>2. crdt \in [Peers -> Timeline] /\ o \in Stamped
    BY DEF IndInv, TypeOK, Stamped
<1>3. CASE o.op_id \in t.seen
    <2>1. crdt' = crdt
        BY <1>1, <1>2, <1>3 DEF Receive
    <2> QED
        BY <2>1 DEF SessionsReflect, Applied, Log, Pending
<1>4. CASE o.op_id \notin t.seen
    <2>1. /\ crdt'[p] = Accept(t, o)
          /\ \A q \in Peers \ {p} : crdt'[q] = crdt[q]
        BY <1>1, <1>2, <1>4 DEF Receive
    <2>2. o.op_id \notin IdsIn(t.operation_log)
        BY <1>4 DEF IndInv, LogHasNoDuplicates
    <2>3. Reflects(t.session, OpsIn(t.operation_log) \ OpsIn(t.pending),
                   OpsIn(t.operation_log))
        BY DEF SessionsReflect, Applied, Log, Pending
    <2>4. LET u == Accept(t, o)
          IN  Reflects(u.session, OpsIn(u.operation_log) \ OpsIn(u.pending),
                       OpsIn(u.operation_log))
        BY <1>2, <2>2, <2>3, ReplicaFacts, AcceptReflects DEF Log, Pending
    <2>5. Reflects(crdt'[p].session,
                   OpsIn(crdt'[p].operation_log) \ OpsIn(crdt'[p].pending),
                   OpsIn(crdt'[p].operation_log))
        BY <2>1, <2>4
    <2>6. ASSUME NEW q \in Peers
          PROVE  Reflects(crdt'[q].session, Applied(q)', Log(q)')
        <3>1. CASE q = p
            BY <2>5, <3>1 DEF Applied, Log, Pending
        <3>2. CASE q # p
            BY <2>1, <3>2 DEF SessionsReflect, Applied, Log, Pending
        <3> QED
            BY <3>1, <3>2
    <2> QED
        BY <2>6 DEF SessionsReflect
<1> QED
    BY <1>3, <1>4

\* Every step keeps the sessions what the applied operations make them.
LEMMA NextReflects ==
    ASSUME IndInv, SessionsReflect, [Next]_vars
    PROVE  SessionsReflect'
<1>1. ASSUME NEW p \in Peers, NEW operation \in Edits[p], Issue(p, operation)
      PROVE  SessionsReflect'
    BY <1>1, EditIsOperation, IssueReflects
<1>2. ASSUME NEW p \in Peers, NEW o \in sent, ApplyRemote(p, o)
      PROVE  SessionsReflect'
    BY <1>2, ReceiveReflects
<1>3. CASE UNCHANGED vars
    BY <1>3 DEF vars, SessionsReflect, Applied, Log, Pending
<1> QED
    BY <1>1, <1>2, <1>3 DEF Next, ApplyLocal

\* In every state every session is what the operations applied to it make
\* it, in whatever order they came and however long some of them waited.
THEOREM SessionInvariance == Spec => []SessionsReflect
<1>1. IndInv /\ SessionsReflect /\ [Next]_vars => SessionsReflect'
    BY NextReflects
<1> QED
    BY <1>1, InitReflects, Invariance, PTL DEF Spec

\* With distinct ids there is one top write, the one LastWrite names.
LEMMA TopIsLast ==
    ASSUME NEW ops \in SUBSET Stamped, NEW f, NEW reg,
           \A a, b \in ops : a.op_id = b.op_id => a = b,
           IsTop(reg, WritesTo(ops, f))
    PROVE  reg = LastWrite(ops, f)
<1> DEFINE Writers == {o \in ops : f \in DOMAIN o.operation.writes}
           IsLast(w) == /\ f \in DOMAIN w.operation.writes
                        /\ \A x \in ops : f \in DOMAIN x.operation.writes
                                => ~TagLess(w.op_id, x.op_id)
           w == CHOOSE o \in ops : IsLast(o)
<1>1. CASE Writers = {}
    <2>1. WritesTo(ops, f) = {}
        BY <1>1 DEF WritesTo
    <2> QED
        BY <1>1, <2>1 DEF IsTop, LastWrite
<1>2. CASE Writers # {}
    <2>1. WritesTo(ops, f) # {}
        BY <1>2 DEF WritesTo
    <2>2. /\ reg \in WritesTo(ops, f)
          /\ \A x \in WritesTo(ops, f) : ~TagLess(reg.tag, x.tag)
        BY <2>1 DEF IsTop
    <2>3. PICK o \in Writers : reg = Written(o.operation.writes[f], o.op_id)
        BY <2>2 DEF WritesTo
    <2>4. reg.tag = o.op_id
        BY <2>3 DEF Written
    <2>5. ASSUME NEW x \in ops, f \in DOMAIN x.operation.writes
          PROVE  ~TagLess(o.op_id, x.op_id)
        <3>1. Written(x.operation.writes[f], x.op_id) \in WritesTo(ops, f)
            BY <2>5 DEF WritesTo
        <3>2. Written(x.operation.writes[f], x.op_id).tag = x.op_id
            BY DEF Written
        <3> QED
            BY <2>2, <2>4, <3>1, <3>2
    <2>6. o \in ops /\ IsLast(o)
        BY <2>5
    <2>7. w \in ops /\ IsLast(w)
        <3> HIDE DEF IsLast
        <3> QED
            BY <2>6
    <2>8. w.op_id = o.op_id
        <3>1. ~TagLess(o.op_id, w.op_id) /\ ~TagLess(w.op_id, o.op_id)
            BY <2>3, <2>5, <2>7
        <3>2. o.op_id \in OpTag /\ w.op_id \in OpTag
            BY <2>6, <2>7, StampedTag
        <3> QED
            BY <3>1, <3>2, TagOrder
    <2>9. w = o
        BY <2>6, <2>7, <2>8
    <2>10. LastWrite(ops, f) = Written(w.operation.writes[f], w.op_id)
        BY <1>2 DEF LastWrite
    <2> QED
        BY <2>3, <2>9, <2>10
<1> QED
    BY <1>1, <1>2

\* What a session reflects, in the words of the property.
LEMMA ReflectsLastWrites == IndInv /\ SessionsReflect => LastWriterWins
<1> SUFFICES ASSUME IndInv, SessionsReflect, NEW p \in Peers
             PROVE  LET s == crdt[p].session
                    IN  /\ \A c \in ClipId : Exists(s.clips, c) =>
                            \A f \in ClipField :
                                s.clips[c].regs[f] = LastWrite(ClipEditsOf(p, c), f)
                        /\ \A t \in TrackId : Exists(s.tracks, t) =>
                            \A f \in TrackField :
                                s.tracks[t].regs[f] = LastWrite(TrackEditsOf(p, t), f)
                        /\ \A f \in MetaField :
                                s.metadata[f] =
                                    LastWrite({o \in Applied(p) :
                                                    o.operation \in MetadataEdit}, f)
    BY DEF LastWriterWins
<1> DEFINE s == crdt[p].session
           ops == Applied(p)
<1>1. /\ ops \in SUBSET Stamped
      /\ \A a, b \in ops : a.op_id = b.op_id => a = b
    BY ReplicaFacts DEF Applied
<1>2. Reflects(s, ops, Log(p))
    BY DEF SessionsReflect
<1>3. /\ \A c : ClipEditsOf(p, c) = EditsOfClip(ops, c)
      /\ \A t : TrackEditsOf(p, t) = EditsOfTrack(ops, t)
      /\ {o \in ops : o.operation \in MetadataEdit} = MetadataEdits(ops)
    BY DEF ClipEditsOf, TrackEditsOf, EditsOfClip, EditsOfTrack, MetadataEdits
<1> HIDE DEF ops, s
<1>4. ASSUME NEW c \in ClipId, Exists(s.clips, c), NEW f \in ClipField
      PROVE  s.clips[c].regs[f] = LastWrite(EditsOfClip(ops, c), f)
    <2>1. IsTop(s.clips[c].regs[f], WritesTo(EditsOfClip(ops, c), f))
        BY <1>2, <1>4 DEF Reflects, ClipReflects
    <2>2. EditsOfClip(ops, c) \subseteq ops
        BY DEF EditsOfClip
    <2> QED
        BY <1>1, <2>1, <2>2, TopIsLast
<1>5. ASSUME NEW t \in TrackId, Exists(s.tracks, t), NEW f \in TrackField
      PROVE  s.tracks[t].regs[f] = LastWrite(EditsOfTrack(ops, t), f)
    <2>1. IsTop(s.tracks[t].regs[f], WritesTo(EditsOfTrack(ops, t), f))
        BY <1>2, <1>5 DEF Reflects, TrackReflects
    <2>2. EditsOfTrack(ops, t) \subseteq ops
        BY DEF EditsOfTrack
    <2> QED
        BY <1>1, <2>1, <2>2, TopIsLast
<1>6. ASSUME NEW f \in MetaField
      PROVE  s.metadata[f] = LastWrite(MetadataEdits(ops), f)
    <2>1. IsTop(s.metadata[f], WritesTo(MetadataEdits(ops), f))
        BY <1>2 DEF Reflects
    <2>2. MetadataEdits(ops) \subseteq ops
        BY DEF MetadataEdits
    <2> QED
        BY <1>1, <2>1, <2>2, TopIsLast
<1> QED
    BY <1>3, <1>4, <1>5, <1>6 DEF s, ops

\* Whatever the order of arrival, the buffering and the retries, every
\* register of every replica holds the greatest of the writes applied to it.
THEOREM LastWriteWins == Spec => []LastWriterWins
BY Invariance, SessionInvariance, ReflectsLastWrites, PTL

\* What still waits after an operation was received misses a target.
LEMMA ReceiveLeavesOrphans ==
    ASSUME IndInv, SessionsReflect, NEW p \in Peers, NEW o \in sent,
           ApplyRemote(p, o), o.op_id \notin crdt[p].seen
    PROVE  \A x \in Pending(p)' :
                MissingTargets(crdt'[p].session, x.operation) # {}
<1> DEFINE t == crdt[p]
<1>1. crdt' = [crdt EXCEPT ![p] = Receive(t, o)]
    BY DEF ApplyRemote
<1>2. crdt \in [Peers -> Timeline] /\ o \in Stamped
    BY DEF IndInv, TypeOK, Stamped
<1>3. crdt'[p] = Accept(t, o)
    BY <1>1, <1>2 DEF Receive
<1>4. o.op_id \notin IdsIn(t.operation_log)
    BY DEF IndInv, LogHasNoDuplicates
<1>5. Reflects(t.session, OpsIn(t.operation_log) \ OpsIn(t.pending),
               OpsIn(t.operation_log))
    BY DEF SessionsReflect, Applied, Log, Pending
<1>6. LET u == Accept(t, o)
      IN  \A x \in OpsIn(u.pending) : MissingTargets(u.session, x.operation) # {}
    BY <1>2, <1>4, <1>5, ReplicaFacts, AcceptReflects DEF Log, Pending
<1> QED
    BY <1>3, <1>6 DEF Pending

\* Once an operation is received, all that still waits misses a target: the
\* passes of drain_pending never stop early.
THEOREM OnlyOrphansWait == Spec => DrainLeavesOrphans
<1> DEFINE Orphans ==
        \A p \in Peers :
            (\E o \in sent : ApplyRemote(p, o) /\ o.op_id \notin crdt[p].seen)
                => \A x \in Pending(p)' :
                        MissingTargets(crdt[p].session, x.operation)' # {}
<1>1. IndInv /\ SessionsReflect => Orphans
    BY ReceiveLeavesOrphans
<1> QED
    BY <1>1, Invariance, SessionInvariance, PTL DEF DrainLeavesOrphans

-----------------------------------------------------------------------------
(* Convergence: what every session reflects leaves no room for another     *)
(* session that reflects the same operations.                              *)

\* Among writes with distinct tags one is the top.
LEMMA TopUnique ==
    ASSUME NEW W, \A x \in W : x.tag \in OpTag,
           \A x, y \in W : x.tag = y.tag => x = y,
           NEW a, NEW b, IsTop(a, W), IsTop(b, W)
    PROVE  a = b
<1>1. CASE W = {}
    BY <1>1 DEF IsTop
<1>2. CASE W # {}
    <2>1. /\ a \in W /\ b \in W
          /\ ~TagLess(a.tag, b.tag) /\ ~TagLess(b.tag, a.tag)
        BY <1>2 DEF IsTop
    <2>2. a.tag \in OpTag /\ b.tag \in OpTag
        BY <2>1
    <2>3. a.tag = b.tag
        BY <2>1, <2>2, TagOrder
    <2> QED
        BY <2>1, <2>3
<1> QED
    BY <1>1, <1>2

\* An id names one write to a register.
LEMMA WritesDistinct ==
    ASSUME NEW ops, \A a, b \in ops : a.op_id = b.op_id => a = b
    PROVE  /\ \A f : \A x, y \in WritesTo(ops, f) : x.tag = y.tag => x = y
           /\ \A x, y \in AliveWrites(ops) : x.tag = y.tag => x = y
           /\ \A e : \A x, y \in EnvelopeWrites(ops, e) : x.tag = y.tag => x = y
<1>1. ASSUME NEW f, NEW x \in WritesTo(ops, f), NEW y \in WritesTo(ops, f),
             x.tag = y.tag
      PROVE  x = y
    <2>1. PICK a \in ops : x = Written(a.operation.writes[f], a.op_id)
        BY DEF WritesTo
    <2>2. PICK b \in ops : y = Written(b.operation.writes[f], b.op_id)
        BY DEF WritesTo
    <2>3. a.op_id = b.op_id
        BY <1>1, <2>1, <2>2 DEF Written
    <2> QED
        BY <2>1, <2>2, <2>3
<1>2. ASSUME NEW x \in AliveWrites(ops), NEW y \in AliveWrites(ops),
             x.tag = y.tag
      PROVE  x = y
    <2>1. PICK a \in ops : x = Written(a.operation.type \in Reviving, a.op_id)
        BY DEF AliveWrites
    <2>2. PICK b \in ops : y = Written(b.operation.type \in Reviving, b.op_id)
        BY DEF AliveWrites
    <2>3. a.op_id = b.op_id
        BY <1>2, <2>1, <2>2 DEF Written
    <2>4. a = b
        BY <2>3
    <2> QED
        BY <2>1, <2>2, <2>4
<1>3. ASSUME NEW e, NEW x \in EnvelopeWrites(ops, e),
             NEW y \in EnvelopeWrites(ops, e), x.tag = y.tag
      PROVE  x = y
    <2>1. PICK a \in ops : x = Written(a.operation.points, a.op_id)
        BY DEF EnvelopeWrites
    <2>2. PICK b \in ops : y = Written(b.operation.points, b.op_id)
        BY DEF EnvelopeWrites
    <2>3. a.op_id = b.op_id
        BY <1>3, <2>1, <2>2 DEF Written
    <2> QED
        BY <2>1, <2>2, <2>3
<1> QED
    BY <1>1, <1>2, <1>3

\* Registers that hold the top of the same writes are the same.
LEMMA SameTops ==
    ASSUME NEW ops \in SUBSET Stamped,
           \A a, b \in ops : a.op_id = b.op_id => a = b, NEW a, NEW b
    PROVE  /\ \A f : IsTop(a, WritesTo(ops, f)) /\ IsTop(b, WritesTo(ops, f))
                        => a = b
           /\ IsTop(a, AliveWrites(ops)) /\ IsTop(b, AliveWrites(ops)) => a = b
           /\ \A e : IsTop(a, EnvelopeWrites(ops, e))
                     /\ IsTop(b, EnvelopeWrites(ops, e)) => a = b
<1>1. ASSUME NEW f, IsTop(a, WritesTo(ops, f)), IsTop(b, WritesTo(ops, f))
      PROVE  a = b
    BY <1>1, TopUnique, WritesTagged, WritesDistinct
<1>2. ASSUME IsTop(a, AliveWrites(ops)), IsTop(b, AliveWrites(ops))
      PROVE  a = b
    BY <1>2, TopUnique, WritesTagged, WritesDistinct
<1>3. ASSUME NEW e, IsTop(a, EnvelopeWrites(ops, e)),
             IsTop(b, EnvelopeWrites(ops, e))
      PROVE  a = b
    BY <1>3, TopUnique, WritesTagged, WritesDistinct
<1> QED
    BY <1>1, <1>2, <1>3

\* The smallest children at each offset are one set.
LEMMA LeastUnique ==
    ASSUME NEW cuts \in SUBSET (Nat \X Nat), NEW a, NEW b,
           IsLeast(a, cuts), IsLeast(b, cuts)
    PROVE  a = b
<1>1. ASSUME NEW x, NEW y, IsLeast(x, cuts), IsLeast(y, cuts)
      PROVE  x \subseteq y
    <2> SUFFICES ASSUME NEW d \in x
                 PROVE  d \in y
        OBVIOUS
    <2>1. d \in cuts
        BY <1>1 DEF IsLeast
    <2>2. PICK e \in y : e[1] = d[1] /\ e[2] <= d[2]
        BY <1>1, <2>1 DEF IsLeast
    <2>3. e \in cuts
        BY <1>1 DEF IsLeast
    <2>4. PICK f \in x : f[1] = e[1] /\ f[2] <= e[2]
        BY <1>1, <2>3 DEF IsLeast
    <2>5. f = d
        BY <1>1, <2>2, <2>4 DEF IsLeast
    <2>6. d[2] = e[2] /\ d[1] = e[1]
        BY <2>1, <2>2, <2>3, <2>4, <2>5
    <2> QED
        BY <2>1, <2>3, <2>6
<1>2. a \subseteq b /\ b \subseteq a
    BY <1>1
<1> QED
    BY <1>2

\* Two sessions that hold the same but for how clips hang together.
SameEdits(s, t) ==
    /\ s.tracks = t.tracks /\ s.envelopes = t.envelopes
    /\ s.metadata = t.metadata
    /\ \A c \in ClipId :
        /\ Exists(s.clips, c) <=> Exists(t.clips, c)
        /\ Exists(s.clips, c) =>
            /\ s.clips[c].regs = t.clips[c].regs
            /\ s.clips[c].detached = t.clips[c].detached

\* The same operations leave the same tracks.
LEMMA SameTracks ==
    ASSUME NEW s \in SessionState, NEW t \in SessionState,
           NEW ops \in SUBSET Stamped,
           \A a, b \in ops : a.op_id = b.op_id => a = b,
           \A k \in TrackId : TrackReflects(s, ops, k) /\ TrackReflects(t, ops, k)
    PROVE  s.tracks = t.tracks
<1>1. /\ s.tracks \in [TrackId -> Track \cup {Vacant}]
      /\ t.tracks \in [TrackId -> Track \cup {Vacant}]
    BY DEF SessionState
<1> SUFFICES ASSUME NEW k \in TrackId
             PROVE  s.tracks[k] = t.tracks[k]
    BY <1>1
<1> DEFINE edits == EditsOfTrack(ops, k)
<1>2. /\ edits \in SUBSET Stamped
      /\ \A a, b \in edits : a.op_id = b.op_id => a = b
    BY DEF EditsOfTrack
<1>3. TrackReflects(s, ops, k) /\ TrackReflects(t, ops, k)
    OBVIOUS
<1>4. Exists(s.tracks, k) <=> Exists(t.tracks, k)
    BY <1>3 DEF TrackReflects
<1>5. CASE ~Exists(s.tracks, k)
    BY <1>4, <1>5 DEF Exists
<1>6. CASE Exists(s.tracks, k)
    <2>1. s.tracks[k] \in Track /\ t.tracks[k] \in Track
        BY <1>1, <1>4, <1>6 DEF Exists
    <2>2. ASSUME NEW f \in TrackField
          PROVE  s.tracks[k].regs[f] = t.tracks[k].regs[f]
        <3>1. /\ IsTop(s.tracks[k].regs[f], WritesTo(edits, f))
              /\ IsTop(t.tracks[k].regs[f], WritesTo(edits, f))
            BY <1>3, <1>4, <1>6 DEF TrackReflects
        <3> QED
            BY <1>2, <3>1, SameTops
    <2>3. /\ IsTop(s.tracks[k].alive, AliveWrites(edits))
          /\ IsTop(t.tracks[k].alive, AliveWrites(edits))
        BY <1>3, <1>4, <1>6 DEF TrackReflects
    <2>4. s.tracks[k].alive = t.tracks[k].alive
        BY <1>2, <2>3, SameTops
    <2>5. s.tracks[k].regs = t.tracks[k].regs
        BY <2>1, <2>2 DEF Track
    <2> QED
        BY <2>1, <2>4, <2>5 DEF Track
<1> QED
    BY <1>5, <1>6

\* The same operations leave the same session, but for splits that share a
\* piece.
LEMMA SameOpsSameEdits ==
    ASSUME NEW s \in SessionState, NEW t \in SessionState,
           NEW log \in SUBSET Stamped, NEW ops \in SUBSET log,
           \A a, b \in ops : a.op_id = b.op_id => a = b,
           Reflects(s, ops, log), Reflects(t, ops, log)
    PROVE  SameEdits(s, t)
<1>0. ops \in SUBSET Stamped
    OBVIOUS
<1>1. s.tracks = t.tracks
    BY <1>0, SameTracks DEF Reflects
<1>2. s.envelopes = t.envelopes
    <2>1. /\ s.envelopes \in [Target -> Register(Nat)]
          /\ t.envelopes \in [Target -> Register(Nat)]
        BY DEF SessionState
    <2>2. ASSUME NEW e \in Target
          PROVE  s.envelopes[e] = t.envelopes[e]
        BY <1>0, SameTops DEF Reflects
    <2> QED
        BY <2>1, <2>2
<1>3. s.metadata = t.metadata
    <2>1. /\ s.metadata \in [MetaField -> Register(Nat)]
          /\ t.metadata \in [MetaField -> Register(Nat)]
        BY DEF SessionState
    <2>2. ASSUME NEW f \in MetaField
          PROVE  s.metadata[f] = t.metadata[f]
        <3>1. /\ MetadataEdits(ops) \in SUBSET Stamped
              /\ \A a, b \in MetadataEdits(ops) : a.op_id = b.op_id => a = b
            BY <1>0 DEF MetadataEdits
        <3> QED
            BY <3>1, SameTops DEF Reflects
    <2> QED
        BY <2>1, <2>2
<1>4. ASSUME NEW c \in ClipId
      PROVE  /\ Exists(s.clips, c) <=> Exists(t.clips, c)
             /\ Exists(s.clips, c) =>
                    /\ s.clips[c].regs = t.clips[c].regs
                    /\ s.clips[c].detached = t.clips[c].detached
    <2> DEFINE edits == EditsOfClip(ops, c)
    <2>1. ClipReflects(s, ops, c) /\ ClipReflects(t, ops, c)
        BY DEF Reflects
    <2>2. Exists(s.clips, c) <=> Exists(t.clips, c)
        BY <2>1 DEF ClipReflects
    <2>3. /\ edits \in SUBSET Stamped
          /\ \A a, b \in edits : a.op_id = b.op_id => a = b
        BY <1>0 DEF EditsOfClip
    <2>4. ASSUME Exists(s.clips, c)
          PROVE  /\ s.clips[c].regs = t.clips[c].regs
                 /\ s.clips[c].detached = t.clips[c].detached
        <3>1. s.clips[c] \in Clip /\ t.clips[c] \in Clip
            BY <2>2, <2>4 DEF SessionState, Exists
        <3>2. ASSUME NEW f \in ClipField
              PROVE  s.clips[c].regs[f] = t.clips[c].regs[f]
            <4>1. /\ IsTop(s.clips[c].regs[f], WritesTo(edits, f))
                  /\ IsTop(t.clips[c].regs[f], WritesTo(edits, f))
                BY <2>1, <2>2, <2>4 DEF ClipReflects
            <4> QED
                BY <2>3, <4>1, SameTops
        <3>3. s.clips[c].regs = t.clips[c].regs
            BY <3>1, <3>2 DEF Clip
        <3>4. s.clips[c].detached <=> t.clips[c].detached
            BY <2>1, <2>2, <2>4 DEF ClipReflects
        <3>5. /\ s.clips[c].detached \in BOOLEAN
              /\ t.clips[c].detached \in BOOLEAN
            BY <3>1 DEF Clip
        <3>6. s.clips[c].detached = t.clips[c].detached
            BY <3>4, <3>5
        <3> QED
            BY <3>3, <3>6
    <2> QED
        BY <2>2, <2>4
<1> QED
    BY <1>1, <1>2, <1>3, <1>4 DEF SameEdits

\* The same operations leave the same session if no two splits share a piece.
LEMMA SameOpsSameSession ==
    ASSUME NEW s \in SessionState, NEW t \in SessionState,
           NEW log \in SUBSET Stamped, NEW ops \in SUBSET log,
           \A a, b \in ops : a.op_id = b.op_id => a = b,
           Reflects(s, ops, log), Reflects(t, ops, log), OneSplitPerPiece(log)
    PROVE  s = t
<1>1. SameEdits(s, t)
    BY SameOpsSameEdits
<1>2. ASSUME NEW c \in ClipId
      PROVE  s.clips[c] = t.clips[c]
    <2> DEFINE life == EditsOfClip(ops, c) \cup SplitsInto(ops, c)
    <2>1. /\ life \in SUBSET Stamped
          /\ \A a, b \in life : a.op_id = b.op_id => a = b
        BY DEF EditsOfClip, SplitsInto
    <2>2. ClipStructure(s, ops, c) /\ ClipStructure(t, ops, c)
        BY DEF Reflects
    <2>3. Exists(s.clips, c) <=> Exists(t.clips, c)
        BY <1>1 DEF SameEdits
    <2>4. CASE ~Exists(s.clips, c)
        BY <2>3, <2>4 DEF Exists
    <2>5. CASE Exists(s.clips, c)
        <3>1. s.clips[c] \in Clip /\ t.clips[c] \in Clip
            BY <2>3, <2>5 DEF SessionState, Exists
        <3>2. /\ s.clips[c].regs = t.clips[c].regs
              /\ s.clips[c].detached = t.clips[c].detached
            BY <1>1, <2>5 DEF SameEdits
        <3>3. s.clips[c].alive = t.clips[c].alive
            <4>1. /\ IsTop(s.clips[c].alive, AliveWrites(life))
                  /\ IsTop(t.clips[c].alive, AliveWrites(life))
                BY <2>2, <2>3, <2>5 DEF ClipStructure
            <4> QED
                BY <2>1, <4>1, SameTops
        <3>4. s.clips[c].parent = t.clips[c].parent
            BY <2>2, <2>3, <2>5 DEF ClipStructure
        <3>5. s.clips[c].splits = t.clips[c].splits
            <4>1. CutsOf(ops, c) \in SUBSET (Nat \X Nat)
                BY SessionAssumption DEF CutsOf, SplitEdit
            <4> QED
                BY <2>2, <2>3, <2>5, <4>1, LeastUnique DEF ClipStructure
        <3> QED
            BY <3>1, <3>2, <3>3, <3>4, <3>5 DEF Clip
    <2> QED
        BY <2>4, <2>5
<1>3. s.clips = t.clips
    BY <1>2 DEF SessionState
<1> QED
    BY <1>1, <1>3 DEF SessionState, SameEdits

\* Peers that have seen the same ids have logged the same operations.
LEMMA SameSeenSameLog ==
    ASSUME IndInv, NEW p \in Peers, NEW q \in Peers,
           crdt[p].seen = crdt[q].seen
    PROVE  Log(p) = Log(q)
<1>1. ASSUME NEW a \in Peers, NEW b \in Peers, crdt[a].seen = crdt[b].seen
      PROVE  Log(a) \subseteq Log(b)
    <2> SUFFICES ASSUME NEW o \in Log(a)
                 PROVE  o \in Log(b)
        OBVIOUS
    <2>1. /\ crdt[a].seen = IdsIn(crdt[a].operation_log)
          /\ crdt[b].seen = IdsIn(crdt[b].operation_log)
        BY DEF IndInv, LogHasNoDuplicates
    <2>2. o.op_id \in IdsIn(crdt[b].operation_log)
        BY <1>1, <2>1 DEF IdsIn, Log
    <2>3. PICK x \in Log(b) : x.op_id = o.op_id
        BY <2>2 DEF IdsIn, Log
    <2>4. x \in sent /\ o \in sent
        BY <2>3 DEF IndInv, ClockCoversLog
    <2> QED
        BY <2>3, <2>4 DEF IndInv, OpIdsUnique
<1>2. Log(p) \subseteq Log(q) /\ Log(q) \subseteq Log(p)
    BY <1>1
<1> QED
    BY <1>2

\* What two peers that have seen the same and wait for nothing reflect.
LEMMA SameSeenReflect ==
    ASSUME IndInv, SessionsReflect, NEW p \in Peers, NEW q \in Peers,
           crdt[p].seen = crdt[q].seen, Pending(p) = {}, Pending(q) = {}
    PROVE  /\ crdt[p].session \in SessionState /\ crdt[q].session \in SessionState
           /\ Log(p) \in SUBSET Stamped
           /\ \A a, b \in Log(p) : a.op_id = b.op_id => a = b
           /\ Reflects(crdt[p].session, Log(p), Log(p))
           /\ Reflects(crdt[q].session, Log(p), Log(p))
<1>1. Log(q) = Log(p)
    BY SameSeenSameLog
<1>2. Applied(p) = Log(p) /\ Applied(q) = Log(p)
    BY <1>1 DEF Applied
<1>3. /\ Reflects(crdt[p].session, Log(p), Log(p))
      /\ Reflects(crdt[q].session, Log(p), Log(p))
    BY <1>1, <1>2 DEF SessionsReflect
<1>4. crdt[p] \in Timeline /\ crdt[q] \in Timeline
    BY ReplicaFacts
<1> QED
    BY <1>3, <1>4, ReplicaFacts DEF Timeline

\* Whatever is edited by whom and in whatever order it arrives, replicas that
\* have seen the same operations agree on which clips and tracks there are and
\* on all that edits have written to them.
EditsConverge ==
    \A p, q \in Peers :
        crdt[p].seen = crdt[q].seen /\ Pending(p) = {} /\ Pending(q) = {}
            => SameEdits(crdt[p].session, crdt[q].session)

\* It holds wherever the sessions reflect the logs.
LEMMA ReflectsEdits == IndInv /\ SessionsReflect => EditsConverge
<1> SUFFICES ASSUME IndInv, SessionsReflect, NEW p \in Peers, NEW q \in Peers,
                    crdt[p].seen = crdt[q].seen,
                    Pending(p) = {}, Pending(q) = {}
             PROVE  SameEdits(crdt[p].session, crdt[q].session)
    BY DEF EditsConverge
<1> QED
    BY SameSeenReflect, SameOpsSameEdits

\* In every state, for any edits, losses, duplicates and orders of arrival.
THEOREM EditConvergence == Spec => []EditsConverge
BY Invariance, SessionInvariance, ReflectsEdits, PTL

\* So does the agreement of the whole sessions, under the condition below.
LEMMA ReflectsSessions ==
    IndInv /\ SessionsReflect => (OneSplitPerPiece(sent) => Convergence)
<1> SUFFICES ASSUME IndInv, SessionsReflect, OneSplitPerPiece(sent),
                    NEW p \in Peers, NEW q \in Peers,
                    crdt[p].seen = crdt[q].seen,
                    Pending(p) = {}, Pending(q) = {}
             PROVE  crdt[p].session = crdt[q].session
    BY DEF Convergence
<1>1. OneSplitPerPiece(Log(p))
    BY DEF IndInv, ClockCoversLog, OneSplitPerPiece
<1> QED
    BY <1>1, SameSeenReflect, SameOpsSameSession

\* Convergence of the whole session, hidden registers, tags, parents and
\* splits included, as long as the id of a piece is used for one split only.
\* Without the condition it fails: of two splits that name one child the
\* loser makes the clip in one order and nothing in the other.
THEOREM SplitConvergence == Spec => [](OneSplitPerPiece(sent) => Convergence)
BY Invariance, SessionInvariance, ReflectsSessions, PTL

=============================================================================
