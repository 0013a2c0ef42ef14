------------------------------- MODULE Clocks -------------------------------
(***************************************************************************)
(* The logical clocks of tpt-av-sync-utils (clock.rs, operation_id.rs) and *)
(* the total order on operation tags of tpt-av-sync-crdt (merge.rs).       *)
(*                                                                         *)
(* PeerId is a u64 and its order breaks ties between equal Lamport         *)
(* timestamps, so peers are natural numbers here, never model values.      *)
(* Peer 0 is the tag of a register nobody has written.                     *)
(***************************************************************************)
EXTENDS Naturals

CONSTANTS
    Peers,        \* the peers that edit the session
    MaxLamport    \* the largest Lamport timestamp (u64::MAX in the code)

ASSUME ClockAssumption ==
    /\ Peers \subseteq Nat \ {0}
    /\ MaxLamport \in Nat

-----------------------------------------------------------------------------
(* OpTag and OperationId are the same pair of a timestamp and a peer.      *)

OpTag == [lamport : Nat, peer : Nat]

InitialTag == [lamport |-> 0, peer |-> 0]

\* Mutant: no tie-break between concurrent writes.
TagLessByLamport(a, b) == a.lamport < b.lamport

\* The derived lexicographic order: timestamp first, peer second.
TagLess(a, b) ==
    \/ a.lamport < b.lamport
    \/ a.lamport = b.lamport /\ a.peer < b.peer

-----------------------------------------------------------------------------
(* LamportClock                                                            *)

\* A saturating increment.
Tick(counter) == IF counter < MaxLamport THEN counter + 1 ELSE counter

\* Mutants: a clock set back by an old operation, and one that never looks.
ObserveOverwrite(counter, remote) == remote
ObserveNothing(counter, remote) == counter

Observe(counter, remote) == IF remote > counter THEN remote ELSE counter

-----------------------------------------------------------------------------
(* VectorClock: a peer without an entry counts as zero, which is what get  *)
(* returns and what every comparison in the code treats it as.             *)

VectorClock == [Peers -> Nat]

ZeroClock == [p \in Peers |-> 0]

Increment(vc, p) == [vc EXCEPT ![p] = @ + 1]

\* Mutant: an old operation that arrives late sets the entry back.
WitnessOverwrite(vc, p, value) == [vc EXCEPT ![p] = value]

Witness(vc, p, value) == [vc EXCEPT ![p] = Observe(@, value)]

Merge(vc, other) == [p \in Peers |-> Observe(vc[p], other[p])]

HappensBefore(a, b) ==
    /\ \A p \in Peers : a[p] <= b[p]
    /\ \E p \in Peers : a[p] < b[p]

IsConcurrent(a, b) == ~HappensBefore(a, b) /\ ~HappensBefore(b, a) /\ a # b

=============================================================================
