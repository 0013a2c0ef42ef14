-------------------------- MODULE ReplicatedOpSet --------------------------
(***************************************************************************)
(* What the replication layer of tpt-av-sync-crdt promises, without logs,  *)
(* buffers or clocks: a grow-only set of operations that every replica     *)
(* learns piece by piece.  A replica stamps an operation, without talking  *)
(* to anyone, with an id no other operation has and that outranks all it   *)
(* knows; what it learns, one operation or a snapshot's, was published.     *)
(***************************************************************************)
EXTENDS Clocks

CONSTANT
    Content     \* Content[p]: what peer p may publish

VARIABLES
    published,  \* every operation, as a pair of its id and its content
    known       \* known[p]: those that replica p has published or learned

vars == <<published, known>>

Id(p) == [lamport : 1..MaxLamport, peer : {p}]

Init ==
    /\ published = {}
    /\ known = [p \in Peers |-> {}]

Publish(p) ==
    \E id \in Id(p), content \in Content[p] :
        /\ \A o \in published : o[1] # id
        /\ \A o \in known[p] : TagLess(o[1], id)
        /\ published' = published \cup {<<id, content>>}
        /\ known' = [known EXCEPT ![p] = @ \cup {<<id, content>>}]

Learn(p) ==
    \E ops \in SUBSET published :
        /\ known' = [known EXCEPT ![p] = @ \cup ops]
        /\ UNCHANGED published

Next == \E p \in Peers : Learn(p) \/ Publish(p)

Spec == Init /\ [][Next]_vars

=============================================================================
