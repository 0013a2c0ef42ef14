----------------------------- MODULE LwwRegister -----------------------------
(***************************************************************************)
(* The last-writer-wins register of tpt-av-sync-crdt (merge.rs) and the    *)
(* way the per-entity CRDTs use it: an entity is a function from field     *)
(* names to registers, and an operation is a partial function from field   *)
(* names to the values it writes, all of them at the operation's tag.      *)
(***************************************************************************)
EXTENDS Clocks

Register(V) == [value : V, tag : OpTag]

\* LwwReg::new and LwwReg::new_initial.
Written(v, tag) == [value |-> v, tag |-> tag]
NewInitial(v) == Written(v, InitialTag)

Unwritten(reg) == reg.tag = InitialTag

\* Mutant: the last write to arrive wins.
SetAlways(reg, v, tag) == Written(v, tag)

\* LwwReg::set: only a strictly greater tag wins.
Set(reg, v, tag) == IF TagLess(reg.tag, tag) THEN Written(v, tag) ELSE reg

\* The partial functions from the fields f and g to values in V.
NoWrites == [x \in {} |-> 0]
Writes(f, g, V) == {NoWrites} \cup [{f} -> V] \cup [{g} -> V] \cup [{f, g} -> V]

\* A fresh entity whose every field is written at tag.
AllWritten(writes, tag) == [f \in DOMAIN writes |-> Written(writes[f], tag)]

\* One operation's writes, attempted field by field.
SetAll(regs, writes, tag) ==
    [f \in DOMAIN regs |->
        IF f \in DOMAIN writes THEN Set(regs[f], writes[f], tag) ELSE regs[f]]

=============================================================================
