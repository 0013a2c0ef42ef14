----------------------------- MODULE RelayStore -----------------------------
(***************************************************************************)
(* The operation log of one room in the relay's SessionStore               *)
(* (persistence.rs): length-prefixed frames in a current file that is      *)
(* moved aside, one generation retained, when a limit is reached.          *)
(*                                                                         *)
(* The relay calls the store under a lock, so calls never overlap; what    *)
(* does happen between the steps of one is a crash of the server.  A file  *)
(* is a sequence of cells: a length prefix is one cell, an operation takes *)
(* OpSize cells.  A file that does not exist reads as an empty one.        *)
(***************************************************************************)
EXTENDS Integers, Sequences

CONSTANTS
    LogOps,             \* the operations offered, numbered in that order
    OpSize,             \* OpSize[o]: cells of the encoded operation
    MaxOpsPerRoom,      \* StoreLimits::max_ops_per_room
    MaxCellsPerRoom,    \* StoreLimits::max_bytes_per_room
    GarbageLength,      \* what data reads as when taken for a length prefix
    MaxCrashes          \* bound: crashes of the server

ASSUME StoreAssumption ==
    /\ LogOps \subseteq Nat \ {0}
    /\ OpSize \in [LogOps -> Nat \ {0}]
    /\ MaxOpsPerRoom \in Nat
    /\ MaxCellsPerRoom \in Nat
    /\ GarbageLength \in Nat
    /\ MaxCrashes \in Nat

VARIABLES
    current,    \* the cells of <room>.opslog
    rotated,    \* the cells of <room>.opslog.1
    count,      \* counts[room], Uncounted while the map has no entry
    step,       \* the step append_op is at, or "idle", or "down"
    writing,    \* the operation append_op was called with
    recorded,   \* history: the operations whose frame was written whole
    torn,       \* history: the files a write was cut short in
    crashes     \* crashes so far

storeVars == <<current, rotated, count, step, writing, recorded, torn, crashes>>

-----------------------------------------------------------------------------
(* Frames                                                                  *)

\* Of operation 0: the prefix that announces n cells.  Of operation o: the
\* n-th cell of its encoding.
Cell == [op : LogOps \cup {0}, n : Nat]

FrameOf(o) ==
    <<[op |-> 0, n |-> OpSize[o]]>> \o [i \in 1..OpSize[o] |-> [op |-> o, n |-> i]]

\* Four bytes taken for a length prefix.
LengthAt(file, k) == IF file[k].op = 0 THEN file[k].n ELSE GarbageLength

\* wire::decode: the operation of which these are the cells, or nothing.
Decode(cells) ==
    LET o == cells[1].op
    IN IF cells # <<>> /\ o # 0 /\ cells = Tail(FrameOf(o)) THEN <<o>> ELSE <<>>

\* Both readers stop at the first frame that would end beyond the file.
FrameEnd(file, k) == k + LengthAt(file, k)
IsWhole(file, k) == k <= Len(file) /\ FrameEnd(file, k) <= Len(file)

\* The frames from the k-th cell on, for every k.
CountFrom(file) ==
    LET whole[k \in 1..Len(file) + 1] ==
            IF IsWhole(file, k) THEN 1 + whole[FrameEnd(file, k) + 1] ELSE 0
    IN whole

CountFrames(file) == CountFrom(file)[1]

\* What they decode to.
ReadFrom(file) ==
    LET read[k \in 1..Len(file) + 1] ==
            IF IsWhole(file, k)
            THEN Decode(SubSeq(file, k + 1, FrameEnd(file, k)))
                     \o read[FrameEnd(file, k) + 1]
            ELSE <<>>
    IN read

ReadFrames(file) == ReadFrom(file)[1]

\* Mutant: the generations are read in the wrong order.
LoadOpsSwapped == ReadFrames(current) \o ReadFrames(rotated)

\* What a joining peer is sent.
LoadOps == ReadFrames(rotated) \o ReadFrames(current)

-----------------------------------------------------------------------------
(* append_op and rotate                                                    *)

Uncounted == -1

StoreInit ==
    /\ current = <<>>
    /\ rotated = <<>>
    /\ count = Uncounted
    /\ step = "idle"
    /\ writing = 0
    /\ recorded = <<>>
    /\ torn = {}
    /\ crashes = 0

Counted == IF count = Uncounted THEN CountFrames(current) ELSE count

\* Mutant: the frame that is about to be written is not counted in.
RotateDueLate(o) ==
    \/ Counted >= MaxOpsPerRoom
    \/ Len(current) > MaxCellsPerRoom

\* The frame to be written counts, but not as an operation.
RotateDue(o) ==
    \/ Counted >= MaxOpsPerRoom
    \/ Len(current) + Len(FrameOf(o)) > MaxCellsPerRoom

\* append_op up to the first change of a file.
BeginAppend(o) ==
    /\ step = "idle"
    /\ o > writing
    /\ writing' = o
    /\ step' = IF RotateDue(o) THEN "remove" ELSE "write"
    /\ count' = IF RotateDue(o) THEN 0 ELSE Counted + 1
    /\ UNCHANGED <<current, rotated, recorded, torn, crashes>>

\* fs::remove_file of the retained generation.
RemoveRotated ==
    /\ step = "remove"
    /\ rotated' = <<>>
    /\ torn' = torn \ {"rotated"}
    /\ step' = "rename"
    /\ UNCHANGED <<current, count, writing, recorded, crashes>>

\* fs::rename of the current file.
RenameCurrent ==
    /\ step = "rename"
    /\ rotated' = current
    /\ current' = <<>>
    /\ torn' = IF "current" \in torn THEN {"rotated"} ELSE {}
    /\ count' = 1
    /\ step' = "write"
    /\ UNCHANGED <<writing, recorded, crashes>>

\* The first n cells of the frame reach the file.
Written(n) ==
    /\ current' = current \o SubSeq(FrameOf(writing), 1, n)
    /\ recorded' = IF n = Len(FrameOf(writing)) THEN Append(recorded, writing)
                                              ELSE recorded

WriteFrame ==
    /\ step = "write"
    /\ Written(Len(FrameOf(writing)))
    /\ step' = "idle"
    /\ UNCHANGED <<rotated, count, writing, torn, crashes>>

\* The server stops; of a frame that was being written, n cells have reached
\* the file.  The counts are in memory.
CrashAfter(n) ==
    /\ step # "down"
    /\ crashes < MaxCrashes
    /\ crashes' = crashes + 1
    /\ step' = "down"
    /\ count' = Uncounted
    /\ IF step = "write" THEN Written(n) ELSE UNCHANGED <<current, recorded>>
    /\ torn' = IF n # 0 /\ n < Len(FrameOf(writing)) THEN torn \cup {"current"} ELSE torn
    /\ UNCHANGED <<rotated, writing>>

Crash ==
    \/ step # "write" /\ CrashAfter(0)
    \/ step = "write" /\ \E n \in 0..Len(FrameOf(writing)) : CrashAfter(n)

\* A server starts on the same directory.
Reopen ==
    /\ step = "down"
    /\ step' = "idle"
    /\ UNCHANGED <<current, rotated, count, writing, recorded, torn, crashes>>

StoreNext ==
    \/ \E o \in LogOps : BeginAppend(o)
    \/ RemoveRotated
    \/ RenameCurrent
    \/ WriteFrame
    \/ Crash
    \/ Reopen

StoreSpec == StoreInit /\ [][StoreNext]_storeVars

-----------------------------------------------------------------------------
(* Properties                                                              *)

StoreTypeOK ==
    /\ current \in Seq(Cell)
    /\ rotated \in Seq(Cell)
    /\ count \in Nat \cup {Uncounted}
    /\ step \in {"idle", "remove", "rename", "write", "down"}
    /\ writing \in LogOps \cup {0}
    /\ step \in {"remove", "rename", "write"} => writing \in LogOps
    /\ recorded \in Seq(LogOps)
    /\ torn \subseteq {"current", "rotated"}
    /\ crashes \in Nat

\* The last n operations whose frames were written whole.
Newest(n) == SubSeq(recorded, Len(recorded) - n + 1, Len(recorded))

\* What is loaded is as much as a segment takes: one more operation would be
\* too many, or one that has been offered has no room beside it.
FillsSegment ==
    \/ Len(LoadOps) >= MaxOpsPerRoom
    \/ \E o \in LogOps :
          /\ o <= writing
          /\ Len(rotated) + Len(current) + Len(FrameOf(o)) > MaxCellsPerRoom

\* Through rotations, and a crash at any point of any call, the store loads
\* nothing but operations that were written, in their order.  While no file
\* holds a frame that was cut short it loads the newest ones without a gap, and
\* all of them unless those it loads fill a segment.
KeepsRecent ==
    /\ \A i, j \in DOMAIN LoadOps : i <= j =>
            \E k, l \in DOMAIN recorded :
                /\ k <= l /\ (i < j => k < l)
                /\ recorded[k] = LoadOps[i] /\ recorded[l] = LoadOps[j]
    /\ torn = {} =>
          /\ Len(LoadOps) <= Len(recorded) /\ LoadOps = Newest(Len(LoadOps))
          /\ LoadOps = recorded \/ FillsSegment

\* A frame that by itself is larger than the limit, as far as it was written.
IsOversizeFrame(file) ==
    \E o \in LogOps : /\ Len(FrameOf(o)) > MaxCellsPerRoom
                      /\ file = SubSeq(FrameOf(o), 1, Len(file))

\* Neither file outgrows the limit, unless by a frame that does so by itself,
\* and such a frame has the file to itself: the disk a room takes is at most
\* twice max_bytes_per_room, or twice the largest frame where that is more.
DiskBounded ==
    /\ \A file \in {current, rotated} :
            Len(file) <= MaxCellsPerRoom \/ IsOversizeFrame(file)
    /\ step = "write" =>
            \/ current = <<>>
            \/ Len(current) + Len(FrameOf(writing)) <= MaxCellsPerRoom

=============================================================================
