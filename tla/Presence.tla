------------------------------ MODULE Presence ------------------------------
(***************************************************************************)
(* Presence awareness (presence.rs, activity.rs): every peer publishes     *)
(* when it was last active and keeps what the others published, and ages   *)
(* both with the same timeouts whenever the application calls tick.        *)
(*                                                                         *)
(* Updates travel in order between two peers and are lost with the         *)
(* connection.  Time is the wall clock the application passes in, the same *)
(* for all peers.  Names, avatars and cursors are data no status depends   *)
(* on; moving the cursor is activity like any other.                       *)
(***************************************************************************)
EXTENDS Naturals, Sequences

CONSTANTS
    Users,
    IdleAfter,          \* IdleConfig::idle_after_ms
    OfflineAfter,       \* IdleConfig::offline_after_ms
    Publishers,         \* bound: the users whose activity the others follow
    MaxTime,            \* bound: the last moment
    LastInput,          \* bound: nobody is active after this moment
    MaxInFlight         \* bound: updates under way between two peers

ASSUME PresenceAssumption ==
    /\ IdleAfter \in Nat \ {0}
    /\ OfflineAfter \in Nat
    /\ IdleAfter <= OfflineAfter
    /\ Publishers \subseteq Users
    /\ MaxTime \in Nat /\ LastInput \in Nat /\ MaxInFlight \in Nat

VARIABLES
    now,        \* the time
    gone,       \* the peers that have left or stopped
    local,      \* local[p]: local_user
    remotes,    \* remotes[q][p]: the entry q has for p, or Unknown
    updates     \* updates[p][q]: updates of p on their way to q

presenceVars == <<now, gone, local, remotes, updates>>

-----------------------------------------------------------------------------

States == {"Online", "Idle", "Offline"}

\* IdleConfig::presence_at; the subtraction saturates.
PresenceAt(time, lastActive) ==
    LET idleFor == IF time >= lastActive THEN time - lastActive ELSE 0
    IN IF idleFor >= OfflineAfter THEN "Offline"
       ELSE IF idleFor >= IdleAfter THEN "Idle"
       ELSE "Online"

User == [presence : States, lastActive : Nat]

Unknown == [presence |-> "Offline", lastActive |-> 0, tracked |-> FALSE]
Entry == [presence : States, lastActive : Nat, tracked : BOOLEAN]

Update == [user : User, leaving : BOOLEAN]

PresenceInit ==
    /\ now = 0
    /\ gone = {}
    /\ local = [p \in Users |-> [presence |-> "Online", lastActive |-> 0]]
    /\ remotes = [q \in Users |-> [p \in Users |-> Unknown]]
    /\ updates = [p \in Users |-> [q \in Users |-> <<>>]]

Advance ==
    /\ now < MaxTime
    /\ now' = now + 1
    /\ UNCHANGED <<gone, local, remotes, updates>>

\* note_local_activity, update_local_cursor.
NoteActivity(p) ==
    /\ p \notin gone
    /\ now <= LastInput
    /\ local' = [local EXCEPT ![p].lastActive = now]
    /\ UNCHANGED <<now, gone, remotes, updates>>

Sent(p, update) ==
    [updates EXCEPT ![p] = [q \in Users |-> IF q = p THEN @[q]
                                            ELSE Append(@[q], update)]]

Room(p) == \A q \in Users : Len(updates[p][q]) < MaxInFlight

\* generate_update, broadcast by the application.
Publish(p) ==
    /\ p \notin gone /\ Room(p)
    /\ updates' = Sent(p, [user |-> local[p], leaving |-> FALSE])
    /\ UNCHANGED <<now, gone, local, remotes>>

\* generate_leave_update, broadcast as the last one.
LeaveSession(p) ==
    /\ p \notin gone /\ Room(p)
    /\ local' = [local EXCEPT ![p].presence = "Offline"]
    /\ updates' = Sent(p, [user |-> local'[p], leaving |-> TRUE])
    /\ gone' = gone \cup {p}
    /\ UNCHANGED <<now, remotes>>

\* The peer stops without a word.
Vanish(p) ==
    /\ p \notin gone
    /\ gone' = gone \cup {p}
    /\ UNCHANGED <<now, local, remotes, updates>>

\* receive_update's entry: what was published, and Offline where the peer is
\* leaving.
Received(update) ==
    [presence |-> IF update.leaving THEN "Offline" ELSE update.user.presence,
     lastActive |-> update.user.lastActive,
     tracked |-> TRUE]

ReceiveUpdate(q, p) ==
    /\ q \notin gone
    /\ updates[p][q] # <<>>
    /\ remotes' = [remotes EXCEPT ![q][p] = Received(Head(updates[p][q]))]
    /\ updates' = [updates EXCEPT ![p][q] = Tail(@)]
    /\ UNCHANGED <<now, gone, local>>

\* The connection is found broken: what was under way is lost, and
\* handle_peer_leave marks the peer.
HandlePeerLeave(q, p) ==
    /\ q \notin gone /\ q # p
    /\ remotes' = [remotes EXCEPT ![q][p].presence = "Offline"]
    /\ updates' = [updates EXCEPT ![p][q] = <<>>]
    /\ UNCHANGED <<now, gone, local>>

\* Mutant: only peers that are still online age.
AgedOnline(entry) ==
    IF entry.tracked /\ entry.presence = "Online"
    THEN [entry EXCEPT !.presence = PresenceAt(now, entry.lastActive)]
    ELSE entry

\* A status is what the age of the last activity makes it.
Aged(entry) ==
    IF entry.tracked
    THEN [entry EXCEPT !.presence = PresenceAt(now, entry.lastActive)]
    ELSE entry

\* tick recomputes the local status and every remote one, Offline included.
Tick(q) ==
    /\ q \notin gone
    /\ local' = [local EXCEPT ![q].presence = PresenceAt(now, local[q].lastActive)]
    /\ remotes' = [remotes EXCEPT ![q] = [p \in Users |-> Aged(@[p])]]
    /\ UNCHANGED <<now, gone, updates>>

PresenceNext ==
    \/ Advance
    \/ \E p \in Users :
          \/ Vanish(p) \/ Tick(p)
          \/ \E q \in Users : ReceiveUpdate(p, q) \/ HandlePeerLeave(p, q)
    \/ \E p \in Publishers :
          \/ NoteActivity(p) \/ Publish(p) \/ LeaveSession(p)

\* Time passes and running peers keep calling tick; nobody has to publish,
\* and what was published need not arrive.
PresenceFairness ==
    /\ WF_presenceVars(Advance)
    /\ \A q \in Users : WF_presenceVars(Tick(q))

PresenceSpec ==
    PresenceInit /\ [][PresenceNext]_presenceVars /\ PresenceFairness

-----------------------------------------------------------------------------
(* Properties                                                              *)

PresenceTypeOK ==
    /\ now \in Nat
    /\ gone \subseteq Users
    /\ local \in [Users -> User]
    /\ remotes \in [Users -> [Users -> Entry]]
    /\ updates \in [Users -> [Users -> Seq(Update)]]

\* A user that left, vanished or fell silent is eventually shown offline for
\* good by every peer that runs, although tick forgets that it was marked
\* offline when it left.
SilentEventuallyOffline ==
    <>[](\A q \in Users, p \in gone :
            q \notin gone => remotes[q][p].presence = "Offline")

=============================================================================
