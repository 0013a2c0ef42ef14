------------------------------ MODULE Discovery ------------------------------
(***************************************************************************)
(* Discovery on the local network (discovery.rs, mdns_discovery.rs): peers *)
(* announce themselves, by UDP beacons or through the mDNS daemon, and     *)
(* list the peers whose announcements they have read.                      *)
(*                                                                         *)
(* An entry lives for a time counted from the poll that read the           *)
(* announcement, however long that had been lying there.  Time is the age  *)
(* of entries, so it has no end; an age past the time to live is not told  *)
(* from another.  Names, sessions and addresses are data that travels      *)
(* along.  The daemon is external: it may report a registered peer and one *)
(* that has unregistered, any number of times.                             *)
(***************************************************************************)
EXTENDS Naturals, Sequences, SequencesExt

CONSTANTS
    Stations,
    Ttl,                \* ttl_ms
    MaxUnread           \* bound: announcements waiting at one peer

ASSUME DiscoveryAssumption == Ttl \in Nat /\ MaxUnread \in Nat

VARIABLES
    means,      \* "beacon" or "mdns"
    known,      \* known[q]: the age of the entry for each peer q lists
    unread,     \* unread[q]: what waits in q's socket or channel
    registered, \* the peers the daemons announce
    stopped     \* the peers that have stopped or crashed

discoveryVars == <<means, known, unread, registered, stopped>>

Event == [kind : {"seen", "removed"}, of : Stations]
E(kind, p) == [kind |-> kind, of |-> p]

DiscoveryInit ==
    /\ means \in {"beacon", "mdns"}
    /\ known = [q \in Stations |-> <<>>]
    /\ unread = [q \in Stations |-> <<>>]
    /\ registered = {}
    /\ stopped = {}

Elapse ==
    /\ known' = [q \in Stations |-> [p \in DOMAIN known[q] |->
                    IF known[q][p] > Ttl THEN known[q][p] ELSE known[q][p] + 1]]
    /\ UNCHANGED <<means, unread, registered, stopped>>

\* Those who have room get it, the sender included.
Reaches(qs, event) ==
    unread' = [q \in Stations |-> IF q \in qs /\ Len(unread[q]) < MaxUnread
                                  THEN Append(unread[q], event) ELSE unread[q]]

\* A beacon is sent at every call, and may be lost on the way to anyone; the
\* daemon is told once.
Advertise(p) ==
    /\ p \notin stopped
    /\ \/ /\ means = "beacon"
          /\ \E qs \in SUBSET Stations : Reaches(qs, E("seen", p))
          /\ UNCHANGED registered
       \/ /\ means = "mdns"
          /\ registered' = registered \cup {p}
          /\ UNCHANGED unread
    /\ UNCHANGED <<means, known, stopped>>

\* ServiceResolved and ServiceRemoved, from the daemon of q (external).
Report(q, p) ==
    /\ means = "mdns"
    /\ \/ p \in registered \ stopped /\ Reaches({q}, E("seen", p))
       \/ p \notin registered /\ Reaches({q}, E("removed", p))
    /\ UNCHANGED <<means, known, registered, stopped>>

\* stop unregisters; a crash does not.
Stop(p) ==
    /\ p \notin stopped
    /\ stopped' = stopped \cup {p}
    /\ registered' \in {registered, registered \ {p}}
    /\ UNCHANGED <<means, known, unread>>

\* One announcement read: the entry is new, or new again; one's own is
\* passed over.
Noted(q, list, event) ==
    IF event.of = q THEN list
    ELSE IF event.kind = "removed"
    THEN [p \in DOMAIN list \ {event.of} |-> list[p]]
    ELSE [p \in DOMAIN list \cup {event.of} |-> IF p = event.of THEN 0 ELSE list[p]]

\* Mutant: entries expire only when an announcement has been read.
RetainedOnRead(list, events) ==
    IF events = <<>> THEN list
    ELSE [p \in {x \in DOMAIN list : list[x] <= Ttl} |-> list[p]]

\* What poll retains after it has read everything.
Retained(list, events) == [p \in {x \in DOMAIN list : list[x] <= Ttl} |-> list[p]]

Poll(q) ==
    /\ q \notin stopped
    /\ LET Note(list, event) == Noted(q, list, event)
       IN known' = [known EXCEPT ![q] =
                       Retained(FoldLeft(Note, @, unread[q]), unread[q])]
    /\ unread' = [unread EXCEPT ![q] = <<>>]
    /\ UNCHANGED <<means, registered, stopped>>

DiscoveryNext ==
    \/ Elapse
    \/ \E p \in Stations :
          \/ Advertise(p) \/ Stop(p) \/ Poll(p)
          \/ \E q \in Stations : Report(q, p)

\* Time passes and running peers keep polling; nobody has to advertise, and
\* the daemon has nothing to report.
DiscoveryFairness ==
    /\ WF_discoveryVars(Elapse)
    /\ \A q \in Stations : WF_discoveryVars(Poll(q))

DiscoverySpec == DiscoveryInit /\ [][DiscoveryNext]_discoveryVars /\ DiscoveryFairness

-----------------------------------------------------------------------------
(* Properties                                                              *)

DiscoveryTypeOK ==
    /\ means \in {"beacon", "mdns"}
    /\ \A q \in Stations :
          /\ DOMAIN known[q] \subseteq Stations \ {q}
          /\ \A p \in DOMAIN known[q] : known[q][p] \in 0..(Ttl + 1)
    /\ unread \in [Stations -> Seq(Event)]
    /\ registered \subseteq Stations
    /\ stopped \subseteq Stations

\* Who has stopped is in the end forgotten by everyone who still polls,
\* although its last announcements may be read long after and count as new.
StoppedEventuallyForgotten ==
    <>[](\A q \in Stations, p \in stopped :
            q \notin stopped => p \notin DOMAIN known[q])

=============================================================================
