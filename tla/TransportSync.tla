--------------------------- MODULE TransportSync ---------------------------
(***************************************************************************)
(* Shared transport control (transport.rs): who commands the transport     *)
(* broadcasts play, stop, locate and record; everyone else applies them.   *)
(* The application decides who commands, with set_master.                  *)
(*                                                                         *)
(* Commands of one peer arrive at another in the order they were given;    *)
(* commands of different peers overtake each other.                        *)
(***************************************************************************)
EXTENDS Naturals, Sequences

CONSTANTS
    Decks,
    Places,             \* positions to play from, stop at or locate
    NoDeck,             \* not a peer
    MaxCommands         \* bound: commands under way between two peers

ASSUME TransportAssumption ==
    /\ 0 \in Places
    /\ NoDeck \notin Decks
    /\ MaxCommands \in Nat

VARIABLES
    state,      \* state[p]: the TransportState
    place,      \* place[p]: position
    commands,   \* commands[p][q]: commands of p on their way to q
    inCharge,   \* inCharge[p]: is_master
    obeys,      \* obeys[p]: master_peer, or NoDeck
    disputed    \* history: a command met another peer in charge, or came late

transportVars == <<state, place, commands, inCharge, obeys, disputed>>

Kinds == {"Play", "Stop", "Locate", "Record"}
Command == [kind : Kinds, position : Places]

TransportInit ==
    /\ state = [p \in Decks |-> "Stopped"]
    /\ place = [p \in Decks |-> 0]
    /\ commands = [p \in Decks |-> [q \in Decks |-> <<>>]]
    /\ inCharge = [p \in Decks |-> FALSE]
    /\ obeys = [p \in Decks |-> NoDeck]
    /\ disputed = FALSE

\* TransportControl::state: what a command leads to, by itself.
StateOf(kind) ==
    CASE kind = "Play" -> "Playing"
      [] kind = "Record" -> "Recording"
      [] kind \in {"Stop", "Locate"} -> "Stopped"

\* Mutant: a locate is applied like any other command.
AppliedState(old, kind) == StateOf(kind)

\* A locate moves the playhead and leaves the state alone.
NextState(old, kind) == IF kind = "Locate" THEN old ELSE StateOf(kind)

\* play, stop, locate or record, and the broadcast of what it returns.
GiveCommand(p, kind, to) ==
    /\ inCharge[p]
    /\ \A q \in Decks : Len(commands[p][q]) < MaxCommands
    /\ state' = [state EXCEPT ![p] = IF kind = "Locate" THEN @ ELSE StateOf(kind)]
    /\ place' = [place EXCEPT ![p] = to]
    /\ commands' = [commands EXCEPT ![p] =
                       [q \in Decks |-> IF q = p THEN <<>>
                            ELSE Append(@[q], [kind |-> kind, position |-> to])]]
    /\ UNCHANGED <<inCharge, obeys, disputed>>

\* on_remote_control: who is in charge ignores it.
OnRemoteControl(q, p) ==
    /\ commands[p][q] # <<>>
    /\ commands' = [commands EXCEPT ![p][q] = Tail(@)]
    /\ IF inCharge[q] THEN UNCHANGED <<state, place, obeys>>
       ELSE LET command == Head(commands[p][q])
            IN /\ obeys' = [obeys EXCEPT ![q] = p]
               /\ place' = [place EXCEPT ![q] = command.position]
               /\ state' = [state EXCEPT ![q] = NextState(@, command.kind)]
    /\ UNCHANGED <<inCharge, disputed>>

UnderWay == \E p, q \in Decks : commands[p][q] # <<>>

\* set_master.  A hand-over while somebody else is in charge or commands are
\* under way is a dispute the protocol does not settle.
Appoint(p, is) ==
    /\ inCharge' = [inCharge EXCEPT ![p] = is]
    /\ disputed' = (disputed \/ (is /\ (UnderWay \/ \E q \in Decks \ {p} : inCharge[q])))
    /\ UNCHANGED <<state, place, commands, obeys>>

TransportNext ==
    \E p \in Decks :
        \/ \E kind \in Kinds, to \in Places : GiveCommand(p, kind, to)
        \/ \E q \in Decks : OnRemoteControl(p, q)
        \/ \E is \in BOOLEAN : Appoint(p, is)

TransportSpec == TransportInit /\ [][TransportNext]_transportVars

-----------------------------------------------------------------------------
(* Properties                                                              *)

TransportTypeOK ==
    /\ state \in [Decks -> {"Stopped", "Playing", "Recording"}]
    /\ place \in [Decks -> Places]
    /\ commands \in [Decks -> [Decks -> Seq(Command)]]
    /\ inCharge \in [Decks -> BOOLEAN]
    /\ obeys \in [Decks -> Decks \cup {NoDeck}]
    /\ disputed \in BOOLEAN

\* As long as hand-overs were undisputed, all transports agree as soon as no
\* command is under way: on the state, also through locates that must leave
\* it alone, and on the position.
TransportsAgree ==
    ~disputed /\ ~UnderWay =>
        \A p, q \in Decks : state[p] = state[q] /\ place[p] = place[q]

=============================================================================
