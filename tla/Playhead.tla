------------------------------ MODULE Playhead ------------------------------
(***************************************************************************)
(* Playhead synchronisation (sync.rs, clock.rs, drift.rs): peers estimate  *)
(* how far another peer's clock is ahead from request/response exchanges,  *)
(* and from the changes of that estimate how much faster it runs; they     *)
(* keep the playhead positions they receive with their capture time        *)
(* converted to the local clock, and extrapolate the master's when they    *)
(* are asked.                                                              *)
(*                                                                         *)
(* Every peer has a clock of its own, ahead of time by a fixed Ahead[p].   *)
(* Messages are late, lost, repeated and overtaken: one that was sent may  *)
(* arrive at any later time, any number of times.  A playing playhead      *)
(* advances by a frame per unit of time.  Halves are avoided by keeping    *)
(* offsets and converted times doubled.  The clocks themselves run at one  *)
(* rate: what the drift compensator takes for skew is the error of the     *)
(* estimates it is fed, kept here in whole parts per million (averages are *)
(* rounded down).                                                          *)
(***************************************************************************)
EXTENDS Integers, FiniteSets

CONSTANTS
    Players,
    Ahead,              \* Ahead[p]: how far p's clock is ahead of time
    NoPlayer,           \* not a peer
    Followers,          \* bound: the peers whose estimates are looked at
    Leaders,            \* bound: the peers whose playheads they look at
    Moments,            \* bound: the moments looked at
    MaxRequests,        \* bound: different clock requests of one peer
    MaxResponses,       \* bound: different responses to one request
    MaxPositions,       \* bound: different playhead updates
    MaxJumps            \* bound: locates, plays and stops of one peer

ASSUME PlayheadAssumption ==
    /\ Ahead \in [Players -> Nat]
    /\ NoPlayer \notin Players
    /\ Followers \subseteq Players /\ Leaders \subseteq Players
    /\ Moments \subseteq Nat /\ MaxJumps \in Nat
    /\ MaxRequests \in Nat /\ MaxResponses \in Nat /\ MaxPositions \in Nat

VARIABLES
    time,       \* the time no peer can see
    position,   \* position[p]: local_position
    playing,    \* playing[p]
    jumped,     \* history: when p last moved its playhead by hand
    jumps,      \* jumps[p]: how often it did
    isMaster,   \* is_master
    master,     \* master[p]: master_peer, or NoPlayer
    clock,      \* clock[p]: the ClockSynchronizer, with the peer it measured
    drift,      \* drift[p]: the DriftCompensator
    tracks,     \* tracks[p][q]: remotes[q], or NoTrack
    requests, responses, positions      \* messages that have been sent

playheadVars == <<time, position, playing, jumped, jumps, isMaster, master,
                  clock, drift, tracks, requests, responses,
                  positions>>

Clock(p) == time + Ahead[p]

\* Bound: nothing new is asked or told at the last moment looked at, when
\* there is no time left for it to age.
TimeRemains == \E later \in Moments : later > time

-----------------------------------------------------------------------------
(* Values                                                                  *)

\* ClockSyncMessage: a request, and the response that adds t2 = t3.  By is
\* the peer that answers, which the message does not say.
Request == [from : Players, t1 : Int]
Response == [from : Players, by : Players, t1 : Int, t2 : Int]

\* PlayheadUpdate.
PositionUpdate == [from : Players, position : Int, at : Int, playing : BOOLEAN]

\* best_rtt and best_offset, doubled; of is the peer they were measured with.
Estimate == [of : Players \cup {NoPlayer}, rtt : Int, offset2 : Int]
NoEstimate == [of |-> NoPlayer, rtt |-> 0, offset2 |-> 0]

\* last_time_ms, last_offset_ms (doubled), skew_ppm_ewma and whether there are
\* rate_samples.  Rates of MaxPpm and more are absurd.
Million == 1000000
MaxPpm == 10000
Drift == [at : Int, offset2 : Int, skew : -MaxPpm..MaxPpm, rated : BOOLEAN]
NoDrift == [at |-> -1, offset2 |-> 0, skew |-> 0, rated |-> FALSE]

\* RemoteTrack; the capture time is doubled.  By and within say how good the
\* conversion was: the estimate it used.
Track == [position : Int, at2 : Int, playing : BOOLEAN, captured : Int,
          by : Players \cup {NoPlayer}, within : Int]
NoTrack == [position |-> 0, at2 |-> 0, playing |-> FALSE, captured |-> -1,
            by |-> NoPlayer, within |-> 0]

\* ClockSyncMessage::measure, when the response is received at t4; the offset
\* is doubled.
MeasuredRtt(m, t4) == IF t4 - m.t1 > 0 THEN t4 - m.t1 ELSE 0
MeasuredOffset2(m, t4) == (m.t2 - m.t1) + (m.t2 - t4)

\* Mutant: the smallest round trip is kept with the latest offset.
ObservedLatest(best, of, rtt, offset2) ==
    [of |-> of, offset2 |-> offset2,
     rtt |-> IF best.of = NoPlayer \/ rtt < best.rtt THEN rtt ELSE best.rtt]

\* ClockSynchronizer::observe keeps the sample of the smallest round trip.
Observed(best, of, rtt, offset2) ==
    IF best.of = NoPlayer \/ rtt < best.rtt
    THEN [of |-> of, rtt |-> rtt, offset2 |-> offset2]
    ELSE best

Abs(n) == IF n < 0 THEN -n ELSE n

\* A doubled offset that changed by change2 in dt, in parts per million; rounded
\* towards 0, a rate is absurd exactly when it is so in the code.
Ppm(change2, dt) ==
    IF change2 < 0 THEN -((-change2 * Million) \div (2 * dt))
    ELSE (change2 * Million) \div (2 * dt)

\* The first rate is taken as it is, later ones move the average by alpha,
\* a fifth.
Smoothed(d, ppm) == IF d.rated THEN d.skew + ((ppm - d.skew) \div 5) ELSE ppm

\* Mutant: no jump is absurd.
OnAnyOffsetSample(d, offset2, now) ==
    [at |-> now, offset2 |-> offset2,
     skew |-> IF d = NoDrift \/ now <= d.at THEN d.skew
              ELSE Smoothed(d, Ppm(offset2 - d.offset2, now - d.at)),
     rated |-> d.rated \/ (d # NoDrift /\ now > d.at)]

\* DriftCompensator::on_offset_sample: a rate between this sample and the
\* last, unless it is absurd; this sample is the next one's last.
OnOffsetSample(d, offset2, now) ==
    LET counts == /\ d # NoDrift /\ now > d.at
                  /\ Abs(Ppm(offset2 - d.offset2, now - d.at)) < MaxPpm
    IN [at |-> now, offset2 |-> offset2,
        skew |-> IF counts THEN Smoothed(d, Ppm(offset2 - d.offset2, now - d.at))
                 ELSE d.skew,
        rated |-> d.rated \/ counts]

-----------------------------------------------------------------------------

PlayheadInit ==
    /\ time = 0
    /\ position = [p \in Players |-> 0]
    /\ playing = [p \in Players |-> FALSE]
    /\ jumped = [p \in Players |-> 0]
    /\ jumps = [p \in Players |-> 0]
    /\ isMaster = [p \in Players |-> FALSE]
    /\ master = [p \in Players |-> NoPlayer]
    /\ clock = [p \in Players |-> NoEstimate]
    /\ drift = [p \in Players |-> NoDrift]
    /\ tracks = [p \in Players |-> [q \in Players |-> NoTrack]]
    /\ requests = {}
    /\ responses = {}
    /\ positions = {}

\* Time passes, and set_local_position follows every playing transport.
Pass(until) ==
    /\ until > time
    /\ time' = until
    /\ position' = [p \in Players |->
                       IF playing[p] THEN position[p] + (until - time) ELSE position[p]]
    /\ UNCHANGED <<playing, jumped, jumps, isMaster, master, clock, drift, tracks,
                   requests, responses, positions>>

\* The user plays, stops or locates: set_playing and set_local_position.
\* (One place to go to is enough, as the playhead has moved away from it.)
Jump(p, to, play) ==
    /\ to # position[p] \/ play # playing[p]
    /\ jumps[p] < MaxJumps
    /\ jumps' = [jumps EXCEPT ![p] = @ + 1]
    /\ jumped' = [jumped EXCEPT ![p] = time]
    /\ position' = [position EXCEPT ![p] = to]
    /\ playing' = [playing EXCEPT ![p] = play]
    /\ UNCHANGED <<time, isMaster, master, clock, drift, tracks,
                   requests, responses, positions>>

\* set_master: who gives up the role goes on following itself.
SetMaster(p, is) ==
    /\ isMaster' = [isMaster EXCEPT ![p] = is]
    /\ master' = IF is THEN [master EXCEPT ![p] = p] ELSE master
    /\ UNCHANGED <<time, position, playing, jumped, jumps, clock, drift,
                   tracks, requests, responses, positions>>

FollowMaster(p, q) ==
    /\ p # q
    /\ master' = [master EXCEPT ![p] = q]
    /\ UNCHANGED <<time, position, playing, jumped, jumps, isMaster, clock,
                   drift, tracks, requests, responses, positions>>

\* send_clock_sync_request, to anyone.
SendRequest(p) ==
    /\ TimeRemains
    /\ Cardinality({m \in requests : m.from = p}) < MaxRequests
    /\ requests' = requests \cup {[from |-> p, t1 |-> Clock(p)]}
    /\ UNCHANGED <<time, position, playing, jumped, jumps, isMaster, master,
                   clock, drift, tracks, responses, positions>>

\* process_clock_sync answers a request.
Respond(q, m) ==
    /\ q # m.from
    /\ Cardinality({r \in responses : r.from = m.from /\ r.t1 = m.t1}) < MaxResponses
    /\ responses' = responses \cup
           {[from |-> m.from, by |-> q, t1 |-> m.t1, t2 |-> Clock(q)]}
    /\ UNCHANGED <<time, position, playing, jumped, jumps, isMaster, master,
                   clock, drift, tracks, requests, positions>>

\* process_clock_sync takes a response: whether its sample was the better one
\* or not, the drift compensator is fed the offset that is now the best.
TakeResponse(m) ==
    /\ clock' = [clock EXCEPT ![m.from] =
                    Observed(@, m.by, MeasuredRtt(m, Clock(m.from)),
                             MeasuredOffset2(m, Clock(m.from)))]
    /\ drift' = [drift EXCEPT ![m.from] =
                    OnOffsetSample(@, clock'[m.from].offset2, Clock(m.from))]
    /\ UNCHANGED <<time, position, playing, jumped, jumps, isMaster, master,
                   tracks, requests, responses, positions>>

\* generate_update.
SendPosition(p) ==
    /\ TimeRemains
    /\ Cardinality(positions) < MaxPositions
    /\ positions' = positions \cup
           {[from |-> p, position |-> position[p], at |-> Clock(p),
             playing |-> playing[p]]}
    /\ UNCHANGED <<time, position, playing, jumped, jumps, isMaster, master,
                   clock, drift, tracks, requests, responses>>

\* receive_update: ClockSynchronizer::to_local with today's estimate.
Tracked(p, m) ==
    [position |-> m.position, at2 |-> 2 * m.at - clock[p].offset2,
     playing |-> m.playing, captured |-> m.at - Ahead[m.from],
     by |-> clock[p].of, within |-> clock[p].rtt]

ReceivePosition(p, m) ==
    /\ p # m.from
    /\ tracks' = [tracks EXCEPT ![p][m.from] = Tracked(p, m)]
    /\ UNCHANGED <<time, position, playing, jumped, jumps, isMaster, master,
                   clock, drift, requests, responses, positions>>

FollowerStep(p) ==
    \/ \E is \in BOOLEAN : SetMaster(p, is)
    \/ \E q \in Leaders : FollowMaster(p, q)
    \/ SendRequest(p)
    \/ \E m \in positions : ReceivePosition(p, m)

LeaderStep(p) ==
    \/ \E play \in BOOLEAN : Jump(p, 0, play)
    \/ SendPosition(p)
    \/ \E m \in requests : Respond(p, m)

PlayheadNext ==
    \/ \E until \in Moments : Pass(until)
    \/ \E p \in Followers : FollowerStep(p)
    \/ \E p \in Leaders : LeaderStep(p)
    \/ \E m \in responses : TakeResponse(m)

PlayheadSpec == PlayheadInit /\ [][PlayheadNext]_playheadVars

-----------------------------------------------------------------------------
(* synchronized_position                                                   *)

Follows(p) ==
    /\ ~isMaster[p]
    /\ master[p] # NoPlayer /\ master[p] # p
    /\ tracks[p][master[p]] # NoTrack

\* The time since the capture, as the local clock sees it, doubled; at least 0.
Elapsed2(p, track) ==
    IF 2 * Clock(p) > track.at2 THEN 2 * Clock(p) - track.at2 ELSE 0

\* correct_elapsed_ms, in two millionths.
CorrectedElapsed(p, track) == Elapsed2(p, track) * (Million + drift[p].skew)

\* Rounded to whole frames.
FramesIn(p, track) == (CorrectedElapsed(p, track) + Million) \div (2 * Million)

SynchronizedPosition(p) ==
    IF ~Follows(p) THEN position[p]
    ELSE LET track == tracks[p][master[p]]
         IN IF track.playing THEN track.position + FramesIn(p, track)
            ELSE track.position

-----------------------------------------------------------------------------
(* Properties                                                              *)

PlayheadTypeOK ==
    /\ time \in Nat
    /\ position \in [Players -> Int]
    /\ playing \in [Players -> BOOLEAN]
    /\ jumped \in [Players -> Int]
    /\ jumps \in [Players -> Nat]
    /\ isMaster \in [Players -> BOOLEAN]
    /\ master \in [Players -> Players \cup {NoPlayer}]
    /\ clock \in [Players -> Estimate]
    /\ drift \in [Players -> Drift]
    /\ tracks \in [Players -> [Players -> Track]]
    /\ requests \subseteq Request
    /\ responses \subseteq Response
    /\ positions \subseteq PositionUpdate

\* However requests and responses are delayed, repeated and overtaken, the
\* accepted offset is off by at most half the accepted round trip, as an
\* estimate of the clock of the peer it was measured with.
OffsetWithinHalfRtt ==
    \A p \in Players :
        clock[p].of # NoPlayer =>
            Abs(clock[p].offset2 - 2 * (Ahead[clock[p].of] - Ahead[p])) <= clock[p].rtt

\* What a follower shows is within half a round trip of where the master's
\* playhead is now, give or take half a frame for the rounding and one in a
\* hundred frames of the age of the update, however many messages overtook
\* each other, provided the master has not moved its playhead since by hand
\* and the offset was measured with the master and not with another peer
\* before.  The age counts, and with clocks that do not drift, because a
\* better sample that moves the offset is taken for skew; that it counts for
\* no more is what rejecting absurd rates achieves.
FollowersShowTheMaster ==
    \A p \in Players :
        LET m == master[p]
            track == tracks[p][m]
        IN (Follows(p) /\ track.by = m /\ track.captured > jumped[m])
              => 2 * Million * Abs(SynchronizedPosition(p) - position[m])
                   <= Million * (track.within + 1) + MaxPpm * Elapsed2(p, track)

=============================================================================
