--------------------------- MODULE Playhead_proofs ---------------------------
(***************************************************************************)
(* That clock estimates and the playheads shown from them are good, for    *)
(* every number of peers, whatever their clocks show, and with messages    *)
(* late, repeated and overtaken.                                           *)
(***************************************************************************)
EXTENDS Playhead, TLAPS

-----------------------------------------------------------------------------
(* The inductive invariant                                                 *)

\* A message was sent at some moment that has passed, a response after the
\* request it answers.
MessagesArePast ==
    /\ \A m \in requests : m.t1 - Ahead[m.from] <= time
    /\ \A m \in responses :
          /\ m.t1 - Ahead[m.from] <= m.t2 - Ahead[m.by]
          /\ m.t2 - Ahead[m.by] <= time

\* Where q's playhead is now, if it was at pos at the moment when and has not
\* been moved by hand since.
Extrapolates(q, pos, plays, when) ==
    /\ when <= time
    /\ when > jumped[q] =>
          /\ playing[q] = plays
          /\ position[q] = pos + (IF plays THEN time - when ELSE 0)

PositionsExtrapolate ==
    \A u \in positions :
        Extrapolates(u.from, u.position, u.playing, u.at - Ahead[u.from])

\* The converted capture time is as good as the estimate it was converted by.
ConvertedWithin(p, q) ==
    tracks[p][q].by = q =>
        Abs(tracks[p][q].at2 - 2 * (tracks[p][q].captured + Ahead[p])) <= tracks[p][q].within

TracksExtrapolate ==
    \A p, q \in Players :
        tracks[p][q].captured >= 0 =>
            /\ Extrapolates(q, tracks[p][q].position, tracks[p][q].playing,
                            tracks[p][q].captured)
            /\ ConvertedWithin(p, q)

JumpsArePast == \A p \in Players : jumped[p] >= 0 /\ jumped[p] <= time

PlayheadInv ==
    /\ PlayheadTypeOK
    /\ MessagesArePast
    /\ OffsetWithinHalfRtt
    /\ JumpsArePast
    /\ PositionsExtrapolate
    /\ TracksExtrapolate

-----------------------------------------------------------------------------
(* Arithmetic                                                              *)

\* A sample of moments T1 <= T2 <= T4 is off by at most half of T4 - T1.
LEMMA SampleWithin ==
    ASSUME NEW p \in Players, NEW m \in Response, m.from = p, time \in Int,
           m.t1 - Ahead[m.from] <= m.t2 - Ahead[m.by],
           m.t2 - Ahead[m.by] <= time
    PROVE  /\ MeasuredRtt(m, Clock(p)) \in Int
           /\ MeasuredOffset2(m, Clock(p)) \in Int
           /\ Abs(MeasuredOffset2(m, Clock(p)) - 2 * (Ahead[m.by] - Ahead[p]))
                  <= MeasuredRtt(m, Clock(p))
<1>1. PICK T1 \in Int, T2 \in Int, A1 \in Int, A2 \in Int :
          T1 = m.t1 /\ T2 = m.t2 /\ A1 = Ahead[p] /\ A2 = Ahead[m.by]
    BY PlayheadAssumption DEF Response
<1>2. T1 - A1 <= T2 - A2 /\ T2 - A2 <= time
    BY <1>1
<1>3. Clock(p) = time + A1 /\ Clock(p) \in Int
    BY <1>1 DEF Clock
<1>4. MeasuredRtt(m, Clock(p)) = time + A1 - T1
    BY <1>1, <1>2, <1>3 DEF MeasuredRtt
<1>5. MeasuredOffset2(m, Clock(p)) = (T2 - T1) + (T2 - (time + A1))
    BY <1>1, <1>3 DEF MeasuredOffset2
<1>6. Abs(((T2 - T1) + (T2 - (time + A1))) - 2 * (A2 - A1)) <= time + A1 - T1
    BY <1>2 DEF Abs
<1> QED
    BY <1>1, <1>4, <1>5, <1>6

\* What a rate is measured in.
LEMMA Scales == Million \in Nat /\ MaxPpm \in Nat
    BY DEF Million, MaxPpm

\* The average stays below the rates that are absurd, as it moves no further
\* than to the rate it is fed.
LEMMA DriftSampled ==
    ASSUME NEW d \in Drift, NEW offset2 \in Int, NEW now \in Int
    PROVE  OnOffsetSample(d, offset2, now) \in Drift
<1>1. PICK counts \in BOOLEAN :
          counts = (/\ d # NoDrift /\ now > d.at
                    /\ Abs(Ppm(offset2 - d.offset2, now - d.at)) < MaxPpm)
    OBVIOUS
<1>2. OnOffsetSample(d, offset2, now) =
          [at |-> now, offset2 |-> offset2,
           skew |-> IF counts THEN Smoothed(d, Ppm(offset2 - d.offset2, now - d.at))
                    ELSE d.skew,
           rated |-> d.rated \/ counts]
    BY <1>1 DEF OnOffsetSample
<1>3. /\ d.at \in Int /\ d.offset2 \in Int /\ d.skew \in -MaxPpm..MaxPpm
      /\ d.rated \in BOOLEAN
    BY DEF Drift
<1>4. ASSUME counts = TRUE
      PROVE  Smoothed(d, Ppm(offset2 - d.offset2, now - d.at)) \in -MaxPpm..MaxPpm
  <2>1. PICK change \in Int, dt \in Int :
            change = offset2 - d.offset2 /\ dt = now - d.at
      BY <1>3
  <2>2. dt > 0
      BY <1>1, <1>3, <1>4, <2>1
  <2>3. Ppm(change, dt) \in Int
      BY <2>2, SMT DEF Ppm, Million
  <2>4. PICK ppm \in Int : ppm = Ppm(change, dt)
      BY <2>3
  <2>5. Abs(ppm) < MaxPpm
      BY <1>1, <1>4, <2>1, <2>4
  <2>6. PICK skew \in Int : skew = d.skew /\ -MaxPpm <= skew /\ skew <= MaxPpm
      BY <1>3, Scales, SMT
  <2>7. ppm \in -MaxPpm..MaxPpm
      BY <2>5, Scales, SMT DEF Abs
  <2>8. skew + ((ppm - skew) \div 5) \in -MaxPpm..MaxPpm
      BY <2>6, <2>7, Scales, SMT
  <2> QED
      BY <2>1, <2>4, <2>6, <2>7, <2>8 DEF Smoothed
<1>5. (IF counts THEN Smoothed(d, Ppm(offset2 - d.offset2, now - d.at))
       ELSE d.skew) \in -MaxPpm..MaxPpm
    BY <1>3, <1>4
<1> QED
    BY <1>2, <1>3, <1>5 DEF Drift

-----------------------------------------------------------------------------
(* Types                                                                   *)

\* Whichever way an action changes them, fields keep their types.
LEMMA PlayheadTyped ==
    ASSUME PlayheadTypeOK, [PlayheadNext]_playheadVars
    PROVE  PlayheadTypeOK'
<1> USE DEF PlayheadTypeOK
<1>1. ASSUME NEW p \in Players PROVE Ahead[p] \in Int /\ Clock(p) \in Int
    BY PlayheadAssumption DEF Clock
<1>2. ASSUME NEW until \in Moments, Pass(until) PROVE PlayheadTypeOK'
  <2>1. until \in Nat /\ time' = until
      BY <1>2, PlayheadAssumption DEF Pass
  <2>2. position' \in [Players -> Int]
      BY <1>2, <2>1 DEF Pass
  <2> QED
      BY <2>1, <2>2, <1>2 DEF Pass
<1>3. ASSUME NEW p \in Followers, FollowerStep(p) PROVE PlayheadTypeOK'
  <2>0. p \in Players
      BY PlayheadAssumption
  <2>1. ASSUME NEW is \in BOOLEAN, SetMaster(p, is) PROVE PlayheadTypeOK'
      BY <2>0, <2>1 DEF SetMaster
  <2>2. ASSUME NEW q \in Leaders, FollowMaster(p, q) PROVE PlayheadTypeOK'
      BY <2>0, <2>2, PlayheadAssumption DEF FollowMaster
  <2>3. CASE SendRequest(p)
    <3>1. PICK r : r = [from |-> p, t1 |-> Clock(p)]
        OBVIOUS
    <3>2. r \in Request
        BY <2>0, <1>1, <3>1 DEF Request
    <3>3. requests' = requests \cup {r}
        BY <2>3, <3>1 DEF SendRequest
    <3> QED
        BY <3>2, <3>3, <2>3 DEF SendRequest
  <2>4. ASSUME NEW m \in positions, ReceivePosition(p, m) PROVE PlayheadTypeOK'
    <3>1. m.from \in Players /\ m.at \in Int /\ m.position \in Int /\ m.playing \in BOOLEAN
        BY DEF PositionUpdate
    <3>2. clock[p] \in Estimate
        BY <2>0
    <3>3. /\ clock[p].of \in Players \cup {NoPlayer}
          /\ clock[p].rtt \in Int /\ clock[p].offset2 \in Int
        BY <3>2 DEF Estimate
    <3>4. /\ 2 * m.at - clock[p].offset2 \in Int
          /\ m.at - Ahead[m.from] \in Int
        BY <3>1, <3>3, <1>1
    <3>5. Tracked(p, m) \in Track
        BY <3>1, <3>3, <3>4 DEF Tracked, Track
    <3> QED
        BY <3>5, <3>1, <2>0, <2>4 DEF ReceivePosition
  <2> QED
      BY <1>3, <2>1, <2>2, <2>3, <2>4 DEF FollowerStep
<1>4. ASSUME NEW p \in Leaders, LeaderStep(p) PROVE PlayheadTypeOK'
  <2>0. p \in Players
      BY PlayheadAssumption
  <2>1. ASSUME NEW play \in BOOLEAN, Jump(p, 0, play) PROVE PlayheadTypeOK'
      BY <2>0, <2>1 DEF Jump
  <2>2. CASE SendPosition(p)
    <3>1. [from |-> p, position |-> position[p], at |-> Clock(p),
           playing |-> playing[p]] \in PositionUpdate
        BY <2>0, <1>1 DEF PositionUpdate
    <3> QED
        BY <3>1, <2>2 DEF SendPosition
  <2>3. ASSUME NEW m \in requests, Respond(p, m) PROVE PlayheadTypeOK'
    <3>1. [from |-> m.from, by |-> p, t1 |-> m.t1, t2 |-> Clock(p)] \in Response
        BY <2>0, <1>1 DEF Request, Response
    <3> QED
        BY <3>1, <2>3 DEF Respond
  <2> QED
      BY <1>4, <2>1, <2>2, <2>3 DEF LeaderStep
<1>5. ASSUME NEW m \in responses, TakeResponse(m) PROVE PlayheadTypeOK'
  <2>1. m.from \in Players /\ m.by \in Players /\ m.t1 \in Int /\ m.t2 \in Int
      BY DEF Response
  <2>2. /\ MeasuredRtt(m, Clock(m.from)) \in Int
        /\ MeasuredOffset2(m, Clock(m.from)) \in Int
      BY <2>1, <1>1 DEF MeasuredRtt, MeasuredOffset2
  <2>3. clock[m.from] \in Estimate
      BY <2>1
  <2>4. Observed(clock[m.from], m.by, MeasuredRtt(m, Clock(m.from)),
                 MeasuredOffset2(m, Clock(m.from))) \in Estimate
      BY <2>1, <2>2, <2>3 DEF Observed, Estimate
  <2>5. clock' \in [Players -> Estimate] /\ clock'[m.from] \in Estimate
      BY <2>1, <2>4, <1>5 DEF TakeResponse
  <2>6. clock'[m.from].offset2 \in Int /\ drift[m.from] \in Drift
      BY <2>1, <2>5 DEF Estimate
  <2>7. OnOffsetSample(drift[m.from], clock'[m.from].offset2, Clock(m.from)) \in Drift
      BY <2>1, <2>6, <1>1, DriftSampled
  <2>8. drift' \in [Players -> Drift]
      BY <2>7, <1>5 DEF TakeResponse
  <2> QED
      BY <2>5, <2>8, <1>5 DEF TakeResponse
<1>6. CASE UNCHANGED playheadVars
    BY <1>6 DEF playheadVars
<1> QED
    BY <1>2, <1>3, <1>4, <1>5, <1>6 DEF PlayheadNext

-----------------------------------------------------------------------------
(* The estimate of a clock                                                 *)

LEMMA MessagesStayPast ==
    ASSUME PlayheadTypeOK, MessagesArePast, [PlayheadNext]_playheadVars
    PROVE  MessagesArePast'
<1> USE DEF PlayheadTypeOK, MessagesArePast
<1>1. time' \in Int /\ time' >= time
  <2>1. ASSUME NEW until \in Moments, Pass(until) PROVE time' \in Int /\ time' >= time
      BY <2>1, PlayheadAssumption DEF Pass
  <2>2. ASSUME NEW p \in Followers, FollowerStep(p) PROVE time' = time
      BY <2>2 DEF FollowerStep, SetMaster, FollowMaster, SendRequest, ReceivePosition
  <2>3. ASSUME NEW p \in Leaders, LeaderStep(p) PROVE time' = time
      BY <2>3 DEF LeaderStep, Jump, SendPosition, Respond
  <2>4. ASSUME NEW m \in responses, TakeResponse(m) PROVE time' = time
      BY <2>4 DEF TakeResponse
  <2>5. CASE UNCHANGED playheadVars
      BY <2>5 DEF playheadVars
  <2> QED
      BY <2>1, <2>2, <2>3, <2>4, <2>5 DEF PlayheadNext
<1>2. ASSUME NEW m \in Request PROVE m.from \in Players /\ m.t1 \in Int /\ Ahead[m.from] \in Int
    BY PlayheadAssumption DEF Request
<1>3. ASSUME NEW m \in Response
      PROVE  /\ m.t1 \in Int /\ m.t2 \in Int
             /\ Ahead[m.from] \in Int /\ Ahead[m.by] \in Int
    BY PlayheadAssumption DEF Response
<1>4. CASE requests' = requests /\ responses' = responses
    BY <1>1, <1>2, <1>3, <1>4
<1>5. ASSUME NEW p \in Followers, SendRequest(p) PROVE MessagesArePast'
  <2>1. p \in Players /\ Ahead[p] \in Int
      BY PlayheadAssumption
  <2>2. PICK r : r = [from |-> p, t1 |-> Clock(p)]
      OBVIOUS
  <2>3. r.t1 - Ahead[r.from] = time
      BY <2>1, <2>2 DEF Clock
  <2>4. requests' = requests \cup {r} /\ responses' = responses /\ time' = time
      BY <1>5, <2>2 DEF SendRequest
  <2> QED
      BY <2>3, <2>4
<1>6. ASSUME NEW q \in Leaders, NEW m \in requests, Respond(q, m) PROVE MessagesArePast'
  <2>1. q \in Players /\ Ahead[q] \in Int
      BY PlayheadAssumption
  <2>2. PICK r : r = [from |-> m.from, by |-> q, t1 |-> m.t1, t2 |-> Clock(q)]
      OBVIOUS
  <2>3. r.t2 - Ahead[r.by] = time /\ r.t1 - Ahead[r.from] <= time
      BY <2>1, <2>2 DEF Clock
  <2>4. requests' = requests /\ responses' = responses \cup {r} /\ time' = time
      BY <1>6, <2>2 DEF Respond
  <2> QED
      BY <2>3, <2>4
<1> QED
    BY <1>4, <1>5, <1>6 DEF PlayheadNext, Pass, FollowerStep, LeaderStep,
        SetMaster, FollowMaster, ReceivePosition, Jump, SendPosition,
        TakeResponse, playheadVars

\* A response either leaves the estimate alone or replaces it by a sample that
\* is as good.
LEMMA OffsetStaysWithin ==
    ASSUME PlayheadTypeOK, MessagesArePast, OffsetWithinHalfRtt,
           [PlayheadNext]_playheadVars
    PROVE  OffsetWithinHalfRtt'
<1> USE DEF PlayheadTypeOK
<1>1. CASE clock' = clock
    BY <1>1 DEF OffsetWithinHalfRtt
<1>2. ASSUME NEW m \in responses, TakeResponse(m) PROVE OffsetWithinHalfRtt'
  <2>1. m \in Response /\ m.from \in Players /\ m.by \in Players
      BY DEF Response
  <2>2. PICK sample :
            sample = Observed(clock[m.from], m.by, MeasuredRtt(m, Clock(m.from)),
                              MeasuredOffset2(m, Clock(m.from)))
      OBVIOUS
  <2>3. clock' = [clock EXCEPT ![m.from] = sample]
      BY <1>2, <2>2 DEF TakeResponse
  <2>4. Abs(MeasuredOffset2(m, Clock(m.from)) - 2 * (Ahead[m.by] - Ahead[m.from]))
            <= MeasuredRtt(m, Clock(m.from))
      BY <2>1, SampleWithin DEF MessagesArePast
  <2>5. sample.of # NoPlayer =>
            Abs(sample.offset2 - 2 * (Ahead[sample.of] - Ahead[m.from])) <= sample.rtt
      BY <2>1, <2>2, <2>4 DEF Observed, OffsetWithinHalfRtt
  <2> QED
      BY <2>1, <2>3, <2>5 DEF OffsetWithinHalfRtt
<1> QED
    BY <1>1, <1>2 DEF PlayheadNext, Pass, FollowerStep, LeaderStep, SetMaster,
        FollowMaster, SendRequest, ReceivePosition, Jump, SendPosition, Respond,
        playheadVars

-----------------------------------------------------------------------------
(* Playheads                                                               *)

LEMMA JumpsStayPast ==
    ASSUME PlayheadTypeOK, JumpsArePast, [PlayheadNext]_playheadVars
    PROVE  JumpsArePast'
<1> USE DEF PlayheadTypeOK, JumpsArePast
<1>1. CASE jumped' = jumped /\ time' \in Int /\ time' >= time
    BY <1>1
<1>2. ASSUME NEW p \in Leaders, NEW play \in BOOLEAN, Jump(p, 0, play)
      PROVE  JumpsArePast'
    BY <1>2, PlayheadAssumption DEF Jump
<1>3. ASSUME NEW until \in Moments, Pass(until) PROVE JumpsArePast'
  <2>1. jumped' = jumped /\ time' \in Int /\ time' >= time
      BY <1>3, PlayheadAssumption DEF Pass
  <2> QED
      BY <1>1, <2>1
<1>4. ASSUME NEW p \in Followers, FollowerStep(p) PROVE JumpsArePast'
  <2>1. jumped' = jumped /\ time' = time
      BY <1>4 DEF FollowerStep, SetMaster, FollowMaster, SendRequest, ReceivePosition
  <2> QED
      BY <1>1, <2>1
<1>5. ASSUME NEW p \in Leaders, LeaderStep(p) PROVE JumpsArePast'
  <2>1. CASE SendPosition(p) \/ \E m \in requests : Respond(p, m)
    <3>1. jumped' = jumped /\ time' = time
        BY <2>1 DEF SendPosition, Respond
    <3> QED
        BY <1>1, <3>1
  <2> QED
      BY <1>2, <1>5, <2>1 DEF LeaderStep
<1>6. ASSUME NEW m \in responses, TakeResponse(m) PROVE JumpsArePast'
  <2>1. jumped' = jumped /\ time' = time
      BY <1>6 DEF TakeResponse
  <2> QED
      BY <1>1, <2>1
<1>7. CASE UNCHANGED playheadVars
  <2>1. jumped' = jumped /\ time' = time
      BY <1>7 DEF playheadVars
  <2> QED
      BY <1>1, <2>1
<1> QED
    BY <1>3, <1>4, <1>5, <1>6, <1>7 DEF PlayheadNext

\* What a playhead was at a moment goes on telling where it is, until the user
\* moves it.
LEMMA ExtrapolationLasts ==
    ASSUME PlayheadTypeOK, [PlayheadNext]_playheadVars,
           NEW q \in Players, NEW pos \in Int, NEW plays \in BOOLEAN,
           NEW when \in Int, Extrapolates(q, pos, plays, when)
    PROVE  Extrapolates(q, pos, plays, when)'
<1> USE DEF PlayheadTypeOK
<1>1. CASE UNCHANGED <<time, position, playing, jumped>>
    BY <1>1 DEF Extrapolates
<1>2. ASSUME NEW until \in Moments, Pass(until)
      PROVE  Extrapolates(q, pos, plays, when)'
  <2>1. /\ until \in Int /\ time' = until /\ until > time
        /\ playing' = playing /\ jumped' = jumped
        /\ position'[q] = IF playing[q] THEN position[q] + (until - time)
                          ELSE position[q]
      BY <1>2, PlayheadAssumption DEF Pass
  <2>2. time \in Int /\ position[q] \in Int /\ jumped[q] \in Int
      OBVIOUS
  <2> QED
      BY <2>1, <2>2 DEF Extrapolates
<1>3. ASSUME NEW p \in Leaders, NEW play \in BOOLEAN, Jump(p, 0, play)
      PROVE  Extrapolates(q, pos, plays, when)'
  <2>1. CASE p = q
    <3>1. jumped'[q] = time /\ time' = time
        BY <1>3, <2>1 DEF Jump
    <3> QED
        BY <3>1 DEF Extrapolates
  <2>2. CASE p # q
    <3>1. /\ jumped'[q] = jumped[q] /\ time' = time
          /\ position'[q] = position[q] /\ playing'[q] = playing[q]
        BY <1>3, <2>2 DEF Jump
    <3> QED
        BY <3>1 DEF Extrapolates
  <2> QED
      BY <2>1, <2>2
<1> QED
    BY <1>1, <1>2, <1>3 DEF PlayheadNext, FollowerStep, LeaderStep, SetMaster,
        FollowMaster, SendRequest, ReceivePosition, SendPosition, Respond,
        TakeResponse, playheadVars

LEMMA PositionsStayTrue ==
    ASSUME PlayheadTypeOK, PositionsExtrapolate, [PlayheadNext]_playheadVars
    PROVE  PositionsExtrapolate'
<1> USE DEF PlayheadTypeOK
<1>1. ASSUME NEW u \in positions
      PROVE  Extrapolates(u.from, u.position, u.playing, u.at - Ahead[u.from])'
  <2>1. /\ u.from \in Players /\ u.position \in Int /\ u.playing \in BOOLEAN
        /\ u.at - Ahead[u.from] \in Int
      BY PlayheadAssumption DEF PositionUpdate
  <2>2. Extrapolates(u.from, u.position, u.playing, u.at - Ahead[u.from])
      BY DEF PositionsExtrapolate
  <2> QED
      BY <2>1, <2>2, ExtrapolationLasts
<1>2. CASE positions' = positions
    BY <1>1, <1>2 DEF PositionsExtrapolate
<1>3. ASSUME NEW p \in Leaders, SendPosition(p) PROVE PositionsExtrapolate'
  <2>1. p \in Players /\ Ahead[p] \in Int
      BY PlayheadAssumption
  <2>2. PICK u : u = [from |-> p, position |-> position[p], at |-> Clock(p),
                      playing |-> playing[p]]
      OBVIOUS
  <2>3. u.from = p /\ u.position = position[p] /\ u.playing = playing[p]
            /\ u.at - Ahead[p] = time
      BY <2>1, <2>2 DEF Clock
  <2>4. UNCHANGED <<time, position, playing, jumped>>
      BY <1>3 DEF SendPosition
  <2>5. position[p] \in Int /\ time \in Int
      BY <2>1
  <2>6. Extrapolates(u.from, u.position, u.playing, u.at - Ahead[u.from])'
      BY <2>3, <2>4, <2>5 DEF Extrapolates
  <2>7. positions' = positions \cup {u}
      BY <1>3, <2>2 DEF SendPosition
  <2> QED
      BY <1>1, <2>6, <2>7 DEF PositionsExtrapolate
<1> QED
    BY <1>2, <1>3 DEF PlayheadNext, Pass, FollowerStep, LeaderStep, SetMaster,
        FollowMaster, SendRequest, ReceivePosition, Jump, Respond, TakeResponse,
        playheadVars

\* An update that is taken is converted by an estimate that is within half a
\* round trip, if it was measured with the sender.
LEMMA TracksStayTrue ==
    ASSUME PlayheadTypeOK, OffsetWithinHalfRtt, PositionsExtrapolate,
           TracksExtrapolate, [PlayheadNext]_playheadVars
    PROVE  TracksExtrapolate'
<1> USE DEF PlayheadTypeOK
<1>1. ASSUME NEW p \in Players, NEW q \in Players,
             tracks'[p][q] = tracks[p][q], tracks'[p][q].captured >= 0
      PROVE  /\ Extrapolates(q, tracks[p][q].position, tracks[p][q].playing,
                             tracks[p][q].captured)'
             /\ ConvertedWithin(p, q)'
  <2>1. PICK t : t = tracks[p][q]
      OBVIOUS
  <2>2. t \in Track
      BY <2>1
  <2>3. /\ t.position \in Int /\ t.playing \in BOOLEAN /\ t.captured \in Int
        /\ t.at2 \in Int /\ t.within \in Int
      BY <2>2 DEF Track
  <2>4. /\ Extrapolates(q, t.position, t.playing, t.captured)
        /\ ConvertedWithin(p, q)
      BY <1>1, <2>1 DEF TracksExtrapolate
  <2>5. Extrapolates(q, t.position, t.playing, t.captured)'
      BY <2>3, <2>4, ExtrapolationLasts
  <2>6. tracks'[p][q] = t
      BY <1>1, <2>1
  <2>7. Extrapolates(q, tracks[p][q].position, tracks[p][q].playing,
                     tracks[p][q].captured)'
      BY <2>5, <2>6 DEF Extrapolates
  <2>8. ConvertedWithin(p, q)'
      BY <2>4, <1>1 DEF ConvertedWithin
  <2> QED
      BY <2>7, <2>8
<1>2. CASE tracks' = tracks
    BY <1>1, <1>2 DEF TracksExtrapolate
<1>3. ASSUME NEW p \in Followers, NEW m \in positions, ReceivePosition(p, m)
      PROVE  TracksExtrapolate'
  <2>1. /\ p \in Players /\ m.from \in Players
        /\ m.at \in Int /\ m.position \in Int /\ m.playing \in BOOLEAN
        /\ Ahead[p] \in Int /\ Ahead[m.from] \in Int
      BY PlayheadAssumption DEF PositionUpdate
  <2>2. PICK t : t = Tracked(p, m)
      OBVIOUS
  <2>3. tracks' = [tracks EXCEPT ![p][m.from] = t]
      BY <1>3, <2>2 DEF ReceivePosition
  <2>4. tracks'[p][m.from] = t
      BY <2>1, <2>3
  <2>5. \A i, j \in Players : (i # p \/ j # m.from) => tracks'[i][j] = tracks[i][j]
      BY <2>1, <2>3
  <2>6. /\ t.position = m.position /\ t.playing = m.playing
        /\ t.captured = m.at - Ahead[m.from] /\ t.by = clock[p].of
        /\ t.within = clock[p].rtt /\ t.at2 = 2 * m.at - clock[p].offset2
      BY <2>2 DEF Tracked
  <2>7. Extrapolates(m.from, t.position, t.playing, t.captured)
      BY <2>6 DEF PositionsExtrapolate
  <2>8. UNCHANGED <<time, position, playing, jumped>>
      BY <1>3 DEF ReceivePosition
  <2>9. Extrapolates(m.from, tracks[p][m.from].position, tracks[p][m.from].playing,
                     tracks[p][m.from].captured)'
      BY <2>4, <2>7, <2>8 DEF Extrapolates
  <2>10. ConvertedWithin(p, m.from)'
    <3>1. SUFFICES ASSUME t.by = m.from
                   PROVE  Abs(t.at2 - 2 * (t.captured + Ahead[p])) <= t.within
        BY <2>4 DEF ConvertedWithin
    <3>2. clock[p].of = m.from /\ m.from # NoPlayer
        BY <3>1, <2>6, <2>1, PlayheadAssumption
    <3>3. PICK rtt \in Int, off \in Int :
              rtt = clock[p].rtt /\ off = clock[p].offset2
        BY <2>1 DEF Estimate
    <3>4. Abs(off - 2 * (Ahead[m.from] - Ahead[p])) <= rtt
        BY <3>2, <3>3, <2>1 DEF OffsetWithinHalfRtt
    <3>5. PICK A1 \in Int, A2 \in Int, at \in Int :
              A1 = Ahead[p] /\ A2 = Ahead[m.from] /\ at = m.at
        BY <2>1
    <3>6. Abs(off - 2 * (A2 - A1)) <= rtt
        BY <3>4, <3>5
    <3>7. Abs((2 * at - off) - 2 * ((at - A2) + A1)) <= rtt
        BY <3>6 DEF Abs
    <3> QED
        BY <3>3, <3>5, <3>7, <2>6
  <2>11. ASSUME NEW i \in Players, NEW j \in Players, tracks'[i][j].captured >= 0
         PROVE  /\ Extrapolates(j, tracks[i][j].position, tracks[i][j].playing,
                                tracks[i][j].captured)'
                /\ ConvertedWithin(i, j)'
    <3>1. CASE i = p /\ j = m.from
        BY <3>1, <2>9, <2>10
    <3>2. CASE i # p \/ j # m.from
        BY <3>2, <2>5, <2>11, <1>1
    <3> QED
        BY <3>1, <3>2
  <2> QED
      BY <2>11 DEF TracksExtrapolate
<1> QED
    BY <1>2, <1>3 DEF PlayheadNext, Pass, FollowerStep, LeaderStep, SetMaster,
        FollowMaster, SendRequest, Jump, SendPosition, Respond, TakeResponse,
        playheadVars

-----------------------------------------------------------------------------
(* The theorems                                                            *)

LEMMA PlayheadStarts == PlayheadInit => PlayheadInv
<1> SUFFICES ASSUME PlayheadInit PROVE PlayheadInv
    OBVIOUS
<1>1. NoEstimate \in Estimate
    BY DEF NoEstimate, Estimate
<1>2. NoTrack \in Track
    BY DEF NoTrack, Track
<1>3. NoDrift \in Drift
    BY Scales, SMT DEF NoDrift, Drift
<1>4. PlayheadTypeOK
    BY <1>1, <1>2, <1>3 DEF PlayheadInit, PlayheadTypeOK
<1>5. MessagesArePast /\ PositionsExtrapolate /\ JumpsArePast
    BY DEF PlayheadInit, MessagesArePast, PositionsExtrapolate, JumpsArePast
<1>6. OffsetWithinHalfRtt
    BY DEF PlayheadInit, OffsetWithinHalfRtt, NoEstimate
<1>7. TracksExtrapolate
    BY DEF PlayheadInit, TracksExtrapolate, NoTrack
<1> QED
    BY <1>4, <1>5, <1>6, <1>7 DEF PlayheadInv

LEMMA PlayheadInvHolds == PlayheadSpec => []PlayheadInv
<1>1. PlayheadInv /\ [PlayheadNext]_playheadVars => PlayheadInv'
    BY PlayheadTyped, MessagesStayPast, OffsetStaysWithin, JumpsStayPast,
       PositionsStayTrue, TracksStayTrue DEF PlayheadInv
<1> QED
    BY PlayheadStarts, <1>1, PTL DEF PlayheadSpec

\* The fields of PlayheadSync and ClockSynchronizer keep their types.
THEOREM PlayheadTypes == PlayheadSpec => []PlayheadTypeOK
    BY PlayheadInvHolds, PTL DEF PlayheadInv

\* However messages are delayed, repeated and overtaken, ClockSynchronizer's
\* offset is off by at most half of its round trip (ClockSynchronizer::observe).
THEOREM OffsetGood == PlayheadSpec => []OffsetWithinHalfRtt
    BY PlayheadInvHolds, PTL DEF PlayheadInv

\* A skew of at most MaxPpm adds no more to a time than that share of it.
LEMMA SkewScales ==
    ASSUME NEW elapsed \in Nat, NEW skew \in -MaxPpm..MaxPpm
    PROVE  /\ elapsed * skew \in Int
           /\ -(MaxPpm * elapsed) <= elapsed * skew
           /\ elapsed * skew <= MaxPpm * elapsed
<1>1. skew \in Int /\ 0 <= MaxPpm - skew /\ 0 <= MaxPpm + skew
    BY Scales, SMT
<1>2. 0 <= elapsed * (MaxPpm - skew) /\ 0 <= elapsed * (MaxPpm + skew)
    BY <1>1, Scales, SMT
<1> QED
    BY <1>1, <1>2, Scales, SMT

\* Rounding a number of two millionths to whole ones is off by half a one.
LEMMA RoundedToFrames ==
    ASSUME NEW x \in Int
    PROVE  /\ (x + Million) \div (2 * Million) \in Int
           /\ Abs(2 * Million * ((x + Million) \div (2 * Million)) - x) <= Million
    BY SMT DEF Abs, Million

\* If a time is known to within so much, scaled by a skew and rounded, so much
\* of the error is the rounding's and the skew's.
LEMMA FramesWithin ==
    ASSUME NEW elapsed \in Int, NEW scaled \in Int, NEW share \in Int,
           NEW frames \in Int, NEW gone \in Int, NEW within \in Int,
           Abs(elapsed - 2 * gone) <= within,
           Abs(2 * Million * frames - (Million * elapsed + scaled)) <= Million,
           -share <= scaled, scaled <= share
    PROVE  2 * Million * Abs(frames - gone) <= Million * (within + 1) + share
    BY SMT DEF Abs, Million

\* What follows from the invariant for what synchronized_position returns.
LEMMA ShownWithin == PlayheadInv => FollowersShowTheMaster
<1> SUFFICES ASSUME PlayheadInv, NEW p \in Players, NEW m, m = master[p],
                    Follows(p), tracks[p][m].by = m,
                    tracks[p][m].captured > jumped[m]
             PROVE  2 * Million * Abs(SynchronizedPosition(p) - position[m])
                        <= Million * (tracks[p][m].within + 1)
                               + MaxPpm * Elapsed2(p, tracks[p][m])
    BY DEF FollowersShowTheMaster
<1> USE DEF PlayheadInv, PlayheadTypeOK
<1>1. m \in Players
    BY DEF Follows
<1>2. PICK t \in Track : t = tracks[p][m]
    BY <1>1
<1>3. PICK now \in Int, A \in Int, at2 \in Int, cap \in Int, pos \in Int,
           within \in Int, here \in Int :
          /\ now = time /\ A = Ahead[p] /\ at2 = t.at2 /\ cap = t.captured
          /\ pos = t.position /\ within = t.within /\ here = position[m]
  <2>1. /\ t.at2 \in Int /\ t.captured \in Int /\ t.position \in Int
        /\ t.within \in Int
      BY DEF Track
  <2>2. time \in Int /\ position[m] \in Int /\ Ahead[p] \in Int
      BY <1>1, PlayheadAssumption
  <2> HIDE DEF PlayheadInv, PlayheadTypeOK
  <2> QED
      BY <2>1, <2>2
<1>4. cap >= 0
    BY <1>1, <1>2, <1>3 DEF JumpsArePast
<1>5. /\ Extrapolates(m, t.position, t.playing, t.captured)
      /\ ConvertedWithin(p, m)
    BY <1>1, <1>2, <1>3, <1>4 DEF TracksExtrapolate
<1>6. /\ cap <= now
      /\ here = pos + (IF t.playing THEN now - cap ELSE 0)
    BY <1>2, <1>3, <1>5 DEF Extrapolates
<1>7. Abs(at2 - 2 * (cap + A)) <= within
    BY <1>2, <1>3, <1>5 DEF ConvertedWithin
<1>8. SynchronizedPosition(p) = IF t.playing THEN pos + FramesIn(p, t) ELSE pos
    BY <1>2, <1>3 DEF SynchronizedPosition
<1>9. PICK elapsed \in Nat :
          /\ elapsed = Elapsed2(p, t)
          /\ elapsed = IF 2 * (now + A) > at2 THEN 2 * (now + A) - at2 ELSE 0
    BY <1>3 DEF Elapsed2, Clock
<1>10. PICK skew \in -MaxPpm..MaxPpm : skew = drift[p].skew
    BY DEF Drift
<1>11. PICK scaled \in Int :
           /\ scaled = elapsed * skew
           /\ -(MaxPpm * elapsed) <= scaled /\ scaled <= MaxPpm * elapsed
    BY <1>9, <1>10, SkewScales
<1>12. CASE t.playing
  <2>1. CorrectedElapsed(p, t) = Million * elapsed + scaled
    <3>1. CorrectedElapsed(p, t) = elapsed * (Million + skew)
        BY <1>9, <1>10 DEF CorrectedElapsed
    <3>2. elapsed * (Million + skew) = Million * elapsed + elapsed * skew
        BY <1>9, <1>10, Scales, SMT
    <3> QED
        BY <3>1, <3>2, <1>11
  <2>2. PICK x \in Int : x = Million * elapsed + scaled
      BY <1>9, <1>11, SMT DEF Million
  <2>3. PICK frames \in Int :
            frames = FramesIn(p, t) /\ Abs(2 * Million * frames - x) <= Million
      BY <2>1, <2>2, RoundedToFrames DEF FramesIn
  <2>4. PICK gone \in Int : gone = now - cap
      BY <1>3
  <2>5. Abs(elapsed - 2 * gone) <= within
    <3>1. elapsed = IF 2 * (now + A) > at2 THEN 2 * (now + A) - at2 ELSE 0
        BY <1>9
    <3>2. /\ 2 * (cap + A) - within <= at2 /\ at2 <= 2 * (cap + A) + within
          /\ 0 <= within /\ cap <= now
        BY <1>6, <1>7 DEF Abs
    <3>3. -within <= elapsed - 2 * gone /\ elapsed - 2 * gone <= within
        BY <3>1, <3>2, <2>4
    <3> QED
        BY <3>3 DEF Abs
  <2>6. PICK share \in Int :
            share = MaxPpm * elapsed /\ -share <= scaled /\ scaled <= share
    <3>1. MaxPpm * elapsed \in Int
        BY <1>9, Scales, SMT
    <3> QED
        BY <3>1, <1>11, Zenon
  <2>7. 2 * Million * Abs(frames - gone) <= Million * (within + 1) + MaxPpm * elapsed
    <3>1. Abs(2 * Million * frames - (Million * elapsed + scaled)) <= Million
        BY <2>2, <2>3
    <3>2. elapsed \in Int /\ -share <= scaled /\ scaled <= share
        BY <1>9, <2>6
    <3>3. 2 * Million * Abs(frames - gone) <= Million * (within + 1) + share
        BY <3>1, <3>2, <2>5, FramesWithin
    <3> QED
        BY <3>3, <2>6
  <2>8. PICK shown \in Int : shown = SynchronizedPosition(p) /\ shown = pos + frames
      BY <2>3, <1>3, <1>8, <1>12
  <2>9. shown - here = frames - gone
      BY <2>8, <2>4, <1>6, <1>12
  <2> QED
      BY <2>7, <2>8, <2>9, <1>2, <1>3, <1>9
<1>13. CASE ~t.playing
  <2>1. SynchronizedPosition(p) = here
      BY <1>6, <1>8, <1>13
  <2>2. within >= 0
      BY <1>7 DEF Abs
  <2>3. PICK share \in Int : share = MaxPpm * elapsed /\ 0 <= share
      BY <1>9, Scales
  <2>4. 2 * Million * Abs(here - here) <= Million * (within + 1) + share
      BY <2>2, <2>3, SMT DEF Abs, Million
  <2> QED
      BY <2>1, <2>3, <2>4, <1>2, <1>3, <1>9
<1> QED
    BY <1>12, <1>13

\* PlayheadSync::synchronized_position is within half a round trip of the
\* master's playhead, half a frame for the rounding, and one in a hundred
\* frames of the age of the update for what the drift compensator makes of
\* the errors of the estimates it is fed.
THEOREM FollowersGood == PlayheadSpec => []FollowersShowTheMaster
    BY PlayheadInvHolds, ShownWithin, PTL

=============================================================================
