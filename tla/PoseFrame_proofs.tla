--------------------------- MODULE PoseFrame_proofs ---------------------------
(***************************************************************************)
(* Proof of FrameFresh, for any number of players, bots and frames: that   *)
(* the clock a frame is estimated from, be it another player's, is not one *)
(* to which a compensated command went back.                               *)
(***************************************************************************)
EXTENDS PoseFrame, TLAPS

-----------------------------------------------------------------------------
(* The inductive invariant.                                                *)

\* Row 0 holds what was sampled in a server frame under that frame, and nothing ahead.
ServerRow ==
  \A n \in Stamp, t \in Player :
    log[0][n][t] # Zero => log[0][n][t].stamp = n /\ n <= now

\* Nobody has records of an occupant yet to come.
Occupied ==
  /\ \A t \in active : gen[t] # 0
  /\ \A t \in Player : params[t].who <= gen[t]
  /\ \A v \in Viewer, n \in Stamp, t \in Player : log[v][n][t].who <= gen[t]

\* Estimates are made from somebody's clock or from memory in front, and not ahead.
Estimated ==
  \A v \in Viewer, n \in Stamp, t \in Player :
    LET r == log[v][n][t] IN
    /\ r.est <= now
    /\ r.f.stamp # 0 => r.f.of \in Player

\* While packets are sent every player in the game has been sampled, and the working
\* copies are those of the samples.
Sending ==
  phase = "send" =>
    /\ thinker = 0
    /\ \A t \in active : log[0][now][t].stamp = now /\ log[0][now][t].who = gen[t]
    /\ \A t \in Player : log[0][now][t].stamp = now => params[t].stamp = now

\* Between commands a player's working copy, if it is of this occupant, is its newest.
Restored ==
  thinker = 0 => \A t \in active : params[t].who = gen[t] => params[t].stamp = now

IInv ==
  TypeOK /\ ServerRow /\ Occupied /\ Estimated /\ Sending /\ Restored /\ FrameFresh

-----------------------------------------------------------------------------
(* Records.                                                                *)

\* The property, of one record and the row of the server.
In(row, p, who, n) == row[n][p].stamp = n /\ row[n][p].who = who
Fresh(row, r) ==
  r.f.stamp # 0 /\ In(row, r.f.of, r.f.who, r.est) =>
    \A m \in (r.f.stamp + 1)..(r.est - 1) : ~In(row, r.f.of, r.f.who, m)

LEMMA AllFresh ==
  FrameFresh <=> \A v \in Viewer, n \in Stamp, t \in Player : Fresh(log[0], log[v][n][t])
  BY DEF FrameFresh, Fresh, Sampled, In

LEMMA ZeroFits ==
  /\ Zero \in Record /\ Wild \in Source
  /\ Zero.who = 0 /\ Zero.stamp = 0 /\ Zero.est = 0 /\ Zero.f = Wild /\ Wild.stamp = 0
  BY PoseAssumption DEF Zero, Record, Wild, Source, Gen, Stamp, None

\* What is in a record.
LEMMA RecordFields ==
  ASSUME NEW r \in Record
  PROVE  /\ r.who \in Nat /\ r.who \in Gen /\ r.stamp \in Nat /\ r.stamp \in Stamp
         /\ r.est \in Nat /\ r.est \in Stamp
         /\ r.f \in Source /\ r.f.stamp \in Nat /\ r.f.who \in Nat
  BY PoseAssumption DEF Record, Source, Gen, Stamp

LEMMA InitInv == Init => IInv
<1> SUFFICES ASSUME Init PROVE IInv
  OBVIOUS
<1>1. \A v \in Viewer, n \in Stamp, t \in Player : log[v][n][t] = Zero
  BY DEF Init
<1>0. 0 \in Gen /\ 0 \in Stamp /\ 0 \in 0..N /\ 0 \in Viewer
  BY PoseAssumption DEF Gen, Stamp, Viewer
<1>2. TypeOK
  <2>1. log \in [Viewer -> [Stamp -> [Player -> Record]]] /\ params \in [Player -> Record]
    BY ZeroFits DEF Init
  <2>2. gen \in [Player -> Gen] /\ sent \in [Player -> Stamp] /\ player \in Player \cup {None}
    BY <1>0 DEF Init
  <2>3. active \subseteq Player /\ nofind \in BOOLEAN
    BY DEF Init
  <2> QED
    BY <1>0, <2>1, <2>2, <2>3 DEF Init, TypeOK
<1>3. ServerRow /\ Estimated
  <2>1. ServerRow
    BY <1>0, <1>1 DEF ServerRow
  <2>2. Estimated
    BY <1>1, ZeroFits DEF Init, Estimated
  <2> QED
    BY <2>1, <2>2
<1>4. Occupied /\ Sending /\ Restored
  BY <1>1, ZeroFits DEF Init, Occupied, Sending, Restored
<1>5. FrameFresh
  BY <1>1, ZeroFits DEF FrameFresh
<1> QED
  BY <1>2, <1>3, <1>4, <1>5 DEF IInv

\* A record made at time time, from copies, on top of prev.
LEMMA MadeFits ==
  ASSUME player \in Player \cup {None},
         NEW time \in Stamp, NEW who \in Gen, NEW prev \in Record, NEW estimated \in BOOLEAN,
         NEW copies,
         \A p \in Player : copies[p].who \in Gen /\ copies[p].stamp \in Stamp
  PROVE  LET r == ProcessAnimParams(time, who, prev, estimated, copies) IN
         /\ r \in Record /\ r.who = who /\ r.stamp = time
         /\ \/ r.f = prev.f /\ r.est = prev.est
            \/ r.f = Wild /\ r.est = time
            \/ /\ player \in Player /\ r.est = time
               /\ r.f = [of |-> player, who |-> copies[player].who,
                         stamp |-> copies[player].stamp]
<1> DEFINE r == ProcessAnimParams(time, who, prev, estimated, copies)
<1>1. /\ r.who = who /\ r.stamp = time
      /\ r = [who |-> r.who, stamp |-> r.stamp, f |-> r.f, est |-> r.est]
  BY DEF ProcessAnimParams
<1>2. \/ r.f = prev.f /\ r.est = prev.est
      \/ r.f = Wild /\ r.est = time
      \/ /\ player \in Player /\ r.est = time
         /\ r.f = [of |-> player, who |-> copies[player].who,
                   stamp |-> copies[player].stamp]
  BY DEF ProcessAnimParams, EstimateFrame, SourceOf
<1>3. r.f \in Source /\ r.est \in Stamp
  <2>1. prev.f \in Source /\ prev.est \in Stamp
    BY RecordFields
  <2>2. Wild \in Source
    BY ZeroFits
  <2>3. player \in Player =>
          [of |-> player, who |-> copies[player].who, stamp |-> copies[player].stamp] \in Source
    BY DEF Source
  <2> QED
    BY <1>2, <2>1, <2>2, <2>3
<1> HIDE DEF r
<1>4. r \in Record
  BY <1>1, <1>3 DEF Record
<1> QED
  BY <1>1, <1>2, <1>4 DEF r

\* Records of a time that is past stay fresh, since what the server sampled then stays.
LEMMA StaysFresh ==
  ASSUME NEW row, NEW new, NEW time \in Stamp,
         \A n \in Stamp, t \in Player : n <= time => new[n][t] = row[n][t],
         NEW r \in Record, Fresh(row, r), r.est <= time, r.f.stamp # 0 => r.f.of \in Player
  PROVE  Fresh(new, r)
<1>1. time \in Nat /\ MaxFrame \in Nat /\ time <= MaxFrame
  BY PoseAssumption DEF Stamp
<1>2. r.est \in Nat /\ r.est \in Stamp /\ r.f.stamp \in Nat
  BY RecordFields
<1>3. ASSUME NEW m \in Stamp, m <= time, r.f.of \in Player
      PROVE  In(new, r.f.of, r.f.who, m) <=> In(row, r.f.of, r.f.who, m)
  BY <1>3 DEF In
<1>4. \A m \in (r.f.stamp + 1)..(r.est - 1) : m \in Stamp /\ m <= time
  BY <1>1, <1>2 DEF Stamp
<1> QED
  BY <1>2, <1>3, <1>4 DEF Fresh

-----------------------------------------------------------------------------
(* The steps.                                                              *)

LEMMA TypeFacts ==
  ASSUME TypeOK
  PROVE  /\ active \subseteq Player /\ gen \in [Player -> Gen] /\ now \in Stamp
         /\ now \in Nat /\ MaxFrame \in Nat /\ 0 \in Viewer /\ 0 \notin Player
         /\ Stamp \subseteq Nat /\ Gen \subseteq Nat
         /\ \A v \in Viewer, n \in Stamp, t \in Player : log[v][n][t] \in Record
         /\ \A t \in Player : params[t] \in Record
  BY PoseAssumption DEF TypeOK, Stamp, Gen, Viewer, Player

\* What follows of a state in which one more record of server frame time has been made
\* in some places of the logs, and nothing else of the past.
LEMMA MadeKeeps ==
  ASSUME IInv, now' \in Stamp, now <= now', gen' = gen,
         \A n \in Stamp, t \in Player : n <= now => log'[0][n][t] = log[0][n][t],
         \A v \in Viewer, n \in Stamp, t \in Player :
           \/ log'[v][n][t] = log[v][n][t]
           \/ LET r == log'[v][n][t] IN
              /\ r \in Record /\ r.who = gen[t]
              /\ \/ \E k \in Stamp : r.f = log[v][k][t].f /\ r.est = log[v][k][t].est
                 \/ r.f = Wild /\ r.est = now'
                 \/ r.est = now' /\ r.f.of \in Player /\ Fresh(log'[0], r)
  PROVE  /\ \A v \in Viewer, n \in Stamp, t \in Player : log'[v][n][t].who <= gen'[t]
         /\ Estimated' /\ FrameFresh'
<1> SUFFICES ASSUME NEW v \in Viewer, NEW n \in Stamp, NEW t \in Player
             PROVE  LET r == log'[v][n][t] IN
                    /\ r.who <= gen'[t] /\ r.est <= now'
                    /\ r.f.stamp # 0 => r.f.of \in Player
                    /\ Fresh(log'[0], r)
  BY DEF Estimated, FrameFresh, Fresh, Sampled, In
<1> DEFINE r == log'[v][n][t]
<1>1. now \in Nat /\ now' \in Nat /\ gen[t] \in Nat
  BY TypeFacts DEF IInv
<1>2. ASSUME NEW old \in Record, NEW k \in Stamp, old = log[v][k][t]
      PROVE  /\ old.who <= gen[t] /\ old.est <= now /\ (old.f.stamp # 0 => old.f.of \in Player)
             /\ Fresh(log[0], old)
  BY <1>2, AllFresh DEF IInv, Occupied, Estimated
<1>3. ASSUME NEW old \in Record, NEW k \in Stamp, old = log[v][k][t]
      PROVE  Fresh(log'[0], old)
  <2> DEFINE row == log[0]
             new == log'[0]
  <2>1. now \in Stamp
    BY TypeFacts DEF IInv
  <2>2. \A m \in Stamp, p \in Player : m <= now => new[m][p] = row[m][p]
    OBVIOUS
  <2>3. Fresh(row, old) /\ old.est <= now /\ (old.f.stamp # 0 => old.f.of \in Player)
    BY <1>2, <1>3
  <2> HIDE DEF row, new
  <2>4. Fresh(new, old)
    BY <2>1, <2>2, <2>3, StaysFresh
  <2> QED
    BY <2>4 DEF new
<1>4. CASE log'[v][n][t] = log[v][n][t]
  <2>1. r = log[v][n][t] /\ r \in Record
    BY <1>4, TypeFacts DEF IInv
  <2>2. r.who <= gen[t] /\ r.est <= now /\ (r.f.stamp # 0 => r.f.of \in Player) /\ Fresh(log'[0], r)
    BY <1>2, <1>3, <2>1
  <2>3. r.est \in Nat
    BY <2>1, RecordFields
  <2> HIDE DEF r
  <2>4. r.est <= now'
    BY <1>1, <2>2, <2>3
  <2> QED
    BY <2>2, <2>4 DEF r
<1>5. CASE log'[v][n][t] # log[v][n][t]
  <2>1. /\ r \in Record /\ r.who = gen[t]
        /\ \/ \E k \in Stamp : r.f = log[v][k][t].f /\ r.est = log[v][k][t].est
           \/ r.f = Wild /\ r.est = now'
           \/ r.est = now' /\ r.f.of \in Player /\ Fresh(log'[0], r)
    BY <1>5
  <2> HIDE DEF r
  <2>2. r.who <= gen'[t]
    BY <1>1, <2>1
  <2>3. CASE \E k \in Stamp : r.f = log[v][k][t].f /\ r.est = log[v][k][t].est
    <3>1. PICK k \in Stamp : r.f = log[v][k][t].f /\ r.est = log[v][k][t].est
      BY <2>3
    <3> DEFINE old == log[v][k][t]
    <3>2. old \in Record
      BY TypeFacts DEF IInv
    <3>3. /\ old.est <= now /\ (old.f.stamp # 0 => old.f.of \in Player)
          /\ Fresh(log'[0], old) /\ old.est \in Nat
      BY <1>2, <1>3, <3>2, RecordFields
    <3>4. r.f = old.f /\ r.est = old.est
      BY <3>1
    <3> HIDE DEF old
    <3>5. Fresh(log'[0], r) <=> Fresh(log'[0], old)
      BY <3>4 DEF Fresh, In
    <3> QED
      BY <1>1, <2>2, <3>3, <3>4, <3>5 DEF r
  <2>4. CASE r.f = Wild /\ r.est = now'
    <3>1. Fresh(log'[0], r)
      BY <2>4, ZeroFits DEF Fresh
    <3> QED
      BY <1>1, <2>2, <2>4, <3>1, ZeroFits DEF r
  <2>5. CASE r.est = now' /\ r.f.of \in Player /\ Fresh(log'[0], r)
    BY <1>1, <2>2, <2>5 DEF r
  <2> QED
    BY <2>1, <2>3, <2>4, <2>5
<1> QED
  BY <1>4, <1>5

LEMMA StartKeeps ==
  ASSUME IInv, StartFramePost
  PROVE  IInv'
<1> DEFINE time == now + 1
           Copies(id) == [p \in Player |->
                            IF p \in active /\ p < id
                              THEN [who |-> gen[p], stamp |-> time] ELSE params[p]]
<1>1. PICK est \in SUBSET active :
        LET New(id) == ProcessAnimParams(time, gen[id], log[0][now][id], id \in est, Copies(id))
        IN /\ log' = [log EXCEPT ![0][time] =
                        [id \in Player |-> IF id \in active THEN New(id) ELSE @[id]]]
           /\ params' = [id \in Player |-> IF id \in active THEN New(id) ELSE params[id]]
  BY DEF StartFramePost
<1> DEFINE New(id) == ProcessAnimParams(time, gen[id], log[0][now][id], id \in est, Copies(id))
<1>2. /\ thinker = 0 /\ now < MaxFrame /\ now' = time /\ phase' = "send"
      /\ UNCHANGED <<active, gen, thinker, sent, nofind, player>>
  BY DEF StartFramePost
<1>3. TypeOK
  BY DEF IInv
<1>4. /\ active \subseteq Player /\ gen \in [Player -> Gen] /\ now \in Stamp
      /\ now \in Nat /\ MaxFrame \in Nat /\ 0 \in Viewer
      /\ Stamp \subseteq Nat /\ Gen \subseteq Nat
      /\ log \in [Viewer -> [Stamp -> [Player -> Record]]]
      /\ \A v \in Viewer, n \in Stamp, t \in Player : log[v][n][t] \in Record
      /\ params \in [Player -> Record]
  BY <1>3, TypeFacts DEF TypeOK
<1>5. time \in Stamp /\ time \in Nat /\ now < time
  BY <1>2, <1>4 DEF Stamp
<1>6. ASSUME NEW t \in active
      PROVE  /\ New(t) \in Record /\ New(t).who = gen[t] /\ New(t).stamp = time
             /\ \/ New(t).f = log[0][now][t].f /\ New(t).est = log[0][now][t].est
                \/ New(t).f = Wild /\ New(t).est = time
                \/ /\ player \in Player /\ New(t).est = time
                   /\ New(t).f = [of |-> player, who |-> Copies(t)[player].who,
                                  stamp |-> Copies(t)[player].stamp]
  <2> DEFINE copies == Copies(t)
             prev   == log[0][now][t]
             e      == t \in est
  <2>1. \A p \in Player : copies[p].who \in Gen /\ copies[p].stamp \in Stamp
    BY <1>4, <1>5, RecordFields
  <2>2. prev \in Record /\ gen[t] \in Gen /\ e \in BOOLEAN /\ player \in Player \cup {None}
    BY <1>3, <1>4 DEF TypeOK
  <2> DEFINE who == gen[t]
             r   == New(t)
  <2>3. r = ProcessAnimParams(time, who, prev, e, copies)
    OBVIOUS
  <2>4. /\ r \in Record /\ r.who = who /\ r.stamp = time
        /\ \/ r.f = prev.f /\ r.est = prev.est
           \/ r.f = Wild /\ r.est = time
           \/ /\ player \in Player /\ r.est = time
              /\ r.f = [of |-> player, who |-> copies[player].who,
                        stamp |-> copies[player].stamp]
    <3>1. who \in Gen /\ time \in Stamp
      BY <1>5, <2>2
    <3> HIDE DEF copies, prev, e, time, who, r
    <3> QED
      BY <2>1, <2>2, <2>3, <3>1, MadeFits
  <2> HIDE DEF New, Copies, time
  <2> QED
    BY <2>4, Zenon DEF copies, prev, who, r
<1> HIDE DEF New
<1>7. /\ log' = [log EXCEPT ![0][time] =
                   [id \in Player |-> IF id \in active THEN New(id) ELSE log[0][time][id]]]
      /\ params' = [id \in Player |-> IF id \in active THEN New(id) ELSE params[id]]
  BY <1>1 DEF New
<1> HIDE DEF time
<1>8. /\ log' \in [Viewer -> [Stamp -> [Player -> Record]]]
      /\ params' \in [Player -> Record]
  BY <1>4, <1>5, <1>6, <1>7
<1>9. \A v \in Viewer, n \in Stamp, t \in Player :
        log'[v][n][t] = IF v = 0 /\ n = time /\ t \in active THEN New(t) ELSE log[v][n][t]
  BY <1>4, <1>5, <1>7
<1>10. ASSUME NEW t \in active, player \in Player, New(t).est = time,
              New(t).f = [of |-> player, who |-> Copies(t)[player].who,
                          stamp |-> Copies(t)[player].stamp]
       PROVE  New(t).f.of \in Player /\ Fresh(log'[0], New(t))
  <2>1. CASE ~In(log'[0], player, Copies(t)[player].who, time)
    BY <1>10, <2>1 DEF Fresh
  <2>2. CASE In(log'[0], player, Copies(t)[player].who, time)
    <3>1. player \in active
      <4>1. CASE player \notin active
        <5>1. log[0][time][player] = Zero
          BY <1>4, <1>5, <4>1, <1>10 DEF IInv, ServerRow
        <5>2. log'[0][time][player].stamp = 0
          BY <1>4, <1>5, <1>9, <1>10, <4>1, <5>1, ZeroFits
        <5> QED
          BY <1>4, <1>5, <2>2, <5>2 DEF In
      <4> QED
        BY <4>1
    <3>2. Copies(t)[player].who = gen[player]
      BY <1>4, <1>5, <1>6, <1>9, <2>2, <3>1 DEF In
    <3>3. Copies(t)[player].stamp \in {now, time}
      BY <1>2, <1>4, <1>10, <3>1, <3>2 DEF IInv, Restored
    <3>4. time - 1 = now
      BY <1>4 DEF time
    <3> QED
      BY <1>4, <1>5, <1>10, <3>3, <3>4 DEF Fresh
  <2> QED
    BY <1>10, <2>1, <2>2
<1>11. /\ \A v \in Viewer, n \in Stamp, t \in Player : log'[v][n][t].who <= gen'[t]
       /\ Estimated' /\ FrameFresh'
  <2>1. \A n \in Stamp, t \in Player : n <= now => log'[0][n][t] = log[0][n][t]
    BY <1>4, <1>5, <1>9
  <2>2. ASSUME NEW v \in Viewer, NEW n \in Stamp, NEW t \in Player,
               log'[v][n][t] # log[v][n][t]
        PROVE  LET r == log'[v][n][t] IN
               /\ r \in Record /\ r.who = gen[t]
               /\ \/ \E k \in Stamp : r.f = log[v][k][t].f /\ r.est = log[v][k][t].est
                  \/ r.f = Wild /\ r.est = now'
                  \/ r.est = now' /\ r.f.of \in Player /\ Fresh(log'[0], r)
    <3>1. v = 0 /\ n = time /\ t \in active /\ log'[v][n][t] = New(t)
      BY <1>9, <2>2
    <3> DEFINE r == log'[v][n][t]
    <3>2. /\ r = New(t) /\ r \in Record /\ r.who = gen[t]
          /\ \/ r.f = log[0][now][t].f /\ r.est = log[0][now][t].est
             \/ r.f = Wild /\ r.est = time
             \/ /\ player \in Player /\ r.est = time
                /\ r.f = [of |-> player, who |-> Copies(t)[player].who,
                          stamp |-> Copies(t)[player].stamp]
      BY <1>6, <3>1, Zenon
    <3> HIDE DEF r, Copies
    <3>3. CASE r.f = log[0][now][t].f /\ r.est = log[0][now][t].est
      <4>1. \E k \in Stamp : r.f = log[v][k][t].f /\ r.est = log[v][k][t].est
        BY <1>4, <3>1, <3>3
      <4> QED
        BY <3>2, <4>1 DEF r
    <3>4. CASE r.f = Wild /\ r.est = time
      BY <1>2, <3>2, <3>4 DEF r
    <3>5. CASE /\ player \in Player /\ r.est = time
               /\ r.f = [of |-> player, who |-> Copies(t)[player].who,
                         stamp |-> Copies(t)[player].stamp]
      <4>1. r.f.of \in Player /\ Fresh(log'[0], r)
        BY <1>10, <3>1, <3>2, <3>5, Zenon
      <4> QED
        BY <1>2, <3>2, <3>5, <4>1 DEF r
    <3> QED
      BY <3>2, <3>3, <3>4, <3>5
  <2>3. now' \in Stamp /\ now <= now' /\ gen' = gen
    BY <1>2, <1>4, <1>5
  <2> QED
    BY <2>1, <2>2, <2>3, MadeKeeps
<1>12. TypeOK'
  BY <1>2, <1>3, <1>5, <1>8 DEF TypeOK
<1>13. ServerRow'
  <2> SUFFICES ASSUME NEW n \in Stamp, NEW t \in Player, log'[0][n][t] # Zero
               PROVE  log'[0][n][t].stamp = n /\ n <= now'
    BY DEF ServerRow
  <2>1. CASE n = time /\ t \in active
    <3>1. log'[0][n][t] = New(t) /\ New(t).stamp = time
      BY <1>4, <1>6, <1>9, <2>1, Zenon
    <3> QED
      BY <1>2, <1>5, <2>1, <3>1
  <2>2. CASE ~(n = time /\ t \in active)
    <3>1. log'[0][n][t] = log[0][n][t]
      BY <1>4, <1>9, <2>2
    <3>2. log[0][n][t].stamp = n /\ n <= now
      BY <3>1 DEF IInv, ServerRow
    <3> QED
      BY <1>2, <1>4, <1>5, <3>1, <3>2
  <2> QED
    BY <2>1, <2>2
<1>14. \A t \in active : log'[0][time][t] = New(t) /\ params'[t] = New(t)
  BY <1>4, <1>5, <1>7, <1>9
<1>15. Occupied'
  <2>1. ASSUME NEW t \in Player PROVE params'[t].who <= gen'[t]
    <3>1. CASE t \in active
      <4>1. params'[t].who = gen[t] /\ gen[t] \in Nat
        BY <1>4, <1>6, <1>14, <3>1
      <4> QED
        BY <1>2, <4>1
    <3>2. CASE t \notin active
      <4>1. params'[t] = params[t]
        BY <1>7, <3>2
      <4> QED
        BY <1>2, <4>1 DEF IInv, Occupied
    <3> QED
      BY <3>1, <3>2
  <2> QED
    BY <1>2, <1>11, <2>1 DEF IInv, Occupied
<1>16. Sending'
  <2>1. \A t \in active : log'[0][time][t].stamp = time /\ log'[0][time][t].who = gen[t]
    BY <1>6, <1>14
  <2>2. ASSUME NEW t \in Player, log'[0][time][t].stamp = time PROVE params'[t].stamp = time
    <3>1. CASE t \in active
      BY <1>6, <1>14, <3>1
    <3>2. CASE t \notin active
      <4>1. log[0][time][t] = Zero /\ log'[0][time][t] = log[0][time][t]
        BY <1>4, <1>5, <1>9, <3>2 DEF IInv, ServerRow
      <4> QED
        BY <1>4, <1>5, <2>2, <4>1, ZeroFits
    <3> QED
      BY <3>1, <3>2
  <2> QED
    BY <1>2, <2>1, <2>2 DEF Sending
<1>17. Restored'
  BY <1>2, <1>6, <1>14 DEF Restored
<1> QED
  BY <1>11, <1>12, <1>13, <1>15, <1>16, <1>17 DEF IInv

LEMMA SendKeeps ==
  ASSUME IInv, NEW h \in Player, SendDatagram(h)
  PROVE  IInv'
<1> DEFINE others == active \ {h}
<1>1. PICK est \in SUBSET others :
        log' = [log EXCEPT ![h][now] =
                  [t \in Player |->
                     IF t \in others
                       THEN ProcessAnimParams(now, gen[t], log[h][sent[h]][t], t \in est, params)
                       ELSE @[t]]]
  BY DEF SendDatagram
<1> DEFINE New(t) == ProcessAnimParams(now, gen[t], log[h][sent[h]][t], t \in est, params)
<1>2. /\ phase = "send" /\ h \in active /\ sent' = [sent EXCEPT ![h] = now]
      /\ UNCHANGED <<active, gen, phase, thinker, now, params, nofind, player>>
  BY DEF SendDatagram
<1>3. TypeOK
  BY DEF IInv
<1>4. /\ active \subseteq Player /\ gen \in [Player -> Gen] /\ now \in Stamp /\ now \in Nat
      /\ h \in Viewer /\ h # 0 /\ 0 \in Viewer /\ sent \in [Player -> Stamp]
      /\ player \in Player \cup {None}
      /\ log \in [Viewer -> [Stamp -> [Player -> Record]]]
      /\ \A v \in Viewer, n \in Stamp, t \in Player : log[v][n][t] \in Record
      /\ \A t \in Player : params[t] \in Record
  BY <1>3, TypeFacts DEF TypeOK, Viewer, Player
<1>5. ASSUME NEW t \in others
      PROVE  /\ New(t) \in Record /\ New(t).who = gen[t]
             /\ \/ New(t).f = log[h][sent[h]][t].f /\ New(t).est = log[h][sent[h]][t].est
                \/ New(t).f = Wild /\ New(t).est = now
                \/ /\ player \in Player /\ New(t).est = now
                   /\ New(t).f = [of |-> player, who |-> params[player].who,
                                  stamp |-> params[player].stamp]
  <2> DEFINE copies == params
             prev   == log[h][sent[h]][t]
             e      == t \in est
             who    == gen[t]
             time   == now
             r      == New(t)
  <2>1. \A p \in Player : copies[p].who \in Gen /\ copies[p].stamp \in Stamp
    BY <1>4, RecordFields
  <2>2. prev \in Record /\ who \in Gen /\ time \in Stamp
    <3>1. t \in Player /\ sent[h] \in Stamp
      BY <1>4
    <3> QED
      BY <1>4, <3>1
  <2>5. e \in BOOLEAN
    OBVIOUS
  <2>6. player \in Player \cup {None}
    BY <1>4
  <2>3. r = ProcessAnimParams(time, who, prev, e, copies)
    OBVIOUS
  <2>4. /\ r \in Record /\ r.who = who /\ r.stamp = time
        /\ \/ r.f = prev.f /\ r.est = prev.est
           \/ r.f = Wild /\ r.est = time
           \/ /\ player \in Player /\ r.est = time
              /\ r.f = [of |-> player, who |-> copies[player].who,
                        stamp |-> copies[player].stamp]
    <3> HIDE DEF copies, prev, e, time, who, r
    <3> QED
      BY <2>1, <2>2, <2>3, <2>5, <2>6, MadeFits
  <2> HIDE DEF New
  <2> QED
    BY <2>4, Zenon DEF copies, prev, who, time, r
<1> HIDE DEF New
<1>6. log' = [log EXCEPT ![h][now] =
                [t \in Player |-> IF t \in others THEN New(t) ELSE log[h][now][t]]]
  BY <1>1 DEF New
<1>7. log' \in [Viewer -> [Stamp -> [Player -> Record]]]
  BY <1>4, <1>5, <1>6
<1>8. \A v \in Viewer, n \in Stamp, t \in Player :
        log'[v][n][t] = IF v = h /\ n = now /\ t \in others THEN New(t) ELSE log[v][n][t]
  BY <1>4, <1>6
<1>9. \A n \in Stamp, t \in Player : log'[0][n][t] = log[0][n][t]
  BY <1>4, <1>8
<1>10. ASSUME player \in Player, NEW r, r.est = now,
              r.f = [of |-> player, who |-> params[player].who, stamp |-> params[player].stamp]
       PROVE  r.f.of \in Player /\ Fresh(log'[0], r)
  <2>1. CASE ~In(log'[0], player, params[player].who, now)
    BY <1>10, <2>1 DEF Fresh
  <2>2. CASE In(log'[0], player, params[player].who, now)
    <3>1. log[0][now][player].stamp = now
      BY <1>4, <1>9, <1>10, <2>2 DEF In
    <3>2. params[player].stamp = now
      BY <1>2, <1>10, <3>1 DEF IInv, Sending
    <3> QED
      BY <1>4, <1>10, <3>2 DEF Fresh
  <2> QED
    BY <1>10, <2>1, <2>2
<1>11. /\ \A v \in Viewer, n \in Stamp, t \in Player : log'[v][n][t].who <= gen'[t]
       /\ Estimated' /\ FrameFresh'
  <2>1. \A n \in Stamp, t \in Player : n <= now => log'[0][n][t] = log[0][n][t]
    BY <1>9
  <2>2. ASSUME NEW v \in Viewer, NEW n \in Stamp, NEW t \in Player,
               log'[v][n][t] # log[v][n][t]
        PROVE  LET r == log'[v][n][t] IN
               /\ r \in Record /\ r.who = gen[t]
               /\ \/ \E k \in Stamp : r.f = log[v][k][t].f /\ r.est = log[v][k][t].est
                  \/ r.f = Wild /\ r.est = now'
                  \/ r.est = now' /\ r.f.of \in Player /\ Fresh(log'[0], r)
    <3>1. v = h /\ n = now /\ t \in others /\ log'[v][n][t] = New(t)
      BY <1>8, <2>2
    <3> DEFINE r == log'[v][n][t]
    <3>2. /\ r \in Record /\ r.who = gen[t]
          /\ \/ r.f = log[v][sent[h]][t].f /\ r.est = log[v][sent[h]][t].est
             \/ r.f = Wild /\ r.est = now
             \/ /\ player \in Player /\ r.est = now
                /\ r.f = [of |-> player, who |-> params[player].who,
                          stamp |-> params[player].stamp]
      BY <1>5, <3>1, Zenon
    <3>3. sent[h] \in Stamp
      BY <1>4
    <3> HIDE DEF r
    <3>4. CASE r.f = log[v][sent[h]][t].f /\ r.est = log[v][sent[h]][t].est
      <4>1. \E k \in Stamp : r.f = log[v][k][t].f /\ r.est = log[v][k][t].est
        BY <3>3, <3>4
      <4> QED
        BY <3>2, <4>1 DEF r
    <3>5. CASE r.f = Wild /\ r.est = now
      BY <1>2, <3>2, <3>5 DEF r
    <3>6. CASE /\ player \in Player /\ r.est = now
               /\ r.f = [of |-> player, who |-> params[player].who,
                         stamp |-> params[player].stamp]
      <4>1. r.f.of \in Player /\ Fresh(log'[0], r)
        BY <1>10, <3>6, Zenon
      <4> QED
        BY <1>2, <3>2, <3>6, <4>1 DEF r
    <3> QED
      BY <3>2, <3>4, <3>5, <3>6
  <2>3. now' \in Stamp /\ now <= now' /\ gen' = gen
    BY <1>2, <1>4
  <2> QED
    BY <2>1, <2>2, <2>3, MadeKeeps
<1>12. TypeOK'
  BY <1>2, <1>3, <1>4, <1>7 DEF TypeOK
<1>13. ServerRow'
  BY <1>2, <1>9 DEF IInv, ServerRow
<1>14. Occupied'
  BY <1>2, <1>11 DEF IInv, Occupied
<1>15. Sending'
  BY <1>2, <1>4, <1>9 DEF IInv, Sending
<1>16. Restored'
  BY <1>2 DEF IInv, Restored
<1> QED
  BY <1>11, <1>12, <1>13, <1>14, <1>15, <1>16 DEF IInv

\* The parts about the logs are kept by a step that keeps them and the clock.
LEMMA LogsKeep ==
  ASSUME IInv, UNCHANGED <<now, log>>
  PROVE  ServerRow' /\ Estimated' /\ FrameFresh'
<1>1. ServerRow'
  BY DEF IInv, ServerRow
<1>2. Estimated'
  <2>1. now' = now /\ log' = log /\ Estimated
    BY DEF IInv
  <2> QED
    BY <2>1, Zenon DEF Estimated
<1>3. FrameFresh'
  <2> SUFFICES ASSUME NEW v \in Viewer, NEW n \in Stamp, NEW t \in Player
               PROVE  Fresh(log'[0], log'[v][n][t])
    BY DEF FrameFresh, Fresh, Sampled, In
  <2>1. Fresh(log[0], log[v][n][t])
    BY AllFresh DEF IInv
  <2> QED
    BY <2>1
<1> QED
  BY <1>1, <1>2, <1>3

LEMMA PreThinkKeeps ==
  ASSUME IInv, NEW h \in Player, NEW lag \in BOOLEAN, PlayerPreThinkPre(h, lag)
  PROVE  IInv'
<1>1. /\ phase = "read" /\ thinker' = h /\ h # 0 /\ nofind' \in BOOLEAN
      /\ UNCHANGED <<active, gen, phase, now, sent, log, player>>
  BY DEF PlayerPreThinkPre, Player
<1>2. TypeOK
  BY DEF IInv
<1>3. /\ \A v \in Viewer, n \in Stamp, t \in Player : log[v][n][t] \in Record
      /\ sent[h] \in Stamp /\ Stamp \subseteq Nat /\ h \in Viewer /\ MaxFrame \in Nat
      /\ params \in [Player -> Record]
  BY <1>2, TypeFacts DEF TypeOK, Viewer, Player
<1>4. /\ params' \in [Player -> Record]
      /\ \A t \in Player : params'[t].who <= gen[t]
  <2>1. CASE lag
    <3>1. PICK n \in 0..sent[h] :
            params' = [t \in Player |-> IF t \in active /\ log[h][n][t] # Zero
                                          THEN log[h][n][t] ELSE params[t]]
      BY <2>1 DEF PlayerPreThinkPre
    <3>2. n \in Stamp
      BY <1>3 DEF Stamp
    <3> QED
      BY <1>3, <3>1, <3>2 DEF IInv, Occupied
  <2>2. CASE ~lag
    <3>1. params' = params
      BY <2>2 DEF PlayerPreThinkPre
    <3> QED
      BY <1>3, <3>1 DEF IInv, Occupied
  <2> QED
    BY <2>1, <2>2
<1>5. TypeOK'
  BY <1>1, <1>2, <1>4 DEF TypeOK, Player
<1>6. ServerRow' /\ Estimated' /\ FrameFresh'
  BY <1>1, LogsKeep
<1>7. Occupied'
  BY <1>1, <1>4 DEF IInv, Occupied
<1>8. Sending' /\ Restored'
  BY <1>1 DEF Sending, Restored
<1> QED
  BY <1>5, <1>6, <1>7, <1>8 DEF IInv

LEMMA PostThinkKeeps ==
  ASSUME IInv, NEW h \in Player, PlayerPostThinkPost(h)
  PROVE  IInv'
<1>1. /\ thinker = h /\ h # 0 /\ thinker' = 0 /\ nofind' = FALSE /\ params' = ServerView
      /\ UNCHANGED <<active, gen, phase, now, sent, log, player>>
  BY DEF PlayerPostThinkPost, Player
<1>2. TypeOK
  BY DEF IInv
<1>3. /\ \A v \in Viewer, n \in Stamp, t \in Player : log[v][n][t] \in Record
      /\ now \in Stamp /\ 0 \in Viewer /\ active \subseteq Player
      /\ params \in [Player -> Record]
  BY <1>2, TypeFacts DEF TypeOK
<1>4. \A t \in Player : params'[t] = IF t \in active THEN log[0][now][t] ELSE params[t]
  BY <1>1 DEF ServerView
<1>5. TypeOK'
  <2>1. params' \in [Player -> Record]
    BY <1>1, <1>3 DEF ServerView
  <2>2. 0 \in 0..N
    BY PoseAssumption
  <2> QED
    BY <1>1, <1>2, <2>1, <2>2 DEF TypeOK
<1>6. ServerRow' /\ Estimated' /\ FrameFresh'
  BY <1>1, LogsKeep
<1>7. Occupied'
  <2>1. ASSUME NEW t \in Player PROVE params'[t].who <= gen[t]
    BY <1>3, <1>4 DEF IInv, Occupied
  <2> QED
    BY <1>1, <2>1 DEF IInv, Occupied
<1>8. Sending'
  <2>1. phase # "send"
    BY <1>1 DEF IInv, Sending
  <2> QED
    BY <1>1, <2>1 DEF Sending
<1>9. Restored'
  <2> SUFFICES ASSUME NEW t \in active, params'[t].who = gen[t] PROVE params'[t].stamp = now
    BY <1>1 DEF Restored
  <2>1. params'[t] = log[0][now][t] /\ t \in Player
    BY <1>3, <1>4
  <2>2. log[0][now][t] # Zero
    BY <2>1, ZeroFits DEF IInv, Occupied
  <2> QED
    BY <1>3, <2>1, <2>2 DEF IInv, ServerRow
<1> QED
  BY <1>5, <1>6, <1>7, <1>8, <1>9 DEF IInv

LEMMA SetupKeeps ==
  ASSUME IInv, NEW e \in active, SetupBones(e)
  PROVE  IInv'
<1>1. /\ player' = e
      /\ UNCHANGED <<active, gen, phase, thinker, now, sent, log, params, nofind>>
  BY DEF SetupBones
<1>2. TypeOK'
  BY <1>1 DEF IInv, TypeOK
<1>3. ServerRow' /\ Estimated' /\ FrameFresh'
  BY <1>1, LogsKeep
<1>5. Occupied'
  BY <1>1 DEF IInv, Occupied
<1>4. Sending' /\ Restored'
  BY <1>1 DEF IInv, Sending, Restored
<1> QED
  BY <1>2, <1>3, <1>4, <1>5 DEF IInv

LEMMA EnterKeeps ==
  ASSUME IInv, NEW c \in Player, Enter(c)
  PROVE  IInv'
<1>1. /\ phase = "read" /\ thinker = 0 /\ gen[c] < MaxGen
      /\ gen' = [gen EXCEPT ![c] = @ + 1] /\ active' = active \cup {c}
      /\ log' = [log EXCEPT ![c] = [n \in Stamp |-> [t \in Player |-> Zero]]]
      /\ UNCHANGED <<phase, thinker, now, sent, params, nofind, player>>
  BY DEF Enter
<1>2. TypeOK
  BY DEF IInv
<1>3. /\ active \subseteq Player /\ gen \in [Player -> Gen] /\ now \in Nat /\ c # 0
      /\ c \in Viewer /\ 0 \in Viewer /\ MaxGen \in Nat /\ Gen \subseteq Nat
      /\ log \in [Viewer -> [Stamp -> [Player -> Record]]]
      /\ \A v \in Viewer, n \in Stamp, t \in Player : log[v][n][t] \in Record
      /\ \A t \in Player : params[t] \in Record
  BY <1>2, TypeFacts, PoseAssumption DEF TypeOK, Viewer, Player
<1>4. \A v \in Viewer, n \in Stamp, t \in Player :
        log'[v][n][t] = IF v = c THEN Zero ELSE log[v][n][t]
  BY <1>1, <1>3
<1>5. gen' \in [Player -> Gen]
  BY <1>1, <1>3 DEF Gen
<1>6. \A t \in Player : gen'[t] = IF t = c THEN gen[t] + 1 ELSE gen[t]
  BY <1>1, <1>3
<1>7. \A t \in Player : gen[t] \in Nat /\ gen'[t] \in Nat /\ gen[t] <= gen'[t]
  <2> SUFFICES ASSUME NEW t \in Player
               PROVE  gen[t] \in Nat /\ gen'[t] \in Nat /\ gen[t] <= gen'[t]
    OBVIOUS
  <2>1. gen[t] \in Nat /\ gen'[t] \in Nat
    BY <1>3, <1>5
  <2>2. gen'[t] = gen[t] + 1 \/ gen'[t] = gen[t]
    BY <1>6
  <2> QED
    BY <2>1, <2>2
<1>8. TypeOK'
  <2>1. log' \in [Viewer -> [Stamp -> [Player -> Record]]]
    BY <1>1, <1>3, ZeroFits
  <2>2. active' \subseteq Player
    BY <1>1, <1>3
  <2> QED
    BY <1>1, <1>2, <1>5, <2>1, <2>2 DEF TypeOK
<1>9. \A n \in Stamp, t \in Player : log'[0][n][t] = log[0][n][t]
  BY <1>3, <1>4
<1>10. ServerRow'
  BY <1>1, <1>9 DEF IInv, ServerRow
<1>11. Occupied'
  <2>1. ASSUME NEW t \in active' PROVE gen'[t] # 0
    <3>1. CASE t = c
      BY <1>6, <1>7, <3>1
    <3>2. CASE t # c
      <4>1. t \in active /\ t \in Player
        BY <1>1, <1>3, <3>2
      <4> QED
        BY <1>6, <3>2, <4>1 DEF IInv, Occupied
    <3> QED
      BY <3>1, <3>2
  <2>2. ASSUME NEW t \in Player PROVE params'[t].who <= gen'[t]
    <3>1. params[t].who <= gen[t] /\ params[t].who \in Nat
      BY <1>3, RecordFields DEF IInv, Occupied
    <3> QED
      BY <1>1, <1>7, <3>1
  <2>3. ASSUME NEW v \in Viewer, NEW n \in Stamp, NEW t \in Player
        PROVE  log'[v][n][t].who <= gen'[t]
    <3>1. log[v][n][t].who <= gen[t] /\ log[v][n][t].who \in Nat
      BY <1>3, RecordFields DEF IInv, Occupied
    <3> QED
      BY <1>4, <1>7, <3>1, ZeroFits
  <2> QED
    BY <2>1, <2>2, <2>3 DEF Occupied
<1>12. Estimated'
  <2> SUFFICES ASSUME NEW v \in Viewer, NEW n \in Stamp, NEW t \in Player
               PROVE  /\ log'[v][n][t].est <= now
                      /\ log'[v][n][t].f.stamp # 0 => log'[v][n][t].f.of \in Player
    BY <1>1 DEF Estimated
  <2>1. CASE v = c
    BY <1>3, <1>4, <2>1, ZeroFits
  <2>2. CASE v # c
    BY <1>4, <2>2 DEF IInv, Estimated
  <2> QED
    BY <2>1, <2>2
<1>13. FrameFresh'
  <2> SUFFICES ASSUME NEW v \in Viewer, NEW n \in Stamp, NEW t \in Player
               PROVE  Fresh(log'[0], log'[v][n][t])
    BY DEF FrameFresh, Fresh, Sampled, In
  <2>1. CASE v = c
    BY <1>4, <2>1, ZeroFits DEF Fresh
  <2>2. CASE v # c
    <3>1. log'[v][n][t] = log[v][n][t]
      BY <1>4, <2>2
    <3>2. log'[0] = log[0]
      BY <1>1, <1>3
    <3>3. Fresh(log[0], log[v][n][t])
      BY AllFresh DEF IInv
    <3> QED
      BY <3>1, <3>2, <3>3
  <2> QED
    BY <2>1, <2>2
<1>14. Sending'
  BY <1>1 DEF Sending
<1>15. Restored'
  <2> SUFFICES ASSUME NEW t \in active', params[t].who = gen'[t] PROVE params[t].stamp = now
    BY <1>1 DEF Restored
  <2>1. t \in Player
    BY <1>1, <1>3
  <2>2. t # c
    <3>1. params[t].who <= gen[t] /\ params[t].who \in Nat
      BY <1>3, <2>1, RecordFields DEF IInv, Occupied
    <3> QED
      BY <1>6, <1>7, <2>1, <3>1
  <2> QED
    BY <1>1, <1>6, <2>1, <2>2 DEF IInv, Restored
<1> QED
  BY <1>8, <1>10, <1>11, <1>12, <1>13, <1>14, <1>15 DEF IInv

LEMMA EngineKeeps ==
  ASSUME IInv, (\E c \in Player : Leave(c)) \/ EndFrame \/ UNCHANGED vars
  PROVE  IInv'
<1>1. /\ active' \subseteq active /\ phase' \in {phase, "read"}
      /\ UNCHANGED <<gen, thinker, now, sent, log, params, nofind, player>>
  BY DEF Leave, EndFrame, vars
<1>2. TypeOK'
  BY <1>1 DEF IInv, TypeOK
<1>3. ServerRow' /\ Estimated' /\ FrameFresh'
  BY <1>1, LogsKeep
<1>5. Occupied'
  BY <1>1 DEF IInv, Occupied
<1>4. Sending' /\ Restored'
  BY <1>1 DEF IInv, Sending, Restored
<1> QED
  BY <1>2, <1>3, <1>4, <1>5 DEF IInv

-----------------------------------------------------------------------------
(* The theorems.                                                           *)

LEMMA Inductive == Spec => []IInv
<1>1. Init => IInv
  BY InitInv
<1>2. IInv /\ [Next]_vars => IInv'
  <2> SUFFICES ASSUME IInv, [Next]_vars PROVE IInv'
    OBVIOUS
  <2>1. CASE StartFramePost
    BY <2>1, StartKeeps
  <2>2. ASSUME NEW h \in Player, SendDatagram(h) PROVE IInv'
    BY <2>2, SendKeeps
  <2>3. ASSUME NEW h \in Player, NEW lag \in BOOLEAN, PlayerPreThinkPre(h, lag) PROVE IInv'
    BY <2>3, PreThinkKeeps
  <2>4. ASSUME NEW h \in Player, PlayerPostThinkPost(h) PROVE IInv'
    BY <2>4, PostThinkKeeps
  <2>5. ASSUME NEW e \in active, SetupBones(e) PROVE IInv'
    BY <2>5, SetupKeeps
  <2>6. ASSUME NEW c \in Player, Enter(c) PROVE IInv'
    BY <2>6, EnterKeeps
  <2>7. CASE (\E c \in Player : Leave(c)) \/ EndFrame \/ UNCHANGED vars
    BY <2>7, EngineKeeps
  <2> QED
    BY <2>1, <2>2, <2>3, <2>4, <2>5, <2>6, <2>7 DEF Next
<1> QED
  BY <1>1, <1>2, PTL DEF Spec

\* Type correctness of the animation frame's model.
THEOREM TypeCorrect == Spec => []TypeOK
<1>1. IInv => TypeOK
  BY DEF IInv
<1> QED
  BY <1>1, Inductive, PTL

\* The frame of a record is never estimated from a clock that a command took back, while
\* the player whose clock it is stays: ProcessAnimParams may read another player's working
\* copy (the static player of animation.cpp), but PlayerPostThinkPost has restored it.
THEOREM FrameStaysFresh == Spec => []FrameFresh
<1>1. IInv => FrameFresh
  BY DEF IInv
<1> QED
  BY <1>1, Inductive, PTL
=============================================================================
